--------------------------- MODULE HttpServer4Proofs ---------------------------
(***************************************************************************)
(* That no client of HttpServer4 gets a reply to what another one has      *)
(* sent, for any clients and chunks: the n-th coroutine that is forked has *)
(* the n-th socket and the n-th buffer for itself.                         *)
(***************************************************************************)
EXTENDS HttpServer4, TLAPS

-----------------------------------------------------------------------------
(* Types.                                                                  *)

Coroutine == [at : {"read", "write", "end"}, state : {"pending", "ok", "error"},
              socket : Nat, buffer : Nat, reply : {"none", "page", "bad_request"}]

Types ==
    /\ client \in [Conn -> {"away", "open", "gone"}]
    /\ chunks \in [Conn -> Seq(ParseResult)]
    /\ taken \in [Conn -> Nat]
    /\ \A c \in Conn : taken[c] <= Len(chunks[c])
    /\ received \in [Conn -> Seq({"none", "page", "bad_request"})]
    /\ peers \in Seq(SUBSET Conn)
    /\ memory \in Seq(ParseResult \cup {"none"})
    /\ accept \in {"none", "pending", "ok", "error"}
    /\ children \in Seq(Coroutine)

-----------------------------------------------------------------------------
(* What the coroutines have for themselves.                                *)

\* Sockets and buffers are made in the order of the coroutines; the last
\* socket is the parent's.
Numbered ==
    /\ Len(memory) = Len(children) /\ Len(peers) = Len(children) + 1
    /\ accept # "none" => socket = Len(peers)
    /\ \A i \in Child : children[i].socket = i /\ children[i].buffer = i

\* A socket is connected to one client, and the parent's only when its accept
\* has succeeded.
Connected ==
    /\ \A s \in DOMAIN peers :
          \/ \E c \in Conn : peers[s] = {c}
          \/ s = Len(peers) /\ peers[s] = {} /\ accept # "ok"
    /\ accept = "pending" => peers[Len(peers)] = {}
    /\ \A s, r \in DOMAIN peers : s # r => peers[s] \cap peers[r] = {}

Private == Types /\ Numbered /\ Connected

-----------------------------------------------------------------------------
(* The reply and the request.                                              *)

\* None of the first n chunks ends the request.
Undecided(c, n) == \A j \in 1..n : chunks[c][j] = "indeterminate"

\* The chunk that was read last ends the request, and this is its reply.
Answers(c, text) ==
    /\ taken[c] > 0 /\ Undecided(c, taken[c] - 1)
    /\ \/ chunks[c][taken[c]] = "good" /\ text = "page"
       \/ chunks[c][taken[c]] = "bad" /\ text = "bad_request"

\* What coroutine k, which has buffer b, says of its client c.
Fits(k, b, c) ==
    /\ k.at = "read" => received[c] = <<>>
    /\ k.at = "read" /\ k.state = "pending" => Undecided(c, taken[c])
    /\ k.at = "read" /\ k.state = "ok" =>
          taken[c] > 0 /\ Undecided(c, taken[c] - 1) /\ b = chunks[c][taken[c]]
    /\ k.at = "write" /\ k.state = "pending" =>
          received[c] = <<>> /\ Answers(c, k.reply)

\* What is true of client c, served or not.
ClientFits(c) ==
    /\ (\A i \in Child : c \notin peers[i]) => taken[c] = 0 /\ received[c] = <<>>
    /\ received[c] # <<>> => \E text : received[c] = <<text>> /\ Answers(c, text)

FitInv ==
    /\ Private
    /\ \A i \in Child : \A c \in peers[i] : Fits(children[i], memory[i], c)
    /\ \A c \in Conn : ClientFits(c)

\* A coroutine has the socket of one client.
LEMMA PeerIs ==
    ASSUME Private, NEW i \in Child
    PROVE  /\ i \in DOMAIN peers /\ i # Len(peers) /\ i \in DOMAIN memory
           /\ children[i] \in Coroutine
           /\ Peer(i) \in Conn /\ peers[i] = {Peer(i)}
<1>1. /\ children \in Seq(Coroutine) /\ peers \in Seq(SUBSET Conn)
      /\ memory \in Seq(ParseResult \cup {"none"})
      /\ Len(memory) = Len(children) /\ Len(peers) = Len(children) + 1
      /\ children[i].socket = i
  BY DEF Private, Types, Numbered
<1>2. i \in 1..Len(children)
  BY <1>1 DEF Child
<1>3. i \in DOMAIN peers /\ i # Len(peers) /\ i \in DOMAIN memory
  BY <1>1, <1>2
<1>4. PICK c \in Conn : peers[i] = {c}
  BY <1>3 DEF Private, Connected
<1>5. Peer(i) = c
  BY <1>1, <1>4 DEF Peer
<1> QED BY <1>1, <1>2, <1>3, <1>4, <1>5

\* No client has two coroutines.
LEMMA PeersDiffer ==
    ASSUME Private, NEW i \in Child, NEW j \in Child, i # j
    PROVE  Peer(i) # Peer(j) /\ Peer(i) \notin peers[j]
<1>1. i \in DOMAIN peers /\ j \in DOMAIN peers
  BY PeerIs
<1>2. peers[i] \cap peers[j] = {}
  BY <1>1 DEF Private, Connected
<1>3. peers[i] = {Peer(i)} /\ peers[j] = {Peer(j)}
  BY PeerIs
<1> QED BY <1>2, <1>3

\* What has been said of a client's chunks, as far as they were read, holds
\* when more of them come.
LEMMA SaidHolds ==
    ASSUME NEW c \in Conn, taken[c] \in Nat, taken'[c] = taken[c],
           received'[c] = received[c],
           \A j \in 1..taken[c] : chunks'[c][j] = chunks[c][j]
    PROVE  /\ \A text : Answers(c, text) => Answers(c, text)'
           /\ \A k, b : Fits(k, b, c) => Fits(k, b, c)'
<1>1. /\ Undecided(c, taken[c]) => Undecided(c, taken[c])'
      /\ taken[c] > 0 => chunks'[c][taken'[c]] = chunks[c][taken[c]]
      /\ Undecided(c, taken[c] - 1) => Undecided(c, taken[c] - 1)'
  <2>1. \A j \in 1..(taken[c] - 1) : j \in 1..taken[c]
    OBVIOUS
  <2>2. taken[c] > 0 => taken[c] \in 1..taken[c]
    OBVIOUS
  <2> QED BY <2>1, <2>2 DEF Undecided
<1>2. \A text : Answers(c, text) => Answers(c, text)'
  BY <1>1 DEF Answers
<1>3. ASSUME NEW k, NEW b, Fits(k, b, c) PROVE Fits(k, b, c)'
  BY <1>1, <1>2, <1>3 DEF Fits
<1> QED BY <1>2, <1>3

-----------------------------------------------------------------------------
(* The steps that leave the coroutines alone.                              *)

\* Clients and the signal.
LEMMA ClientsFit ==
    ASSUME FitInv,
           \/ Signal \/ OnSignal \/ UNCHANGED vars
           \/ \E c \in Conn : \/ Connect(c) \/ Quit(c)
                              \/ \E result \in ParseResult : SendChunk(c, result)
    PROVE  FitInv'
<1>1. UNCHANGED <<taken, received, peers, memory, accept, socket, children>>
  BY DEF Signal, OnSignal, vars, clientVars, parentVars, Connect, Quit, SendChunk
<1>2. /\ chunks \in [Conn -> Seq(ParseResult)] /\ client \in [Conn -> {"away", "open", "gone"}]
      /\ \A c \in Conn : taken[c] \in Nat /\ taken[c] <= Len(chunks[c])
  BY DEF FitInv, Private, Types
<1>3. client' \in [Conn -> {"away", "open", "gone"}]
  BY <1>2 DEF Signal, OnSignal, vars, clientVars, Connect, Quit, SendChunk
<1>4. /\ chunks' \in [Conn -> Seq(ParseResult)]
      /\ \A c \in Conn : /\ Len(chunks[c]) <= Len(chunks'[c])
                         /\ \A j \in 1..Len(chunks[c]) : chunks'[c][j] = chunks[c][j]
  <2>1. CASE UNCHANGED chunks
    BY <1>2, <2>1
  <2>2. ASSUME NEW c \in Conn, NEW result \in ParseResult, SendChunk(c, result)
        PROVE  <1>4
    <3>1. chunks' = [chunks EXCEPT ![c] = Append(chunks[c], result)]
      BY <2>2 DEF SendChunk
    <3>2. /\ Append(chunks[c], result) \in Seq(ParseResult)
          /\ Len(chunks[c]) <= Len(Append(chunks[c], result))
          /\ \A j \in 1..Len(chunks[c]) : Append(chunks[c], result)[j] = chunks[c][j]
      BY <1>2
    <3> QED BY <1>2, <3>1, <3>2
  <2> QED BY <2>1, <2>2 DEF Signal, OnSignal, vars, clientVars, Connect, Quit
<1>5. \A c \in Conn : \A j \in 1..taken[c] : chunks'[c][j] = chunks[c][j]
  <2>1. \A c \in Conn : \A j \in 1..taken[c] : j \in 1..Len(chunks[c])
    BY <1>2
  <2> QED BY <1>4, <2>1
<1>6. Private'
  <2>1. \A c \in Conn : Len(chunks[c]) \in Nat /\ Len(chunks'[c]) \in Nat
    BY <1>2, <1>4
  <2>2. \A c \in Conn : taken'[c] <= Len(chunks'[c])
    BY <1>1, <1>2, <1>4, <2>1
  <2>3. Types'
    BY <1>1, <1>3, <1>4, <2>2 DEF FitInv, Private, Types
  <2>4. Numbered' /\ Connected'
    BY <1>1 DEF FitInv, Private, Numbered, Connected, Child
  <2> QED BY <2>3, <2>4 DEF Private
<1>7. ASSUME NEW i \in Child, NEW c \in peers[i]
      PROVE  Fits(children[i], memory[i], c)'
  <2>1. c \in Conn /\ Fits(children[i], memory[i], c)
    BY PeerIs DEF FitInv
  <2>2. \A k, b : Fits(k, b, c) => Fits(k, b, c)'
    BY <1>1, <1>2, <1>5, <2>1, SaidHolds
  <2>3. Fits(children'[i], memory'[i], c)
    BY <1>1, <2>1
  <2> QED BY <2>2, <2>3
<1>8. ASSUME NEW c \in Conn
      PROVE  ClientFits(c)'
  <2>1. ClientFits(c)
    BY DEF FitInv
  <2>2. \A text : Answers(c, text) => Answers(c, text)'
    BY <1>1, <1>2, <1>5, SaidHolds
  <2> QED BY <1>1, <2>1, <2>2 DEF ClientFits, Child
<1> QED BY <1>1, <1>6, <1>7, <1>8 DEF FitInv, Child

\* The parent's accept, until its handler runs.
LEMMA AcceptFits ==
    ASSUME FitInv, AcceptFails \/ OnAcceptError \/ \E c \in Conn : AcceptCompletes(c)
    PROVE  FitInv'
<1>1. UNCHANGED <<client, chunks, taken, received, memory, children>>
  BY DEF AcceptFails, OnAcceptError, AcceptCompletes, clientVars
<1>2. /\ Types /\ Numbered /\ Connected /\ peers \in Seq(SUBSET Conn)
      /\ Len(peers) \in DOMAIN peers
  BY DEF FitInv, Private, Types, Numbered
<1>3. \A i \in Child : i \in DOMAIN peers /\ i # Len(peers)
  BY PeerIs DEF FitInv
<1>4. /\ Private' /\ \A i \in Child : peers'[i] = peers[i]
  <2>1. CASE AcceptFails \/ OnAcceptError
    <3>1. UNCHANGED peers /\ accept' \in {"none", "error"} /\ accept # "none"
          /\ (accept' = "error" => socket' = socket)
          /\ accept # "ok"
      BY <2>1 DEF AcceptFails, OnAcceptError
    <3>2. Types' /\ Numbered' /\ Connected'
      BY <1>1, <1>2, <3>1 DEF Types, Numbered, Connected, Child
    <3> QED BY <3>1, <3>2 DEF Private
  <2>2. ASSUME NEW c \in Conn, AcceptCompletes(c)
        PROVE  <1>4
    <3>1. /\ accept = "pending" /\ accept' = "ok" /\ socket' = socket
          /\ peers' = [peers EXCEPT ![Len(peers)] = {c}]
          /\ \A s \in DOMAIN peers : c \notin peers[s]
      BY <1>2, <2>2 DEF AcceptCompletes, Numbered, AcceptedConns
    <3>2. /\ peers' \in Seq(SUBSET Conn) /\ Len(peers') = Len(peers)
          /\ DOMAIN peers' = DOMAIN peers
          /\ peers'[Len(peers)] = {c}
          /\ \A s \in DOMAIN peers : s # Len(peers) => peers'[s] = peers[s]
      BY <1>2, <3>1
    <3>3. Types' /\ Numbered'
      BY <1>1, <1>2, <3>1, <3>2 DEF Types, Numbered, Child
    <3>4. Connected'
      BY <1>2, <3>1, <3>2 DEF Connected
    <3> QED BY <1>3, <3>2, <3>3, <3>4 DEF Private
  <2> QED BY <2>1, <2>2
<1>5. ASSUME NEW i \in Child, NEW c \in peers[i]
      PROVE  Fits(children[i], memory[i], c)'
  BY <1>1 DEF FitInv, Fits, Undecided, Answers
<1>6. ASSUME NEW c \in Conn
      PROVE  ClientFits(c)'
  BY <1>1, <1>4 DEF FitInv, ClientFits, Child, Undecided, Answers
<1> QED BY <1>1, <1>4, <1>5, <1>6 DEF FitInv, Child

-----------------------------------------------------------------------------
(* The steps of a coroutine, and what its operations come to.              *)

\* Coroutine i becomes kid, its buffer and its client's state what they may.
LEMMA CoroutineFits ==
    ASSUME FitInv, NEW i \in Child, NEW c, c = Peer(i), NEW kid \in Coroutine,
           kid.socket = i, kid.buffer = i,
           children' = [children EXCEPT ![i] = kid],
           NEW byte \in ParseResult \cup {"none"}, memory' = [memory EXCEPT ![i] = byte],
           NEW n \in Nat, n <= Len(chunks[c]),
           taken' = [taken EXCEPT ![c] = n],
           NEW replies \in Seq({"none", "page", "bad_request"}),
           received' = [received EXCEPT ![c] = replies],
           UNCHANGED <<client, chunks, peers, accept, socket>>,
           Fits(kid, byte, c)',
           replies # <<>> => \E text : replies = <<text>> /\ Answers(c, text)'
    PROVE  FitInv'
<1>1. /\ c \in Conn /\ peers[i] = {c} /\ i \in DOMAIN memory /\ i \in DOMAIN peers
      /\ Types /\ Numbered /\ Connected /\ Private
  BY PeerIs DEF FitInv, Private
<1>2. \A j \in Child : c \in peers[j] => j = i
  <2>1. \A j \in Child : j # i => c \notin peers[j]
    BY <1>1, PeersDiffer
  <2> QED BY <2>1
<1>3. /\ children' \in Seq(Coroutine) /\ Len(children') = Len(children) /\ Child' = Child
      /\ children'[i] = kid /\ \A j \in Child : j # i => children'[j] = children[j]
  BY DEF FitInv, Private, Types, Child
<1>4. /\ memory' \in Seq(ParseResult \cup {"none"}) /\ Len(memory') = Len(memory)
      /\ memory'[i] = byte /\ \A j \in DOMAIN memory : j # i => memory'[j] = memory[j]
  BY <1>1 DEF Types
<1>5. /\ taken' \in [Conn -> Nat] /\ received' \in [Conn -> Seq({"none", "page", "bad_request"})]
      /\ taken'[c] = n /\ received'[c] = replies
      /\ \A d \in Conn : d # c => taken'[d] = taken[d] /\ received'[d] = received[d]
  BY <1>1 DEF Types
<1>6. Private'
  <2>1. \A d \in Conn : taken'[d] <= Len(chunks'[d])
    BY <1>1, <1>5 DEF Types
  <2>2. Types'
    BY <1>1, <1>3, <1>4, <1>5, <2>1 DEF Types
  <2>3. Numbered'
    BY <1>1, <1>3, <1>4 DEF Numbered
  <2>4. Connected'
    BY <1>1 DEF Connected
  <2> QED BY <2>2, <2>3, <2>4 DEF Private
<1>7. ASSUME NEW d \in Conn, d # c
      PROVE  /\ \A text : Answers(d, text) => Answers(d, text)'
             /\ \A k, b : Fits(k, b, d) => Fits(k, b, d)'
  <2>1. taken[d] \in Nat /\ taken'[d] = taken[d] /\ received'[d] = received[d]
    BY <1>1, <1>5, <1>7 DEF Types
  <2> QED BY <2>1, SaidHolds
<1>8. ASSUME NEW j \in Child, NEW d \in peers'[j]
      PROVE  Fits(children[j], memory[j], d)'
  <2>1. CASE j = i
    <3>1. d = c /\ children'[j] = kid /\ memory'[j] = byte
      BY <1>1, <1>3, <1>4, <1>8, <2>1
    <3> QED BY <3>1 DEF Fits, Undecided, Answers
  <2>2. CASE j # i
    <3>1. d \in peers[j] /\ d # c
      BY <1>2, <1>8, <2>2
    <3>2. d \in Conn /\ j \in DOMAIN memory
      BY <1>1, <3>1, PeerIs
    <3>3. children'[j] = children[j] /\ memory'[j] = memory[j]
      BY <1>3, <1>4, <2>2, <3>2
    <3>4. Fits(children[j], memory[j], d)
      BY <3>1 DEF FitInv
    <3>5. Fits(children'[j], memory'[j], d)
      BY <3>3, <3>4
    <3>6. \A k, b : Fits(k, b, d) => Fits(k, b, d)'
      BY <1>7, <3>1, <3>2
    <3> QED BY <3>5, <3>6
  <2> QED BY <2>1, <2>2
<1>9. ASSUME NEW d \in Conn
      PROVE  ClientFits(d)'
  <2>1. CASE d = c
    <3>1. received'[d] # <<>> => \E text : received'[d] = <<text>> /\ Answers(d, text)'
      BY <1>5, <2>1
    <3>2. d \in peers'[i] /\ i \in Child'
      BY <1>1, <1>3, <2>1
    <3> QED BY <3>1, <3>2 DEF ClientFits
  <2>2. CASE d # c
    <3>1. taken'[d] = taken[d] /\ received'[d] = received[d] /\ ClientFits(d)
      BY <1>5, <2>2 DEF FitInv
    <3>2. \A text : Answers(d, text) => Answers(d, text)'
      BY <1>7, <2>2
    <3> QED BY <1>3, <3>1, <3>2 DEF ClientFits
  <2> QED BY <2>1, <2>2
<1> QED BY <1>3, <1>6, <1>8, <1>9 DEF FitInv

\* The coroutine i, whose socket and buffer are its own, field by field.
Numbering(i, at, state, reply) ==
    [at |-> at, state |-> state, socket |-> i, buffer |-> i, reply |-> reply]

LEMMA Fields ==
    ASSUME NEW k \in Coroutine, NEW i, k.socket = i, k.buffer = i
    PROVE  k = Numbering(i, k.at, k.state, k.reply)
BY DEF Coroutine, Numbering

LEMMA CoroutineIs ==
    ASSUME Private, NEW i \in Child, NEW k, k = children[i]
    PROVE  \E at, state, reply : /\ k = Numbering(i, at, state, reply)
                                 /\ k.at = at /\ k.state = state /\ k.reply = reply
<1>1. k \in Coroutine /\ k.socket = i /\ k.buffer = i
  BY PeerIs DEF Private, Numbered
<1> QED BY <1>1, Fields

\* What a step does to it.
LEMMA StateIsSet ==
    ASSUME Private, NEW i \in Child, NEW k, k = children[i], NEW state, SetState(i, state)
    PROVE  children' = [children EXCEPT ![i] = Numbering(i, k.at, state, k.reply)]
<1>1. children' = [children EXCEPT ![i] = [k EXCEPT !.state = state]]
  BY DEF SetState
<1>2. PICK at, st, reply : /\ k = Numbering(i, at, st, reply)
                           /\ k.at = at /\ k.state = st /\ k.reply = reply
  BY CoroutineIs
<1>3. [k EXCEPT !.state = state] = Numbering(i, at, state, reply)
  BY <1>2 DEF Numbering
<1> QED BY <1>1, <1>2, <1>3, Zenon

LEMMA EndIsReached ==
    ASSUME Private, NEW i \in Child, NEW k, k = children[i],
           children' = [children EXCEPT ![i].at = "end"]
    PROVE  children' = [children EXCEPT ![i] = Numbering(i, "end", k.state, k.reply)]
<1>1. children' = [children EXCEPT ![i] = [k EXCEPT !.at = "end"]]
  OBVIOUS
<1>2. PICK at, st, reply : /\ k = Numbering(i, at, st, reply)
                           /\ k.at = at /\ k.state = st /\ k.reply = reply
  BY CoroutineIs
<1>3. [k EXCEPT !.at = "end"] = Numbering(i, "end", st, reply)
  BY <1>2 DEF Numbering
<1> QED BY <1>1, <1>2, <1>3, Zenon

LEMMA CoroutineGoesOn ==
    ASSUME Private, NEW i \in Child, NEW k, k = children[i], NEW op, Continue(i, op)
    PROVE  children' = [children EXCEPT ![i] = Numbering(i, op, "pending", k.reply)]
<1>1. children' = [children EXCEPT ![i] = [k EXCEPT !.at = op, !.state = "pending"]]
  BY Zenon DEF Continue
<1>2. PICK at, st, reply : /\ k = Numbering(i, at, st, reply)
                           /\ k.at = at /\ k.state = st /\ k.reply = reply
  BY CoroutineIs
<1>3. [k EXCEPT !.at = op, !.state = "pending"] = Numbering(i, op, "pending", reply)
  <2>1. [k EXCEPT !.at = op] = Numbering(i, op, st, reply)
    BY <1>2 DEF Numbering
  <2>2. [Numbering(i, op, st, reply) EXCEPT !.state = "pending"]
          = Numbering(i, op, "pending", reply)
    BY DEF Numbering
  <2> QED BY <2>1, <2>2
<1> QED BY <1>1, <1>2, <1>3, Zenon

LEMMA CoroutineReplies ==
    ASSUME Private, NEW i \in Child, NEW k, k = children[i], NEW text,
           children' = [children EXCEPT ![i] =
                            [@ EXCEPT !.at = "write", !.state = "pending", !.reply = text]]
    PROVE  children' = [children EXCEPT ![i] = Numbering(i, "write", "pending", text)]
<1>1. children' = [children EXCEPT ![i] =
                        [k EXCEPT !.at = "write", !.state = "pending", !.reply = text]]
  BY Zenon
<1>2. PICK at, st, reply : /\ k = Numbering(i, at, st, reply)
                           /\ k.at = at /\ k.state = st /\ k.reply = reply
  BY CoroutineIs
<1>3. [k EXCEPT !.at = "write", !.state = "pending", !.reply = text]
        = Numbering(i, "write", "pending", text)
  <2>1. [k EXCEPT !.at = "write"] = Numbering(i, "write", st, reply)
    BY <1>2 DEF Numbering
  <2>2. [Numbering(i, "write", st, reply) EXCEPT !.state = "pending"]
          = Numbering(i, "write", "pending", reply)
    BY DEF Numbering
  <2>3. [Numbering(i, "write", "pending", reply) EXCEPT !.reply = text]
          = Numbering(i, "write", "pending", text)
    BY DEF Numbering
  <2> QED BY <2>1, <2>2, <2>3
<1> QED BY <1>1, <1>2, <1>3, Zenon

LEMMA NumberingTypes ==
    ASSUME NEW i \in Nat, NEW at \in {"read", "write", "end"},
           NEW state \in {"pending", "ok", "error"},
           NEW reply \in {"none", "page", "bad_request"}
    PROVE  /\ Numbering(i, at, state, reply) \in Coroutine
           /\ Numbering(i, at, state, reply).at = at
           /\ Numbering(i, at, state, reply).state = state
           /\ Numbering(i, at, state, reply).socket = i
           /\ Numbering(i, at, state, reply).buffer = i
           /\ Numbering(i, at, state, reply).reply = reply
BY DEF Numbering, Coroutine

\* Coroutine i becomes kid, and nothing else changes.
LEMMA OnlyCoroutineFits ==
    ASSUME FitInv, NEW i \in Child, NEW c, c = Peer(i), NEW kid \in Coroutine,
           kid.socket = i, kid.buffer = i,
           children' = [children EXCEPT ![i] = kid],
           UNCHANGED <<client, chunks, taken, received, peers, memory, accept, socket>>,
           Fits(kid, memory[i], c)
    PROVE  FitInv'
<1>1. /\ c \in Conn /\ memory[i] \in ParseResult \cup {"none"} /\ i \in DOMAIN memory
      /\ taken[c] \in Nat /\ taken[c] <= Len(chunks[c])
      /\ received[c] \in Seq({"none", "page", "bad_request"})
  BY PeerIs DEF FitInv, Private, Types
<1>2. /\ memory' = [memory EXCEPT ![i] = memory[i]]
      /\ taken' = [taken EXCEPT ![c] = taken[c]]
      /\ received' = [received EXCEPT ![c] = received[c]]
  BY <1>1 DEF FitInv, Private, Types
<1>3. /\ \A text : Answers(c, text) => Answers(c, text)'
      /\ \A k, b : Fits(k, b, c) => Fits(k, b, c)'
  BY <1>1, SaidHolds
<1>4. received[c] # <<>> => \E text : received[c] = <<text>> /\ Answers(c, text)'
  BY <1>1, <1>3 DEF FitInv, ClientFits
<1>5. Fits(kid, memory[i], c)'
  <2>1. \A b : b = memory[i] => Fits(kid, b, c)'
    BY <1>3
  <2> QED BY <2>1
<1> DEFINE b == memory[i]
           n == taken[c]
           replies == received[c]
<1>6. /\ b \in ParseResult \cup {"none"} /\ n \in Nat /\ n <= Len(chunks[c])
      /\ replies \in Seq({"none", "page", "bad_request"})
      /\ memory' = [memory EXCEPT ![i] = b] /\ taken' = [taken EXCEPT ![c] = n]
      /\ received' = [received EXCEPT ![c] = replies]
      /\ replies # <<>> => \E text : replies = <<text>> /\ Answers(c, text)'
  BY <1>1, <1>2, <1>4
<1>7. \A x : x = b => Fits(kid, x, c)'
  BY <1>3
<1> HIDE DEF b, n, replies
<1> QED BY <1>6, <1>7, CoroutineFits

\* What reads and writes come to.
LEMMA OutcomesFit ==
    ASSUME FitInv, NEW i \in Child, Outcome(i)
    PROVE  FitInv'
<1>1. PICK c : c = Peer(i)
  OBVIOUS
<1>2. PICK k : k = children[i]
  OBVIOUS
<1>3. /\ Private /\ c \in Conn /\ peers[i] = {c} /\ i \in DOMAIN memory /\ i \in Nat
      /\ k \in Coroutine /\ k.buffer = i /\ Fits(k, memory[i], c)
      /\ taken \in [Conn -> Nat] /\ taken[c] <= Len(chunks[c]) /\ chunks[c] \in Seq(ParseResult)
      /\ memory \in Seq(ParseResult \cup {"none"})
      /\ received \in [Conn -> Seq({"none", "page", "bad_request"})]
  <2>1. Private /\ Types /\ Numbered
    BY DEF FitInv, Private
  <2>2. /\ i \in DOMAIN memory /\ k \in Coroutine /\ c \in Conn /\ peers[i] = {c}
    BY <1>1, <1>2, <2>1, PeerIs
  <2>3. k.buffer = i /\ i \in Nat
    BY <1>2, <2>1, <2>2 DEF Numbered, Types
  <2>4. Fits(k, memory[i], c)
    BY <1>2, <2>2 DEF FitInv
  <2> QED BY <2>1, <2>2, <2>3, <2>4 DEF Types
<1>4. UNCHANGED <<client, chunks, peers, accept, socket>>
  BY DEF Outcome, ReadCompletes, WriteCompletes, Fails, clientVars, parentVars
<1>5. /\ k.at \in {"read", "write", "end"} /\ k.reply \in {"none", "page", "bad_request"}
  BY <1>3 DEF Coroutine
<1>6. CASE ReadCompletes(i)
  <2> DEFINE kid == Numbering(i, "read", "ok", k.reply)
  <2>0. PICK n, byte : n = taken[c] + 1 /\ byte = chunks[c][n]
    OBVIOUS
  <2>1. /\ k.at = "read" /\ k.state = "pending" /\ n <= Len(chunks[c])
        /\ taken' = [taken EXCEPT ![c] = n] /\ received' = received
        /\ SetState(i, "ok")
    BY <1>1, <1>2, <1>3, <1>6, <2>0 DEF ReadCompletes, WaitsFor
  <2>2. children' = [children EXCEPT ![i] = kid]
    BY <1>2, <1>3, <2>1, StateIsSet
  <2>3. n \in Nat /\ n > 0 /\ n - 1 = taken[c] /\ byte \in ParseResult
    <3>1. taken[c] \in Nat /\ Len(chunks[c]) \in Nat
      BY <1>3
    <3>2. n \in 1..Len(chunks[c])
      BY <2>0, <2>1, <3>1
    <3>3. byte \in ParseResult
      BY <1>3, <2>0, <3>2
    <3> QED BY <2>0, <3>1, <3>3
  <2>4. taken'[c] = n
    BY <1>3, <2>1
  <2>5. memory' = [memory EXCEPT ![i] = byte]
    BY <1>1, <1>2, <1>3, <1>6, <2>0, <2>4 DEF ReadCompletes
  <2>6. kid \in Coroutine /\ kid.socket = i /\ kid.buffer = i /\ kid.at = "read" /\ kid.state = "ok"
    BY <1>3, <1>5, NumberingTypes
  <2>7. received[c] = <<>> /\ Undecided(c, taken[c])
    BY <1>3, <2>1 DEF Fits
  <2> HIDE DEF kid
  <2>8. Fits(kid, byte, c)'
    <3>1. Undecided(c, n - 1)'
      BY <1>4, <2>3, <2>7 DEF Undecided
    <3>2. chunks' = chunks /\ kid' = kid /\ byte' = byte
      BY <1>4
    <3> QED BY <2>0, <2>1, <2>3, <2>4, <2>6, <2>7, <3>1, <3>2 DEF Fits
  <2>9. /\ received' = [received EXCEPT ![c] = <<>>]
        /\ <<>> \in Seq({"none", "page", "bad_request"}) /\ byte \in ParseResult \cup {"none"}
    BY <1>3, <2>1, <2>3, <2>7
  <2>10. \A s : s = <<>> => FitInv'
    <3> SUFFICES ASSUME NEW s, s = <<>> PROVE FitInv'
      OBVIOUS
    <3>1. /\ received' = [received EXCEPT ![c] = s]
          /\ s \in Seq({"none", "page", "bad_request"})
          /\ s # <<>> => \E text : s = <<text>> /\ Answers(c, text)'
      BY <2>9
    <3> QED BY <1>1, <1>4, <2>1, <2>2, <2>3, <2>5, <2>6, <2>8, <2>9, <3>1, CoroutineFits
  <2> QED BY <2>10
<1>7. CASE WriteCompletes(i)
  <2> DEFINE kid == Numbering(i, "write", "ok", k.reply)
  <2>1. /\ k.at = "write" /\ k.state = "pending" /\ taken' = taken /\ memory' = memory
        /\ received' = [received EXCEPT ![c] = Append(received[c], k.reply)]
        /\ SetState(i, "ok")
    BY <1>1, <1>2, <1>3, <1>7 DEF WriteCompletes, WaitsFor
  <2>2. children' = [children EXCEPT ![i] = kid]
    BY <1>2, <1>3, <2>1, StateIsSet
  <2>3. kid \in Coroutine /\ kid.socket = i /\ kid.buffer = i /\ kid.at = "write" /\ kid.state = "ok"
    BY <1>3, <1>5, NumberingTypes
  <2>4. received[c] = <<>> /\ Answers(c, k.reply)
    BY <1>3, <2>1 DEF Fits
  <2> HIDE DEF kid
  <2>5. Answers(c, k.reply)'
    BY <1>2, <1>4, <2>1, <2>4 DEF Answers, Undecided
  <2>6. PICK s, b, n : s = <<k.reply>> /\ b = memory[i] /\ n = taken[c]
    OBVIOUS
  <2>7. /\ memory' = [memory EXCEPT ![i] = b] /\ b \in ParseResult \cup {"none"}
        /\ taken' = [taken EXCEPT ![c] = n] /\ n \in Nat /\ n <= Len(chunks[c])
        /\ received' = [received EXCEPT ![c] = s]
        /\ s \in Seq({"none", "page", "bad_request"})
    <3>1. Append(received[c], k.reply) = s
      BY <2>4, <2>6
    <3> QED BY <1>3, <1>5, <2>1, <2>6, <3>1
  <2>8. \E text : s = <<text>> /\ Answers(c, text)'
    BY <2>5, <2>6
  <2>9. Fits(kid, b, c)'
    BY <2>3 DEF Fits
  <2> QED BY <1>1, <1>4, <2>2, <2>3, <2>7, <2>8, <2>9, CoroutineFits
<1>8. CASE Fails(i)
  <2> DEFINE kid == Numbering(i, k.at, "error", k.reply)
  <2>1. /\ k.state = "pending" /\ SetState(i, "error")
        /\ UNCHANGED <<taken, received, memory>>
    BY <1>2, <1>8 DEF Fails, WaitsFor
  <2>2. children' = [children EXCEPT ![i] = kid]
    BY <1>2, <1>3, <2>1, StateIsSet
  <2>3. kid \in Coroutine /\ kid.socket = i /\ kid.buffer = i /\ kid.at = k.at /\ kid.state = "error"
    BY <1>3, <1>5, NumberingTypes
  <2> HIDE DEF kid
  <2>4. Fits(kid, memory[i], c)
    BY <1>3, <2>1, <2>3 DEF Fits
  <2> QED BY <1>1, <1>4, <2>1, <2>2, <2>3, <2>4, OnlyCoroutineFits
<1> QED BY <1>6, <1>7, <1>8 DEF Outcome

\* The coroutine is resumed, or goes.
LEMMA HandlersFit ==
    ASSUME FitInv, NEW i \in Child, Handler(i)
    PROVE  FitInv'
<1>1. PICK c : c = Peer(i)
  OBVIOUS
<1>2. PICK k : k = children[i]
  OBVIOUS
<1>3. /\ Private /\ c \in Conn /\ peers[i] = {c} /\ i \in DOMAIN memory /\ i \in Nat
      /\ k \in Coroutine /\ k.buffer = i /\ Fits(k, memory[i], c)
      /\ taken[c] \in Nat /\ taken[c] <= Len(chunks[c]) /\ chunks[c] \in Seq(ParseResult)
  <2>1. Private /\ Types /\ Numbered
    BY DEF FitInv, Private
  <2>2. /\ i \in DOMAIN memory /\ k \in Coroutine /\ c \in Conn /\ peers[i] = {c}
    BY <1>1, <1>2, <2>1, PeerIs
  <2>3. k.buffer = i /\ i \in Nat
    BY <1>2, <2>1, <2>2 DEF Numbered, Types
  <2>4. Fits(k, memory[i], c)
    BY <1>2, <2>2 DEF FitInv
  <2> QED BY <2>1, <2>2, <2>3, <2>4 DEF Types
<1>4. UNCHANGED <<client, chunks, taken, received, peers, memory, accept, socket>>
  BY DEF Handler, OnRead, OnEnd, clientVars, parentVars
<1>5. k.reply \in {"none", "page", "bad_request"} /\ k.state \in {"pending", "ok", "error"}
  BY <1>3 DEF Coroutine
<1>6. CASE OnRead(i)
  <2>1. /\ k.at = "read" /\ k.state = "ok" /\ Buffer(i) = memory[i]
    BY <1>2, <1>3, <1>6 DEF OnRead, WaitsFor, Buffer
  <2>2. /\ taken[c] > 0 /\ Undecided(c, taken[c] - 1) /\ received[c] = <<>>
        /\ Buffer(i) = chunks[c][taken[c]]
    BY <1>3, <2>1 DEF Fits
  <2>3. Buffer(i) \in ParseResult
    BY <1>3, <2>2
  <2>4. CASE Buffer(i) = "indeterminate"
    <3> DEFINE kid == Numbering(i, "read", "pending", k.reply)
    <3>1. children' = [children EXCEPT ![i] = kid]
      <4>1. Continue(i, "read")
        BY <1>6, <2>4 DEF OnRead
      <4> QED BY <1>2, <1>3, <4>1, CoroutineGoesOn
    <3>2. kid \in Coroutine /\ kid.socket = i /\ kid.buffer = i
          /\ kid.at = "read" /\ kid.state = "pending"
      BY <1>3, <1>5, NumberingTypes
    <3> HIDE DEF kid
    <3>3. Undecided(c, taken[c])
      <4>1. \A j \in 1..taken[c] : j \in 1..(taken[c] - 1) \/ j = taken[c]
        BY <1>3
      <4> QED BY <2>2, <2>4, <4>1 DEF Undecided
    <3>4. Fits(kid, memory[i], c)
      BY <2>2, <3>2, <3>3 DEF Fits
    <3> QED BY <1>1, <1>4, <3>1, <3>2, <3>4, OnlyCoroutineFits
  <2>5. CASE Buffer(i) # "indeterminate"
    <3>1. PICK text : text = IF Buffer(i) = "good" THEN "page" ELSE "bad_request"
      OBVIOUS
    <3> DEFINE kid == Numbering(i, "write", "pending", text)
    <3>2. children' = [children EXCEPT ![i] = kid]
      <4>1. children' = [children EXCEPT ![i] =
                [@ EXCEPT !.at = "write", !.state = "pending", !.reply = text]]
        BY <1>6, <2>5, <3>1 DEF OnRead
      <4> QED BY <1>2, <1>3, <4>1, CoroutineReplies, Zenon
    <3>3. kid \in Coroutine /\ kid.socket = i /\ kid.buffer = i
          /\ kid.at = "write" /\ kid.state = "pending" /\ kid.reply = text
      BY <1>3, <3>1, NumberingTypes
    <3> HIDE DEF kid
    <3>4. Answers(c, text)
      BY <2>2, <2>3, <2>5, <3>1 DEF Answers, ParseResult
    <3>5. Fits(kid, memory[i], c)
      BY <2>2, <3>3, <3>4 DEF Fits
    <3> QED BY <1>1, <1>4, <3>2, <3>3, <3>5, OnlyCoroutineFits
  <2> QED BY <2>4, <2>5
<1>7. CASE OnEnd(i)
  <2> DEFINE kid == Numbering(i, "end", k.state, k.reply)
  <2>1. children' = [children EXCEPT ![i] = kid]
    BY <1>2, <1>3, <1>7, EndIsReached, Zenon DEF OnEnd
  <2>2. kid \in Coroutine /\ kid.socket = i /\ kid.buffer = i /\ kid.at = "end"
    BY <1>3, <1>5, NumberingTypes
  <2> HIDE DEF kid
  <2>3. Fits(kid, memory[i], c)
    BY <2>2 DEF Fits
  <2> QED BY <1>1, <1>4, <2>1, <2>2, <2>3, OnlyCoroutineFits
<1> QED BY <1>6, <1>7 DEF Handler
-----------------------------------------------------------------------------
(* The parent forks a coroutine and accepts for the next one.              *)

LEMMA ForkFits ==
    ASSUME FitInv, OnAccept
    PROVE  FitInv'
<1>1. /\ Types /\ Numbered /\ Connected /\ Len(children) \in Nat
      /\ children \in Seq(Coroutine) /\ peers \in Seq(SUBSET Conn)
      /\ memory \in Seq(ParseResult \cup {"none"})
  BY DEF FitInv, Private, Types
<1>2. PICK m \in Nat : m = Len(children) + 1
  BY <1>1
<1>3. accept = "ok" /\ socket = m /\ Len(peers) = m /\ Len(memory) = m - 1
  BY <1>1, <1>2 DEF OnAccept, Numbered
<1>4. UNCHANGED <<client, chunks, taken, received>>
  BY DEF OnAccept, clientVars
<1>5. PICK kid : kid = Numbering(m, "read", "pending", "none")
  OBVIOUS
<1>6. children' = Append(children, kid)
  BY <1>2, <1>3, <1>5 DEF OnAccept, StartChild, NewBuffer, Numbering
<1>7. memory' = Append(memory, "none")
  BY <1>1, <1>2, <1>3 DEF OnAccept, StartChild, NewBuffer
<1>8. socket' = m + 1 /\ peers' = Append(peers, {}) /\ peers'[m + 1] = {} /\ accept' = "pending"
  <2>1. NewSocket = m + 1 /\ NewSocket \notin DOMAIN peers
    BY <1>1, <1>2, <1>3 DEF NewSocket
  <2>2. peers' = Append(peers, {})
    BY <2>1 DEF OnAccept, AcceptNext
  <2>3. peers'[m + 1] = {}
    BY <1>1, <1>3, <2>2
  <2> QED BY <2>1, <2>2, <2>3 DEF OnAccept, AcceptNext
<1>9. kid \in Coroutine /\ kid.socket = m /\ kid.buffer = m /\ kid.at = "read" /\ kid.state = "pending"
  BY <1>5, NumberingTypes
<1>10. /\ children' \in Seq(Coroutine) /\ Len(children') = m /\ Child' = Child \cup {m}
       /\ children'[m] = kid /\ \A i \in Child : children'[i] = children[i]
       /\ m \notin Child
  BY <1>1, <1>2, <1>6, <1>9 DEF Child
<1>11. /\ memory' \in Seq(ParseResult \cup {"none"}) /\ Len(memory') = m
       /\ \A i \in DOMAIN memory : memory'[i] = memory[i]
  BY <1>1, <1>2, <1>3, <1>7
<1>12. /\ peers' \in Seq(SUBSET Conn) /\ Len(peers') = m + 1
       /\ DOMAIN peers' = DOMAIN peers \cup {m + 1} /\ DOMAIN peers = 1..m
       /\ \A i \in DOMAIN peers : peers'[i] = peers[i]
  BY <1>1, <1>2, <1>3, <1>8
<1>13. \A i \in Child : i \in DOMAIN peers /\ i # m /\ i \in DOMAIN memory
  BY <1>3, PeerIs DEF FitInv
<1>14. Private'
  <2>1. Types'
    BY <1>1, <1>4, <1>8, <1>10, <1>11, <1>12 DEF Types
  <2>2. Numbered'
    BY <1>1, <1>2, <1>8, <1>9, <1>10, <1>11, <1>12 DEF Numbered
  <2>3. ASSUME NEW s \in DOMAIN peers
        PROVE  \E c \in Conn : peers[s] = {c}
    BY <1>1, <1>3, <2>3 DEF Connected
  <2>4. Connected'
    BY <1>1, <1>2, <1>8, <1>12, <2>3 DEF Connected
  <2> QED BY <2>1, <2>2, <2>4 DEF Private
<1>15. ASSUME NEW i \in Child', NEW c \in peers'[i]
       PROVE  Fits(children[i], memory[i], c)'
  <2>1. CASE i \in Child
    <3>1. /\ c \in peers[i] /\ children'[i] = children[i] /\ memory'[i] = memory[i]
      BY <1>10, <1>11, <1>12, <1>13, <1>15, <2>1
    <3>2. Fits(children[i], memory[i], c)
      BY <2>1, <3>1 DEF FitInv
    <3> QED BY <1>4, <3>1, <3>2 DEF Fits, Undecided, Answers
  <2>2. CASE i = m
    <3>1. c \in peers[m] /\ m \in DOMAIN peers /\ c \in Conn
      BY <1>1, <1>2, <1>12, <1>15, <2>2
    <3>2. \A j \in Child : c \notin peers[j]
      BY <1>1, <1>13, <3>1 DEF Connected
    <3>3. taken[c] = 0 /\ received[c] = <<>>
      BY <3>1, <3>2 DEF FitInv, ClientFits
    <3>4. children'[i].at = "read" /\ children'[i].state = "pending"
      BY <1>9, <1>10, <2>2
    <3>5. taken'[c] = 0 /\ received'[c] = <<>>
      BY <1>4, <3>3
    <3> QED BY <3>4, <3>5 DEF Fits, Undecided
  <2> QED BY <1>10, <2>1, <2>2
<1>16. ASSUME NEW c \in Conn
       PROVE  ClientFits(c)'
  <2>1. ClientFits(c)
    BY DEF FitInv
  <2>2. (\A i \in Child' : c \notin peers'[i]) => \A i \in Child : c \notin peers[i]
    BY <1>10, <1>12, <1>13
  <2> QED BY <1>4, <2>1, <2>2 DEF ClientFits, Answers, Undecided
<1> QED BY <1>14, <1>15, <1>16 DEF FitInv

-----------------------------------------------------------------------------
(* The invariant, and the reply each client is due.                        *)

LEMMA InitFits == Init => FitInv
<1> SUFFICES ASSUME Init PROVE FitInv
  OBVIOUS
<1>1. Child = {} /\ Len(children) = 0 /\ Len(memory) = 0 /\ Len(peers) = 1
      /\ DOMAIN peers = {1} /\ peers[1] = {}
  BY DEF Init, Child
<1>2. Types
  BY DEF Init, Types
<1>3. Numbered /\ Connected
  BY <1>1 DEF Init, Numbered, Connected
<1>4. \A c \in Conn : ClientFits(c)
  BY DEF Init, ClientFits
<1> QED BY <1>1, <1>2, <1>3, <1>4 DEF FitInv, Private

LEMMA NextFits == FitInv /\ [Next]_vars => FitInv'
<1> SUFFICES ASSUME FitInv, [Next]_vars PROVE FitInv'
  OBVIOUS
<1>1. CASE \/ Signal \/ OnSignal \/ UNCHANGED vars
           \/ \E c \in Conn : \/ Connect(c) \/ Quit(c)
                              \/ \E result \in ParseResult : SendChunk(c, result)
  BY <1>1, ClientsFit
<1>2. CASE AcceptFails \/ OnAcceptError \/ \E c \in Conn : AcceptCompletes(c)
  BY <1>2, AcceptFits
<1>3. CASE OnAccept
  BY <1>3, ForkFits
<1>4. CASE \E i \in Child : Outcome(i)
  BY <1>4, OutcomesFit
<1>5. CASE \E i \in Child : Handler(i)
  BY <1>5, HandlersFit
<1> QED BY <1>1, <1>2, <1>3, <1>4, <1>5 DEF Next

\* The reply to the chunk that ends the request is what the client is due.
LEMMA AnswerIsDeserved ==
    ASSUME Types, NEW c \in Conn, NEW text, Answers(c, text)
    PROVE  Deserved(c) = <<text>>
<1> DEFINE Decides(i) == /\ chunks[c][i] # "indeterminate"
                         /\ \A j \in 1..(i - 1) : chunks[c][j] = "indeterminate"
           first == CHOOSE i \in DOMAIN chunks[c] : Decides(i)
<1>1. PICK t \in Nat : t = taken[c]
  BY DEF Types
<1>2. t \in DOMAIN chunks[c] /\ t \in Nat /\ DOMAIN chunks[c] \subseteq Nat
  BY <1>1 DEF Types, Answers
<1>3. Decides(t)
  BY <1>1, <1>2 DEF Answers, Undecided
<1>4. \A i \in DOMAIN chunks[c] : Decides(i) => i = t
  <2> SUFFICES ASSUME NEW i \in DOMAIN chunks[c], Decides(i), i # t PROVE FALSE
    OBVIOUS
  <2>1. i \in Nat /\ i > 0 /\ t > 0
    BY <1>1, <1>2 DEF Types, Answers
  <2>2. CASE i < t
    <3>1. i \in 1..(t - 1)
      BY <1>2, <2>1, <2>2
    <3> QED BY <1>3, <3>1
  <2>3. CASE t < i
    <3>1. t \in 1..(i - 1)
      BY <1>2, <2>1, <2>3
    <3> QED BY <1>3, <3>1
  <2> QED BY <1>2, <2>1, <2>2, <2>3
<1>5. first = t
  <2>1. first \in DOMAIN chunks[c] /\ Decides(first)
    BY <1>2, <1>3
  <2> HIDE DEF first
  <2> QED BY <1>4, <2>1
<1>6. Deserved(c) = <<IF chunks[c][first] = "good" THEN "page" ELSE "bad_request">>
  BY <1>2, <1>3 DEF Deserved
<1>7. text = IF chunks[c][t] = "good" THEN "page" ELSE "bad_request"
  BY <1>1 DEF Answers
<1> QED BY <1>5, <1>6, <1>7

\* For any clients and chunks, no client gets a reply to what another one has
\* sent, nor a second one: server::operator() makes a socket and a buffer for
\* each copy of itself before it reads (server.cpp).
THEOREM RepliesFit == Spec => []ReplyFitsRequest
<1>1. FitInv => ReplyFitsRequest
  BY AnswerIsDeserved DEF FitInv, Private, ClientFits, ReplyFitsRequest
<1> QED BY <1>1, InitFits, NextFits, PTL DEF Spec
=============================================================================
