# A formal model of the Boost.Asio study programs

The repository is a collection of small network programs, most of them written
around the completion handlers of Boost.Asio: a chat system, four HTTP servers
that differ in how they use threads, SOCKS and TLS programs, and the programs of
the Asio tutorial. What is hard in them is the same everywhere. A handler runs
some time after the operation it belongs to has ended; by then another handler
may have closed the socket, left the room or stopped the server, and an object
lives only as long as some handler holds a `shared_ptr` to it. This directory
holds TLA+ models of that behaviour, the TLC runs that check them on small
instances, and proofs for TLAPS.

Paths below are relative to `src/src/examples/c++11/` unless they begin with `src/`.

## 1. Inventory

| Component | State it keeps | Operations | Hard because | Correct when |
|---|---|---|---|---|
| Chat server, `chat/chat_server.cpp` | `participants_`, `recent_msgs_` of the room; `read_msg_`, `write_msgs_` of each session | accept, join (with replay), read header, read body, deliver, write, leave | reader and writer of a session fail separately; replay and live messages meet in one queue | every participant's stream is the conversation, in order, without gap; nobody waits behind a write that was never started; gone clients are let go |
| Chat message, `chat/chat_message.hpp` | header and body of one frame | `encode_header`, `decode_header` | four characters, read by `atoi`, put into a `size_t` | what is encoded decodes to itself; whatever arrives, the length fits the buffer |
| Chat client, `chat/chat_client.cpp` | `write_msgs_`, the socket; the input loop runs on another thread | post a line, post the close, connect, read, write | lines are posted before there is a connection, the close while a write is in flight | lines go out once and in order; the end of the input ends the program |
| HTTP server 1, `http_server1/` | acceptor, signal set, `connections_` of the manager, per connection socket, buffer, parser, reply | accept, read, write, stop one, stop all, signal | a handler of an operation that had succeeded runs after `stop_all` | the manager knows exactly the open sockets; the signal ends `run()` |
| Request parser, `http_server*/request_parser.*` | `state_`, the request being filled in | `consume` one byte | twenty states, continued header lines, signed `char` | it accepts its grammar, at once, and means what it reads |
| Request handler, replies, mime types | none; `url_decode`'s index and output while it runs | `url_decode`, path checks, index, extension, opening the file | the two characters behind a `%` are read by a stream, which accepts more than two digits | valid encodings are decoded, invalid ones refused; the loop stays inside the text |
| HTTP server 2, `http_server2/` | a pool of `io_context`s, `next_io_context_`, a thread and a work guard each | round robin, accept, run, join, stop | acceptor, signal set and sockets live in different threads; the stop reaches one context after another | turns are spread evenly; what is accepted is served; the signal ends `run()` |
| HTTP server 3, `http_server3/` | one `io_context`, a strand per connection, no manager | accept, read, write, signal | handlers of many threads interleave; `stop()` comes while handlers run | handlers of one connection never overlap; `run()` returns |
| Boost's scheduler, reactor and strand, `src/include/boost/asio/detail/` | operation queue, wakeup event, work count, private queues of threads; per descriptor the operations that wait; a strand's lock, `waiting_queue_`, `ready_queue_` | run, wait, post, stop; start and cancel an operation, `epoll_wait`, `perform_io`; enter and leave a strand | a thread decides to sleep while another one queues; signals are sent outside the lock; events are edge-triggered | no wake-up, no unit of work and no event is lost; `run()` returns when, and only when, it should |
| HTTP server 4, `http_server4/` | a coroutine that is copied at every accept | resume, fork | state shared by parent and child; an error ends the coroutine, the accepting one too | every connection is served by one child, with its own reply; no socket is kept |
| SOCKS 5 server and client, `socks4/` | two sockets per client, one thread each | handshake, connect, relay | bytes relayed in both directions | what one side sends the other receives |
| SOCKS 4 types and requests | request and reply layout | blocking exchange | - | layouts are those of the protocol |
| TLS proxy, TLS echo client and server | one session each | handshake, read, write | - | echo returns what was sent |
| Daytime servers, `src/src/tutorial/daytime_3, 6, 7` | a connection per client; one `remote_endpoint_` and one buffer for all datagrams | accept, write; receive, send | handlers are bound to no error code; the next receive overwrites the endpoint while a reply waits to be sent | everyone is answered; the reply goes to its sender |
| Composed and deferred operations, timers, blocking daytime programs | a timer, a counter | waits, one-shot replies | - | they print what they should |

How they interact: within a program all components share an `io_context`. An
operation is started by a handler, ends when the socket, the acceptor or the
signal set says so, and its own handler is queued; `run()` takes handlers from
the queue in order and returns when nothing is queued, in flight or held back
by a work guard. The chat client meets the chat server only through the
sockets, the client program and the HTTP servers likewise, so that each program
is a model of its own, with the other side as an environment that may send,
stop sending or disappear at any time.

`PROJECT.json` lists the components with their sources and the hazards, each at
the line where it bites, with the properties that cover it or the reason why
none does.

## 2. Modules

| Module | Models | How |
|---|---|---|
| `ChatServer` | `chat_server`, `chat_room`, `chat_session`, framing | one action per completion handler, one thread |
| `ChatFeed` | what the chat server promises | abstract specification: a conversation and a feed per reader |
| `ChatMessage` | the header's codec | operators, byte by byte; everything about them is proved |
| `ChatClient` | the client with its two threads | the posted lambdas and the handlers are actions, so are the steps of `main` |
| `HttpServer1` | `server`, `connection`, `connection_manager` | an operation has an outcome first and its handler later |
| `IoContextPool` | `io_context_pool::get_io_context` of server 2 | a turn; extended by `HttpServer2` |
| `HttpServer2` | `io_context_pool`, `server`, `connection` | a connection's handler is one action, the accept handler and the signal's are several: other threads run between their steps |
| `HttpServer3` | `server`, `connection`, Boost's `do_run_one` and strand | a handler is several steps, each of a thread |
| `HttpServer4` | the coroutine with its forks | copies are records that point into a memory of sockets and buffers |
| `RequestGrammar` | nothing in the source | the reference: which texts are requests, and what they mean, said of a whole text |
| `RequestParser` | `request_parser` | `Consume` by state and class of byte |
| `RequestHandler` | `handle_request`, `url_decode` | one action per iteration of the loop, then the choice of the reply |
| `Scheduler` | Boost's `scheduler`, `posix_event`, `epoll_reactor` | a step is what happens between locking and unlocking a mutex; a signal to the condition variable is a step of its own |
| `Daytime` | `tcp_server`, `tcp_connection`, `udp_server` of daytime_7 | one action per handler, one thread; errors end operations but no handler sees them |
| `...Proofs` | - | the proofs about the module of that name; those about `ChatMessage` are in `ChatClientProofs`, those about the daytime servers, the pool and the request handler in `ServersProofs` |
| `MC...` | - | constants and symmetry for TLC |

How the modules relate: `Scheduler` is what the other modules take for granted.
Its runs say that a thread in `run()` takes whatever is queued and that an
event that has come is not lost; this is the fairness that the server modules
assume of their handlers. `HttpServer3` has a coarser queue (which handlers are
ready, not in which order) and in exchange the strand. `RequestParser` and
`RequestHandler` are the data side of `HttpServer1`, 2, 3 and 4, which see a
request as chunks with the parser's verdict on each.

**State and code.** Variables carry the names of the members they stand for or
say so in the comment of their declaration: in `ChatServer`, `queue` is
`write_msgs_`, `recent` is `recent_msgs_`, `reader` and `writer` are the
operations a session has in flight; `wire` (what has been written) and `log`
(every message given to `chat_room::deliver`) are history. In the HTTP modules
`op` is the one operation a connection has in flight together with its outcome,
`taken` and `received` are the two ends of the socket. In `Scheduler`, `at` is
a thread's program counter with the operation it is completing. In `HttpServer4`
an index into `peers` or `memory` is a `shared_ptr`. `"map"` in `PROJECT.json`
gives the lines of every definition.

**What is one step.** A handler on a single-threaded `io_context` runs to its
end before the next one starts: it is one action, with everything it calls
(`RoomJoin` with its replay and the writes that starts, `StopAll` with each
socket it closes). Between an operation's end and its handler other handlers
run, so the two are separate actions wherever it can make a difference. A read
of a chat session is the exception: its outcome is still the head of the unread
input when its handler runs, since nobody else reads or closes that socket. In
`HttpServer3` a handler is split where another thread can see what it did:
taking it from the queue, entering the strand, reading its result, starting the
next operation, returning, and leaving the strand. In `HttpServer2` nothing but
its own thread touches a connection once it is started, so only the accept
handler, which starts a connection on another `io_context`, and the signal's,
which stops the contexts in a loop, are split.

**What data is.** A chat message is its sender and its number; a frame is a
header unit, possibly a rejected one, and a body unit. `read_msg_`, which both are
read into, is kept as the number of the frame whose header is in it: a message
that is put together from two frames gets the number 0. A request of the HTTP
servers is a sequence of chunks, each with the verdict the parser gives when it
has read that far; `RequestParser` shows separately that the verdict depends on
the bytes alone. In `RequestParser` a byte is one of thirteen classes,
the bytes above 127 among them: one digit stands for all of them, and the special
characters that no state names are represented by those that one does.
In `RequestHandler` and `ChatMessage` a byte is its value, since the conversions
are what they are about. In `Scheduler` an operation is a name and the data of a
descriptor a number of pieces, with the end of the input behind them. Logging, names and file contents are left out.

## 3. Runs

| Run | Instance | States | What it shows |
|---|---|---|---|
| `chat` | 2 clients, 2 frames each, replay buffer of 2 | 226194 | write queues and writes agree, participants are reading, streams are stretches of the conversation, senders are in order, leaving is final; the server implements `ChatFeed`, queues of participants drain, gone clients are released |
| `chat_client` | 2 lines, 2 frames, 2 endpoints | 16970 | lines once and in order, no line behind a write that nobody starts, the end of the input ends the program |
| `http1` | one client with up to 2 chunks, one with up to 1 | 189271 | manager and open sockets agree, an accept is always outstanding, one right reply, the signal ends `run()`, gone clients are dropped |
| `http2` | pools of 1 to 4 contexts, 1 connection, 2 chunks, 2 failing accepts | 140959 | turns are spread evenly, what is accepted is served, the signal ends every thread and `run()` |
| `http3` | 3 threads, 1 connection, 2 chunks | 139000 | handlers of a connection do not overlap, its buffers have one owner, one accept chain, right reply; the signal ends every thread, gone clients are dropped |
| `http4` | one client with up to 2 chunks, one with up to 1 | 129549 | right reply to each client, clients are served, sockets are destroyed |
| `http_parser` | every text with at most 2 departures from a plain request | 17174 | accepts exactly the grammar, verdict at the first possible byte, right request |
| `scheduler` | 3 threads, 3 operations, 1 descriptor, 2 pieces of data, with symmetry | 296102 | no wake-up, no unit of work, no event is lost; no descriptor operation is reused while it is queued |
| `scheduler_liveness` | 2 threads, 2 operations, 1 descriptor, 2 pieces of data | 45963 | what is queued is run, every `run()` returns |
| `daytime` | 2 clients, 2 senders, 3 datagrams, 1 failure | 281157 | every reply goes to its sender, everyone is answered |
| `http3_stop` | 2 threads, 1 connection, 1 chunk | - | **violated**, first finding |
| `url_decode` | every target of at most 4 bytes out of `/.%+-5fg` | - | **violated**, second finding |

**Bounds and why they are enough.** Two clients give every pair of a joining,
leaving, speaking and failing client, and a third would meet no new pair, since
a session touches others only through the room. With a replay buffer of two and
four frames in all, the buffer overflows and is replayed short; a queue
holds a message in flight with others behind it. In server 1, two connections
give `stop_all` more than one socket, and let an accept complete while another
connection is served. In servers 2 and 3 connections share only the accept, the
queue of handlers and, in server 2, the round robin, which failed accepts
advance as well; so one connection with many threads says more than two with few.
Three threads in server 3 are one in a connection's handler, one that comes to
the same strand and one that accepts or stops the server. A pool of four
gives the signal set, the acceptor and two sockets a context each, the
smaller pools have them share. In server 4 the interesting pair is a child and
the parent that goes on, then two children. Two chunks give a
request that is completed by the second read, and one that is followed by more.
In the scheduler three threads are one in `epoll_wait`, one asleep and one that
queues an operation, and three operations are enough for one to be completed, one
queued and one waiting; both values of the concurrency hint are initial states. Three
datagrams make a third receive while the first reply still waits.
In the parser `MaxDetours` bounds how many bytes depart from a plain request,
not its length: each pair of a departure and another, in any two states, occurs
(a header that is continued and then ends wrongly, say). The texts stay far
below the ten version digits at which the `int` of the source overflows. Every
bound is a constant that guards actions of the environment or of the program
above (which operations are started), never one of the code that is modelled:
nothing it does is cut off.

`CHECK_DEADLOCK FALSE` is set in every configuration: all these systems come to
rest when the bounded clients have done what they may, and the servers and
the chat client are meant to stop, threads to leave `run()`. That they do not rest too early is what the
liveness properties say.

**Fairness.** `io_context::run` runs ready handlers in the order in which they
became ready, so none is passed over: weak fairness per handler in the
single-threaded programs (`ChatServer`, `ChatClient`, `HttpServer1`, `HttpServer4`,
`Daytime`). In `HttpServer2` and `HttpServer3` a thread that takes another handler
disables taking this one for a moment, again and again; the queue is first in,
first out, so each such turn moves the others up. Strong fairness of taking a
handler says that without modelling the queue's order. `Scheduler` does model
it, and assumes no more than that every thread goes on: weak fairness of a thread's
next step, which includes that a handler returns. Spurious wake-ups are
possible and never needed. A read or write ends
when the client sends, receives or disappears; a connection attempt succeeds or
fails. Nothing is assumed of the users and the environment: no client has to connect, send or
leave, no accept to fail, no signal to arrive. A client that neither sends nor
leaves is kept forever, as in the code, which has no timeouts: the liveness
properties speak of clients that are gone, or of those that do their part.

**The findings.** `http_server3/server.cpp:58` says that the accept handler
checks whether the server was stopped by a signal before the handler had a
chance to run. The check is `acceptor_.is_open()`, taken over from server 1,
where the signal's handler closes the acceptor. In server 3 it calls
`io_context_.stop()` only. A thread that has taken the accept handler before
another runs the signal's handler starts a connection after the stop; the run
`http3_stop` shows it in eight steps. The connection is harmless (its read never
completes, and it goes with the `io_context`), but the check does nothing.
The same applies to `http_server2/server.cpp:47`.

`http_server2/request_handler.hpp:28` says that `url_decode` returns false if the
encoding was invalid. It reads the two characters behind a `%` as a hexadecimal
number from an `istringstream`, which skips blanks, accepts a sign and stops at
the first character that is no digit, and does not look at what is left. The
run `url_decode` shows a target that is decoded instead of refused: `/%+5` is
answered as a file that is not there, not as a bad request. That it refuses
no valid encoding is proved (`ValidIsDecoded`).

One more disagreement has nothing to check: the repository's README gives
`chat_server <host> <port>`, `chat_server.cpp:185` takes a list of ports.

## 4. Proofs

All theorems hold for every value of the constants that the assumptions of the
modules allow.

`ChatServerProofs` proves of `ChatServer`, for every set of clients, every bound
on what they send and every size of the replay buffer:

| Theorem | Statement |
|---|---|
| `TypeCorrect` | `Spec => []TypeOK` |
| `WriteInProgressCorrect` | `Spec => []WriteInProgress` |
| `ParticipantsReadCorrect` | `Spec => []ParticipantsAreReading` |
| `StreamCorrect` | `Spec => []StreamIsStretchOfLog` |
| `LeavingCorrect` | `Spec => LeavingIsFinal` |
| `SendersCorrect` | `Spec => []SendersInOrder` |
| `ServerImplementsFeed` | `Spec => Feed!Safety` |

The assumptions are those of the module: the bound on frames is a natural
number, the replay buffer holds at least one message.

*First invariant.* `IInv` is `TypeOK`, `FreshIsEmpty`, `WriteInProgress` and
`ParticipantsAreReading`. Neither of the last two is inductive alone: that an
empty queue means no write needs to know that a failed write has taken its
session out of the room, and that a session that has not been accepted yet has
neither queue nor reader (`FreshIsEmpty`), so that joining starts from nothing.
There is one lemma per group of actions: the environment, `Accept`, the two
outcomes of the reading handlers, the two of the writing handler.

*Second invariant.* `StreamIsStretchOfLog` says that there is some position in
the log where a stream begins; a step cannot be shown to keep an
existential of that kind as easily as two stronger facts. `StreamsAligned`: a
stream is the part of the log between two positions, which ends at the log's end as
long as the session is in the room. `RecentIsEndOfLog`: `recent` is the last
`MaxRecent` messages of the log, or all of it. The second one is what a joining
session needs, whose whole stream is the replay. The stream, what is on the
wire and what is queued behind it, does not change when a write completes
(`MoveHead`, `TailConcat`) and grows at its end when a message is delivered
(`DeliverAllEffect`, `ConcatOne`, `TrimAppend`).

`LeavingCorrect` is an action property and follows from `IInv` step by step.

*Third invariant.* `SendersInOrder` speaks of the log only. `InputIsNext` connects it
with what is under way: the room has heard the first `n` messages of a client, and
its unread input goes on after the `n`-th, headers and bodies in turn, at the place
where the session's reading has got to; while a body is to be read, `read_msg_` holds
the header of the same frame. That is so because the message is delivered before the
next header is read: when both are swapped (the mutant `ReadMsgReadAhead`), a header
that has arrived already is in `read_msg_` before the delivery.

*Refinement.* `ServerImplementsFeed` says that the server, seen through the mapping
of `Feed`, starts like `ChatFeed` and that each of its steps is one of `ChatFeed`'s or
changes nothing there: a delivery is `Say`, an `Accept` is `Join`, a write that is done is
`See`, a failing one `CutOff`. It needs `IInv` and the second invariant. The fairness
of `ChatFeed`, the other half of `ImplementsFeed`, stays with TLC.

`HttpServer3Proofs` proves of `HttpServer3`, for every pool of threads, every set
of connections and every bound on the chunks:

| Theorem | Statement |
|---|---|
| `TypeCorrect` | `Spec => []TypeOK` |
| `StrandsExclude` | `Spec => []HandlersDoNotOverlap` |
| `AcceptChainUnbroken` | `Spec => []AcceptChainHolds` |
| `OwnersAreAlone` | `Spec => []OneAtATime` |
| `RepliesFit` | `Spec => []ReplyFitsRequest` |

*Strands.* That two handlers do not overlap is not inductive, because entering
looks at the lock and not at the threads. `StrandInv` says what the lock is for:
whoever is inside a strand is alone there, and the strand is "running". A thread's
step stays outside, stays inside, goes in or goes out (one lemma for each); going
in finds the strand "free" or "posted", so nobody is inside.

*Accepts.* `ChainInv` says that either an accept is outstanding and no thread has
an accept handler before its `do_accept`, or exactly one thread has. Both
invariants speak of sets of threads; the cardinalities of the properties come in at
the end. The set of threads need not be finite.

*Owners.* `OneAtATime` adds up an operation in flight, a handler that waits for
the strand and a thread on its way through one. `OwnerInv` says of every
connection that at most one of the three is there, and what starting one needs: a
connection that has not been accepted, is the socket of a completed accept, or is
about to be started by one thread has no owner yet. Its steps rely on `TypeInv`
(a thread with a handler has a connection, a posted invoker has a handler that
waits, a reply exists before it is written), which is inductive by itself; the types
of the queues of a strand then follow from both.

*Replies.* `FitInv` follows the chunk that decides a request through the hands it passes:
a read that has ended, a handler that waits for the strand, a thread that has parsed
and one that is about to start the write. Whoever has it says what the client will get,
and as `OwnerInv` leaves one owner at a time, nobody else says anything.

`SchedulerProofs` proves of `Scheduler`, for any threads, operations, descriptors and
amounts of data:

| Theorem | Statement |
|---|---|
| `EventsAreNoticed` | `Spec => []ReadyIsNoticed` |
| `ReactorMayReuse` | `Spec => []DescriptorsDequeued` |
| `WakeupsAreNotLost` | `Spec => []NoLostWakeup` |
| `OperationsAreCounted` | `Spec => []WorkIsCounted` |

*Events.* An operation that `start_op` puts behind others, or that has tried in
vain, rests on events that were asked for when the descriptor was registered:
`epoll_ctl` is not called for it. `ReadyIsNoticed`
leaves out the descriptors that nobody waits for, but what happens to them decides:
data that is left when `try_speculative_` has been cleared would not be found by
the next operation. `Noticed` says that there is none, since only the read that comes
to the end of the input is "done and exhausted" and clears it; and that unread data, or an
end that nobody has been told of, with an operation waiting means an event in epoll,
in a queue, in a thread's private queue or in a thread's hands. `Shape` has what this rests on: a thread holds a
descriptor only while it is at `perform_io`, and enters `epoll_wait` with an empty
private queue. There is a lemma for each kind of step: those that only wake or sleep, those
that take from the queue (`LoopKeepsReady`, over `ItemsOfConcat`: moving operations
between queues loses none), `epoll_wait`'s return, pushing, starting, cancelling,
`perform_io`, the arrival of data and the end of the input.

*The task.* `TaskInv` adds where the task is: in the queue or in one thread's
hands, never both, and in a tidy queue the descriptors stand in front of it. So whoever
takes the task has left none of them behind.

*Wake-ups.* `WakeInv` has what a thread that queues something may rely on. As long as
somebody blocks in `epoll_wait` and `task_interrupted_` is set, the interrupter is among
the events; as long as somebody waits and the queue is not empty, the event is set; and
if all are asleep, someone has a signal to send or the interrupter is readable. With
the concurrency hint 1, when no signals are sent, there is nobody else to be woken
(`OneRuns`).

*Work.* `WorkIsCounted` compares cardinalities of sets of places, one place for each
occurrence of an operation. `CountInv` adds that these sets are finite and what a thread
has in its hands at each step (`Employed`), so that a place can be counted by
what the thread is doing (`Load`). `StepBalances` says that a step of one thread keeps
the count when the difference it makes to the work is that to the places;
`FamilyChanges` and `CountedChanges` reduce the sums over all threads to the one that
moves. Each step is then a small sum: `perform_io` takes `n` operations from a
descriptor, has one in its hands and `n - 1` to push, or for `n = 0` one unit to make up.

`HttpServer1Proofs` proves of `HttpServer1`, for every set of connections:

| Theorem | Statement |
|---|---|
| `TypeCorrect` | `Spec => []TypeOK` |
| `ManagerKnows` | `Spec => []ManagedAreOpen` |
| `AcceptGoesOn` | `Spec => []AcceptIsOutstanding` |
| `RepliesFit` | `Spec => []ReplyFitsRequest` |

`TypeInv` is `TypeOK` and that a reply exists when it is written. With it
`ManagedAreOpen` is inductive: what `stop_all` aborts, it also takes out of the manager.
The acceptor's property needs nothing else. For the replies, `Fits` says of each
connection what its one operation, with the outcome it has by now, knows of the chunks.

`HttpServer4Proofs` proves `RepliesFit`, `Spec => []ReplyFitsRequest`, for any clients
and chunks. That a child does not answer out of another one's buffer rests on
`Numbered`: the n-th coroutine that is forked has the n-th socket and the n-th buffer
for itself, and the parent the one after.

`ChatClientProofs` proves `WritesAreStarted`, `Spec => []WriteInProgress`, and
`TypeCorrect` for any numbers of lines, frames and endpoints. They need each other: a
write's handler takes the head of a queue that must not be empty. The
strengthening is `AttemptNeedsSocket`: an attempt to connect is under way only on
a socket that is still connecting, so that a closed socket, which excuses lines
that nobody writes, never becomes a connected one. `LinesKeepTheirOrder`,
`Spec => []LinesInOrder`, rests on `InOrder`: what is on the wire, in the write queue and
posted but not yet run is, one behind the other, what was typed.

Of the codec in `ChatMessage` it proves, for every four bytes and every length:
`BodyFits` (what `decode_header` leaves fits the body's buffer), `NegativeIsRejected`
(a negative number wraps around in the `size_t` and is rejected) and `RoundTrip`. They
assume that a `size_t` has at least 16 bits.

`RequestParserProofs` proves of `RequestParser`, for texts of any length:

| Theorem | Statement |
|---|---|
| `TypeCorrect` | `Spec => []TypeOK` |
| `GrammarAccepted` | `Spec => []GoodIsValid` |
| `VerdictsAreTimely` | `Spec => []VerdictIsTimely` |
| `RequestsAreMeant` | `Spec => []RequestIsMeaning` |

In the states that append to `headers.back()` there is a header (`Fits`); this is
`TypeCorrect`. The next two compare a machine that sees one byte at a time with a
grammar that sees a whole text. What the machine knows is said by `Read`: the lines
that have ended are good ones, and the rest has the `Shape` of the state, which says
how much of which form of line it is. A byte that the machine accepts leads from shape
to shape (`ShapeMoves`) and the last one to a valid text (`ReadEnds`). A byte that it
refuses cannot be followed by anything that makes the text valid: whatever comes
later, the same line would have to be of a form that the byte contradicts (`EarlyNeeds`,
`LateNeeds`, `ReadIsDoomed`). And from every state a tail of `Shortest` leads to a
valid text (`ReadCanComplete`). The lines of a text that grows are an induction over its
length; it is done over sets of numbers (`InductionOnNat`), which follows from what the
library says of finite sets.

`RequestsAreMeant` compares what the machine appends, byte by byte, with `Meaning`,
which takes the finished text apart. `Meant` says it of a text that is not finished:
the method, the URI and the numbers are those of the part of the request line that has
been read, and the headers are `HeadersOf` the lines that have ended, followed by a header
for the line under way, or with the last value made longer by it. One lemma per part says
that a byte keeps this (`NumbersGrow`, `EarlyBuilds`, `LateBuilds`), one that a
line's end does (`LateEndsBuilds`): the header of the line is then the one that the
grammar gives, and those of the lines before stay as they are, unless the line continues
the last one (`HeadersStayWith`, `HeaderComesLast`, `LastHeaderGrows`). A version number
and a continued value are defined by recursion, over digits and over lines; that these
functions exist and are unique is proved here (`Recursion`, `RecursionIsUnique`), and so
is how they grow (`OnesGrow`, `FlattenGrows`).

`ServersProofs` proves what is left of the other servers, each from its own
specification:

| Theorem | Statement |
|---|---|
| `RepliesReachSenders` | `Spec => []RepliesGoToSenders` of `Daytime` |
| `TurnsAreSpread` | `Spec => []IoContextsAreSpread` of `HttpServer2` |
| `LoopStaysInside`, `ValidIsDecoded`, `PlainIsUnchanged` | of `RequestHandler`, for every target: the index stays within the text, no valid encoding is refused, and without `%` and `+` the output is what has been read |

For the datagrams, `UdpInv` counts: a receive has been replied to, or its reply
waits in the socket's queue, or its handler has not run, so the place of a waiting
reply in the queue tells which receive it answers; and `remote_endpoint_` is the
sender that was heard last. It needs that no endpoint is called `"error"` or
`"nobody"`, the two marks of the history (`NamesAssumption`). For the pool, `PoolInv`
says that there have been some whole rounds and that in the one under way the
contexts before `next` have had their turn; that there is one to begin with, when
the signal set, the acceptor and the first socket have taken three turns of a pool
that may be smaller, is `PoolInit`. `url_decode` rests on `LoopInv`, types together
with the bound of the index.

**Only model-checked.** Liveness, and with it everything that rests on fairness, the
liveness half of `ChatFeed` included: the provers at hand do not do it, nor `ENABLED`.
Every invariant that a passing run checks is proved, and so are the action property
and the safety part of the refinement. What the two failing runs show are
counterexamples, which need no proof.

## 5. Plan

Done: the chat system with its codec, HTTP servers 1 to 4, parser and request
handler, the scheduler with its reactor, the asynchronous daytime servers, and the
proofs of their invariants. Left, in this order:

1. A specification of a strand as "one handler at a time, none left behind" that
   `HttpServer3` implements, and the safety part of that proved.
2. The relay of the SOCKS 5 server and the TLS echo session, if what they should
   do is ever said somewhere.

## 6. Not modelled

*The vendored Boost headers* are by far the largest part of `src/`, nearly all of it
templates that adapt types, forwarding layers over system calls, and services that
none of the programs use. Modelled is where a program's correctness rests on the
order of steps: the scheduler's loop and wake-ups, stop, the epoll reactor's
operations that read and try at once, the strand, and the range connect operation. Of those parts
not modelled are `run_one`, `poll`, `wait_one` and `restart`, timers, the write and
except queues of a descriptor (same code, no second property), descriptors that fail or
are deregistered, waits and connection attempts, which do not try at once (for these `start_op`
does call `epoll_ctl`), and exceptions that leave a handler: the programs use none of them
in a way that could interleave.

*The SOCKS 5 server and client.* A thread per client with blocking calls on its own two
sockets; threads share only the `io_context` object, which nobody runs. The relay
receives into vectors of size zero, so that what it relays is fixed: nothing.

*SOCKS 4 types, requests with and without proxy, the TLS proxy, timer_1 to 4,
daytime_1, 2, 4 and 5, composed and deferred operations.* Each is one sequence of blocking
calls or waits, run once or in one loop, with no state that anything else changes.
In timer_5 only the second thread calls `run()` while `main` waits for it, so the
strand has nothing to keep apart.

*The TLS echo programs.* Sessions read and write in turn as in the HTTP servers; what
differs is the handshake, which is library code.

Abstracted everywhere: name resolution, the file system (which names can be opened is
a constant), the display names of chat sessions, logging. The growth of `write_msgs_`
for a client that does not read has no limit in the code, so there is none to state.
The version number of a request overflows its `int` at ten digits; nothing reads it.
