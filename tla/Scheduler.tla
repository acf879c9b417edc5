------------------------------ MODULE Scheduler ------------------------------
(***************************************************************************)
(* The event loop that every program here runs: Boost.Asio's scheduler,    *)
(* its wakeup event and its epoll reactor.  Threads that call run() share  *)
(* a queue of operations.  One of them at a time holds the task, that is,  *)
(* waits in epoll_wait for sockets to become ready; the others sleep until *)
(* there is something in the queue; stop() and the end of all outstanding  *)
(* work end them all.                                                      *)
(*                                                                         *)
(* What happens between locking and unlocking the scheduler's mutex, or a  *)
(* descriptor's, is one step.  A signal to the condition variable is sent  *)
(* after the mutex has been unlocked, so it is a step of its own.          *)
(***************************************************************************)
EXTENDS Naturals, FiniteSets, SequencesExt

CONSTANTS
    Thread,    \* threads that may start operations, and may call run()
    Op,        \* operations that they may start, each with its handler
    Desc,      \* descriptors that are registered with the reactor
    MaxData    \* bound: pieces of data that wait to be read

ASSUME NamesAssumption ==
    /\ Op \cap Desc = {}
    /\ {"task", "none", "interrupter"} \cap (Op \cup Desc) = {}

ASSUME MaxDataAssumption == MaxData \in Nat

VARIABLES
    oneThread,        \* one_thread_: the concurrency hint was 1
    opQueue,          \* op_queue_, with "task" for task_operation_
    outstanding,      \* outstanding_work_
    stopped,          \* stopped_
    taskInterrupted,  \* task_interrupted_
    signalled,        \* posix_event::state_, its lowest bit
    toSignal,         \* threads that have yet to call pthread_cond_signal
    at,               \* what each thread is doing
    privateQueue,     \* thread_info::private_op_queue
    privateWork,      \* thread_info::private_outstanding_work
    waiting,          \* descriptor_state::op_queue_, of operations that read
    speculative,      \* descriptor_state::try_speculative_
    data,             \* pieces of data that the descriptor has to be read
    eof,              \* the end of its input: "none" yet, "unread" or "read"
    edge,             \* events that epoll_wait has yet to report
    unused            \* operations that nobody has started yet

queueVars   == <<opQueue, outstanding>>
eventVars   == <<stopped, taskInterrupted, signalled, toSignal>>
privateVars == <<privateQueue, privateWork>>
descVars    == <<waiting, speculative, data, eof>>
vars == <<oneThread, queueVars, eventVars, at, privateVars, descVars, edge, unused>>

\* How many reads d has something for: each takes a piece of data, and one
\* more the end of the input, which stays readable when it has been read.
Available(d) == data[d] + (IF eof[d] = "none" THEN 0 ELSE 1)

\* The events that epoll_wait finds: the interrupter stays readable, but what
\* a descriptor had may have been read since.
Reported == {e \in edge : e = "interrupter" \/ Available(e) > 0}

-----------------------------------------------------------------------------
(* What a thread is doing: a step, the operation it is completing, "none"  *)
(* outside of handlers, and operations it is about to push on the queue.   *)
(* In "body" it runs a handler, or the program outside of run().           *)

At(step, item) == [step |-> step, item |-> item, ops |-> <<>>]

Outside == At("body", "none")

Goes(t, what) == at' = [at EXCEPT ![t] = what]

Items(q) == {q[i] : i \in DOMAIN q}

\* Inside a handler, where thread_call_stack finds the thread's thread_info.
InHandler(t) == at[t].step = "body" /\ at[t].item # "none"

InRun(t) == /\ at[t].step # "exited"
            /\ at[t].step \in {"body", "push"} => at[t].item # "none"

\* The threads other than t that posix_event::state_ counts as waiters: a
\* thread that has been woken is one until it has the mutex again.
Waiters(t) == {u \in Thread \ {t} : at[u].step \in {"wait", "woken"}}

\* Mutant: the task is not interrupted if nobody waits.
WakeWaiterOnly(t, interrupted) ==
    /\ signalled' = TRUE
    /\ toSignal' = IF Waiters(t) # {} THEN toSignal \cup {t} ELSE toSignal
    /\ taskInterrupted' = interrupted
    /\ UNCHANGED edge

\* wake_one_thread_and_unlock, by t: a waiter if there is one, or else the
\* thread that holds the task, unless it has been interrupted.
WakeOne(t, interrupted) ==
    /\ signalled' = TRUE
    /\ toSignal' = IF Waiters(t) # {} THEN toSignal \cup {t} ELSE toSignal
    /\ taskInterrupted' = (interrupted \/ Waiters(t) = {})
    /\ edge' = IF interrupted \/ Waiters(t) # {} THEN edge
                                                 ELSE edge \cup {"interrupter"}

\* pthread_cond_signal: one of those that sleep wakes up.  If those that the
\* signal was meant for are awake by now, it is lost.
Signal(t) ==
    /\ t \in toSignal
    /\ toSignal' = toSignal \ {t}
    /\ LET asleep == {u \in Thread : at[u].step = "wait"}
       IN  IF asleep = {} THEN UNCHANGED at
           ELSE \E u \in asleep : Goes(u, At("woken", "none"))
    /\ UNCHANGED <<oneThread, queueVars, stopped, taskInterrupted, signalled,
                   privateVars, descVars, edge, unused>>

-----------------------------------------------------------------------------
(* run and do_run_one.                                                     *)

\* A thread calls run(), which calls stop() if there is no work.  A program
\* that gives the hint 1 promises to do so on one thread only.
Run(t) ==
    /\ at[t] = Outside
    /\ oneThread => \A u \in Thread : at[u].step # "exited" /\ ~InRun(u)
    /\ Goes(t, At(IF outstanding = 0 THEN "stopping" ELSE "loop", "none"))
    /\ UNCHANGED <<oneThread, queueVars, eventVars, privateVars, descVars, edge, unused>>

\* The thread locks the mutex to look at the queue: on its way through the
\* loop, when epoll_wait has returned, or woken by an event that is set.
AtQueue(t) ==
    /\ t \notin toSignal
    /\ \/ at[t].step \in {"loop", "collected"}
       \/ (at[t].step = "woken" /\ signalled)

\* Mutant: the task goes back in front of what the reactor has found.
QueueTaskFirst(t) ==
    opQueue \o (IF at[t].step = "collected" THEN <<"task">> ELSE <<>>)
            \o privateQueue[t]

\* The queue as it finds it.  work_cleanup has added the operations that its
\* handler has started, task_cleanup those of the reactor, the task last.
Queue(t) ==
    opQueue \o privateQueue[t]
            \o (IF at[t].step = "collected" THEN <<"task">> ELSE <<>>)

Interrupted(t) == taskInterrupted \/ at[t].step = "collected"

Exit(t) ==
    /\ AtQueue(t) /\ stopped
    /\ opQueue' = Queue(t)
    /\ taskInterrupted' = Interrupted(t)
    /\ privateQueue' = [privateQueue EXCEPT ![t] = <<>>]
    /\ Goes(t, At("exited", "none"))
    /\ UNCHANGED <<oneThread, outstanding, stopped, signalled, toSignal, privateWork,
                   descVars, edge, unused>>

\* Nothing to do: clear the event and wait for it.
Sleep(t) ==
    /\ AtQueue(t) /\ ~stopped /\ Queue(t) = <<>>
    /\ signalled' = FALSE
    /\ Goes(t, At("wait", "none"))
    /\ UNCHANGED <<oneThread, queueVars, stopped, taskInterrupted, toSignal,
                   privateVars, descVars, edge, unused>>

\* posix_event::wait finds that the event has been cleared meanwhile.
SleepOn(t) ==
    /\ at[t].step = "woken" /\ ~signalled
    /\ Goes(t, At("wait", "none"))
    /\ UNCHANGED <<oneThread, queueVars, eventVars, privateVars, descVars, edge, unused>>

\* pthread_cond_wait may return without a reason.
SpuriousWakeup(t) ==
    /\ at[t].step = "wait"
    /\ Goes(t, At("woken", "none"))
    /\ UNCHANGED <<oneThread, queueVars, eventVars, privateVars, descVars, edge, unused>>

\* The task is next.  It blocks only if nothing is behind it in the queue;
\* otherwise another thread is to look at the rest.
TakeTask(t) ==
    /\ AtQueue(t) /\ ~stopped
    /\ Queue(t) # <<>> /\ Head(Queue(t)) = "task"
    /\ LET more == Len(Queue(t)) > 1
       IN  /\ taskInterrupted' = more
           /\ IF more /\ ~oneThread
              THEN /\ signalled' = TRUE
                   /\ toSignal' = IF Waiters(t) # {} THEN toSignal \cup {t} ELSE toSignal
              ELSE UNCHANGED <<signalled, toSignal>>
           /\ Goes(t, At(IF more THEN "poll" ELSE "block", "none"))
    /\ opQueue' = Tail(Queue(t))
    /\ privateQueue' = [privateQueue EXCEPT ![t] = <<>>]
    /\ UNCHANGED <<oneThread, outstanding, stopped, privateWork, descVars, edge, unused>>

TakeOperation(t) ==
    /\ AtQueue(t) /\ ~stopped
    /\ Queue(t) # <<>> /\ Head(Queue(t)) # "task"
    /\ IF Len(Queue(t)) > 1 /\ ~oneThread
       THEN WakeOne(t, Interrupted(t))
       ELSE /\ taskInterrupted' = Interrupted(t)
            /\ UNCHANGED <<signalled, toSignal, edge>>
    /\ Goes(t, At(IF Head(Queue(t)) \in Desc THEN "complete" ELSE "body", Head(Queue(t))))
    /\ opQueue' = Tail(Queue(t))
    /\ privateQueue' = [privateQueue EXCEPT ![t] = <<>>]
    /\ UNCHANGED <<oneThread, outstanding, stopped, privateWork, descVars, unused>>

\* The handler has returned: work_cleanup settles the count of work, which
\* takes in what the handler has started on the side, and stops the
\* scheduler if nothing is left.
Return(t) ==
    /\ t \notin toSignal
    /\ InHandler(t) \/ at[t].step = "return"
    /\ outstanding' = (outstanding + privateWork[t]) - 1
    /\ privateWork' = [privateWork EXCEPT ![t] = 0]
    /\ Goes(t, At(IF outstanding' = 0 THEN "stopping" ELSE "loop", "none"))
    /\ UNCHANGED <<oneThread, opQueue, eventVars, privateQueue, descVars, edge, unused>>

-----------------------------------------------------------------------------
(* stop: it wakes every waiter and interrupts the task.                    *)

\* Mutant: stop wakes the threads and forgets the task.
StopWaiters(self, what) ==
    /\ stopped' = TRUE
    /\ signalled' = TRUE
    /\ at' = [u \in Thread |->
                 CASE u = self -> what
                   [] at[u].step = "wait" -> At("woken", "none")
                   [] OTHER -> at[u]]
    /\ UNCHANGED <<oneThread, queueVars, taskInterrupted, toSignal, privateVars,
                   descVars, edge, unused>>

StopAll(self, what) ==
    /\ stopped' = TRUE
    /\ signalled' = TRUE
    /\ taskInterrupted' = TRUE
    /\ edge' = IF taskInterrupted THEN edge ELSE edge \cup {"interrupter"}
    /\ at' = [u \in Thread |->
                 CASE u = self -> what
                   [] at[u].step = "wait" -> At("woken", "none")
                   [] OTHER -> at[u]]
    /\ UNCHANGED <<oneThread, queueVars, toSignal, privateVars, descVars, unused>>

\* A handler calls stop().
CallStop(t) ==
    /\ InHandler(t) /\ t \notin toSignal
    /\ StopAll(t, at[t])

\* work_finished, or run() at its beginning, calls stop().
OutOfWork(t) ==
    /\ at[t].step = "stopping"
    /\ StopAll(t, At("loop", "none"))

-----------------------------------------------------------------------------
(* post_immediate_completion and post_deferred_completions.                *)

\* Operations whose work has been counted: they go on the queue once t has
\* the mutex, or if there is one thread, on its private queue.
Hand(t, item, ops) ==
    IF oneThread /\ item # "none"
    THEN /\ privateQueue' = [privateQueue EXCEPT ![t] = @ \o ops]
         /\ Goes(t, At("body", item))
    ELSE /\ Goes(t, [step |-> "push", item |-> item, ops |-> ops])
         /\ UNCHANGED privateQueue

Push(t) ==
    /\ at[t].step = "push"
    /\ opQueue' = opQueue \o at[t].ops
    /\ WakeOne(t, taskInterrupted)
    /\ Goes(t, At("body", at[t].item))
    /\ UNCHANGED <<oneThread, outstanding, stopped, privateVars, descVars, unused>>

\* A new operation whose handler can be called.  A handler that continues
\* with it keeps it, and the work it means, to its own thread.
Immediate(t, o, continuation) ==
    IF (oneThread \/ continuation) /\ InHandler(t)
    THEN /\ privateWork' = [privateWork EXCEPT ![t] = @ + 1]
         /\ privateQueue' = [privateQueue EXCEPT ![t] = Append(@, o)]
         /\ UNCHANGED <<outstanding, at>>
    ELSE /\ outstanding' = outstanding + 1
         /\ Goes(t, [step |-> "push", item |-> at[t].item, ops |-> <<o>>])
         /\ UNCHANGED privateVars

Post(t, o, continuation) ==
    /\ at[t].step = "body" /\ t \notin toSignal
    /\ o \in unused
    /\ unused' = unused \ {o}
    /\ Immediate(t, o, continuation)
    /\ UNCHANGED <<oneThread, opQueue, eventVars, descVars, edge>>

-----------------------------------------------------------------------------
(* The reactor.                                                            *)

\* Something arrives at a descriptor; its events are edge-triggered.
DataArrives(d) ==
    /\ eof[d] = "none" /\ data[d] < MaxData
    /\ data' = [data EXCEPT ![d] = @ + 1]
    /\ edge' = edge \cup {d}
    /\ UNCHANGED <<oneThread, queueVars, eventVars, at, privateVars, waiting,
                   speculative, eof, unused>>

\* The other side closes the connection, or breaks it.
InputEnds(d) ==
    /\ eof[d] = "none"
    /\ eof' = [eof EXCEPT ![d] = "unread"]
    /\ edge' = edge \cup {d}
    /\ UNCHANGED <<oneThread, queueVars, eventVars, at, privateVars, waiting,
                   speculative, data, unused>>

\* n operations at d perform, the first to the last.  The one that comes to
\* the end of the input is done_and_exhausted, and turns speculation off.
Performed(d, n) ==
    /\ data' = [data EXCEPT ![d] = IF n > @ THEN 0 ELSE @ - n]
    /\ eof' = [eof EXCEPT ![d] = IF n > data[d] THEN "read" ELSE @]
    /\ speculative' = [speculative EXCEPT ![d] = n <= data[d]]

\* start_op: an operation that finds the descriptor idle tries at once, if
\* there is reason to hope; otherwise, and behind others, it waits for an
\* event.  epoll is told nothing: a read is what the descriptor has been
\* registered for.
StartOp(t, d, o, continuation) ==
    /\ at[t].step = "body" /\ t \notin toSignal
    /\ o \in unused
    /\ unused' = unused \ {o}
    /\ IF waiting[d] = <<>> /\ speculative[d] /\ Available(d) > 0
       THEN /\ Performed(d, 1)
            /\ Immediate(t, o, continuation)
            /\ UNCHANGED waiting
       ELSE /\ waiting' = [waiting EXCEPT ![d] = Append(@, o)]
            /\ outstanding' = outstanding + 1
            /\ UNCHANGED <<at, privateVars, speculative, data, eof>>
    /\ UNCHANGED <<oneThread, opQueue, eventVars, edge>>

\* cancel_ops: what waits at a descriptor gets an error.
CancelOps(t, d) ==
    /\ InHandler(t) /\ t \notin toSignal
    /\ waiting[d] # <<>>
    /\ waiting' = [waiting EXCEPT ![d] = <<>>]
    /\ Hand(t, at[t].item, waiting[d])
    /\ UNCHANGED <<oneThread, queueVars, eventVars, privateWork, speculative, data,
                   eof, edge, unused>>

\* epoll_wait returns, at once if it is not to block, and the descriptors it
\* reports are to be looked at, in any order.
EpollReturns(t) ==
    /\ t \notin toSignal
    /\ at[t].step = "poll" \/ (at[t].step = "block" /\ Reported # {})
    /\ \E ready \in SetToSeqs(Reported \cap Desc) :
          privateQueue' = [privateQueue EXCEPT ![t] = ready]
    /\ edge' = {}
    /\ Goes(t, At("collected", "none"))
    /\ UNCHANGED <<oneThread, queueVars, eventVars, privateWork, descVars, unused>>

\* Mutant: perform_io stops after the first operation.
FirstProgress(d) == IF Available(d) = 0 \/ waiting[d] = <<>> THEN 0 ELSE 1

\* How many of the operations that wait perform_io completes: it goes on as
\* long as there is data, and to the end of the input once.
Progress(d) ==
    IF Available(d) < Len(waiting[d]) THEN Available(d) ELSE Len(waiting[d])

\* Mutant: nothing makes up for the work_finished that follows.
NoCompensatingWork(t) == UNCHANGED privateWork

\* compensating_work_started
CompensatingWork(t) == privateWork' = [privateWork EXCEPT ![t] = @ + 1]

\* descriptor_state::do_complete: the first operation that perform_io has
\* done is completed now, the others go on the queue.
PerformIo(t) ==
    /\ at[t].step = "complete" /\ t \notin toSignal
    /\ LET d    == at[t].item
           n    == Progress(d)
           done == SubSeq(waiting[d], 1, n)
       IN  /\ Performed(d, n)
           /\ waiting' = [waiting EXCEPT ![d] = SubSeq(@, n + 1, Len(@))]
           /\ \/ /\ n = 0
                 /\ CompensatingWork(t)
                 /\ Goes(t, At("return", "none"))
                 /\ UNCHANGED privateQueue
              \/ n = 1 /\ Goes(t, At("body", done[1])) /\ UNCHANGED privateVars
              \/ n > 1 /\ Hand(t, done[1], Tail(done)) /\ UNCHANGED privateWork
    /\ UNCHANGED <<oneThread, queueVars, eventVars, edge, unused>>

-----------------------------------------------------------------------------
\* The program has made its I/O objects, so that the task is in the queue.
Init ==
    /\ oneThread \in BOOLEAN
    /\ opQueue = <<"task">>
    /\ outstanding = 0
    /\ stopped = FALSE
    /\ taskInterrupted = TRUE
    /\ signalled = FALSE
    /\ toSignal = {}
    /\ at = [t \in Thread |-> Outside]
    /\ privateQueue = [t \in Thread |-> <<>>]
    /\ privateWork = [t \in Thread |-> 0]
    /\ waiting = [d \in Desc |-> <<>>]
    /\ speculative = [d \in Desc |-> TRUE]
    /\ data = [d \in Desc |-> 0]
    /\ eof = [d \in Desc |-> "none"]
    /\ edge = {"interrupter"}
    /\ unused = Op

\* What a thread does by itself; a handler returns sooner or later.
Step(t) ==
    \/ Signal(t) \/ Exit(t) \/ Sleep(t) \/ SleepOn(t)
    \/ TakeTask(t) \/ TakeOperation(t) \/ EpollReturns(t) \/ PerformIo(t)
    \/ Push(t) \/ Return(t) \/ OutOfWork(t)

Next ==
    \/ \E t \in Thread :
          \/ Step(t) \/ Run(t) \/ SpuriousWakeup(t) \/ CallStop(t)
          \/ \E o \in Op, continuation \in BOOLEAN :
                \/ Post(t, o, continuation)
                \/ \E d \in Desc : StartOp(t, d, o, continuation)
          \/ \E d \in Desc : CancelOps(t, d)
    \/ \E d \in Desc : DataArrives(d) \/ InputEnds(d)

Fairness == \A t \in Thread : WF_vars(Step(t))

Spec == Init /\ [][Next]_vars /\ Fairness

-----------------------------------------------------------------------------
(* Properties.                                                             *)

\* A thread that does nothing until something wakes it.
Idle(t) == at[t].step = "wait" \/ (at[t].step = "block" /\ Reported = {})

\* A thread that is about to look at the queue, or to wake one that is.
Coming(t) ==
    \/ at[t].step \in {"loop", "woken", "collected", "poll"}
    \/ (at[t].step = "block" /\ Reported # {})
    \/ t \in toSignal

\* Nobody sleeps while there is something to do: if the queue is not empty
\* and a thread is idle, some thread is on its way to the queue, or a signal
\* to one of those that sleep.
NoLostWakeup ==
    (opQueue # <<>> /\ ~stopped /\ \E t \in Thread : Idle(t))
        => \E t \in Thread : Coming(t)

\* What t has in its hands: its private queue, what it is about to push, and
\* the operation that it is completing.
Held(t) == privateQueue[t] \o at[t].ops \o <<at[t].item>>

\* Each occurrence of an operation in q, which is what x has of this kind.
Occurrences(kind, x, q) == {<<kind, x, i>> : i \in {j \in DOMAIN q : q[j] \in Op}}

\* Each occurrence of an operation that has been started and not ended.
Unfinished ==
    Occurrences("queue", "shared", opQueue)
    \cup (UNION {Occurrences("thread", t, Held(t)) : t \in Thread})
    \cup (UNION {Occurrences("waiting", d, waiting[d]) : d \in Desc})

\* outstanding_work_ together with what threads have counted for themselves
\* is the number of unfinished operations: run() sees the count reach zero
\* neither early nor late.  The reactor's descriptors are no work of their
\* own, although the loop treats them as if they were.
WorkIsCounted ==
    outstanding + Cardinality(UNION {{t} \X (1..privateWork[t]) : t \in Thread})
      = Cardinality(Unfinished)
          + Cardinality({t \in Thread : at[t].step = "return"})

\* Data, or the end of the input, that no operation has been told of.
Unread(d) == data[d] > 0 \/ eof[d] = "unread"

\* An operation never waits for what is there to be read, unless the event
\* that will bring it is still under way: the edge is reported once only, and
\* start_op asks for no other.  It does wait for an end of the input that an
\* earlier operation has been told of.
ReadyIsNoticed ==
    \A d \in Desc : waiting[d] # <<>> /\ Unread(d) =>
        \/ d \in edge \cup Items(opQueue)
        \/ \E t \in Thread : at[t].item = d \/ d \in Items(privateQueue[t])

\* What epoll_reactor::run relies on to reuse its descriptor operations: when
\* it is called, all those it has returned before have been dequeued.
DescriptorsDequeued ==
    (\E t \in Thread : at[t].step \in {"poll", "block"}) =>
        Desc \cap (Items(opQueue) \cup UNION {Items(privateQueue[t]) : t \in Thread}) = {}

\* As long as somebody is in run() and nothing stops the scheduler, every
\* operation whose time has come is completed.
HandlersRun ==
    \A o \in Op :
        (o \in Items(opQueue) /\ \E t \in Thread : InRun(t))
            ~> (stopped \/ \E t \in Thread : (InHandler(t) /\ at[t].item = o))

\* run() returns once the scheduler has been stopped, or is out of work.
Quiet == stopped \/ (unused = {} /\ Unfinished = {})

RunReturns == \A t \in Thread : (InRun(t) /\ Quiet) ~> at[t].step = "exited"
=============================================================================
