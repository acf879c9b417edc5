--------------------------- MODULE SchedulerProofs ---------------------------
(***************************************************************************)
(* What is proved of Scheduler for any threads, operations, descriptors    *)
(* and amounts of data: an event that is reported once only is not lost,   *)
(* the reactor has its descriptors back when it waits for events, no       *)
(* wakeup is lost, and the count of outstanding work is that of the        *)
(* operations that have been started and have not ended.                   *)
(***************************************************************************)
EXTENDS Scheduler, FiniteSetTheorems, TLAPS

Queued == Op \cup Desc \cup {"task"}

\* A thread has a descriptor in its hands only while it is at its perform_io,
\* and nothing on its private queue while it waits for events.
Apt(doing, private) ==
    /\ doing.step = "complete" <=> doing.item \in Desc
    /\ doing.step \in {"poll", "block"} => private = <<>>
    /\ doing.step = "push" => doing.ops \in Seq(Op)

\* What the variables hold.
Shape ==
    /\ opQueue \in Seq(Queued)
    /\ privateQueue \in [Thread -> Seq(Op \cup Desc)]
    /\ waiting \in [Desc -> Seq(Op)]
    /\ speculative \in [Desc -> BOOLEAN]
    /\ data \in [Desc -> Nat]
    /\ eof \in [Desc -> {"none", "unread", "read"}]
    /\ IsFiniteSet(edge)
    /\ at = [t \in Thread |-> at[t]]
    /\ \A t \in Thread : Apt(at[t], privateQueue[t])

\* Somebody is going to look at d.
UnderWay(d) ==
    \/ d \in edge \cup Items(opQueue)
    \/ \E t \in Thread : at[t].item = d \/ d \in Items(privateQueue[t])

\* What an operation that is started now would read, it tries to read: the
\* speculation is off only behind the end of the input.  What operations wait
\* for, if it is there, an event is under way for.
Noticed ==
    \A d \in Desc :
        /\ ~speculative[d] => data[d] = 0 /\ eof[d] = "read"
        /\ Unread(d) /\ waiting[d] # <<>> => UnderWay(d)

ReadyInv == Shape /\ Noticed

-----------------------------------------------------------------------------
(* Sequences and their items.                                              *)

LEMMA Concatenation ==
    ASSUME NEW S, NEW p \in Seq(S), NEW q \in Seq(S)
    PROVE  /\ Len(p) \in Nat /\ Len(q) \in Nat /\ DOMAIN p = 1..Len(p)
           /\ DOMAIN (p \o q) = 1..(Len(p) + Len(q))
           /\ \A i \in 1..Len(p) : (p \o q)[i] = p[i]
           /\ \A i \in 1..Len(q) : (p \o q)[Len(p) + i] = q[i]
OBVIOUS

LEMMA ItemsOfConcat ==
    ASSUME NEW S, NEW p \in Seq(S), NEW q \in Seq(S)
    PROVE  p \o q \in Seq(S) /\ Items(p \o q) = Items(p) \cup Items(q)
<1>1. /\ p \o q \in Seq(S) /\ Len(p \o q) = Len(p) + Len(q)
      /\ \A i \in 1..Len(p) : (p \o q)[i] = p[i]
      /\ \A i \in 1..Len(q) : (p \o q)[Len(p) + i] = q[i]
  OBVIOUS
<1>2. ASSUME NEW i \in 1..(Len(p) + Len(q))
      PROVE  i \in 1..Len(p) \/ \E j \in 1..Len(q) : i = Len(p) + j
  <2>1. i \in 1..Len(p) \/ (i - Len(p) \in 1..Len(q) /\ i = Len(p) + (i - Len(p)))
    OBVIOUS
  <2> QED BY <2>1
<1>3. Items(p \o q) \subseteq Items(p) \cup Items(q)
  BY <1>1, <1>2 DEF Items
<1>4. \A i \in 1..Len(p) : i \in 1..(Len(p) + Len(q))
  OBVIOUS
<1>5. \A i \in 1..Len(q) : Len(p) + i \in 1..(Len(p) + Len(q))
  OBVIOUS
<1>6. Items(p) \cup Items(q) \subseteq Items(p \o q)
  BY SMTT(30), <1>1, <1>4, <1>5 DEF Items
<1> QED BY <1>1, <1>3, <1>6

LEMMA ItemsOfTail ==
    ASSUME NEW S, NEW q \in Seq(S), q # <<>>
    PROVE  /\ Head(q) \in S /\ Tail(q) \in Seq(S)
           /\ Items(q) = {Head(q)} \cup Items(Tail(q))
<1>1. /\ Head(q) = q[1] /\ Len(Tail(q)) = Len(q) - 1 /\ Len(q) \in Nat /\ Len(q) >= 1
      /\ \A i \in 1..(Len(q) - 1) : Tail(q)[i] = q[i + 1]
      /\ Head(q) \in S /\ Tail(q) \in Seq(S)
  OBVIOUS
<1>2. Items(Tail(q)) \subseteq Items(q) /\ Head(q) \in Items(q)
  BY <1>1 DEF Items
<1>3. ASSUME NEW i \in 1..Len(q)
      PROVE  i = 1 \/ \E j \in 1..(Len(q) - 1) : i = j + 1
  <2>1. i = 1 \/ (i - 1 \in 1..(Len(q) - 1) /\ i = (i - 1) + 1)
    BY <1>1
  <2> QED BY <2>1
<1>4. Items(q) \subseteq {Head(q)} \cup Items(Tail(q))
  <2> SUFFICES ASSUME NEW i \in 1..Len(q), q[i] # Head(q)
               PROVE  q[i] \in Items(Tail(q))
    BY DEF Items
  <2>1. PICK j \in 1..(Len(q) - 1) : i = j + 1
    BY <1>1, <1>3
  <2>2. j \in DOMAIN Tail(q) /\ Tail(q)[j] = q[i]
    BY <1>1, <2>1
  <2> QED BY <2>2 DEF Items
<1> QED BY <1>1, <1>2, <1>4

LEMMA ItemsOfNone == Items(<<>>) = {}
  BY DEF Items

LEMMA ItemsOfOne == \A x : Items(<<x>>) = {x}
  BY DEF Items

\* The order in which a finite set is put leaves none of it out.
LEMMA ItemsOfSetToSeqs ==
    ASSUME NEW S, IsFiniteSet(S), NEW q \in SetToSeqs(S)
    PROVE  q \in Seq(S) /\ Items(q) = S
<1> DEFINE n == Cardinality(S)
<1>1. n \in Nat
  BY FS_CardinalityType
<1>2. q \in [1..n -> S] /\ \A i, j \in 1..n : i # j => q[i] # q[j]
  BY DEF SetToSeqs
<1>3. q \in Seq(S) /\ DOMAIN q = 1..n
  BY <1>1, <1>2
<1>4. q \in Injection(1..n, S)
  BY <1>2 DEF Injection, IsInjective
<1>5. Cardinality(1..n) = n
  BY <1>1, FS_Interval
<1> HIDE DEF n
<1>6. q \in Surjection(1..n, S)
  BY <1>4, <1>5, FS_Injection DEF n
<1> QED BY <1>2, <1>3, <1>6 DEF Items, Surjection

-----------------------------------------------------------------------------
(* What all steps have in common.                                          *)

\* One thread goes on and does something to its private queue.
LEMMA OneGoes ==
    ASSUME Shape, NEW t \in Thread, NEW what, Goes(t, what),
           NEW private \in Seq(Op \cup Desc),
           privateQueue' = [privateQueue EXCEPT ![t] = private],
           Apt(what, private)
    PROVE  /\ at'[t] = what /\ \A u \in Thread : u # t => at'[u] = at[u]
           /\ privateQueue'[t] = private
           /\ \A u \in Thread : u # t => privateQueue'[u] = privateQueue[u]
           /\ at' = [u \in Thread |-> at'[u]]
           /\ privateQueue' \in [Thread -> Seq(Op \cup Desc)]
           /\ \A u \in Thread : Apt(at'[u], privateQueue'[u])
<1>1. /\ at'[t] = what /\ \A u \in Thread : u # t => at'[u] = at[u]
      /\ at' = [u \in Thread |-> at'[u]]
  BY DEF Shape, Goes
<1>2. /\ privateQueue'[t] = private
      /\ \A u \in Thread : u # t => privateQueue'[u] = privateQueue[u]
      /\ privateQueue' \in [Thread -> Seq(Op \cup Desc)]
  BY DEF Shape
<1>3. \A u \in Thread : Apt(at'[u], privateQueue'[u])
  <2> SUFFICES ASSUME NEW u \in Thread PROVE Apt(at'[u], privateQueue'[u])
    OBVIOUS
  <2>1. CASE u = t
    BY <1>1, <1>2, <2>1
  <2>2. CASE u # t
    BY <1>1, <1>2, <2>2 DEF Shape
  <2> QED BY <2>1, <2>2
<1> QED BY <1>1, <1>2, <1>3

\* A step that leaves the descriptors as they are, and loses no event that
\* there is something to read for.
LEMMA StillNoticed ==
    ASSUME Noticed, UNCHANGED descVars,
           \A d \in Desc : Unread(d) /\ UnderWay(d) => UnderWay(d)'
    PROVE  Noticed'
  BY DEF Noticed, descVars, Unread

\* Operations perform: n of them take n pieces of data, or as many as there
\* are and the end of the input.
LEMMA PerformedLeaves ==
    ASSUME Shape, NEW d \in Desc, NEW n \in Nat, n <= Available(d), Performed(d, n),
           ~speculative[d] => data[d] = 0 /\ eof[d] = "read"
    PROVE  /\ data' \in [Desc -> Nat] /\ speculative' \in [Desc -> BOOLEAN]
           /\ eof' \in [Desc -> {"none", "unread", "read"}]
           /\ ~speculative'[d] => data'[d] = 0 /\ eof'[d] = "read"
           /\ n = Available(d) => ~Unread(d)'
           /\ \A e \in Desc : e # d => data'[e] = data[e] /\ speculative'[e] = speculative[e]
                                       /\ eof'[e] = eof[e]
<1>1. data[d] \in Nat /\ eof[d] \in {"none", "unread", "read"}
  BY DEF Shape
<1>2. n > data[d] => n = data[d] + 1 /\ eof[d] # "none"
  BY <1>1 DEF Available
<1>3. PICK left \in Nat : left = (IF n > data[d] THEN 0 ELSE data[d] - n)
  BY <1>1
<1>4. /\ data' = [data EXCEPT ![d] = left]
      /\ eof' = [eof EXCEPT ![d] = IF n > data[d] THEN "read" ELSE eof[d]]
      /\ speculative' = [speculative EXCEPT ![d] = n <= data[d]]
  BY <1>3 DEF Performed
<1>5. /\ data' \in [Desc -> Nat] /\ data'[d] = left
      /\ \A e \in Desc : e # d => data'[e] = data[e]
  BY <1>3, <1>4 DEF Shape
<1>6. /\ eof' \in [Desc -> {"none", "unread", "read"}]
      /\ eof'[d] = (IF n > data[d] THEN "read" ELSE eof[d])
      /\ \A e \in Desc : e # d => eof'[e] = eof[e]
  BY <1>1, <1>4 DEF Shape
<1>7. PICK hope : hope = (n <= data[d])
  OBVIOUS
<1>8. hope \in BOOLEAN /\ (~hope => ~(n <= data[d]))
  <2>1. (n <= data[d]) \in BOOLEAN
    OBVIOUS
  <2>2. hope \in BOOLEAN
    BY <1>7, <2>1, Zenon
  <2>3. hope <=> n <= data[d]
    BY <1>7, Zenon
  <2> QED BY <2>2, <2>3
<1>9. /\ speculative' \in [Desc -> BOOLEAN] /\ speculative'[d] = hope
      /\ \A e \in Desc : e # d => speculative'[e] = speculative[e]
  <2>1. speculative' = [speculative EXCEPT ![d] = hope]
    BY <1>4, <1>7, Zenon
  <2> QED BY <1>8, <2>1 DEF Shape
<1>10. ~hope => data'[d] = 0 /\ eof'[d] = "read"
  BY <1>1, <1>3, <1>5, <1>6, <1>8
<1>11. n = Available(d) => ~Unread(d)'
  BY <1>1, <1>2, <1>3, <1>5, <1>6 DEF Available, Unread
<1> QED BY <1>5, <1>6, <1>9, <1>10, <1>11

\* waking a thread adds at most an event.
LEMMA WakeOneAdds ==
    ASSUME NEW t \in Thread, NEW interrupted, WakeOne(t, interrupted), IsFiniteSet(edge)
    PROVE  edge \subseteq edge' /\ IsFiniteSet(edge')
<1>1. edge' = edge \/ edge' = edge \cup {"interrupter"}
  BY DEF WakeOne
<1> QED BY <1>1, FS_AddElement

\* The queue as a thread finds it.
LEMMA QueueIs ==
    ASSUME Shape, NEW t \in Thread
    PROVE  /\ Queue(t) \in Seq(Queued)
           /\ Items(Queue(t)) = Items(opQueue) \cup Items(privateQueue[t])
                                   \cup (IF at[t].step = "collected" THEN {"task"} ELSE {})
<1> DEFINE last == IF at[t].step = "collected" THEN <<"task">> ELSE <<>>
<1>1. opQueue \in Seq(Queued) /\ privateQueue[t] \in Seq(Queued)
  <2>1. privateQueue[t] \in Seq(Op \cup Desc) /\ Op \cup Desc \subseteq Queued
    BY DEF Shape, Queued
  <2> QED BY <2>1 DEF Shape
<1>2. /\ last \in Seq(Queued)
      /\ Items(last) = IF at[t].step = "collected" THEN {"task"} ELSE {}
  <2>1. <<"task">> \in Seq(Queued) /\ <<>> \in Seq(Queued)
    BY DEF Queued
  <2>2. CASE at[t].step = "collected"
    BY <2>1, <2>2, ItemsOfOne
  <2>3. CASE at[t].step # "collected"
    BY <2>1, <2>3, ItemsOfNone
  <2> QED BY <2>2, <2>3
<1> DEFINE both == opQueue \o privateQueue[t]
<1>3. Queue(t) = both \o last
  BY DEF Queue
<1>4. both \in Seq(Queued) /\ Items(both) = Items(opQueue) \cup Items(privateQueue[t])
  BY <1>1, ItemsOfConcat
<1> HIDE DEF last, both
<1>5. both \o last \in Seq(Queued) /\ Items(both \o last) = Items(both) \cup Items(last)
  BY <1>2, <1>4, ItemsOfConcat
<1> QED BY <1>2, <1>3, <1>4, <1>5

LEMMA NoneIsNoDescriptor ==
    /\ "none" \notin Desc /\ "task" \notin Desc /\ "interrupter" \notin Desc
    /\ \A o \in Op : o \notin Desc
  BY NamesAssumption

LEMMA InitReadyInv == Init => ReadyInv
<1> SUFFICES ASSUME Init PROVE ReadyInv
  OBVIOUS
<1>1. opQueue \in Seq(Queued) /\ IsFiniteSet(edge)
  <2>1. <<"task">> \in Seq(Queued)
    BY DEF Queued
  <2>2. edge = {"interrupter"}
    BY DEF Init
  <2> QED BY <2>1, <2>2, FS_Singleton DEF Init
<1>2. /\ privateQueue \in [Thread -> Seq(Op \cup Desc)] /\ waiting \in [Desc -> Seq(Op)]
      /\ speculative \in [Desc -> BOOLEAN] /\ data \in [Desc -> Nat]
      /\ eof \in [Desc -> {"none", "unread", "read"}]
      /\ at = [t \in Thread |-> at[t]]
  BY DEF Init
<1>3. \A t \in Thread : Apt(at[t], privateQueue[t])
  BY NoneIsNoDescriptor DEF Init, Apt, Outside, At
<1>4. Noticed
  BY DEF Init, Noticed, Unread
<1> QED BY <1>1, <1>2, <1>3, <1>4 DEF ReadyInv, Shape

-----------------------------------------------------------------------------
(* The steps of a thread that touch neither the queue nor a descriptor.    *)

\* Threads that are not at a perform_io do something else.
LEMMA OthersKeepReady ==
    ASSUME ReadyInv,
           \A u \in Thread : at'[u] = at[u]
                             \/ /\ at[u].step # "complete"
                                /\ at'[u].step \notin {"complete", "poll", "block", "push"}
                                /\ at'[u].item \notin Desc,
           at' = [u \in Thread |-> at'[u]],
           UNCHANGED <<opQueue, privateQueue, descVars>>,
           edge \subseteq edge', IsFiniteSet(edge')
    PROVE  ReadyInv'
<1>1. \A u \in Thread : Apt(at'[u], privateQueue'[u])
  BY DEF ReadyInv, Shape, Apt
<1>2. Shape'
  BY <1>1 DEF ReadyInv, Shape, descVars
<1>3. \A d \in Desc : UnderWay(d) => UnderWay(d)'
  BY DEF ReadyInv, Shape, Apt, UnderWay
<1>4. Noticed'
  BY <1>3, StillNoticed DEF ReadyInv
<1> QED BY <1>2, <1>4 DEF ReadyInv

LEMMA WakingKeepsReady ==
    ASSUME ReadyInv, NEW t \in Thread,
           \/ Signal(t) \/ Run(t) \/ Sleep(t) \/ SleepOn(t) \/ SpuriousWakeup(t)
           \/ Return(t) \/ CallStop(t) \/ OutOfWork(t)
    PROVE  ReadyInv'
<1> USE NoneIsNoDescriptor DEF At
<1>1. at = [u \in Thread |-> at[u]] /\ IsFiniteSet(edge)
      /\ \A u \in Thread : at[u].step = "complete" <=> at[u].item \in Desc
  BY DEF ReadyInv, Shape, Apt
<1>2. CASE Signal(t)
  BY <1>1, <1>2, OthersKeepReady DEF Signal, Goes, queueVars, privateVars
<1>3. CASE Run(t)
  BY <1>1, <1>3, OthersKeepReady DEF Run, Goes, Outside, queueVars, privateVars
<1>4. CASE Sleep(t)
  BY <1>1, <1>4, OthersKeepReady DEF Sleep, AtQueue, Goes, queueVars, privateVars
<1>5. CASE SleepOn(t) \/ SpuriousWakeup(t)
  BY <1>1, <1>5, OthersKeepReady DEF SleepOn, SpuriousWakeup, Goes, queueVars, privateVars
<1>6. CASE Return(t)
  BY <1>1, <1>6, OthersKeepReady DEF Return, InHandler, Goes
<1>7. ASSUME NEW what, StopAll(t, what),
             \/ what = at[t]
             \/ /\ at[t].step # "complete" /\ what.step = "loop" /\ what.item \notin Desc
      PROVE  ReadyInv'
  <2>1. edge \subseteq edge' /\ IsFiniteSet(edge')
    <3>1. edge' = edge \/ edge' = edge \cup {"interrupter"}
      BY <1>7 DEF StopAll
    <3> QED BY <1>1, <3>1, FS_AddElement
  <2>2. /\ at' = [u \in Thread |-> at'[u]]
        /\ \A u \in Thread : at'[u] = at[u]
                             \/ /\ at[u].step # "complete"
                                /\ at'[u].step \notin {"complete", "poll", "block", "push"}
                                /\ at'[u].item \notin Desc
    BY <1>1, <1>7 DEF StopAll
  <2> QED BY <1>7, <2>1, <2>2, OthersKeepReady DEF StopAll, queueVars, privateVars
<1>8. CASE CallStop(t)
  BY <1>7, <1>8 DEF CallStop
<1>9. CASE OutOfWork(t)
  BY <1>7, <1>9 DEF OutOfWork
<1> QED BY <1>2, <1>3, <1>4, <1>5, <1>6, <1>8, <1>9

-----------------------------------------------------------------------------
(* The steps of the loop.                                                  *)

\* A thread has the mutex: its own queue has been added to the shared one.
LEMMA LoopKeepsReady ==
    ASSUME ReadyInv, NEW t \in Thread, Exit(t) \/ TakeTask(t) \/ TakeOperation(t)
    PROVE  ReadyInv'
<1> USE NoneIsNoDescriptor DEF At
<1>1. Shape /\ Noticed /\ IsFiniteSet(edge) /\ <<>> \in Seq(Op \cup Desc)
      /\ UNCHANGED <<waiting, speculative, data, eof>>
  BY DEF ReadyInv, Shape, Exit, TakeTask, TakeOperation, descVars
<1> DEFINE q == Queue(t)
<1>2. /\ q \in Seq(Queued)
      /\ Items(opQueue) \cup Items(privateQueue[t]) \subseteq Items(q)
      /\ Items(q) \subseteq Items(opQueue) \cup Items(privateQueue[t]) \cup {"task"}
  BY <1>1, QueueIs
<1>3. at[t].step # "complete" /\ at[t].item \notin Desc
  BY <1>1 DEF Exit, TakeTask, TakeOperation, AtQueue, Shape, Apt
<1>4. privateQueue' = [privateQueue EXCEPT ![t] = <<>>]
  BY DEF Exit, TakeTask, TakeOperation
<1>5. edge \subseteq edge' /\ IsFiniteSet(edge')
  BY <1>1, WakeOneAdds DEF Exit, TakeTask, TakeOperation
<1>6. PICK what :
         /\ Goes(t, what) /\ Apt(what, <<>>) /\ opQueue' \in Seq(Queued)
         /\ Items(q) \cap Desc \subseteq Items(opQueue') \cup {what.item}
  <2>1. CASE Exit(t)
    <3>1. Apt(At("exited", "none"), <<>>)
      BY DEF Apt
    <3> QED BY <1>2, <2>1, <3>1 DEF Exit
  <2>2. ASSUME q # <<>>
        PROVE  /\ Head(q) \in Queued /\ Tail(q) \in Seq(Queued)
               /\ Items(q) = {Head(q)} \cup Items(Tail(q))
    BY <1>2, <2>2, ItemsOfTail
  <2>3. CASE TakeTask(t)
    <3>1. \E s \in {"poll", "block"} : Goes(t, At(s, "none"))
      BY <2>3 DEF TakeTask
    <3>2. \A s \in {"poll", "block"} : Apt(At(s, "none"), <<>>)
      BY DEF Apt
    <3>3. Head(q) = "task" /\ q # <<>> /\ opQueue' = Tail(q)
      BY <2>3 DEF TakeTask
    <3> QED BY <2>2, <3>1, <3>2, <3>3
  <2>4. CASE TakeOperation(t)
    <3>1. Head(q) # "task" /\ q # <<>> /\ opQueue' = Tail(q)
          /\ Goes(t, At(IF Head(q) \in Desc THEN "complete" ELSE "body", Head(q)))
      BY <2>4 DEF TakeOperation
    <3>2. Apt(At(IF Head(q) \in Desc THEN "complete" ELSE "body", Head(q)), <<>>)
      BY DEF Apt
    <3> QED BY <2>2, <3>1, <3>2
  <2> QED BY <2>1, <2>3, <2>4
<1> HIDE DEF q
<1>7. /\ at'[t] = what /\ \A u \in Thread : u # t => at'[u] = at[u]
      /\ privateQueue'[t] = <<>>
      /\ \A u \in Thread : u # t => privateQueue'[u] = privateQueue[u]
      /\ at' = [u \in Thread |-> at'[u]]
      /\ privateQueue' \in [Thread -> Seq(Op \cup Desc)]
      /\ \A u \in Thread : Apt(at'[u], privateQueue'[u])
  BY <1>1, <1>4, <1>6, OneGoes
<1>8. Shape'
  BY <1>1, <1>5, <1>6, <1>7 DEF Shape
<1>9. \A d \in Desc : UnderWay(d) => UnderWay(d)'
  BY <1>2, <1>3, <1>5, <1>6, <1>7 DEF UnderWay
<1> QED BY <1>1, <1>8, <1>9, StillNoticed DEF ReadyInv, descVars

\* The events that epoll_wait reports pass into the thread's own queue.
LEMMA EpollKeepsReady ==
    ASSUME ReadyInv, NEW t \in Thread, EpollReturns(t)
    PROVE  ReadyInv'
<1> USE NoneIsNoDescriptor DEF At
<1>1. /\ Shape /\ Noticed /\ privateQueue[t] = <<>>
      /\ at[t].step # "complete" /\ at[t].item \notin Desc
  BY DEF ReadyInv, Shape, Apt, EpollReturns
<1>2. PICK ready \in SetToSeqs(Reported \cap Desc) :
         privateQueue' = [privateQueue EXCEPT ![t] = ready]
  BY DEF EpollReturns
<1>3. IsFiniteSet(Reported \cap Desc)
  BY <1>1, FS_Subset DEF Shape, Reported
<1>4. ready \in Seq(Op \cup Desc) /\ Items(ready) = Reported \cap Desc
  <2>1. ready \in Seq(Reported \cap Desc) /\ Items(ready) = Reported \cap Desc
    BY <1>3, ItemsOfSetToSeqs
  <2> QED BY <2>1
<1>5. Goes(t, At("collected", "none")) /\ edge' = {}
      /\ UNCHANGED <<opQueue, waiting, speculative, data, eof>>
  BY DEF EpollReturns, queueVars, descVars
<1>6. Apt(At("collected", "none"), ready)
  BY DEF Apt
<1> DEFINE what == At("collected", "none")
<1> HIDE DEF what
<1>7. /\ at'[t] = what /\ \A u \in Thread : u # t => at'[u] = at[u]
      /\ privateQueue'[t] = ready
      /\ \A u \in Thread : u # t => privateQueue'[u] = privateQueue[u]
      /\ at' = [u \in Thread |-> at'[u]]
      /\ privateQueue' \in [Thread -> Seq(Op \cup Desc)]
      /\ \A u \in Thread : Apt(at'[u], privateQueue'[u])
  BY <1>1, <1>2, <1>4, <1>5, <1>6, OneGoes DEF what
<1>8. Shape'
  BY <1>1, <1>5, <1>7, FS_EmptySet DEF Shape
<1>9. \A d \in Desc : Unread(d) /\ UnderWay(d) => UnderWay(d)'
  <2>1. \A d \in Desc : Unread(d) => Available(d) > 0
    BY <1>1 DEF Unread, Available, Shape
  <2> QED BY <1>1, <1>4, <1>5, <1>7, <2>1, ItemsOfNone DEF UnderWay, Reported
<1> QED BY <1>1, <1>5, <1>8, <1>9, StillNoticed DEF ReadyInv, descVars

\* The operations are on the queue, and a thread is woken.
LEMMA PushKeepsReady ==
    ASSUME ReadyInv, NEW t \in Thread, Push(t)
    PROVE  ReadyInv'
<1> USE NoneIsNoDescriptor DEF At
<1>1. /\ Shape /\ Noticed /\ at[t].item \notin Desc /\ at[t].ops \in Seq(Op)
      /\ opQueue \in Seq(Queued) /\ IsFiniteSet(edge)
      /\ privateQueue[t] \in Seq(Op \cup Desc)
      /\ UNCHANGED <<waiting, speculative, data, eof, privateQueue>>
  BY DEF ReadyInv, Shape, Apt, Push, privateVars, descVars
<1>2. opQueue' \in Seq(Queued) /\ Items(opQueue) \subseteq Items(opQueue')
  <2>1. at[t].ops \in Seq(Queued)
    <3>1. Op \subseteq Queued
      BY DEF Queued
    <3> QED BY <1>1, <3>1
  <2> QED BY <1>1, <2>1, ItemsOfConcat DEF Push
<1>3. edge \subseteq edge' /\ IsFiniteSet(edge')
  BY <1>1, WakeOneAdds DEF Push
<1> DEFINE what == At("body", at[t].item)
<1>4. Goes(t, what) /\ Apt(what, privateQueue[t])
  BY <1>1 DEF Push, Apt
<1> HIDE DEF what
<1>5. privateQueue' = [privateQueue EXCEPT ![t] = privateQueue[t]]
  BY <1>1 DEF Shape
<1>6. /\ \A u \in Thread : u # t => at'[u] = at[u]
      /\ at' = [u \in Thread |-> at'[u]]
      /\ \A u \in Thread : Apt(at'[u], privateQueue'[u])
  BY <1>1, <1>4, <1>5, OneGoes
<1>7. Shape'
  BY <1>1, <1>2, <1>3, <1>6 DEF Shape
<1>8. \A d \in Desc : UnderWay(d) => UnderWay(d)'
  BY <1>1, <1>2, <1>3, <1>6 DEF UnderWay
<1> QED BY <1>1, <1>7, <1>8, StillNoticed DEF ReadyInv, descVars

-----------------------------------------------------------------------------
(* The steps that start and end operations.                                *)

\* An operation goes to the thread's own queue, or is about to be pushed.
LEMMA ImmediateKeepsShape ==
    ASSUME Shape, NEW t \in Thread, NEW o \in Op, NEW continuation \in BOOLEAN,
           at[t].step = "body", Immediate(t, o, continuation)
    PROVE  /\ at' = [u \in Thread |-> at'[u]]
           /\ privateQueue' \in [Thread -> Seq(Op \cup Desc)]
           /\ \A u \in Thread : Apt(at'[u], privateQueue'[u])
           /\ \A u \in Thread : /\ at'[u].item = at[u].item
                                /\ Items(privateQueue[u]) \subseteq Items(privateQueue'[u])
<1>1. privateQueue[t] \in Seq(Op \cup Desc) /\ at[t].item \notin Desc
      /\ <<o>> \in Seq(Op) /\ <<o>> \in Seq(Op \cup Desc)
  BY DEF Shape, Apt
<1>2. CASE (oneThread \/ continuation) /\ InHandler(t)
  <2> DEFINE private == Append(privateQueue[t], o)
  <2>1. /\ UNCHANGED at
        /\ privateQueue' = [privateQueue EXCEPT ![t] = private]
    BY <1>2 DEF Immediate
  <2>2. private = privateQueue[t] \o <<o>>
    BY <1>1
  <2>3. /\ privateQueue[t] \o <<o>> \in Seq(Op \cup Desc)
        /\ Items(privateQueue[t]) \subseteq Items(privateQueue[t] \o <<o>>)
    <3> DEFINE one == <<o>>
    <3>1. one \in Seq(Op \cup Desc)
      BY <1>1
    <3> HIDE DEF one
    <3>2. /\ privateQueue[t] \o one \in Seq(Op \cup Desc)
          /\ Items(privateQueue[t]) \subseteq Items(privateQueue[t] \o one)
      BY <1>1, <3>1, ItemsOfConcat
    <3> QED BY <3>2 DEF one
  <2> HIDE DEF private
  <2>4. private \in Seq(Op \cup Desc) /\ Items(privateQueue[t]) \subseteq Items(private)
    BY <2>2, <2>3
  <2>5. Goes(t, at[t])
    BY <2>1 DEF Goes, Shape
  <2>6. Apt(at[t], private)
    BY DEF Shape, Apt
  <2>7. /\ privateQueue'[t] = private
        /\ \A u \in Thread : u # t => privateQueue'[u] = privateQueue[u]
        /\ at' = [u \in Thread |-> at'[u]]
        /\ privateQueue' \in [Thread -> Seq(Op \cup Desc)]
        /\ \A u \in Thread : Apt(at'[u], privateQueue'[u])
    BY <2>1, <2>4, <2>5, <2>6, OneGoes
  <2> QED BY <2>1, <2>4, <2>7
<1>3. CASE ~((oneThread \/ continuation) /\ InHandler(t))
  <2> DEFINE what == [step |-> "push", item |-> at[t].item, ops |-> <<o>>]
  <2>1. Goes(t, what) /\ UNCHANGED privateQueue
    BY <1>3 DEF Immediate, privateVars
  <2>2. Apt(what, privateQueue[t]) /\ what.item = at[t].item
    BY <1>1 DEF Apt
  <2> HIDE DEF what
  <2>3. privateQueue' = [privateQueue EXCEPT ![t] = privateQueue[t]]
    BY <2>1 DEF Shape
  <2>4. /\ at'[t] = what /\ \A u \in Thread : u # t => at'[u] = at[u]
        /\ at' = [u \in Thread |-> at'[u]]
        /\ privateQueue' \in [Thread -> Seq(Op \cup Desc)]
        /\ \A u \in Thread : Apt(at'[u], privateQueue'[u])
    BY <1>1, <2>1, <2>2, <2>3, OneGoes
  <2> QED BY <2>1, <2>2, <2>4
<1> QED BY <1>2, <1>3

LEMMA PostKeepsReady ==
    ASSUME ReadyInv, NEW t \in Thread, NEW o \in Op, NEW continuation \in BOOLEAN,
           Post(t, o, continuation)
    PROVE  ReadyInv'
<1>1. /\ Shape /\ Noticed /\ at[t].step = "body" /\ Immediate(t, o, continuation)
      /\ UNCHANGED <<opQueue, waiting, speculative, data, eof, edge>>
  BY DEF ReadyInv, Post, descVars
<1>2. /\ at' = [u \in Thread |-> at'[u]]
      /\ privateQueue' \in [Thread -> Seq(Op \cup Desc)]
      /\ \A u \in Thread : Apt(at'[u], privateQueue'[u])
      /\ \A u \in Thread : /\ at'[u].item = at[u].item
                           /\ Items(privateQueue[u]) \subseteq Items(privateQueue'[u])
  BY <1>1, ImmediateKeepsShape
<1>3. Shape'
  BY <1>1, <1>2 DEF Shape
<1>4. \A d \in Desc : UnderWay(d) => UnderWay(d)'
  BY <1>1, <1>2 DEF UnderWay
<1> QED BY <1>1, <1>3, <1>4, StillNoticed DEF ReadyInv, descVars

\* An operation that is tried at once takes what the next one would find; one
\* that waits although there is something to read waits behind others, for
\* the event that is under way to them.
LEMMA StartOpKeepsReady ==
    ASSUME ReadyInv, NEW t \in Thread, NEW d \in Desc, NEW o \in Op,
           NEW continuation \in BOOLEAN, StartOp(t, d, o, continuation)
    PROVE  ReadyInv'
<1>1. /\ Shape /\ Noticed /\ at[t].step = "body" /\ UNCHANGED <<opQueue, edge>>
      /\ waiting[d] \in Seq(Op) /\ data[d] \in Nat /\ eof[d] \in {"none", "unread", "read"}
  BY DEF ReadyInv, Shape, StartOp
<1>2. CASE waiting[d] = <<>> /\ speculative[d] /\ Available(d) > 0
  <2>1. Immediate(t, o, continuation) /\ UNCHANGED waiting /\ Performed(d, 1)
    BY <1>2 DEF StartOp
  <2>2. /\ at' = [u \in Thread |-> at'[u]]
        /\ privateQueue' \in [Thread -> Seq(Op \cup Desc)]
        /\ \A u \in Thread : Apt(at'[u], privateQueue'[u])
        /\ \A u \in Thread : /\ at'[u].item = at[u].item
                             /\ Items(privateQueue[u]) \subseteq Items(privateQueue'[u])
    BY <1>1, <2>1, ImmediateKeepsShape
  <2>3. 1 <= Available(d)
    BY <1>1, <1>2 DEF Available
  <2>4. /\ data' \in [Desc -> Nat] /\ speculative' \in [Desc -> BOOLEAN]
        /\ eof' \in [Desc -> {"none", "unread", "read"}]
        /\ ~speculative'[d] => data'[d] = 0 /\ eof'[d] = "read"
        /\ \A e \in Desc : e # d => data'[e] = data[e] /\ speculative'[e] = speculative[e]
                                    /\ eof'[e] = eof[e]
    BY <1>1, <1>2, <2>1, <2>3, PerformedLeaves
  <2>5. Shape'
    BY <1>1, <2>1, <2>2, <2>4 DEF Shape
  <2>6. \A e \in Desc : UnderWay(e) => UnderWay(e)'
    BY <1>1, <2>2 DEF UnderWay
  <2>7. Noticed'
    BY <1>1, <1>2, <2>1, <2>4, <2>6 DEF Noticed, Unread
  <2> QED BY <2>5, <2>7 DEF ReadyInv
<1>3. CASE ~(waiting[d] = <<>> /\ speculative[d] /\ Available(d) > 0)
  <2>1. /\ waiting' = [waiting EXCEPT ![d] = Append(waiting[d], o)]
        /\ UNCHANGED <<at, privateQueue, speculative, data, eof>>
    BY <1>3 DEF StartOp, privateVars
  <2>2. waiting' \in [Desc -> Seq(Op)]
        /\ \A e \in Desc : e # d => waiting'[e] = waiting[e]
    BY <1>1, <2>1 DEF Shape
  <2>3. Shape'
    BY <1>1, <2>1, <2>2 DEF Shape
  <2>4. \A e \in Desc : (UnderWay(e) => UnderWay(e)') /\ (Unread(e)' => Unread(e))
    BY <1>1, <2>1 DEF UnderWay, Unread
  <2>5. Unread(d) => waiting[d] # <<>>
    <3>1. Unread(d) => Available(d) > 0
      BY <1>1 DEF Unread, Available
    <3>2. Unread(d) => speculative[d]
      BY <1>1 DEF Unread, Noticed
    <3> QED BY <1>3, <3>1, <3>2
  <2>6. Noticed'
    BY <1>1, <2>1, <2>2, <2>4, <2>5 DEF Noticed
  <2> QED BY <2>3, <2>6 DEF ReadyInv
<1> QED BY <1>2, <1>3

\* Operations whose work has been counted.
LEMMA HandKeepsShape ==
    ASSUME Shape, NEW t \in Thread, NEW item, item \notin Desc, NEW ops \in Seq(Op),
           Hand(t, item, ops)
    PROVE  /\ at' = [u \in Thread |-> at'[u]]
           /\ privateQueue' \in [Thread -> Seq(Op \cup Desc)]
           /\ \A u \in Thread : Apt(at'[u], privateQueue'[u])
           /\ \A u \in Thread : /\ u # t => at'[u] = at[u]
                                /\ Items(privateQueue[u]) \subseteq Items(privateQueue'[u])
<1>1. privateQueue[t] \in Seq(Op \cup Desc) /\ ops \in Seq(Op \cup Desc)
  BY DEF Shape
<1>2. ASSUME NEW what, NEW private \in Seq(Op \cup Desc), Goes(t, what), Apt(what, private),
             privateQueue' = [privateQueue EXCEPT ![t] = private],
             Items(privateQueue[t]) \subseteq Items(private)
      PROVE  /\ at' = [u \in Thread |-> at'[u]]
             /\ privateQueue' \in [Thread -> Seq(Op \cup Desc)]
             /\ \A u \in Thread : Apt(at'[u], privateQueue'[u])
             /\ \A u \in Thread : /\ u # t => at'[u] = at[u]
                                  /\ Items(privateQueue[u]) \subseteq Items(privateQueue'[u])
  <2>1. /\ \A u \in Thread : u # t => at'[u] = at[u]
        /\ privateQueue'[t] = private
        /\ \A u \in Thread : u # t => privateQueue'[u] = privateQueue[u]
        /\ at' = [u \in Thread |-> at'[u]]
        /\ privateQueue' \in [Thread -> Seq(Op \cup Desc)]
        /\ \A u \in Thread : Apt(at'[u], privateQueue'[u])
    BY <1>2, OneGoes
  <2> QED BY <1>2, <2>1
<1>3. CASE oneThread /\ item # "none"
  <2> DEFINE what == At("body", item)
             private == privateQueue[t] \o ops
  <2>1. Goes(t, what) /\ privateQueue' = [privateQueue EXCEPT ![t] = private]
    BY <1>3 DEF Hand
  <2>2. private \in Seq(Op \cup Desc) /\ Items(privateQueue[t]) \subseteq Items(private)
    BY <1>1, ItemsOfConcat
  <2>3. Apt(what, private)
    BY DEF Apt, At
  <2> HIDE DEF what, private
  <2> QED BY <1>2, <2>1, <2>2, <2>3
<1>4. CASE ~(oneThread /\ item # "none")
  <2> DEFINE what == [step |-> "push", item |-> item, ops |-> ops]
  <2>1. Goes(t, what) /\ privateQueue' = [privateQueue EXCEPT ![t] = privateQueue[t]]
    BY <1>4 DEF Hand, Shape
  <2>2. Apt(what, privateQueue[t])
    BY DEF Apt
  <2> HIDE DEF what
  <2> QED BY <1>1, <1>2, <2>1, <2>2
<1> QED BY <1>3, <1>4

LEMMA CancelKeepsReady ==
    ASSUME ReadyInv, NEW t \in Thread, NEW d \in Desc, CancelOps(t, d)
    PROVE  ReadyInv'
<1>1. /\ Shape /\ Noticed /\ at[t].item \notin Desc /\ waiting[d] \in Seq(Op)
      /\ Hand(t, at[t].item, waiting[d]) /\ <<>> \in Seq(Op)
      /\ waiting' = [waiting EXCEPT ![d] = <<>>]
      /\ UNCHANGED <<opQueue, speculative, data, eof, edge>>
  BY DEF ReadyInv, Shape, Apt, CancelOps, InHandler, queueVars
<1>2. /\ at' = [u \in Thread |-> at'[u]]
      /\ privateQueue' \in [Thread -> Seq(Op \cup Desc)]
      /\ \A u \in Thread : Apt(at'[u], privateQueue'[u])
      /\ \A u \in Thread : /\ u # t => at'[u] = at[u]
                           /\ Items(privateQueue[u]) \subseteq Items(privateQueue'[u])
  BY <1>1, HandKeepsShape
<1>3. Shape'
  BY <1>1, <1>2 DEF Shape
<1>4. \A e \in Desc : UnderWay(e) => UnderWay(e)'
  BY <1>1, <1>2 DEF UnderWay
<1>5. Noticed'
  <2>1. \A e \in Desc : waiting'[e] # <<>> => waiting[e] # <<>>
    BY <1>1 DEF Shape
  <2> QED BY <1>1, <1>4, <2>1 DEF Noticed, Unread
<1> QED BY <1>3, <1>5 DEF ReadyInv

\* perform_io goes on as long as there is something to read: what is left,
\* nobody waits for.
LEMMA PerformIoKeepsReady ==
    ASSUME ReadyInv, NEW t \in Thread, PerformIo(t)
    PROVE  ReadyInv'
<1>1. PICK d : d = at[t].item
  OBVIOUS
<1>2. PICK n : n = Progress(d)
  OBVIOUS
<1>3. PICK done, rest : /\ done = SubSeq(waiting[d], 1, n)
                        /\ rest = SubSeq(waiting[d], n + 1, Len(waiting[d]))
  OBVIOUS
<1>4. /\ Shape /\ Noticed /\ at[t].step = "complete" /\ d \in Desc
      /\ UNCHANGED <<opQueue, edge>>
  BY <1>1 DEF ReadyInv, Shape, Apt, PerformIo, queueVars
<1>5. /\ waiting[d] \in Seq(Op) /\ data[d] \in Nat /\ Available(d) \in Nat
      /\ privateQueue[t] \in Seq(Op \cup Desc)
  BY <1>4 DEF Shape, Available
<1>6. n \in Nat /\ n <= Available(d) /\ n <= Len(waiting[d])
      /\ (n # Available(d) => n = Len(waiting[d]))
  BY <1>5, <1>2 DEF Progress
<1>7. Performed(d, n) /\ waiting' = [waiting EXCEPT ![d] = rest]
  BY <1>4, <1>1, <1>2, <1>3 DEF PerformIo, Shape
<1>8. \/ Goes(t, At("return", "none")) /\ UNCHANGED privateQueue
      \/ n >= 1 /\ Goes(t, At("body", done[1])) /\ UNCHANGED privateVars
      \/ n > 1 /\ Hand(t, done[1], Tail(done))
  BY <1>6, <1>1, <1>2, <1>3 DEF PerformIo
<1>9. /\ data' \in [Desc -> Nat] /\ speculative' \in [Desc -> BOOLEAN]
      /\ eof' \in [Desc -> {"none", "unread", "read"}]
      /\ ~speculative'[d] => data'[d] = 0 /\ eof'[d] = "read"
      /\ n = Available(d) => ~Unread(d)'
      /\ \A e \in Desc : e # d => data'[e] = data[e] /\ speculative'[e] = speculative[e]
                                  /\ eof'[e] = eof[e]
  <2>1. ~speculative[d] => data[d] = 0 /\ eof[d] = "read"
    BY <1>4 DEF Noticed
  <2> QED BY <1>4, <1>6, <1>7, <2>1, PerformedLeaves
<1>10. rest \in Seq(Op) /\ (n = Len(waiting[d]) => rest = <<>>)
  BY <1>5, <1>6, <1>3
<1>11. done \in Seq(Op) /\ (n >= 1 => done[1] \in Op)
      /\ (n > 1 => Tail(done) \in Seq(Op))
  <2>1. done \in Seq(Op) /\ Len(done) = n
    BY <1>5, <1>6, <1>3
  <2> QED BY <1>6, <2>1
<1>12. /\ waiting' \in [Desc -> Seq(Op)] /\ waiting'[d] = rest
      /\ \A e \in Desc : e # d => waiting'[e] = waiting[e]
  BY <1>4, <1>7, <1>10 DEF Shape
<1> DEFINE Handed ==
       /\ at' = [u \in Thread |-> at'[u]]
       /\ privateQueue' \in [Thread -> Seq(Op \cup Desc)]
       /\ \A u \in Thread : Apt(at'[u], privateQueue'[u])
       /\ \A u \in Thread : /\ u # t => at'[u] = at[u]
                            /\ Items(privateQueue[u]) \subseteq Items(privateQueue'[u])
<1>13. Handed
  <2>1. ASSUME NEW what, Goes(t, what), Apt(what, privateQueue[t]), UNCHANGED privateQueue
        PROVE  Handed
    <3>1. privateQueue' = [privateQueue EXCEPT ![t] = privateQueue[t]]
      BY <1>4, <2>1 DEF Shape
    <3>2. /\ \A u \in Thread : u # t => at'[u] = at[u]
          /\ at' = [u \in Thread |-> at'[u]]
          /\ privateQueue' \in [Thread -> Seq(Op \cup Desc)]
          /\ \A u \in Thread : Apt(at'[u], privateQueue'[u])
      BY <1>4, <1>5, <2>1, <3>1, OneGoes
    <3> QED BY <2>1, <3>2
  <2>2. Apt(At("return", "none"), privateQueue[t])
    BY NoneIsNoDescriptor DEF Apt, At
  <2>3. ASSUME n >= 1
        PROVE  done[1] \notin Desc /\ Apt(At("body", done[1]), privateQueue[t])
    BY <1>11, <2>3, NoneIsNoDescriptor DEF Apt, At
  <2>4. CASE Goes(t, At("return", "none")) /\ UNCHANGED privateQueue
    BY <2>1, <2>2, <2>4
  <2>5. CASE n >= 1 /\ Goes(t, At("body", done[1])) /\ UNCHANGED privateVars
    BY <2>1, <2>3, <2>5 DEF privateVars
  <2>6. CASE n > 1 /\ Hand(t, done[1], Tail(done))
    <3>1. done[1] \notin Desc /\ Tail(done) \in Seq(Op)
      BY <1>6, <1>11, <2>3, <2>6
    <3> QED BY <1>4, <2>6, <3>1, HandKeepsShape
  <2> QED BY <1>8, <2>4, <2>5, <2>6
<1>14. Shape'
  BY <1>4, <1>9, <1>12, <1>13 DEF Shape
<1>15. \A e \in Desc : e # d => /\ UnderWay(e) => UnderWay(e)'
                                /\ Unread(e)' => Unread(e)
  BY <1>4, <1>1, <1>9, <1>13 DEF UnderWay, Unread
<1>16. Unread(d)' => waiting'[d] = <<>>
  BY <1>6, <1>9, <1>10, <1>12
<1>17. Noticed'
  BY <1>4, <1>9, <1>12, <1>15, <1>16 DEF Noticed
<1> QED BY <1>14, <1>17 DEF ReadyInv

\* The reactor hears of data that arrives, and of the end of the input.
LEMMA ArrivalKeepsReady ==
    ASSUME ReadyInv, NEW d \in Desc, DataArrives(d) \/ InputEnds(d)
    PROVE  ReadyInv'
<1>1. /\ Shape /\ Noticed /\ edge' = edge \cup {d} /\ IsFiniteSet(edge)
      /\ data[d] \in Nat /\ eof[d] = "none"
      /\ UNCHANGED <<opQueue, at, privateQueue, waiting, speculative>>
  BY DEF ReadyInv, Shape, DataArrives, InputEnds, queueVars, privateVars
<1>2. IsFiniteSet(edge')
  BY <1>1, FS_AddElement
<1>3. /\ data' \in [Desc -> Nat] /\ eof' \in [Desc -> {"none", "unread", "read"}]
      /\ \A e \in Desc : e # d => data'[e] = data[e] /\ eof'[e] = eof[e]
  <2>1. CASE DataArrives(d)
    BY <1>1, <2>1 DEF Shape, DataArrives
  <2>2. CASE InputEnds(d)
    BY <1>1, <2>2 DEF Shape, InputEnds
  <2> QED BY <2>1, <2>2
<1>4. Shape'
  BY <1>1, <1>2, <1>3 DEF Shape
<1>5. UnderWay(d)' /\ \A e \in Desc : UnderWay(e) => UnderWay(e)'
  BY <1>1 DEF UnderWay
<1>6. speculative'[d] /\ \A e \in Desc : e # d /\ Unread(e)' => Unread(e)
  BY <1>1, <1>3 DEF Noticed, Unread
<1>7. Noticed'
  BY <1>1, <1>3, <1>5, <1>6 DEF Noticed
<1> QED BY <1>4, <1>7 DEF ReadyInv

-----------------------------------------------------------------------------
LEMMA NextKeepsReady == ReadyInv /\ [Next]_vars => ReadyInv'
<1> SUFFICES ASSUME ReadyInv, [Next]_vars PROVE ReadyInv'
  OBVIOUS
<1>1. ASSUME NEW t \in Thread, Step(t) PROVE ReadyInv'
  BY <1>1, WakingKeepsReady, LoopKeepsReady, EpollKeepsReady, PushKeepsReady,
     PerformIoKeepsReady DEF Step
<1>2. ASSUME NEW t \in Thread, Run(t) \/ SpuriousWakeup(t) \/ CallStop(t) PROVE ReadyInv'
  BY <1>2, WakingKeepsReady
<1>3. ASSUME NEW t \in Thread, NEW o \in Op, NEW continuation \in BOOLEAN,
             \/ Post(t, o, continuation)
             \/ \E d \in Desc : StartOp(t, d, o, continuation)
      PROVE  ReadyInv'
  BY <1>3, PostKeepsReady, StartOpKeepsReady
<1>4. ASSUME NEW t \in Thread, NEW d \in Desc, CancelOps(t, d) PROVE ReadyInv'
  BY <1>4, CancelKeepsReady
<1>5. ASSUME NEW d \in Desc, DataArrives(d) \/ InputEnds(d) PROVE ReadyInv'
  BY <1>5, ArrivalKeepsReady
<1>6. CASE UNCHANGED vars
  BY <1>6 DEF vars, queueVars, eventVars, privateVars, descVars, ReadyInv, Shape, Noticed,
     Unread, UnderWay
<1> QED BY <1>1, <1>2, <1>3, <1>4, <1>5, <1>6 DEF Next

\* An operation never waits for what is there to be read, unless the event
\* that will bring it is still under way: epoll reports an edge once, start_op
\* asks for no other, and neither the queues it passes through, nor
\* perform_io, nor an operation that starts or is cancelled meanwhile loses it.
THEOREM EventsAreNoticed == Spec => []ReadyIsNoticed
<1>1. ReadyInv => ReadyIsNoticed
  BY DEF ReadyInv, Noticed, UnderWay, ReadyIsNoticed
<1> QED BY <1>1, InitReadyInv, NextKeepsReady, PTL DEF Spec

-----------------------------------------------------------------------------
(* The task is in one place.                                               *)

\* The task is in a queue once at most, and descriptors are in front of it.
Tidy(q) ==
    /\ \A i, j \in DOMAIN q : q[i] = "task" /\ q[j] = "task" => i = j
    /\ \A i \in DOMAIN q : q[i] \in Desc => \E j \in DOMAIN q : i < j /\ q[j] = "task"

\* The threads that have taken the task out of the queue.
Holds(t) == at[t].step \in {"poll", "block", "collected"}

\* The task is held by one thread or it is in the queue, behind what the
\* reactor has found; only the thread that brings the task back has
\* descriptors on its own queue.
TaskPlace ==
    /\ Tidy(opQueue)
    /\ \A t, u \in Thread : Holds(t) /\ Holds(u) => t = u
    /\ \A t \in Thread : Holds(t) => "task" \notin Items(opQueue)
    /\ \A t \in Thread :
          at[t].step # "collected" => Items(privateQueue[t]) \subseteq Op

TaskInv == ReadyInv /\ TaskPlace

\* Operations behind a queue leave it tidy.
LEMMA TidyBeforeOps ==
    ASSUME NEW q \in Seq(Queued), NEW r \in Seq(Op), Tidy(q)
    PROVE  Tidy(q \o r)
<1> DEFINE w == q \o r
<1>1. /\ Len(q) \in Nat /\ Len(r) \in Nat /\ DOMAIN q = 1..Len(q)
      /\ DOMAIN w = 1..(Len(q) + Len(r))
      /\ \A i \in 1..Len(q) : w[i] = q[i]
      /\ \A i \in 1..Len(r) : w[Len(q) + i] = r[i] /\ r[i] \in Op
  OBVIOUS
<1> HIDE DEF w
<1>2. ASSUME NEW i \in DOMAIN w, w[i] = "task" \/ w[i] \in Desc
      PROVE  i \in DOMAIN q /\ w[i] = q[i]
  <2>1. CASE i \in 1..Len(q)
    BY <1>1, <2>1
  <2>2. CASE i - Len(q) \in 1..Len(r)
    <3>1. i = Len(q) + (i - Len(q))
      BY <1>1, <2>2
    <3>2. w[i] \in Op
      BY <1>1, <2>2, <3>1
    <3> QED BY <1>2, <3>2, NamesAssumption
  <2> QED BY <1>1, <2>1, <2>2
<1>3. \A i \in DOMAIN q : i \in DOMAIN w /\ w[i] = q[i]
  BY <1>1
<1>4. \A i, j \in DOMAIN w : w[i] = "task" /\ w[j] = "task" => i = j
  BY <1>2 DEF Tidy
<1>5. ASSUME NEW i \in DOMAIN w, w[i] \in Desc
      PROVE  \E j \in DOMAIN w : i < j /\ w[j] = "task"
  <2>1. i \in DOMAIN q /\ q[i] \in Desc
    BY <1>2, <1>5
  <2>2. PICK j \in DOMAIN q : i < j /\ q[j] = "task"
    BY <2>1 DEF Tidy
  <2> QED BY <1>3, <2>2
<1> QED BY <1>4, <1>5 DEF Tidy, w

\* A queue to whose end the task comes back is tidy.
LEMMA TidyWithTask ==
    ASSUME NEW q \in Seq(Queued), "task" \notin Items(q)
    PROVE  Tidy(q \o <<"task">>)
<1> DEFINE one == <<"task">>
           w == q \o one
<1>1. /\ Len(q) \in Nat /\ DOMAIN q = 1..Len(q) /\ DOMAIN w = 1..(Len(q) + 1)
      /\ \A i \in 1..Len(q) : w[i] = q[i]
      /\ w[Len(q) + 1] = "task"
  <2>1. one \in Seq(Queued) /\ Len(one) = 1 /\ one[1] = "task"
    BY DEF Queued
  <2> HIDE DEF one
  <2>2. /\ Len(q) \in Nat /\ DOMAIN q = 1..Len(q)
        /\ DOMAIN (q \o one) = 1..(Len(q) + Len(one))
        /\ \A i \in 1..Len(q) : (q \o one)[i] = q[i]
        /\ \A i \in 1..Len(one) : (q \o one)[Len(q) + i] = one[i]
    <3>1. \A r \in Seq(Queued) :
              /\ Len(q) \in Nat /\ DOMAIN q = 1..Len(q)
              /\ DOMAIN (q \o r) = 1..(Len(q) + Len(r))
              /\ \A i \in 1..Len(q) : (q \o r)[i] = q[i]
              /\ \A i \in 1..Len(r) : (q \o r)[Len(q) + i] = r[i]
      BY Concatenation
    <3> QED BY <2>1, <3>1
  <2>3. (q \o one)[Len(q) + 1] = "task" /\ DOMAIN (q \o one) = 1..(Len(q) + 1)
    BY <2>1, <2>2
  <2> QED BY <2>2, <2>3
<1> HIDE DEF w
<1>2. \A i \in 1..Len(q) : w[i] # "task"
  BY <1>1 DEF Items
<1>3. \A i, j \in DOMAIN w : w[i] = "task" /\ w[j] = "task" => i = j
  BY <1>1, <1>2
<1>4. ASSUME NEW i \in DOMAIN w, w[i] \in Desc
      PROVE  \E j \in DOMAIN w : i < j /\ w[j] = "task"
  <2>1. i # Len(q) + 1
    BY <1>1, <1>4, NoneIsNoDescriptor
  <2>2. i \in 1..(Len(q) + 1) /\ DOMAIN w = 1..(Len(q) + 1) /\ Len(q) \in Nat
    BY <1>1
  <2>3. i < Len(q) + 1 /\ Len(q) + 1 \in 1..(Len(q) + 1)
    BY <2>1, <2>2
  <2> QED BY <1>1, <2>2, <2>3
<1> QED BY <1>3, <1>4 DEF Tidy, w

\* Taking the head of a tidy queue leaves it tidy, and taking the task leaves
\* neither the task nor a descriptor.
LEMMA TidyTail ==
    ASSUME NEW q \in Seq(Queued), q # <<>>, Tidy(q)
    PROVE  /\ Tidy(Tail(q))
           /\ Head(q) = "task" => /\ "task" \notin Items(Tail(q))
                                  /\ Desc \cap Items(Tail(q)) = {}
<1> DEFINE w == Tail(q)
<1>1. /\ Len(q) \in Nat /\ Len(q) >= 1 /\ DOMAIN q = 1..Len(q) /\ Head(q) = q[1]
      /\ DOMAIN w = 1..(Len(q) - 1)
      /\ \A i \in 1..(Len(q) - 1) : w[i] = q[i + 1]
  OBVIOUS
<1> HIDE DEF w
<1>2. \A i \in DOMAIN w : i \in Nat /\ i + 1 \in DOMAIN q /\ w[i] = q[i + 1]
  BY <1>1
<1>3. \A i, j \in DOMAIN w : w[i] = "task" /\ w[j] = "task" => i = j
  <2> SUFFICES ASSUME NEW i \in DOMAIN w, NEW j \in DOMAIN w,
                      w[i] = "task", w[j] = "task"
               PROVE  i = j
    OBVIOUS
  <2>1. i + 1 = j + 1
    BY <1>2 DEF Tidy
  <2> QED BY <1>2, <2>1
<1>4. ASSUME NEW i \in DOMAIN w, w[i] \in Desc
      PROVE  \E j \in DOMAIN w : i < j /\ w[j] = "task"
  <2>1. i + 1 \in DOMAIN q /\ q[i + 1] \in Desc /\ i \in Nat
    BY <1>2, <1>4
  <2>2. PICK k \in DOMAIN q : i + 1 < k /\ q[k] = "task"
    BY <2>1 DEF Tidy
  <2>3. k - 1 \in DOMAIN w /\ i < k - 1 /\ w[k - 1] = q[(k - 1) + 1] /\ (k - 1) + 1 = k
    BY <1>1, <2>1, <2>2
  <2> QED BY <2>2, <2>3
<1>5. ASSUME Head(q) = "task", NEW i \in DOMAIN w
      PROVE  w[i] # "task" /\ w[i] \notin Desc
  <2>1. 1 \in DOMAIN q /\ q[1] = "task" /\ i + 1 # 1
    BY <1>1, <1>2, <1>5
  <2>2. w[i] # "task"
    BY <1>2, <2>1 DEF Tidy
  <2>3. ASSUME w[i] \in Desc PROVE FALSE
    <3>1. PICK j \in DOMAIN w : i < j /\ w[j] = "task"
      BY <1>4, <2>3
    <3>2. j + 1 = 1
      BY <1>2, <2>1, <3>1 DEF Tidy
    <3> QED BY SMTT(30), <1>2, <3>2
  <2> QED BY <2>2, <2>3
<1> QED BY <1>3, <1>4, <1>5 DEF Tidy, Items, w

\* Operations are neither the task nor descriptors.
LEMMA SeqOfOps ==
    ASSUME NEW q \in Seq(Queued), Items(q) \subseteq Op
    PROVE  q \in Seq(Op)
BY DEF Items

LEMMA GoesOn ==
    ASSUME Shape, NEW t \in Thread, NEW what, Goes(t, what)
    PROVE  at'[t] = what /\ \A u \in Thread : u # t => at'[u] = at[u]
BY DEF Shape, Goes

\* stop() wakes those that sleep, and leaves the others where they are.
LEMMA StopWakes ==
    ASSUME NEW t \in Thread, at[t].step # "wait", NEW what, StopAll(t, what)
    PROVE  /\ at'[t] = what
           /\ \A u \in Thread : u # t =>
                  /\ at[u].step = "wait" => at'[u] = At("woken", "none")
                  /\ at[u].step # "wait" => at'[u] = at[u]
<1>1. at' = [u \in Thread |-> CASE u = t -> what
                                [] at[u].step = "wait" -> At("woken", "none")
                                [] OTHER -> at[u]]
  BY DEF StopAll
<1>2. at'[t] = what
  BY <1>1
<1>3. ASSUME NEW u \in Thread, u # t, at[u].step = "wait"
      PROVE  at'[u] = At("woken", "none")
  BY <1>1, <1>3
<1>4. ASSUME NEW u \in Thread, u # t, at[u].step # "wait" PROVE at'[u] = at[u]
  BY <1>1, <1>4
<1> QED BY <1>2, <1>3, <1>4

\* A step that leaves the shared queue alone and puts only operations on
\* private ones, while everyone who holds the task goes on holding it.
LEMMA TaskStays ==
    ASSUME TaskPlace, opQueue' = opQueue,
           \A u \in Thread : Items(privateQueue'[u]) \subseteq Items(privateQueue[u]) \cup Op,
           \A u \in Thread : at'[u] = at[u] \/ (~Holds(u) /\ ~Holds(u)')
    PROVE  TaskPlace'
BY DEF TaskPlace, Holds, Tidy, Items

\* A handler starts an operation: it is put on the thread's own queue, or the
\* thread is about to push it.
LEMMA ImmediateAdds ==
    ASSUME Shape, NEW t \in Thread, NEW o \in Op, NEW continuation \in BOOLEAN,
           Immediate(t, o, continuation)
    PROVE  /\ \A u \in Thread :
                 Items(privateQueue'[u]) \subseteq Items(privateQueue[u]) \cup Op
           /\ \A u \in Thread : at'[u] = at[u] \/ (u = t /\ at'[u].step = "push")
<1>1. privateQueue[t] \in Seq(Op \cup Desc)
  BY DEF Shape
<1>2. CASE (oneThread \/ continuation) /\ InHandler(t)
  <2>1. UNCHANGED at /\ privateQueue' = [privateQueue EXCEPT ![t] = Append(privateQueue[t], o)]
    BY <1>2 DEF Immediate
  <2>2. Items(Append(privateQueue[t], o)) \subseteq Items(privateQueue[t]) \cup {o}
    <3> DEFINE p == privateQueue[t]
    <3>1. p \in Seq(Op \cup Desc)
      BY <1>1
    <3> HIDE DEF p
    <3>2. Append(p, o) = p \o <<o>>
      BY <3>1
    <3> DEFINE one == <<o>>
    <3>3. one \in Seq(Op \cup Desc) /\ Items(one) = {o}
      BY ItemsOfOne
    <3> HIDE DEF one
    <3>4. Items(p \o one) = Items(p) \cup Items(one)
      BY <3>1, <3>3, ItemsOfConcat
    <3> QED BY <3>2, <3>3, <3>4 DEF p, one
  <2> DEFINE private == Append(privateQueue[t], o)
  <2> HIDE DEF private
  <2>3. privateQueue' = [privateQueue EXCEPT ![t] = private]
    BY <2>1 DEF private
  <2>4. privateQueue'[t] = private /\ \A u \in Thread : u # t => privateQueue'[u] = privateQueue[u]
    BY <2>3 DEF Shape
  <2>5. Items(private) \subseteq Items(privateQueue[t]) \cup Op
    BY <2>2 DEF private
  <2> QED BY <2>1, <2>4, <2>5
<1>3. CASE ~((oneThread \/ continuation) /\ InHandler(t))
  <2>1. /\ Goes(t, [step |-> "push", item |-> at[t].item, ops |-> <<o>>])
        /\ UNCHANGED privateQueue
    BY <1>3 DEF Immediate, privateVars
  <2> DEFINE what == [step |-> "push", item |-> at[t].item, ops |-> <<o>>]
  <2>2. what.step = "push"
    OBVIOUS
  <2> HIDE DEF what
  <2>3. at'[t] = what /\ \A u \in Thread : u # t => at'[u] = at[u]
    BY <2>1, GoesOn DEF what
  <2> QED BY <2>1, <2>2, <2>3
<1> QED BY <1>2, <1>3

LEMMA HandAdds ==
    ASSUME Shape, NEW t \in Thread, NEW item, NEW ops \in Seq(Op), Hand(t, item, ops)
    PROVE  /\ \A u \in Thread :
                 Items(privateQueue'[u]) \subseteq Items(privateQueue[u]) \cup Op
           /\ \A u \in Thread : at'[u] = at[u] \/ (u = t /\ at'[u].step \in {"body", "push"})
<1>1. privateQueue[t] \in Seq(Op \cup Desc) /\ ops \in Seq(Op \cup Desc)
  BY DEF Shape
<1>2. Items(privateQueue[t] \o ops) = Items(privateQueue[t]) \cup Items(ops)
  BY <1>1, ItemsOfConcat
<1>3. Items(ops) \subseteq Op
  BY DEF Items
<1>4. \/ privateQueue' = [privateQueue EXCEPT ![t] = privateQueue[t] \o ops]
      \/ UNCHANGED privateQueue
  BY DEF Hand
<1>5. \E what : Goes(t, what) /\ what.step \in {"body", "push"}
  BY DEF Hand, At
<1>6. \A u \in Thread : Items(privateQueue'[u]) \subseteq Items(privateQueue[u]) \cup Op
  <2>1. CASE UNCHANGED privateQueue
    BY <2>1
  <2> DEFINE private == privateQueue[t] \o ops
  <2>2. Items(private) \subseteq Items(privateQueue[t]) \cup Op
    BY <1>2, <1>3
  <2> HIDE DEF private
  <2>3. CASE privateQueue' = [privateQueue EXCEPT ![t] = private]
    <3>1. /\ privateQueue'[t] = private
          /\ \A u \in Thread : u # t => privateQueue'[u] = privateQueue[u]
      BY <2>3 DEF Shape
    <3> QED BY <2>2, <3>1
  <2> QED BY <1>4, <2>1, <2>3 DEF private
<1>7. \A u \in Thread : at'[u] = at[u] \/ (u = t /\ at'[u].step \in {"body", "push"})
  BY <1>5, GoesOn
<1> QED BY <1>6, <1>7

\* The steps of a thread that neither takes from the queue nor adds to it.
LEMMA TaskStaysPut ==
    ASSUME TaskInv, NEW t \in Thread,
           \/ Signal(t) \/ Run(t) \/ Sleep(t) \/ SleepOn(t) \/ SpuriousWakeup(t)
           \/ Return(t) \/ CallStop(t) \/ OutOfWork(t)
    PROVE  TaskPlace'
<1> USE DEF At
<1>1. Shape /\ TaskPlace /\ at = [u \in Thread |-> at[u]]
  BY DEF TaskInv, ReadyInv, Shape
<1>2. UNCHANGED <<opQueue, privateQueue>>
  BY DEF Signal, Run, Sleep, SleepOn, SpuriousWakeup, Return, CallStop, OutOfWork,
         StopAll, queueVars, privateVars
<1>3. ASSUME NEW what, Goes(t, what), ~Holds(t),
             what.step \notin {"poll", "block", "collected"}
      PROVE  TaskPlace'
  <2>1. \A u \in Thread : at'[u] = at[u] \/ (~Holds(u) /\ ~Holds(u)')
    BY <1>1, <1>3, GoesOn DEF Holds
  <2> QED BY <1>1, <1>2, <2>1, TaskStays
<1>4. CASE Signal(t)
  <2>1. CASE UNCHANGED at
    BY <1>1, <1>2, <2>1, TaskStays
  <2>2. CASE ~UNCHANGED at
    <3>1. PICK u \in Thread : at[u].step = "wait" /\ Goes(u, At("woken", "none"))
      BY <1>4, <2>2 DEF Signal
    <3>2. at'[u] = At("woken", "none") /\ \A v \in Thread : v # u => at'[v] = at[v]
      BY <1>1, <3>1, GoesOn
    <3>3. \A v \in Thread : at'[v] = at[v] \/ (~Holds(v) /\ ~Holds(v)')
      BY <3>1, <3>2 DEF Holds
    <3> QED BY <1>1, <1>2, <3>3, TaskStays
  <2> QED BY <2>1, <2>2
<1>5. CASE Run(t)
  BY <1>3, <1>5 DEF Run, Outside, Holds
<1>6. CASE Sleep(t)
  <2>1. at[t].step # "collected"
    <3>1. "task" \notin Items(Queue(t))
      BY <1>6, ItemsOfNone DEF Sleep
    <3> QED BY <1>1, <3>1, QueueIs
  <2> QED BY <1>3, <1>6, <2>1 DEF Sleep, AtQueue, Holds
<1>7. CASE SleepOn(t) \/ SpuriousWakeup(t)
  BY <1>3, <1>7 DEF SleepOn, SpuriousWakeup, Holds
<1>8. CASE Return(t)
  BY <1>3, <1>8 DEF Return, InHandler, Holds
<1>9. ASSUME NEW what, StopAll(t, what), at[t].step # "wait",
             what = at[t] \/ (~Holds(t) /\ what.step = "loop")
      PROVE  TaskPlace'
  <2>1. \A u \in Thread : at'[u] = at[u] \/ (~Holds(u) /\ ~Holds(u)')
    BY <1>9, StopWakes DEF Holds
  <2> QED BY <1>1, <1>2, <2>1, TaskStays
<1>10. CASE CallStop(t)
  <2>1. StopAll(t, at[t]) /\ at[t].step # "wait"
    BY <1>10 DEF CallStop, InHandler
  <2> QED BY <1>9, <2>1
<1>11. CASE OutOfWork(t)
  BY <1>9, <1>11 DEF OutOfWork, Holds
<1> QED BY <1>4, <1>5, <1>6, <1>7, <1>8, <1>10, <1>11

\* The steps that start and end operations.
LEMMA TaskStaysAmongOps ==
    ASSUME TaskInv, NEW t \in Thread,
           \/ \E o \in Op, continuation \in BOOLEAN :
                 \/ Post(t, o, continuation)
                 \/ \E d \in Desc : StartOp(t, d, o, continuation)
           \/ \E d \in Desc : CancelOps(t, d)
           \/ PerformIo(t)
    PROVE  TaskPlace'
<1>1. Shape /\ TaskPlace /\ opQueue' = opQueue
  BY DEF TaskInv, ReadyInv, Post, StartOp, CancelOps, PerformIo, queueVars
<1>2. ~Holds(t)
  BY DEF Post, StartOp, CancelOps, PerformIo, InHandler, Holds
<1>3. ASSUME \A u \in Thread :
                 Items(privateQueue'[u]) \subseteq Items(privateQueue[u]) \cup Op,
             \A u \in Thread :
                 at'[u] = at[u] \/ (u = t /\ at'[u].step \in {"body", "push", "return"})
      PROVE  TaskPlace'
  <2>1. \A u \in Thread : at'[u] = at[u] \/ (~Holds(u) /\ ~Holds(u)')
    BY <1>2, <1>3 DEF Holds
  <2> QED BY <1>1, <1>3, <2>1, TaskStays
<1>4. ASSUME NEW o \in Op, NEW continuation \in BOOLEAN, Immediate(t, o, continuation)
      PROVE  TaskPlace'
  BY <1>1, <1>3, <1>4, ImmediateAdds
<1>5. CASE UNCHANGED at /\ UNCHANGED privateQueue
  <2>1. /\ \A u \in Thread : Items(privateQueue'[u]) \subseteq Items(privateQueue[u]) \cup Op
        /\ \A u \in Thread : at'[u] = at[u]
    BY <1>5
  <2> QED BY <1>3, <2>1
<1>6. ASSUME NEW d \in Desc, CancelOps(t, d) PROVE TaskPlace'
  <2>1. waiting[d] \in Seq(Op) /\ Hand(t, at[t].item, waiting[d])
    BY <1>1, <1>6 DEF CancelOps, Shape
  <2> QED BY <1>1, <1>3, <2>1, HandAdds
<1>7. CASE PerformIo(t)
  <2> DEFINE d == at[t].item
             n == Progress(d)
             done == SubSeq(waiting[d], 1, n)
  <2>1. waiting[d] \in Seq(Op) /\ Available(d) \in Nat
    BY <1>1, <1>7 DEF PerformIo, Shape, Apt, Available
  <2>2. n \in Nat /\ n <= Len(waiting[d])
    BY <2>1 DEF Progress
  <2>3. n > 1 => Tail(done) \in Seq(Op)
    <3> HIDE DEF n
    <3>1. done \in Seq(Op) /\ Len(done) = n
      BY <2>1, <2>2
    <3> HIDE DEF done
    <3> QED BY <2>2, <3>1
  <2>4. \/ n > 1 /\ Hand(t, done[1], Tail(done))
        \/ /\ UNCHANGED privateQueue
           /\ \E what : Goes(t, what) /\ what.step \in {"body", "return"}
    <3>1. \/ Goes(t, At("return", "none")) /\ UNCHANGED privateQueue
          \/ Goes(t, At("body", done[1])) /\ UNCHANGED privateVars
          \/ n > 1 /\ Hand(t, done[1], Tail(done))
      BY <1>7 DEF PerformIo
    <3>2. \A item : At("return", item).step = "return" /\ At("body", item).step = "body"
      BY DEF At
    <3> HIDE DEF d, n, done
    <3> QED BY <3>1, <3>2 DEF privateVars
  <2> HIDE DEF d, n, done
  <2>5. CASE n > 1 /\ Hand(t, done[1], Tail(done))
    BY <1>1, <1>3, <2>3, <2>5, HandAdds
  <2>6. CASE /\ UNCHANGED privateQueue
             /\ \E what : Goes(t, what) /\ what.step \in {"body", "return"}
    <3>1. \A u \in Thread :
             at'[u] = at[u] \/ (u = t /\ at'[u].step \in {"body", "push", "return"})
      BY <1>1, <2>6, GoesOn
    <3>2. \A u \in Thread : Items(privateQueue'[u]) \subseteq Items(privateQueue[u]) \cup Op
      BY <2>6
    <3> QED BY <1>3, <3>1, <3>2
  <2> QED BY <2>4, <2>5, <2>6
<1> QED
  BY <1>4, <1>5, <1>6, <1>7 DEF Post, StartOp, privateVars

\* What a thread finds when it has put its own queue behind the shared one.
LEMMA QueueIsTidy ==
    ASSUME TaskInv, NEW t \in Thread
    PROVE  /\ Queue(t) \in Seq(Queued) /\ Tidy(Queue(t))
           /\ "task" \in Items(Queue(t)) => \A u \in Thread : u # t => ~Holds(u)
<1>1. Shape /\ TaskPlace /\ opQueue \in Seq(Queued) /\ privateQueue[t] \in Seq(Op \cup Desc)
  BY DEF TaskInv, ReadyInv, Shape
<1>2. privateQueue[t] \in Seq(Queued) /\ "task" \notin Items(privateQueue[t])
  <2>1. Op \cup Desc \subseteq Queued /\ "task" \notin Op \cup Desc
    BY NamesAssumption DEF Queued
  <2> QED BY <1>1, <2>1 DEF Items
<1> DEFINE both == opQueue \o privateQueue[t]
<1>3. both \in Seq(Queued) /\ Items(both) = Items(opQueue) \cup Items(privateQueue[t])
  BY <1>1, <1>2, ItemsOfConcat
<1>4. Queue(t) = both \o (IF at[t].step = "collected" THEN <<"task">> ELSE <<>>)
  BY DEF Queue
<1>5. Queue(t) \in Seq(Queued)
  BY <1>1, QueueIs
<1>6. CASE at[t].step = "collected"
  <2>1. "task" \notin Items(both)
    BY <1>1, <1>2, <1>3, <1>6 DEF TaskPlace, Holds
  <2> HIDE DEF both
  <2>2. Tidy(both \o <<"task">>) /\ Queue(t) = both \o <<"task">>
    BY <1>3, <1>4, <1>6, <2>1, TidyWithTask
  <2>3. \A u \in Thread : u # t => ~Holds(u)
    BY <1>1, <1>6 DEF TaskPlace, Holds
  <2> QED BY <1>5, <2>2, <2>3
<1>7. CASE at[t].step # "collected"
  <2>1. privateQueue[t] \in Seq(Op)
    BY <1>1, <1>2, <1>7, SeqOfOps DEF TaskPlace
  <2>2. Tidy(both)
    BY <1>1, <2>1, TidyBeforeOps DEF TaskPlace
  <2>3. Queue(t) = both
    <3> HIDE DEF both
    <3> QED BY <1>3, <1>4, <1>7
  <2>4. "task" \in Items(both) => \A u \in Thread : ~Holds(u)
    BY <1>1, <1>2, <1>3 DEF TaskPlace
  <2> HIDE DEF both
  <2> QED BY <1>5, <2>2, <2>3, <2>4
<1> QED BY <1>6, <1>7

LEMMA LoopKeepsTask ==
    ASSUME TaskInv, NEW t \in Thread, Exit(t) \/ TakeTask(t) \/ TakeOperation(t)
    PROVE  TaskPlace'
<1> USE DEF At
<1> DEFINE q == Queue(t)
<1>1. Shape /\ TaskPlace
  BY DEF TaskInv, ReadyInv
<1>2. /\ q \in Seq(Queued) /\ Tidy(q)
      /\ "task" \in Items(q) => \A u \in Thread : u # t => ~Holds(u)
  BY QueueIsTidy
<1>3. privateQueue'[t] = <<>> /\ \A u \in Thread : u # t => privateQueue'[u] = privateQueue[u]
  BY <1>1 DEF Exit, TakeTask, TakeOperation, Shape
<1>4. \A u \in Thread : Holds(u) => "task" \notin Items(opQueue)
  BY <1>1 DEF TaskPlace
<1>5. ASSUME q # <<>>
      PROVE  /\ Tidy(Tail(q)) /\ Items(q) = {Head(q)} \cup Items(Tail(q))
             /\ Head(q) = "task" => "task" \notin Items(Tail(q))
  BY <1>2, <1>5, ItemsOfTail, TidyTail
<1>6. \/ \E s \in {"exited", "complete", "body"} : \E item :
            /\ Goes(t, At(s, item)) /\ Tidy(opQueue') /\ Items(opQueue') \subseteq Items(q)
      \/ \E s \in {"poll", "block"} :
            /\ Goes(t, At(s, "none")) /\ Tidy(opQueue') /\ "task" \in Items(q)
            /\ "task" \notin Items(opQueue')
  <2>1. CASE Exit(t)
    BY <1>2, <2>1 DEF Exit
  <2>2. CASE TakeTask(t)
    <3>1. \E s \in {"poll", "block"} : Goes(t, At(s, "none"))
      BY <2>2 DEF TakeTask
    <3>2. Head(q) = "task" /\ q # <<>> /\ opQueue' = Tail(q)
      BY <2>2 DEF TakeTask
    <3> QED BY <1>5, <3>1, <3>2
  <2>3. CASE TakeOperation(t)
    <3>1. q # <<>> /\ opQueue' = Tail(q)
          /\ Goes(t, At(IF Head(q) \in Desc THEN "complete" ELSE "body", Head(q)))
      BY <2>3 DEF TakeOperation
    <3>2. Tidy(opQueue') /\ Items(opQueue') \subseteq Items(q)
      BY <1>5, <3>1
    <3> QED BY <3>1, <3>2
  <2> QED BY <2>1, <2>2, <2>3
<1> HIDE DEF q
<1>7. ASSUME NEW s \in {"exited", "complete", "body"}, NEW item, Goes(t, At(s, item)),
             Tidy(opQueue'), Items(opQueue') \subseteq Items(q)
      PROVE  TaskPlace'
  <2>1. at'[t].step = s /\ \A u \in Thread : u # t => at'[u] = at[u]
    BY <1>1, <1>7, GoesOn
  <2>2. ~Holds(t)' /\ \A u \in Thread : u # t => Holds(u)' = Holds(u)
    BY <2>1 DEF Holds
  <2> QED BY <1>1, <1>2, <1>3, <1>7, <2>1, <2>2, ItemsOfNone DEF TaskPlace
<1>8. ASSUME NEW s \in {"poll", "block"}, Goes(t, At(s, "none")),
             Tidy(opQueue'), "task" \in Items(q), "task" \notin Items(opQueue')
      PROVE  TaskPlace'
  <2>1. at'[t].step = s /\ \A u \in Thread : u # t => at'[u] = at[u]
    BY <1>1, <1>8, GoesOn
  <2>2. \A u \in Thread : u # t => ~Holds(u)'
    BY <1>2, <1>8, <2>1 DEF Holds
  <2> QED BY <1>1, <1>3, <1>8, <2>1, <2>2, ItemsOfNone DEF TaskPlace
<1> QED BY <1>6, <1>7, <1>8

LEMMA EpollKeepsTask ==
    ASSUME TaskInv, NEW t \in Thread, EpollReturns(t)
    PROVE  TaskPlace'
<1>1. /\ Shape /\ TaskPlace /\ Holds(t) /\ opQueue' = opQueue
      /\ Goes(t, At("collected", "none"))
      /\ \E ready : privateQueue' = [privateQueue EXCEPT ![t] = ready]
  BY DEF TaskInv, ReadyInv, EpollReturns, Holds, queueVars
<1>2. /\ at'[t].step = "collected" /\ \A u \in Thread : u # t => at'[u] = at[u]
      /\ \A u \in Thread : u # t => privateQueue'[u] = privateQueue[u]
  <2>1. \A u \in Thread : u # t => privateQueue'[u] = privateQueue[u]
    BY <1>1 DEF Shape
  <2> QED BY <1>1, <2>1, GoesOn DEF At
<1>3. Holds(t)' /\ \A u \in Thread : u # t => Holds(u)' = Holds(u)
  BY <1>2 DEF Holds
<1>4. Tidy(opQueue')
  BY <1>1 DEF TaskPlace
<1> QED BY <1>1, <1>2, <1>3, <1>4 DEF TaskPlace

LEMMA PushKeepsTask ==
    ASSUME TaskInv, NEW t \in Thread, Push(t)
    PROVE  TaskPlace'
<1>1. /\ Shape /\ TaskPlace /\ at[t].step = "push" /\ at[t].ops \in Seq(Op)
      /\ opQueue \in Seq(Queued) /\ privateQueue' = privateQueue
      /\ opQueue' = opQueue \o at[t].ops /\ Goes(t, At("body", at[t].item))
  BY DEF TaskInv, ReadyInv, Shape, Apt, Push, privateVars
<1> DEFINE ops == at[t].ops
<1>2. ops \in Seq(Queued) /\ Items(ops) \subseteq Op
  <2> HIDE DEF ops
  <2>1. ops \in Seq(Op)
    BY <1>1 DEF ops
  <2>2. Op \subseteq Queued
    BY DEF Queued
  <2> QED BY <2>1, <2>2 DEF Items
<1>3. Tidy(opQueue') /\ Items(opQueue') = Items(opQueue) \cup Items(ops)
  BY <1>1, <1>2, TidyBeforeOps, ItemsOfConcat DEF TaskPlace
<1>4. at'[t].step = "body" /\ \A u \in Thread : u # t => at'[u] = at[u]
  BY <1>1, GoesOn DEF At
<1>5. ~Holds(t)' /\ \A u \in Thread : u # t => Holds(u)' = Holds(u)
  BY <1>4 DEF Holds
<1>6. "task" \in Items(opQueue') => "task" \in Items(opQueue)
  BY <1>2, <1>3, NamesAssumption
<1>7. \A u \in Thread : at'[u].step # "collected" => Items(privateQueue'[u]) \subseteq Op
  BY <1>1, <1>4 DEF TaskPlace
<1> QED BY <1>1, <1>3, <1>5, <1>6, <1>7 DEF TaskPlace

LEMMA InitTaskInv == Init => TaskInv
<1> SUFFICES ASSUME Init PROVE TaskPlace
  BY InitReadyInv DEF TaskInv
<1>1. \A t \in Thread : at[t].step = "body" /\ Items(privateQueue[t]) = {}
  BY ItemsOfNone DEF Init, Outside, At
<1>2. opQueue = <<"task">>
  BY DEF Init
<1>3. Tidy(opQueue)
  <2>1. DOMAIN opQueue = {1} /\ opQueue[1] = "task"
    BY <1>2
  <2> QED BY <2>1, NoneIsNoDescriptor DEF Tidy
<1> QED BY <1>1, <1>3 DEF TaskPlace, Holds

LEMMA NextKeepsTask == TaskInv /\ [Next]_vars => TaskInv'
<1> SUFFICES ASSUME TaskInv, [Next]_vars PROVE TaskPlace'
  BY NextKeepsReady DEF TaskInv
<1>1. ASSUME NEW t \in Thread, Step(t) \/ Run(t) \/ SpuriousWakeup(t) \/ CallStop(t)
      PROVE  TaskPlace'
  BY <1>1, TaskStaysPut, LoopKeepsTask, EpollKeepsTask, PushKeepsTask, TaskStaysAmongOps
     DEF Step
<1>2. ASSUME NEW t \in Thread,
             \/ \E o \in Op, continuation \in BOOLEAN :
                   \/ Post(t, o, continuation)
                   \/ \E d \in Desc : StartOp(t, d, o, continuation)
             \/ \E d \in Desc : CancelOps(t, d)
      PROVE  TaskPlace'
  BY <1>2, TaskStaysAmongOps
<1>3. ASSUME NEW d \in Desc, DataArrives(d) \/ InputEnds(d) PROVE TaskPlace'
  BY <1>3, TaskStays DEF DataArrives, InputEnds, TaskInv, queueVars, privateVars
<1>4. CASE UNCHANGED vars
  BY <1>4, TaskStays DEF vars, queueVars, privateVars, TaskInv
<1> QED BY <1>1, <1>2, <1>3, <1>4 DEF Next

\* What epoll_reactor::run relies on to reuse its descriptor operations: when
\* a thread calls it, all those that it has returned before have been taken
\* out of every queue, because the task is put back behind them and they
\* stay in front of it.
THEOREM ReactorMayReuse == Spec => []DescriptorsDequeued
<1>1. TaskInv => DescriptorsDequeued
  <2> SUFFICES ASSUME TaskInv, NEW t \in Thread, at[t].step \in {"poll", "block"}
               PROVE  Desc \cap (Items(opQueue) \cup UNION {Items(privateQueue[u]) : u \in Thread}) = {}
    BY DEF DescriptorsDequeued
  <2>1. /\ TaskPlace /\ Holds(t) /\ privateQueue[t] = <<>>
    BY DEF TaskInv, ReadyInv, Shape, Apt, Holds
  <2>2. Desc \cap Items(opQueue) = {}
    BY <2>1 DEF TaskPlace, Tidy, Items
  <2>3. \A u \in Thread : u # t => Items(privateQueue[u]) \subseteq Op
    BY <2>1 DEF TaskPlace, Holds
  <2>4. \A u \in Thread : Desc \cap Items(privateQueue[u]) = {}
    BY <2>1, <2>3, ItemsOfNone, NamesAssumption
  <2> QED BY <2>2, <2>4
<1> QED BY <1>1, InitTaskInv, NextKeepsTask, PTL DEF Spec

-----------------------------------------------------------------------------
(* Nobody sleeps for good.                                                 *)

Asleep(t) == at[t].step \in {"wait", "block"}

Waits(t) == at[t].step \in {"wait", "woken"}

\* The thread looks at the queue before it sleeps again.
Looks(t) == at[t].step \in {"loop", "woken", "collected", "poll"}

\* Somebody will look at the queue, whatever happens at the descriptors: the
\* interrupter will end the wait for events, or a signal will reach a thread.
SomebodyComes ==
    \/ \E t \in Thread : Looks(t)
    \/ "interrupter" \in edge /\ \E t \in Thread : at[t].step = "block"
    \/ toSignal # {} /\ \E t \in Thread : at[t].step = "wait"

\* The hint is the program's promise that one thread is in run().
OneRuns == oneThread => \A t, u \in Thread : InRun(t) /\ InRun(u) => t = u

\* While the task is taken to be interrupted, it cannot block for long.
InterruptIsUnderWay ==
    taskInterrupted /\ (\E t \in Thread : at[t].step = "block") => "interrupter" \in edge

\* A thread that wakes up while there is something to do does not sleep on.
EventIsSet ==
    opQueue # <<>> /\ ~stopped /\ (\E t \in Thread : Waits(t)) => signalled

SleepersAreWoken ==
    opQueue # <<>> /\ ~stopped /\ (\E t \in Thread : Asleep(t)) => SomebodyComes

WakeParts ==
    /\ toSignal \subseteq Thread
    /\ OneRuns
    /\ InterruptIsUnderWay
    /\ EventIsSet
    /\ SleepersAreWoken

WakeInv == TaskInv /\ WakeParts

LEMMA InitWakeInv == Init => WakeInv
<1> SUFFICES ASSUME Init PROVE WakeParts
  BY InitTaskInv DEF WakeInv
<1>1. \A t \in Thread : at[t].step = "body" /\ at[t].item = "none"
  BY DEF Init, Outside, At
<1>2. toSignal = {}
  BY DEF Init
<1> QED
  BY <1>1, <1>2 DEF WakeParts, OneRuns, InterruptIsUnderWay, EventIsSet, SleepersAreWoken,
     InRun, Waits, Asleep

\* Nobody enters run(), so that one thread is in it as before.
LEMMA OneStaysInRun ==
    ASSUME OneRuns, oneThread' = oneThread, \A u \in Thread : InRun(u)' => InRun(u)
    PROVE  OneRuns'
BY DEF OneRuns

\* A step of a thread that neither sleeps nor is about to look at the queue,
\* and that leaves the queue and the event as they are.
LEMMA QuietStep ==
    ASSUME WakeParts, OneRuns', UNCHANGED <<opQueue, eventVars>>,
           "interrupter" \in edge => "interrupter" \in edge',
           \A u \in Thread : \/ at'[u] = at[u]
                             \/ ~Looks(u) /\ ~Asleep(u) /\ ~Asleep(u)' /\ ~Waits(u)'
    PROVE  WakeParts'
<1>1. UNCHANGED opQueue /\ UNCHANGED stopped /\ UNCHANGED taskInterrupted
      /\ UNCHANGED signalled /\ UNCHANGED toSignal
  BY DEF eventVars
<1>2. \A u \in Thread : /\ Asleep(u)' => Asleep(u) /\ at'[u] = at[u]
                        /\ Waits(u)' => Waits(u)
                        /\ Looks(u) \/ Asleep(u) => at'[u] = at[u]
  BY DEF Asleep, Waits
<1>3. InterruptIsUnderWay'
  BY <1>1, <1>2 DEF WakeParts, InterruptIsUnderWay, Asleep
<1>4. EventIsSet'
  BY <1>1, <1>2 DEF WakeParts, EventIsSet
<1>5. SomebodyComes => SomebodyComes'
  BY <1>1, <1>2 DEF SomebodyComes, Looks, Asleep
<1>6. SleepersAreWoken'
  BY <1>1, <1>2, <1>5 DEF WakeParts, SleepersAreWoken
<1> QED BY <1>1, <1>3, <1>4, <1>6 DEF WakeParts

\* What wake_one_thread_and_unlock achieves for a thread that goes on: the
\* one it signals wakes up, or the one that holds the task is interrupted.
LEMMA WakeOneWakes ==
    ASSUME WakeParts, OneRuns', NEW t \in Thread, NEW interrupted, WakeOne(t, interrupted),
           interrupted /\ (\E u \in Thread : at[u].step = "block") => taskInterrupted,
           \A u \in Thread : u # t => at'[u] = at[u],
           at'[t].step \notin {"wait", "woken", "block"}
    PROVE  WakeParts'
<1>1. /\ signalled' /\ toSignal' \subseteq Thread
      /\ taskInterrupted' <=> (interrupted \/ Waiters(t) = {})
      /\ "interrupter" \in edge => "interrupter" \in edge'
      /\ Waiters(t) = {} /\ ~interrupted => "interrupter" \in edge'
      /\ Waiters(t) # {} => t \in toSignal'
  BY DEF WakeOne, WakeParts
<1>2. \A u \in Thread : at'[u].step \in {"wait", "woken", "block"} => u # t /\ at'[u] = at[u]
  OBVIOUS
<1>3. InterruptIsUnderWay'
  BY <1>1, <1>2 DEF WakeParts, InterruptIsUnderWay
<1>4. EventIsSet'
  BY <1>1 DEF EventIsSet
<1>5. ASSUME NEW u \in Thread, Asleep(u)' PROVE SomebodyComes'
  <2>1. CASE Waiters(t) # {}
    <3>1. PICK v \in Thread : v # t /\ at[v].step \in {"wait", "woken"}
      BY <2>1 DEF Waiters
    <3>2. at'[v].step = "woken" \/ (at'[v].step = "wait" /\ t \in toSignal')
      BY <1>1, <2>1, <3>1
    <3> QED BY <3>2 DEF SomebodyComes, Looks
  <2>2. CASE Waiters(t) = {}
    <3>1. at'[u].step = "block"
      BY <1>2, <1>5, <2>2 DEF Asleep, Waiters
    <3>2. "interrupter" \in edge'
      BY <1>1, <1>3, <2>2, <3>1 DEF InterruptIsUnderWay
    <3> QED BY <3>1, <3>2 DEF SomebodyComes
  <2> QED BY <2>1, <2>2
<1> QED BY <1>1, <1>3, <1>4, <1>5 DEF WakeParts, SleepersAreWoken

\* The steps of threads that sleep, wake up or are woken.
LEMMA WakingKeepsWake ==
    ASSUME WakeInv, NEW t \in Thread,
           \/ Signal(t) \/ Sleep(t) \/ SleepOn(t) \/ SpuriousWakeup(t)
           \/ CallStop(t) \/ OutOfWork(t)
    PROVE  WakeParts'
<1> USE DEF At
<1>1. Shape /\ WakeParts
  BY DEF WakeInv, TaskInv, ReadyInv
<1>2. ASSUME NEW u \in Thread, NEW s \in {"wait", "woken", "loop"}, Goes(u, At(s, "none")),
             InRun(u), oneThread' = oneThread
      PROVE  /\ at'[u].step = s /\ \A v \in Thread : v # u => at'[v] = at[v]
             /\ OneRuns'
  <2>1. at'[u].step = s /\ \A v \in Thread : v # u => at'[v] = at[v]
    BY <1>1, <1>2, GoesOn
  <2>2. \A v \in Thread : InRun(v)' => InRun(v)
    BY <1>2, <2>1 DEF InRun
  <2> QED BY <1>1, <1>2, <2>1, <2>2, OneStaysInRun DEF WakeParts
<1>3. CASE Signal(t)
  <2>1. /\ toSignal' \subseteq toSignal
        /\ UNCHANGED <<oneThread, opQueue, stopped, taskInterrupted, signalled, edge>>
    BY <1>3 DEF Signal, queueVars
  <2>2. CASE \A u \in Thread : at[u].step # "wait"
    <3>1. UNCHANGED at
      BY <1>3, <2>2 DEF Signal
    <3>2. OneRuns' /\ InterruptIsUnderWay' /\ EventIsSet'
      BY <1>1, <2>1, <3>1 DEF WakeParts, OneRuns, InRun, InterruptIsUnderWay, EventIsSet, Waits
    <3>3. SomebodyComes => SomebodyComes'
      BY <2>1, <2>2, <3>1 DEF SomebodyComes, Looks
    <3>4. SleepersAreWoken'
      BY <1>1, <2>1, <3>1, <3>3 DEF WakeParts, SleepersAreWoken, Asleep
    <3> QED BY <1>1, <2>1, <3>2, <3>4 DEF WakeParts
  <2>3. CASE \E u \in Thread : at[u].step = "wait"
    <3>1. PICK u \in Thread : at[u].step = "wait" /\ Goes(u, At("woken", "none"))
      BY <1>3, <2>3 DEF Signal
    <3>2. /\ at'[u].step = "woken" /\ \A v \in Thread : v # u => at'[v] = at[v]
          /\ OneRuns'
      BY <1>2, <2>1, <3>1 DEF InRun
    <3>3. InterruptIsUnderWay' /\ EventIsSet'
      BY <1>1, <2>1, <3>1, <3>2 DEF WakeParts, InterruptIsUnderWay, EventIsSet, Waits
    <3>4. SomebodyComes'
      BY <3>2 DEF SomebodyComes, Looks
    <3> QED BY <1>1, <2>1, <3>2, <3>3, <3>4 DEF WakeParts, SleepersAreWoken
  <2> QED BY <2>2, <2>3
<1>4. CASE Sleep(t)
  <2>1. /\ Goes(t, At("wait", "none")) /\ at[t].step \in {"loop", "collected", "woken"}
        /\ UNCHANGED <<oneThread, opQueue, taskInterrupted, toSignal, edge>>
    BY <1>4 DEF Sleep, AtQueue, queueVars
  <2>2. opQueue = <<>>
    <3>1. Items(Queue(t)) = {}
      BY <1>4, ItemsOfNone DEF Sleep
    <3>2. Items(opQueue) \subseteq Items(Queue(t))
      BY <1>1, QueueIs
    <3>3. opQueue \in Seq(Queued)
      BY <1>1 DEF Shape
    <3>4. opQueue # <<>> => Head(opQueue) \in Items(opQueue)
      BY <3>3, ItemsOfTail
    <3> QED BY <3>1, <3>2, <3>4
  <2>3. /\ at'[t].step = "wait" /\ \A v \in Thread : v # t => at'[v] = at[v]
        /\ OneRuns'
    BY <1>2, <2>1 DEF InRun
  <2> QED
    BY <1>1, <2>1, <2>2, <2>3
       DEF WakeParts, InterruptIsUnderWay, EventIsSet, SleepersAreWoken
<1>5. CASE SleepOn(t)
  <2>1. /\ Goes(t, At("wait", "none")) /\ at[t].step = "woken" /\ ~signalled
        /\ UNCHANGED <<oneThread, opQueue, stopped, taskInterrupted, signalled, toSignal, edge>>
    BY <1>5 DEF SleepOn, queueVars, eventVars
  <2>2. /\ at'[t].step = "wait" /\ \A v \in Thread : v # t => at'[v] = at[v]
        /\ OneRuns'
    BY <1>2, <2>1 DEF InRun
  <2>3. opQueue = <<>> \/ stopped
    BY <1>1, <2>1 DEF WakeParts, EventIsSet, Waits
  <2> QED
    BY <1>1, <2>1, <2>2, <2>3
       DEF WakeParts, InterruptIsUnderWay, EventIsSet, SleepersAreWoken
<1>6. CASE SpuriousWakeup(t)
  <2>1. /\ Goes(t, At("woken", "none")) /\ at[t].step = "wait"
        /\ UNCHANGED <<oneThread, opQueue, stopped, taskInterrupted, signalled, toSignal, edge>>
    BY <1>6 DEF SpuriousWakeup, queueVars, eventVars
  <2>2. /\ at'[t].step = "woken" /\ \A v \in Thread : v # t => at'[v] = at[v]
        /\ OneRuns'
    BY <1>2, <2>1 DEF InRun
  <2>3. InterruptIsUnderWay' /\ EventIsSet'
    BY <1>1, <2>1, <2>2 DEF WakeParts, InterruptIsUnderWay, EventIsSet, Waits
  <2>4. SomebodyComes'
    BY <2>2 DEF SomebodyComes, Looks
  <2> QED BY <1>1, <2>1, <2>2, <2>3, <2>4 DEF WakeParts, SleepersAreWoken
<1>7. ASSUME NEW what, StopAll(t, what), at[t].step \notin {"wait", "block"}, InRun(t),
             what = at[t] \/ what.step = "loop"
      PROVE  WakeParts'
  <2>1. /\ stopped' /\ taskInterrupted' /\ toSignal' = toSignal /\ oneThread' = oneThread
        /\ edge' = IF taskInterrupted THEN edge ELSE edge \cup {"interrupter"}
    BY <1>7 DEF StopAll
  <2>2. /\ at'[t] = what
        /\ \A u \in Thread : u # t => at'[u] = at[u] \/ (InRun(u) /\ at'[u].step = "woken")
    BY <1>7, StopWakes DEF InRun
  <2>3. \A u \in Thread : InRun(u)' => InRun(u)
    BY <1>7, <2>2 DEF InRun
  <2>4. OneRuns'
    BY <1>1, <2>1, <2>3, OneStaysInRun DEF WakeParts
  <2>5. \A u \in Thread : at'[u].step = "block" => at[u].step = "block"
    BY <1>7, <2>2
  <2>6. InterruptIsUnderWay'
    BY <1>1, <2>1, <2>5 DEF WakeParts, InterruptIsUnderWay
  <2> QED BY <1>1, <2>1, <2>4, <2>6 DEF WakeParts, EventIsSet, SleepersAreWoken
<1>8. CASE CallStop(t)
  <2>1. StopAll(t, at[t]) /\ at[t].step \notin {"wait", "block"} /\ InRun(t)
    BY <1>8 DEF CallStop, InHandler, InRun
  <2> QED BY <1>7, <2>1
<1>9. CASE OutOfWork(t)
  BY <1>7, <1>9 DEF OutOfWork, InRun
<1> QED BY <1>3, <1>4, <1>5, <1>6, <1>8, <1>9

\* The task is held by one thread, so that one thread at most blocks.
LEMMA LoopKeepsWake ==
    ASSUME WakeInv, NEW t \in Thread, Exit(t) \/ TakeTask(t) \/ TakeOperation(t)
    PROVE  WakeParts'
<1> USE DEF At
<1> DEFINE q == Queue(t)
<1>1. /\ Shape /\ TaskPlace /\ WakeParts /\ AtQueue(t) /\ InRun(t)
      /\ UNCHANGED <<oneThread, stopped>>
  BY DEF WakeInv, TaskInv, ReadyInv, Exit, TakeTask, TakeOperation, AtQueue, InRun
<1>2. ASSUME NEW what, Goes(t, what)
      PROVE  /\ at'[t] = what /\ \A u \in Thread : u # t => at'[u] = at[u]
             /\ OneRuns'
  <2>1. at'[t] = what /\ \A u \in Thread : u # t => at'[u] = at[u]
    BY <1>1, <1>2, GoesOn
  <2>2. \A u \in Thread : InRun(u)' => InRun(u)
    BY <1>1, <2>1 DEF InRun
  <2> QED BY <1>1, <2>1, <2>2, OneStaysInRun DEF WakeParts
<1>3. Interrupted(t) /\ (\E u \in Thread : at[u].step = "block") => taskInterrupted
  BY <1>1 DEF Interrupted, TaskPlace, Holds
<1>4. ASSUME oneThread PROVE \A u \in Thread : u # t => ~InRun(u)
  BY <1>1, <1>4 DEF WakeParts, OneRuns
<1>5. ASSUME q # <<>>, Len(q) <= 1 PROVE Tail(q) = <<>>
  <2>1. q \in Seq(Queued)
    BY <1>1, QueueIs
  <2> HIDE DEF q
  <2> QED BY <1>5, <2>1
<1>6. CASE Exit(t)
  <2>1. /\ stopped /\ taskInterrupted' = Interrupted(t) /\ UNCHANGED <<toSignal, edge>>
        /\ Goes(t, At("exited", "none"))
    BY <1>6 DEF Exit
  <2>2. /\ at'[t].step = "exited" /\ \A u \in Thread : u # t => at'[u] = at[u]
        /\ OneRuns'
    BY <1>2, <2>1
  <2>3. InterruptIsUnderWay'
    BY <1>1, <1>3, <2>1, <2>2 DEF WakeParts, InterruptIsUnderWay
  <2> QED BY <1>1, <2>1, <2>2, <2>3 DEF WakeParts, EventIsSet, SleepersAreWoken
<1>7. CASE TakeTask(t)
  <2> DEFINE more == Len(q) > 1
  <2>1. /\ q # <<>> /\ Head(q) = "task" /\ opQueue' = Tail(q) /\ taskInterrupted' = more
        /\ Goes(t, At(IF more THEN "poll" ELSE "block", "none"))
        /\ toSignal' = toSignal \/ toSignal' = toSignal \cup {t}
        /\ more /\ ~oneThread => signalled'
    BY <1>7 DEF TakeTask
  <2>2. /\ at'[t].step = IF more THEN "poll" ELSE "block"
        /\ \A u \in Thread : u # t => at'[u] = at[u]
        /\ OneRuns'
    BY <1>2, <2>1
  <2>3. \A u \in Thread : u # t => at[u].step # "block"
    <3>1. "task" \in Items(q)
      <4>1. q \in Seq(Queued)
        BY <1>1, QueueIs
      <4> HIDE DEF q
      <4> QED BY <2>1, <4>1, ItemsOfTail
    <3> QED BY <3>1, QueueIsTidy DEF WakeInv, Holds
  <2>4. ~more => opQueue' = <<>>
    <3>1. ~more => Len(q) <= 1
      <4>1. Len(q) \in Nat
        BY <1>1, QueueIs
      <4> HIDE DEF q
      <4> QED BY <4>1
    <3> QED BY <1>5, <2>1, <3>1
  <2> HIDE DEF q, more
  <2>5. InterruptIsUnderWay'
    BY <2>1, <2>2, <2>3 DEF InterruptIsUnderWay
  <2>6. EventIsSet'
    <3>1. ASSUME more, oneThread, NEW u \in Thread, Waits(u)' PROVE FALSE
      <4>1. u # t /\ InRun(u)
        BY <2>2, <3>1 DEF Waits, InRun
      <4> QED BY <1>4, <3>1, <4>1
    <3> QED BY <2>1, <2>4, <3>1 DEF EventIsSet
  <2>7. SleepersAreWoken'
    <3>1. more => SomebodyComes'
      BY <2>2 DEF SomebodyComes, Looks
    <3> QED BY <2>4, <3>1 DEF SleepersAreWoken
  <2> QED BY <1>1, <2>1, <2>2, <2>5, <2>6, <2>7 DEF WakeParts
<1>8. CASE TakeOperation(t)
  <2>1. /\ q # <<>> /\ opQueue' = Tail(q)
        /\ \E s \in {"complete", "body"} : \E item : Goes(t, At(s, item))
    BY <1>8 DEF TakeOperation
  <2>2. /\ at'[t].step \notin {"wait", "woken", "block"}
        /\ \A u \in Thread : u # t => at'[u] = at[u]
        /\ OneRuns'
    BY <1>2, <2>1
  <2>3. CASE WakeOne(t, Interrupted(t))
    BY <1>1, <1>3, <2>2, <2>3, WakeOneWakes
  <2>4. CASE ~(Len(q) > 1 /\ ~oneThread)
    <3>1. taskInterrupted' = Interrupted(t) /\ UNCHANGED <<signalled, toSignal, edge>>
      BY <1>8, <2>4 DEF TakeOperation
    <3>2. InterruptIsUnderWay'
      BY <1>1, <1>3, <2>2, <3>1 DEF WakeParts, InterruptIsUnderWay
    <3>3. opQueue' = <<>> \/ oneThread
      <4>1. Len(q) \in Nat
        BY <1>1, QueueIs
      <4> HIDE DEF q
      <4>2. Len(q) <= 1 \/ oneThread
        BY <2>4, <4>1
      <4> QED BY <1>5, <2>1, <4>2
    <3>4. oneThread => \A u \in Thread : ~Waits(u)' /\ ~Asleep(u)'
      BY <1>4, <2>2 DEF Waits, Asleep, InRun
    <3> QED
      BY <1>1, <2>2, <3>1, <3>2, <3>3, <3>4 DEF WakeParts, EventIsSet, SleepersAreWoken
  <2> QED BY <1>8, <2>3, <2>4 DEF TakeOperation
<1> QED BY <1>6, <1>7, <1>8

LEMMA EpollKeepsWake ==
    ASSUME WakeInv, NEW t \in Thread, EpollReturns(t)
    PROVE  WakeParts'
<1>1. /\ Shape /\ TaskPlace /\ WakeParts /\ at[t].step \in {"poll", "block"}
      /\ Goes(t, At("collected", "none"))
      /\ UNCHANGED <<oneThread, opQueue, stopped, taskInterrupted, signalled, toSignal>>
  BY DEF WakeInv, TaskInv, ReadyInv, EpollReturns, queueVars, eventVars
<1>2. at'[t].step = "collected" /\ \A u \in Thread : u # t => at'[u] = at[u]
  BY <1>1, GoesOn DEF At
<1>3. \A u \in Thread : InRun(u)' => InRun(u)
  BY <1>1, <1>2 DEF InRun
<1>4. OneRuns'
  BY <1>1, <1>3, OneStaysInRun DEF WakeParts
<1>5. \A u \in Thread : at'[u].step # "block"
  BY <1>1, <1>2 DEF TaskPlace, Holds
<1>6. InterruptIsUnderWay'
  BY <1>5 DEF InterruptIsUnderWay
<1>7. EventIsSet'
  BY <1>1, <1>2 DEF WakeParts, EventIsSet, Waits
<1>8. SomebodyComes'
  BY <1>2 DEF SomebodyComes, Looks
<1> QED BY <1>1, <1>4, <1>6, <1>7, <1>8 DEF WakeParts, SleepersAreWoken

LEMMA PushKeepsWake ==
    ASSUME WakeInv, NEW t \in Thread, Push(t)
    PROVE  WakeParts'
<1>1. /\ Shape /\ WakeParts /\ at[t].step = "push" /\ oneThread' = oneThread
      /\ Goes(t, At("body", at[t].item)) /\ WakeOne(t, taskInterrupted)
  BY DEF WakeInv, TaskInv, ReadyInv, Push
<1>2. /\ at'[t].step = "body" /\ at'[t].item = at[t].item
      /\ \A u \in Thread : u # t => at'[u] = at[u]
  BY <1>1, GoesOn DEF At
<1>3. \A u \in Thread : InRun(u)' => InRun(u)
  BY <1>1, <1>2 DEF InRun
<1>4. OneRuns'
  BY <1>1, <1>3, OneStaysInRun DEF WakeParts
<1> QED BY <1>1, <1>2, <1>4, WakeOneWakes

\* The steps of threads that do not come near the event.
LEMMA QuietStepsKeepWake ==
    ASSUME WakeInv, NEW t \in Thread,
           \/ Run(t) \/ Return(t) \/ PerformIo(t)
           \/ \E o \in Op, continuation \in BOOLEAN :
                 \/ Post(t, o, continuation)
                 \/ \E d \in Desc : StartOp(t, d, o, continuation)
           \/ \E d \in Desc : CancelOps(t, d)
    PROVE  WakeParts'
<1> USE DEF At
<1>1. Shape /\ WakeParts
  BY DEF WakeInv, TaskInv, ReadyInv
<1>2. /\ UNCHANGED <<oneThread, opQueue, eventVars>>
      /\ "interrupter" \in edge => "interrupter" \in edge'
  BY DEF Run, Return, PerformIo, Post, StartOp, CancelOps, queueVars
<1>3. ASSUME \A u \in Thread : u # t => at'[u] = at[u],
             at'[t] = at[t] \/ (~Looks(t) /\ ~Asleep(t) /\ ~Asleep(t)' /\ ~Waits(t)'),
             OneRuns' \/ (InRun(t)' => InRun(t))
      PROVE  WakeParts'
  <2>1. OneRuns'
    <3>1. CASE InRun(t)' => InRun(t)
      <4>1. \A u \in Thread : InRun(u)' => InRun(u)
        BY <1>3, <3>1 DEF InRun
      <4> QED BY <1>1, <1>2, <4>1, OneStaysInRun DEF WakeParts
    <3> QED BY <1>3, <3>1
  <2> QED BY <1>1, <1>2, <1>3, <2>1, QuietStep
<1>4. CASE Run(t)
  <2>1. /\ at[t].step = "body" /\ at[t].item = "none"
        /\ \E s \in {"stopping", "loop"} : Goes(t, At(s, "none"))
        /\ oneThread => \A u \in Thread : ~InRun(u)
    BY <1>4 DEF Run, Outside
  <2>2. /\ at'[t].step \in {"stopping", "loop"}
        /\ \A u \in Thread : u # t => at'[u] = at[u]
    BY <1>1, <2>1, GoesOn
  <2>3. OneRuns'
    <3>1. oneThread => \A u \in Thread : u # t => ~InRun(u)'
      BY <2>1, <2>2 DEF InRun
    <3> QED BY <1>2, <3>1 DEF OneRuns
  <2> QED BY <1>3, <2>1, <2>2, <2>3 DEF Looks, Asleep, Waits
<1>5. ASSUME NEW what, Goes(t, what), at[t].step \in {"body", "return", "complete"},
             what.step \in {"body", "push", "return", "stopping", "loop"},
             InRun(t) \/ (what.step = "push" /\ what.item = at[t].item)
      PROVE  WakeParts'
  <2>1. at'[t] = what /\ \A u \in Thread : u # t => at'[u] = at[u]
    BY <1>1, <1>5, GoesOn
  <2> QED BY <1>3, <1>5, <2>1 DEF Looks, Asleep, Waits, InRun
<1>6. CASE Return(t)
  <2>1. /\ at[t].step \in {"body", "return"} /\ InRun(t)
        /\ \E s \in {"stopping", "loop"} : Goes(t, At(s, "none"))
    BY <1>6 DEF Return, InHandler, InRun
  <2> QED BY <1>5, <2>1
<1>7. ASSUME UNCHANGED at PROVE WakeParts'
  BY <1>3, <1>7 DEF InRun
<1>8. ASSUME NEW o \in Op, NEW continuation \in BOOLEAN, Immediate(t, o, continuation),
             at[t].step = "body"
      PROVE  WakeParts'
  <2>1. CASE UNCHANGED at
    BY <1>7, <2>1
  <2>2. CASE ~UNCHANGED at
    <3>1. Goes(t, [step |-> "push", item |-> at[t].item, ops |-> <<o>>])
      BY <1>8, <2>2 DEF Immediate
    <3> QED BY <1>5, <1>8, <3>1
  <2> QED BY <2>1, <2>2
<1>9. ASSUME NEW item, NEW ops, Hand(t, item, ops),
             at[t].step \in {"body", "complete"}, InRun(t)
      PROVE  WakeParts'
  BY <1>5, <1>9 DEF Hand
<1>10. CASE PerformIo(t)
  <2>1. at[t].step = "complete" /\ InRun(t)
    BY <1>10 DEF PerformIo, InRun
  <2>2. \/ \E s \in {"body", "return"} : \E item : Goes(t, At(s, item))
        \/ \E item, ops : Hand(t, item, ops)
    BY <1>10 DEF PerformIo
  <2> QED BY <1>5, <1>9, <2>1, <2>2
<1>11. ASSUME NEW d \in Desc, CancelOps(t, d) PROVE WakeParts'
  <2>1. at[t].step = "body" /\ InRun(t) /\ Hand(t, at[t].item, waiting[d])
    BY <1>11 DEF CancelOps, InHandler, InRun
  <2> QED BY <1>9, <2>1
<1>12. ASSUME NEW o \in Op, NEW continuation \in BOOLEAN,
              \/ Post(t, o, continuation)
              \/ \E d \in Desc : StartOp(t, d, o, continuation)
       PROVE  WakeParts'
  BY <1>7, <1>8, <1>12 DEF Post, StartOp
<1> QED BY <1>4, <1>6, <1>10, <1>11, <1>12

LEMMA NextKeepsWake == WakeInv /\ [Next]_vars => WakeInv'
<1> SUFFICES ASSUME WakeInv, [Next]_vars PROVE WakeParts'
  BY NextKeepsTask DEF WakeInv
<1>1. ASSUME NEW t \in Thread, Step(t) \/ Run(t) \/ SpuriousWakeup(t) \/ CallStop(t)
      PROVE  WakeParts'
  BY <1>1, WakingKeepsWake, LoopKeepsWake, EpollKeepsWake, PushKeepsWake, QuietStepsKeepWake
     DEF Step
<1>2. ASSUME NEW t \in Thread,
             \/ \E o \in Op, continuation \in BOOLEAN :
                   \/ Post(t, o, continuation)
                   \/ \E d \in Desc : StartOp(t, d, o, continuation)
             \/ \E d \in Desc : CancelOps(t, d)
      PROVE  WakeParts'
  BY <1>2, QuietStepsKeepWake
<1>3. ASSUME UNCHANGED <<oneThread, opQueue, eventVars, at>>, edge \subseteq edge'
      PROVE  WakeParts'
  <2>1. OneRuns'
    BY <1>3 DEF WakeInv, WakeParts, OneRuns, InRun
  <2> QED BY <1>3, <2>1, QuietStep DEF WakeInv
<1>4. ASSUME NEW d \in Desc, DataArrives(d) \/ InputEnds(d) PROVE WakeParts'
  BY <1>3, <1>4 DEF DataArrives, InputEnds, queueVars
<1>5. CASE UNCHANGED vars
  BY <1>3, <1>5 DEF vars, queueVars
<1> QED BY <1>1, <1>2, <1>4, <1>5 DEF Next

\* Nobody sleeps while there is something to do: whoever puts an operation on
\* the queue, or leaves one there, has woken a waiter or interrupted the task,
\* or another thread is about to look, whatever the threads do meanwhile and
\* whichever wakeups are spurious or come too late.
THEOREM WakeupsAreNotLost == Spec => []NoLostWakeup
<1>1. WakeInv => NoLostWakeup
  <2> SUFFICES ASSUME WakeInv, opQueue # <<>>, ~stopped, NEW t \in Thread, Idle(t)
               PROVE  \E u \in Thread : Coming(u)
    BY DEF NoLostWakeup
  <2>1. WakeParts /\ Asleep(t)
    BY DEF WakeInv, Idle, Asleep
  <2>2. SomebodyComes
    BY <2>1 DEF WakeParts, SleepersAreWoken
  <2>3. \A u \in Thread : Looks(u) => Coming(u)
    BY DEF Looks, Coming
  <2>4. \A u \in Thread : at[u].step = "block" /\ "interrupter" \in edge => Coming(u)
    BY DEF Coming, Reported
  <2>5. toSignal # {} => \E u \in Thread : Coming(u)
    BY <2>1 DEF WakeParts, Coming
  <2> QED BY <2>2, <2>3, <2>4, <2>5 DEF SomebodyComes
<1> QED BY <1>1, InitWakeInv, NextKeepsWake, PTL DEF Spec

-----------------------------------------------------------------------------
(* Work.  What is counted are the places where an operation is.            *)

\* The places of q that have an operation, and how many there are.
Places(q) == {j \in DOMAIN q : q[j] \in Op}

Count(q) == Cardinality(Places(q))

\* What two sets without a common element have together.
LEMMA DisjointSum ==
    ASSUME NEW A, NEW B, IsFiniteSet(A), IsFiniteSet(B), \A z \in A : z \notin B
    PROVE  /\ IsFiniteSet(A \cup B) /\ Cardinality(A) \in Nat /\ Cardinality(B) \in Nat
           /\ Cardinality(A \cup B) = Cardinality(A) + Cardinality(B)
<1>1. /\ IsFiniteSet(A \cup B)
      /\ Cardinality(A \cup B) = Cardinality(A) + Cardinality(B) - Cardinality(A \cap B)
  BY FS_Union
<1>2. Cardinality(A \cap B) = 0
  <2>1. A \cap B = {}
    OBVIOUS
  <2> QED BY <2>1, FS_EmptySet
<1>3. Cardinality(A) \in Nat /\ Cardinality(B) \in Nat
  BY FS_CardinalityType
<1> QED BY <1>1, <1>2, <1>3

\* A function that is one to one leaves the size of a set as it is.
LEMMA SameSize ==
    ASSUME NEW S, NEW T, IsFiniteSet(S), NEW f \in [S -> T],
           \A x, y \in S : f[x] = f[y] => x = y,
           \A z \in T : \E x \in S : f[x] = z
    PROVE  IsFiniteSet(T) /\ Cardinality(T) = Cardinality(S)
<1>1. f \in Bijection(S, T)
  BY DEF Bijection, Injection, Surjection, IsInjective
<1>2. ExistsBijection(S, T)
  BY <1>1 DEF ExistsBijection
<1> QED BY <1>2, FS_Bijection

LEMMA PlacesAreFinite ==
    ASSUME NEW S, NEW q \in Seq(S)
    PROVE  IsFiniteSet(Places(q)) /\ Count(q) \in Nat /\ Places(q) \subseteq Nat
<1>1. Len(q) \in Nat /\ DOMAIN q = 1..Len(q)
  OBVIOUS
<1>2. IsFiniteSet(1..Len(q))
  BY <1>1, FS_Interval
<1>3. Places(q) \in SUBSET (1..Len(q))
  BY <1>1 DEF Places
<1>4. IsFiniteSet(Places(q))
  BY <1>2, <1>3, FS_Subset
<1> QED BY <1>3, <1>4, FS_CardinalityType DEF Count

LEMMA CountOfConcat ==
    ASSUME NEW S, NEW p \in Seq(S), NEW q \in Seq(S)
    PROVE  Count(p \o q) = Count(p) + Count(q)
<1>1. PICK r, n : r = p \o q /\ n = Len(p)
  OBVIOUS
<1>2. /\ n \in Nat /\ Len(q) \in Nat /\ DOMAIN p = 1..n /\ DOMAIN q = 1..Len(q)
      /\ DOMAIN r = 1..(n + Len(q)) /\ \A i \in 1..n : r[i] = p[i]
      /\ \A i \in 1..Len(q) : r[n + i] = q[i]
  BY <1>1, Concatenation
<1>3. /\ IsFiniteSet(Places(p)) /\ IsFiniteSet(Places(q))
      /\ Places(p) \subseteq Nat /\ Places(q) \subseteq Nat
      /\ Count(p) \in Nat /\ Count(q) \in Nat
  BY PlacesAreFinite
<1>4. PICK moved : moved = {n + i : i \in Places(q)}
  OBVIOUS
<1>5. IsFiniteSet(moved) /\ Cardinality(moved) = Count(q)
  <2>1. PICK f : f = [i \in Places(q) |-> n + i]
    OBVIOUS
  <2>2. f \in [Places(q) -> moved] /\ \A z \in moved : \E x \in Places(q) : f[x] = z
    BY <1>4, <2>1
  <2>3. \A x, y \in Places(q) : f[x] = f[y] => x = y
    <3>1. \A x, y \in Nat : n + x = n + y => x = y
      BY <1>2
    <3> QED BY <1>3, <2>1, <3>1
  <2> QED BY <1>3, <2>2, <2>3, SameSize DEF Count
<1>6. Places(r) = Places(p) \cup moved
  <2>1. ASSUME NEW j \in Places(r) PROVE j \in Places(p) \cup moved
    <3>1. j \in 1..(n + Len(q)) /\ r[j] \in Op
      BY <1>2, <2>1 DEF Places
    <3>2. CASE j \in 1..n
      BY <1>2, <3>1, <3>2 DEF Places
    <3>3. CASE j \notin 1..n
      <4>1. PICK i : i = j - n
        OBVIOUS
      <4>2. i \in 1..Len(q) /\ j = n + i
        BY <1>2, <3>1, <3>3, <4>1
      <4>3. i \in Places(q)
        BY <1>2, <3>1, <4>2 DEF Places
      <4> QED BY <1>4, <4>2, <4>3
    <3> QED BY <3>2, <3>3
  <2>2. Places(p) \subseteq Places(r)
    <3>1. \A i \in 1..n : i \in 1..(n + Len(q))
      BY <1>2
    <3> QED BY <1>2, <3>1 DEF Places
  <2>3. moved \subseteq Places(r)
    <3>1. \A i \in 1..Len(q) : n + i \in 1..(n + Len(q))
      BY <1>2
    <3> QED BY <1>2, <1>4, <3>1 DEF Places
  <2> QED BY <2>1, <2>2, <2>3
<1>7. Places(p) \cap moved = {}
  <2>1. \A i \in Places(q) : n + i \notin 1..n
    <3>1. \A i \in 1..Len(q) : n + i \notin 1..n
      BY <1>2
    <3> QED BY <1>2, <3>1 DEF Places
  <2> QED BY <1>2, <1>4, <2>1 DEF Places
<1>8. Cardinality(Places(p) \cup moved)
        = Cardinality(Places(p)) + Cardinality(moved) - Cardinality(Places(p) \cap moved)
  BY <1>3, <1>5, FS_Union
<1>9. Cardinality(Places(p) \cap moved) = 0
  BY <1>7, FS_EmptySet
<1> QED BY <1>1, <1>3, <1>5, <1>6, <1>8, <1>9 DEF Count

LEMMA CountOfNone == Count(<<>>) = 0
<1>1. Places(<<>>) = {}
  BY DEF Places
<1> QED BY <1>1, FS_EmptySet DEF Count

LEMMA CountOfOne ==
    ASSUME NEW x
    PROVE  /\ x \in Op => Count(<<x>>) = 1
           /\ x \notin Op => Count(<<x>>) = 0
<1>1. PICK q : q = <<x>>
  OBVIOUS
<1>2. DOMAIN q = {1} /\ q[1] = x
  BY <1>1
<1>3. CASE x \in Op
  <2>1. Places(q) = {1}
    BY <1>2, <1>3 DEF Places
  <2> QED BY <1>1, <1>3, <2>1, FS_Singleton DEF Count
<1>4. CASE x \notin Op
  <2>1. Places(q) = {}
    BY <1>2, <1>4 DEF Places
  <2> QED BY <1>1, <1>4, <2>1, FS_EmptySet DEF Count
<1> QED BY <1>3, <1>4

LEMMA CountOfAppend ==
    ASSUME NEW S, NEW q \in Seq(S), NEW x \in S
    PROVE  Count(Append(q, x)) = Count(q) + Count(<<x>>)
<1>1. <<x>> \in Seq(S) /\ Append(q, x) = q \o <<x>>
  OBVIOUS
<1> QED BY <1>1, CountOfConcat

LEMMA CountOfTail ==
    ASSUME NEW S, NEW q \in Seq(S), q # <<>>
    PROVE  Count(q) = Count(<<Head(q)>>) + Count(Tail(q))
<1>1. PICK h, r : h = Head(q) /\ r = Tail(q)
  OBVIOUS
<1>2. h \in S /\ r \in Seq(S) /\ q = <<h>> \o r
  BY <1>1
<1>3. <<h>> \in Seq(S)
  BY <1>2
<1> QED BY <1>1, <1>2, <1>3, CountOfConcat

LEMMA CountOfOps ==
    ASSUME NEW q \in Seq(Op)
    PROVE  Count(q) = Len(q)
<1>1. Len(q) \in Nat /\ Places(q) = 1..Len(q)
  BY DEF Places
<1> QED BY <1>1, FS_Interval DEF Count

LEMMA CountOfOthers ==
    ASSUME NEW S, NEW q \in Seq(S), S \cap Op = {}
    PROVE  Count(q) = 0
<1>1. Places(q) = {}
  BY DEF Places
<1> QED BY <1>1, FS_EmptySet DEF Count

LEMMA OccurrencesAreCounted ==
    ASSUME NEW kind, NEW x, NEW S, NEW q \in Seq(S)
    PROVE  /\ IsFiniteSet(Occurrences(kind, x, q))
           /\ Cardinality(Occurrences(kind, x, q)) = Count(q)
           /\ Count(q) \in Nat
<1>1. Occurrences(kind, x, q) = {<<kind, x, i>> : i \in Places(q)}
  BY DEF Occurrences, Places
<1>2. IsFiniteSet(Places(q)) /\ Count(q) \in Nat
  BY PlacesAreFinite
<1>3. PICK T, f : /\ T = {<<kind, x, i>> : i \in Places(q)}
                  /\ f = [i \in Places(q) |-> <<kind, x, i>>]
  OBVIOUS
<1>4. f \in [Places(q) -> T] /\ \A z \in T : \E i \in Places(q) : f[i] = z
  BY <1>3
<1>5. \A i, j \in Places(q) : f[i] = f[j] => i = j
  BY <1>3
<1>6. IsFiniteSet(T) /\ Cardinality(T) = Cardinality(Places(q))
  BY <1>2, <1>4, <1>5, SameSize
<1> QED BY <1>1, <1>2, <1>3, <1>6 DEF Count

\* What all of those in I have of a kind.
Family(kind, I, f) == UNION {Occurrences(kind, y, f[y]) : y \in I}

\* Nobody but x has something else.
SameBut(I, x, f, g) == \A y \in I : y # x => f[y] = g[y]

LEMMA FamilyChanges ==
    ASSUME NEW kind, NEW I, NEW x \in I, NEW f, NEW g, NEW S, NEW p, NEW q,
           SameBut(I, x, f, g), p \in Seq(S), q \in Seq(S), p = f[x], q = g[x],
           IsFiniteSet(Family(kind, I, f))
    PROVE  /\ IsFiniteSet(Family(kind, I, g))
           /\ Cardinality(Family(kind, I, f)) \in Nat
           /\ Cardinality(Family(kind, I, g)) \in Nat
           /\ Cardinality(Family(kind, I, g))
                = Cardinality(Family(kind, I, f)) + Count(q) - Count(p)
<1>1. PICK F, G, A, B, C :
         /\ F = Family(kind, I, f)
         /\ G = Family(kind, I, g)
         /\ A = UNION {Occurrences(kind, y, f[y]) : y \in I \ {x}}
         /\ B = Occurrences(kind, x, p)
         /\ C = Occurrences(kind, x, q)
  OBVIOUS
<1>2. F = A \cup B
  BY <1>1 DEF Family
<1>3. G = A \cup C
  BY <1>1 DEF Family, SameBut
<1>4. \A y, z, u, r : y # z => Occurrences(kind, y, u) \cap Occurrences(kind, z, r) = {}
  BY DEF Occurrences
<1>5. \A z \in A : z \notin B /\ z \notin C
  BY <1>1, <1>4
<1>6. /\ IsFiniteSet(C) /\ Cardinality(B) = Count(p) /\ Cardinality(C) = Count(q)
  BY <1>1, OccurrencesAreCounted
<1>7. IsFiniteSet(A) /\ IsFiniteSet(B)
  <2>1. IsFiniteSet(F) /\ A \in SUBSET F /\ B \in SUBSET F
    BY <1>1, <1>2
  <2> QED BY <2>1, FS_Subset
<1>8. /\ IsFiniteSet(A \cup B) /\ Cardinality(A) \in Nat /\ Cardinality(B) \in Nat
      /\ Cardinality(A \cup B) = Cardinality(A) + Cardinality(B)
  BY <1>5, <1>7, DisjointSum
<1>9. /\ IsFiniteSet(A \cup C) /\ Cardinality(C) \in Nat
      /\ Cardinality(A \cup C) = Cardinality(A) + Cardinality(C)
  BY <1>5, <1>6, <1>7, DisjointSum
<1>10. /\ IsFiniteSet(G) /\ Cardinality(F) \in Nat /\ Cardinality(G) \in Nat
       /\ Cardinality(G) = Cardinality(F) + Cardinality(C) - Cardinality(B)
       /\ Cardinality(B) \in Nat /\ Cardinality(C) \in Nat
  BY <1>2, <1>3, <1>8, <1>9
<1> QED BY <1>1, <1>6, <1>10

\* The work that t has counted for itself.
LEMMA CountedChanges ==
    ASSUME NEW t \in Thread, NEW f \in [Thread -> Nat], NEW g \in [Thread -> Nat],
           \A u \in Thread : u # t => f[u] = g[u],
           IsFiniteSet(UNION {{u} \X (1..f[u]) : u \in Thread})
    PROVE  LET F == UNION {{u} \X (1..f[u]) : u \in Thread}
               G == UNION {{u} \X (1..g[u]) : u \in Thread}
           IN  /\ IsFiniteSet(G) /\ Cardinality(F) \in Nat /\ Cardinality(G) \in Nat
               /\ Cardinality(G) + f[t] = Cardinality(F) + g[t]
<1>1. PICK F, G, A, B, C :
         /\ F = UNION {{u} \X (1..f[u]) : u \in Thread}
         /\ G = UNION {{u} \X (1..g[u]) : u \in Thread}
         /\ A = UNION {{u} \X (1..f[u]) : u \in Thread \ {t}}
         /\ B = {t} \X (1..f[t])
         /\ C = {t} \X (1..g[t])
  OBVIOUS
<1>2. F = A \cup B
  BY <1>1
<1>3. G = A \cup C
  BY <1>1
<1>4. \A u, v, q, r : u # v => ({u} \X q) \cap ({v} \X r) = {}
  OBVIOUS
<1>5. \A z \in A : z \notin B /\ z \notin C
  BY <1>1, <1>4
<1>6. /\ IsFiniteSet(C) /\ Cardinality(B) = f[t] /\ Cardinality(C) = g[t]
  <2>1. ASSUME NEW n \in Nat
        PROVE  IsFiniteSet({t} \X (1..n)) /\ Cardinality({t} \X (1..n)) = n
    <3>1. IsFiniteSet({t}) /\ Cardinality({t}) = 1
      BY FS_Singleton
    <3>2. IsFiniteSet(1..n) /\ Cardinality(1..n) = n
      <4>1. 1 \in Int /\ n \in Int
        OBVIOUS
      <4>2. IsFiniteSet(1..n) /\ Cardinality(1..n) = IF 1 > n THEN 0 ELSE n - 1 + 1
        BY ONLY <4>1, FS_Interval
      <4> QED BY <4>2
    <3>3. /\ IsFiniteSet({t} \X (1..n))
          /\ Cardinality({t} \X (1..n)) = Cardinality({t}) * Cardinality(1..n)
      BY <3>1, <3>2, FS_Product
    <3> QED BY <3>1, <3>2, <3>3
  <2>2. f[t] \in Nat /\ g[t] \in Nat
    OBVIOUS
  <2> QED BY <1>1, <2>1, <2>2
<1>7. IsFiniteSet(A) /\ IsFiniteSet(B)
  <2>1. IsFiniteSet(F) /\ A \in SUBSET F /\ B \in SUBSET F
    BY <1>1, <1>2
  <2> QED BY <2>1, FS_Subset
<1>8. /\ IsFiniteSet(A \cup B) /\ Cardinality(A) \in Nat /\ Cardinality(B) \in Nat
      /\ Cardinality(A \cup B) = Cardinality(A) + Cardinality(B)
  BY <1>5, <1>7, DisjointSum
<1>9. /\ IsFiniteSet(A \cup C) /\ Cardinality(C) \in Nat
      /\ Cardinality(A \cup C) = Cardinality(A) + Cardinality(C)
  BY <1>5, <1>6, <1>7, DisjointSum
<1>10. /\ IsFiniteSet(G) /\ Cardinality(F) \in Nat /\ Cardinality(G) \in Nat
       /\ Cardinality(G) + Cardinality(B) = Cardinality(F) + Cardinality(C)
  BY <1>2, <1>3, <1>8, <1>9
<1> QED BY <1>1, <1>6, <1>10

\* The three kinds of places have no occurrence in common.
LEMMA PlacesTogether ==
    ASSUME NEW S, NEW q \in Seq(S), NEW I, NEW f, NEW J, NEW g,
           IsFiniteSet(Family("thread", I, f)), IsFiniteSet(Family("waiting", J, g))
    PROVE  LET A == Occurrences("queue", "shared", q)
               B == Family("thread", I, f)
               C == Family("waiting", J, g)
           IN  /\ Count(q) \in Nat /\ Cardinality(B) \in Nat /\ Cardinality(C) \in Nat
               /\ Cardinality(A \cup B \cup C) = Count(q) + Cardinality(B) + Cardinality(C)
<1>1. PICK A, B, C :
         /\ A = Occurrences("queue", "shared", q)
         /\ B = Family("thread", I, f)
         /\ C = Family("waiting", J, g)
  OBVIOUS
<1>2. /\ \A z \in A : z[1] = "queue"
      /\ \A z \in B : z[1] = "thread"
      /\ \A z \in C : z[1] = "waiting"
  BY <1>1 DEF Family, Occurrences
<1>3. IsFiniteSet(A) /\ Cardinality(A) = Count(q) /\ Count(q) \in Nat
  BY <1>1, OccurrencesAreCounted
<1>4. IsFiniteSet(B) /\ IsFiniteSet(C)
  BY <1>1
<1>5. \A z \in A : z \notin B
  BY <1>2
<1>6. /\ IsFiniteSet(A \cup B) /\ Cardinality(B) \in Nat
      /\ Cardinality(A \cup B) = Cardinality(A) + Cardinality(B)
  BY <1>3, <1>4, <1>5, DisjointSum
<1>7. \A z \in A \cup B : z \notin C
  BY <1>2
<1>8. /\ Cardinality(C) \in Nat
      /\ Cardinality((A \cup B) \cup C) = Cardinality(A \cup B) + Cardinality(C)
  BY <1>4, <1>6, <1>7, DisjointSum
<1>9. Cardinality(A \cup B \cup C) = Count(q) + Cardinality(B) + Cardinality(C)
  BY <1>3, <1>6, <1>8
<1> QED BY <1>1, <1>3, <1>6, <1>8, <1>9

-----------------------------------------------------------------------------
(* The count of work.                                                      *)

Work == UNION {{t} \X (1..privateWork[t]) : t \in Thread}

InHands == Family("thread", Thread, [t \in Thread |-> Held(t)])

AtDescriptors == Family("waiting", Desc, waiting)

Returning == {t \in Thread : at[t].step = "return"}

\* A thread completes an operation in its handler, a descriptor at its
\* perform_io and nothing otherwise, and pushes what waits to be pushed.
Employed(doing) ==
    /\ doing.step \in {"body", "push"} => doing.item \in Op \cup {"none"}
    /\ doing.step \notin {"body", "push", "complete"} => doing.item = "none"
    /\ doing.ops \in Seq(Op)
    /\ doing.step # "push" => doing.ops = <<>>

\* What a thread adds to the operations that are not finished, and to those
\* that are but have yet to be subtracted.
Load(private, doing) ==
    Count(private) + Len(doing.ops) + Count(<<doing.item>>)
      + (IF doing.step = "return" THEN 1 ELSE 0)

Counted ==
    /\ outstanding \in Int
    /\ privateWork \in [Thread -> Nat]
    /\ \A t \in Thread : Employed(at[t])
    /\ IsFiniteSet(Work) /\ IsFiniteSet(InHands)
    /\ IsFiniteSet(AtDescriptors) /\ IsFiniteSet(Returning)
    /\ WorkIsCounted

CountInv == ReadyInv /\ Counted

LEMMA HeldIsCounted ==
    ASSUME NEW p \in Seq(Op \cup Desc), NEW doing, Employed(doing), Apt(doing, p),
           NEW held, held = p \o doing.ops \o <<doing.item>>
    PROVE  /\ held \in Seq(Op \cup Desc \cup {"none"})
           /\ Count(held) = Count(p) + Len(doing.ops) + Count(<<doing.item>>)
           /\ Count(p) \in Nat /\ Len(doing.ops) \in Nat /\ Count(<<doing.item>>) \in Nat
<1>1. PICK S, o, i : S = Op \cup Desc \cup {"none"} /\ o = doing.ops /\ i = <<doing.item>>
  OBVIOUS
<1>2. o \in Seq(Op) /\ doing.item \in S
  BY <1>1 DEF Employed, Apt
<1>3. p \in Seq(S) /\ o \in Seq(S) /\ i \in Seq(S)
  BY <1>1, <1>2
<1>4. p \o o \in Seq(S) /\ (p \o o) \o i \in Seq(S)
  BY <1>3
<1>5. Count(p \o o) = Count(p) + Count(o)
  BY <1>3, CountOfConcat
<1>6. Count((p \o o) \o i) = Count(p \o o) + Count(i)
  BY <1>3, <1>4, CountOfConcat
<1>7. Count(o) = Len(o) /\ Len(o) \in Nat
  BY <1>2, CountOfOps
<1>8. Count(p) \in Nat /\ Count(i) \in Nat
  BY <1>3, PlacesAreFinite
<1> QED BY <1>1, <1>4, <1>5, <1>6, <1>7, <1>8

\* A step of a thread balances when what it does to the counts is what it
\* does to the operations.
LEMMA StepBalances ==
    ASSUME CountInv, Shape', NEW t \in Thread,
           \A u \in Thread : u # t =>
              /\ at'[u].item = at[u].item /\ at'[u].ops = at[u].ops
              /\ at'[u].step = "return" <=> at[u].step = "return"
              /\ privateQueue'[u] = privateQueue[u] /\ privateWork'[u] = privateWork[u],
           \A u \in Thread : Employed(at'[u]),
           outstanding' \in Int, privateWork' \in [Thread -> Nat],
           IsFiniteSet(AtDescriptors'), NEW n \in Int,
           Cardinality(AtDescriptors') = Cardinality(AtDescriptors) + n,
           outstanding' + privateWork'[t] + Count(opQueue) + Load(privateQueue[t], at[t])
             = outstanding + privateWork[t] + Count(opQueue')
                 + Load(privateQueue'[t], at'[t]) + n
    PROVE  Counted'
<1>1. /\ Shape /\ Counted /\ privateWork \in [Thread -> Nat]
      /\ \A u \in Thread : Employed(at[u])
      /\ IsFiniteSet(Work) /\ IsFiniteSet(InHands)
      /\ IsFiniteSet(AtDescriptors) /\ IsFiniteSet(Returning)
  BY DEF CountInv, ReadyInv, Counted
<1>2. /\ IsFiniteSet(Work') /\ Cardinality(Work) \in Nat /\ Cardinality(Work') \in Nat
      /\ Cardinality(Work') + privateWork[t] = Cardinality(Work) + privateWork'[t]
  BY <1>1, CountedChanges DEF Work
<1>3. PICK f, g : f = [u \in Thread |-> Held(u)] /\ g = [u \in Thread |-> Held(u)']
  OBVIOUS
<1>4. InHands = Family("thread", Thread, f) /\ InHands' = Family("thread", Thread, g)
  BY <1>3 DEF InHands
<1>5. SameBut(Thread, t, f, g)
  BY <1>3 DEF Held, SameBut
<1>6. /\ f[t] \in Seq(Op \cup Desc \cup {"none"})
      /\ Count(f[t]) = Count(privateQueue[t]) + Len(at[t].ops) + Count(<<at[t].item>>)
      /\ Count(privateQueue[t]) \in Nat /\ Len(at[t].ops) \in Nat
      /\ Count(<<at[t].item>>) \in Nat
  <2>1. privateQueue[t] \in Seq(Op \cup Desc) /\ Apt(at[t], privateQueue[t]) /\ Employed(at[t])
    BY <1>1 DEF Shape
  <2>2. PICK p, held, doing :
           p = privateQueue[t] /\ held = f[t] /\ doing = at[t]
    OBVIOUS
  <2>3. held = p \o doing.ops \o <<doing.item>>
    BY <1>3, <2>2 DEF Held
  <2>4. p \in Seq(Op \cup Desc) /\ Employed(doing) /\ Apt(doing, p)
    BY ONLY <2>1, <2>2
  <2>5. /\ held \in Seq(Op \cup Desc \cup {"none"})
        /\ Count(held) = Count(p) + Len(doing.ops) + Count(<<doing.item>>)
        /\ Count(p) \in Nat /\ Len(doing.ops) \in Nat /\ Count(<<doing.item>>) \in Nat
    BY ONLY <2>3, <2>4, HeldIsCounted
  <2> QED BY ONLY <2>2, <2>5
<1>7. /\ g[t] \in Seq(Op \cup Desc \cup {"none"})
      /\ Count(g[t]) = Count(privateQueue'[t]) + Len(at'[t].ops) + Count(<<at'[t].item>>)
      /\ Count(privateQueue'[t]) \in Nat /\ Len(at'[t].ops) \in Nat
      /\ Count(<<at'[t].item>>) \in Nat
  <2>1. privateQueue'[t] \in Seq(Op \cup Desc) /\ Apt(at'[t], privateQueue'[t])
        /\ Employed(at'[t])
    BY DEF Shape
  <2>2. PICK p, held, doing :
           p = privateQueue'[t] /\ held = g[t] /\ doing = at'[t]
    OBVIOUS
  <2>3. held = p \o doing.ops \o <<doing.item>>
    BY <1>3, <2>2 DEF Held
  <2>4. p \in Seq(Op \cup Desc) /\ Employed(doing) /\ Apt(doing, p)
    BY ONLY <2>1, <2>2
  <2>5. /\ held \in Seq(Op \cup Desc \cup {"none"})
        /\ Count(held) = Count(p) + Len(doing.ops) + Count(<<doing.item>>)
        /\ Count(p) \in Nat /\ Len(doing.ops) \in Nat /\ Count(<<doing.item>>) \in Nat
    BY ONLY <2>3, <2>4, HeldIsCounted
  <2> QED BY ONLY <2>2, <2>5
<1>8. /\ IsFiniteSet(InHands') /\ Cardinality(InHands) \in Nat /\ Cardinality(InHands') \in Nat
      /\ Cardinality(InHands') + Count(f[t]) = Cardinality(InHands) + Count(g[t])
  <2>1. IsFiniteSet(Family("thread", Thread, f))
    BY <1>1, <1>4
  <2>2. PICK p, q, S : p = f[t] /\ q = g[t] /\ S = Op \cup Desc \cup {"none"}
    OBVIOUS
  <2>3. p \in Seq(S) /\ q \in Seq(S) /\ p = f[t] /\ q = g[t] /\ t \in Thread
    BY <1>6, <1>7, <2>2
  <2>4. /\ IsFiniteSet(Family("thread", Thread, g))
        /\ Cardinality(Family("thread", Thread, f)) \in Nat
        /\ Cardinality(Family("thread", Thread, g)) \in Nat
        /\ Cardinality(Family("thread", Thread, g))
             = Cardinality(Family("thread", Thread, f)) + Count(q) - Count(p)
    BY ONLY <1>5, <2>1, <2>3, FamilyChanges
  <2>5. Count(p) \in Nat /\ Count(q) \in Nat
    BY <2>3, PlacesAreFinite
  <2> QED BY <1>4, <2>3, <2>4, <2>5
<1>9. PICK r, s : /\ r = IF at[t].step = "return" THEN 1 ELSE 0
                  /\ s = IF at'[t].step = "return" THEN 1 ELSE 0
  OBVIOUS
<1>10. /\ IsFiniteSet(Returning') /\ r \in Nat /\ s \in Nat
       /\ Cardinality(Returning) \in Nat /\ Cardinality(Returning') \in Nat
       /\ Cardinality(Returning') + r = Cardinality(Returning) + s
  <2>1. PICK R : R = Returning \ {t}
    OBVIOUS
  <2>2. IsFiniteSet(R) /\ Cardinality(R) \in Nat /\ t \notin R
    BY <1>1, <2>1, FS_RemoveElement, FS_CardinalityType
  <2>3. IsFiniteSet(R \cup {t}) /\ Cardinality(R \cup {t}) = Cardinality(R) + 1
    BY <2>2, FS_AddElement
  <2>4. /\ r = 1 => Returning = R \cup {t}
        /\ r = 0 => Returning = R
        /\ s = 1 => Returning' = R \cup {t}
        /\ s = 0 => Returning' = R
    BY <1>9, <2>1 DEF Returning
  <2>5. r \in {0, 1} /\ s \in {0, 1}
    BY <1>9
  <2>9. PICK k, m : k = Cardinality(R) /\ m = Cardinality(R \cup {t})
    OBVIOUS
  <2>10. k \in Nat /\ m = k + 1
    BY <2>2, <2>3, <2>9
  <2>6. Cardinality(Returning) = k + r
    <3>1. CASE r = 0
      <4>1. Cardinality(Returning) = k
        BY ONLY <2>4, <2>9, <3>1
      <4> QED BY <2>10, <3>1, <4>1
    <3>2. CASE r = 1
      <4>1. Cardinality(Returning) = m
        BY ONLY <2>4, <2>9, <3>2
      <4> QED BY <2>10, <3>2, <4>1
    <3> QED BY <2>5, <3>1, <3>2
  <2>7. Cardinality(Returning') = k + s
    <3>1. CASE s = 0
      <4>1. Cardinality(Returning') = k
        BY ONLY <2>4, <2>9, <3>1
      <4> QED BY <2>10, <3>1, <4>1
    <3>2. CASE s = 1
      <4>1. Cardinality(Returning') = m
        BY ONLY <2>4, <2>9, <3>2
      <4> QED BY <2>10, <3>2, <4>1
    <3> QED BY <2>5, <3>1, <3>2
  <2>8. IsFiniteSet(Returning')
    BY ONLY <2>2, <2>3, <2>4, <2>5
  <2>11. r \in Nat /\ s \in Nat
    BY <2>5
  <2> QED BY <2>6, <2>7, <2>8, <2>10, <2>11
<1>11. Unfinished = Occurrences("queue", "shared", opQueue) \cup InHands \cup AtDescriptors
  BY DEF Unfinished, InHands, AtDescriptors, Family
<1>17. Unfinished' = Occurrences("queue", "shared", opQueue') \cup InHands' \cup AtDescriptors'
  BY DEF Unfinished, InHands, AtDescriptors, Family
<1>12. /\ Count(opQueue) \in Nat /\ Cardinality(AtDescriptors) \in Nat
       /\ Cardinality(Unfinished)
            = Count(opQueue) + Cardinality(InHands) + Cardinality(AtDescriptors)
  <2>1. opQueue \in Seq(Queued)
    BY <1>1 DEF Shape
  <2>2. IsFiniteSet(Family("thread", Thread, f)) /\ IsFiniteSet(Family("waiting", Desc, waiting))
    BY <1>1, <1>4 DEF AtDescriptors
  <2> QED BY <1>4, <1>11, <2>1, <2>2, PlacesTogether DEF AtDescriptors
<1>13. /\ Count(opQueue') \in Nat /\ Cardinality(AtDescriptors') \in Nat
       /\ Cardinality(Unfinished')
            = Count(opQueue') + Cardinality(InHands') + Cardinality(AtDescriptors')
  <2>1. opQueue' \in Seq(Queued)
    BY DEF Shape
  <2>2. IsFiniteSet(Family("thread", Thread, g)) /\ IsFiniteSet(Family("waiting", Desc, waiting'))
    BY <1>4, <1>8 DEF AtDescriptors
  <2> QED BY <1>4, <1>17, <2>1, <2>2, PlacesTogether DEF AtDescriptors
<1>14. outstanding \in Int
       /\ outstanding + Cardinality(Work) = Cardinality(Unfinished) + Cardinality(Returning)
  BY <1>1 DEF Counted, WorkIsCounted, Work, Returning
<1>15. outstanding' + Cardinality(Work') = Cardinality(Unfinished') + Cardinality(Returning')
  <2>1. outstanding' + privateWork'[t] + Count(opQueue) + (Count(f[t]) + r)
          = outstanding + privateWork[t] + Count(opQueue') + (Count(g[t]) + s) + n
    BY <1>6, <1>7, <1>9 DEF Load
  <2>2. privateWork[t] \in Nat /\ privateWork'[t] \in Nat
    BY <1>1
  <2>3. Count(f[t]) \in Nat /\ Count(g[t]) \in Nat
    <3>1. \A a, b, c \in Nat : a + b + c \in Nat
      OBVIOUS
    <3>2. Count(f[t]) \in Nat
      BY <1>6, <3>1
    <3>3. Count(g[t]) \in Nat
      BY <1>7, <3>1
    <3> QED BY <3>2, <3>3
  <2> QED BY <1>2, <1>8, <1>10, <1>12, <1>13, <1>14, <2>1, <2>2, <2>3
<1>16. WorkIsCounted'
  BY <1>15 DEF WorkIsCounted, Work, Returning
<1> QED BY <1>2, <1>8, <1>10, <1>16 DEF Counted

One(item) == IF item \in Op THEN 1 ELSE 0

\* What a thread adds, by what it does.
LEMMA LoadIs ==
    ASSUME NEW p \in Seq(Op \cup Desc), NEW doing, Employed(doing), Apt(doing, p)
    PROVE  /\ Count(p) \in Nat /\ Load(p, doing) \in Nat
           /\ doing.step \notin {"body", "push", "return"} => Load(p, doing) = Count(p)
           /\ doing.step = "return" => Load(p, doing) = Count(p) + 1
           /\ doing.step \in {"body", "push"} =>
                 Load(p, doing) = Count(p) + Len(doing.ops) + One(doing.item)
           /\ doing.step = "body" => Load(p, doing) = Count(p) + One(doing.item)
           /\ Len(doing.ops) \in Nat /\ One(doing.item) \in Nat
<1>1. PICK l, i, r : /\ l = Len(doing.ops) /\ i = Count(<<doing.item>>)
                     /\ r = IF doing.step = "return" THEN 1 ELSE 0
  OBVIOUS
<1>2. Count(p) \in Nat /\ l \in Nat /\ r \in Nat
  BY <1>1, PlacesAreFinite DEF Employed
<1>3. i = One(doing.item) /\ One(doing.item) \in Nat
  BY <1>1, CountOfOne DEF One
<1>4. doing.step # "push" => l = 0
  BY <1>1 DEF Employed
<1>5. doing.step \notin {"body", "push"} => doing.item \notin Op
  BY NamesAssumption DEF Employed, Apt
<1>6. Load(p, doing) = Count(p) + l + One(doing.item) + r
  BY <1>1, <1>3 DEF Load
<1>7. /\ doing.step = "return" => r = 1
      /\ doing.step # "return" => r = 0
      /\ doing.step \notin {"body", "push"} => One(doing.item) = 0
  BY <1>1, <1>5 DEF One
<1> QED BY <1>1, <1>2, <1>3, <1>4, <1>6, <1>7

\* A step that moves no operation.
LEMMA NothingMoves ==
    ASSUME CountInv,
           UNCHANGED <<opQueue, outstanding, privateQueue, privateWork, waiting>>,
           \A u \in Thread :
              /\ at'[u].item = at[u].item /\ at'[u].ops = at[u].ops
              /\ at'[u].step = "return" <=> at[u].step = "return"
              /\ Employed(at'[u])
    PROVE  Counted'
<1>1. \A u \in Thread : Held(u)' = Held(u)
  BY DEF Held
<1>2. /\ Work' = Work /\ InHands' = InHands /\ AtDescriptors' = AtDescriptors
      /\ Returning' = Returning
  BY <1>1 DEF Work, InHands, AtDescriptors, Returning
<1>3. Unfinished' = Unfinished
  BY <1>1 DEF Unfinished
<1> QED BY <1>2, <1>3 DEF CountInv, Counted, WorkIsCounted, Work, Returning

\* A step of one thread, after which it does something else.
LEMMA GoingBalances ==
    ASSUME CountInv, Shape', NEW t \in Thread, NEW what, Goes(t, what), Employed(what),
           \A u \in Thread : u # t => privateQueue'[u] = privateQueue[u],
           NEW w \in Nat, privateWork' = [privateWork EXCEPT ![t] = w],
           outstanding' \in Int, IsFiniteSet(AtDescriptors'), NEW n \in Int,
           Cardinality(AtDescriptors') = Cardinality(AtDescriptors) + n,
           outstanding' + w + Count(opQueue) + Load(privateQueue[t], at[t])
             = outstanding + privateWork[t] + Count(opQueue') + Load(privateQueue'[t], what) + n
    PROVE  Counted'
<1>1. Shape /\ privateWork \in [Thread -> Nat] /\ \A u \in Thread : Employed(at[u])
  BY DEF CountInv, ReadyInv, Counted
<1>2. at'[t] = what /\ \A u \in Thread : u # t => at'[u] = at[u]
  BY <1>1, GoesOn
<1>3. \A u \in Thread : Employed(at'[u])
  BY <1>1, <1>2
<1>4. /\ privateWork' \in [Thread -> Nat] /\ privateWork'[t] = w
      /\ \A u \in Thread : u # t => privateWork'[u] = privateWork[u]
  BY <1>1
<1>5. outstanding' + privateWork'[t] + Count(opQueue) + Load(privateQueue[t], at[t])
        = outstanding + privateWork[t] + Count(opQueue') + Load(privateQueue'[t], at'[t]) + n
  BY <1>2, <1>4
<1> QED BY <1>2, <1>3, <1>4, <1>5, StepBalances

\* What waits at a descriptor.
LEMMA WaitingChanges ==
    ASSUME CountInv, Shape', NEW d \in Desc,
           \A e \in Desc : e # d => waiting'[e] = waiting[e]
    PROVE  /\ IsFiniteSet(AtDescriptors')
           /\ Len(waiting[d]) \in Nat /\ Len(waiting'[d]) \in Nat
           /\ Cardinality(AtDescriptors')
                = Cardinality(AtDescriptors) + (Len(waiting'[d]) - Len(waiting[d]))
<1>1. PICK f, g, p, q : f = waiting /\ g = waiting' /\ p = waiting[d] /\ q = waiting'[d]
  OBVIOUS
<1>2. /\ p \in Seq(Op) /\ q \in Seq(Op) /\ p = f[d] /\ q = g[d] /\ d \in Desc
  BY <1>1 DEF CountInv, ReadyInv, Shape
<1>3. SameBut(Desc, d, f, g)
  BY <1>1 DEF SameBut
<1>4. IsFiniteSet(Family("waiting", Desc, f))
  BY <1>1 DEF CountInv, Counted, AtDescriptors
<1>5. /\ IsFiniteSet(Family("waiting", Desc, g))
      /\ Cardinality(Family("waiting", Desc, f)) \in Nat
      /\ Cardinality(Family("waiting", Desc, g))
           = Cardinality(Family("waiting", Desc, f)) + Count(q) - Count(p)
  BY ONLY <1>2, <1>3, <1>4, FamilyChanges
<1>6. Count(p) = Len(p) /\ Count(q) = Len(q) /\ Len(p) \in Nat /\ Len(q) \in Nat
  BY <1>2, CountOfOps
<1>7. AtDescriptors = Family("waiting", Desc, f) /\ AtDescriptors' = Family("waiting", Desc, g)
  BY <1>1 DEF AtDescriptors
<1> QED BY <1>1, <1>5, <1>6, <1>7

LEMMA WaitingStays ==
    ASSUME CountInv, waiting' = waiting
    PROVE  /\ IsFiniteSet(AtDescriptors') /\ 0 \in Int
           /\ Cardinality(AtDescriptors') = Cardinality(AtDescriptors) + 0
<1>1. AtDescriptors' = AtDescriptors /\ IsFiniteSet(AtDescriptors)
  BY DEF CountInv, Counted, AtDescriptors
<1> QED BY <1>1, FS_CardinalityType

LEMMA WakingKeepsCount ==
    ASSUME CountInv, NEW t \in Thread,
           \/ Signal(t) \/ Run(t) \/ Sleep(t) \/ SleepOn(t) \/ SpuriousWakeup(t)
           \/ CallStop(t) \/ OutOfWork(t)
    PROVE  Counted'
<1> USE DEF At
<1>1. /\ Shape /\ \A u \in Thread : Employed(at[u])
      /\ \A u \in Thread : at[u].step = "complete" <=> at[u].item \in Desc
  BY DEF CountInv, ReadyInv, Counted, Shape, Apt
<1>2. ASSUME NEW u \in Thread, NEW s \in {"wait", "woken", "loop", "stopping"},
             Goes(u, At(s, "none")), at[u].item = "none", at[u].step \notin {"push", "return"},
             UNCHANGED <<opQueue, outstanding, privateQueue, privateWork, waiting>>
      PROVE  Counted'
  <2>1. at'[u] = At(s, "none") /\ \A v \in Thread : v # u => at'[v] = at[v]
    BY <1>1, <1>2, GoesOn
  <2>2. Employed(At(s, "none")) /\ at[u].ops = <<>>
    BY <1>1, <1>2 DEF Employed
  <2>3. \A v \in Thread :
              /\ at'[v].item = at[v].item /\ at'[v].ops = at[v].ops
              /\ at'[v].step = "return" <=> at[v].step = "return"
              /\ Employed(at'[v])
    BY <1>1, <1>2, <2>1, <2>2
  <2> QED BY <1>2, <2>3, NothingMoves
<1>3. ASSUME UNCHANGED at,
             UNCHANGED <<opQueue, outstanding, privateQueue, privateWork, waiting>>
      PROVE  Counted'
  BY <1>1, <1>3, NothingMoves
<1>4. CASE Signal(t)
  <2>1. UNCHANGED <<opQueue, outstanding, privateQueue, privateWork, waiting>>
    BY <1>4 DEF Signal, queueVars, privateVars, descVars
  <2>2. UNCHANGED at
        \/ \E u \in Thread : at[u].step = "wait" /\ Goes(u, At("woken", "none"))
    BY <1>4 DEF Signal
  <2>3. \A u \in Thread : at[u].step = "wait" => at[u].item = "none"
    BY <1>1 DEF Employed
  <2> QED BY <1>2, <1>3, <2>1, <2>2, <2>3
<1>5. CASE Run(t)
  <2>1. UNCHANGED <<opQueue, outstanding, privateQueue, privateWork, waiting>>
    BY <1>5 DEF Run, queueVars, privateVars, descVars
  <2>2. /\ \E s \in {"stopping", "loop"} : Goes(t, At(s, "none"))
        /\ at[t].step = "body" /\ at[t].item = "none"
    BY <1>5 DEF Run, Outside
  <2> QED BY <1>2, <2>1, <2>2
<1>6. CASE Sleep(t) \/ SleepOn(t) \/ SpuriousWakeup(t)
  <2>1. UNCHANGED <<opQueue, outstanding, privateQueue, privateWork, waiting>>
    BY <1>6 DEF Sleep, SleepOn, SpuriousWakeup, queueVars, privateVars, descVars
  <2>2. /\ \E s \in {"wait", "woken"} : Goes(t, At(s, "none"))
        /\ at[t].step \in {"loop", "collected", "woken", "wait"}
    BY <1>6 DEF Sleep, SleepOn, SpuriousWakeup, AtQueue
  <2>3. at[t].item = "none"
    BY <1>1, <2>2 DEF Employed
  <2> QED BY <1>2, <2>1, <2>2, <2>3
<1>7. ASSUME NEW what, StopAll(t, what), at[t].step # "wait",
             \/ what = at[t]
             \/ /\ at[t].step = "stopping" /\ what = At("loop", "none")
      PROVE  Counted'
  <2>1. UNCHANGED <<opQueue, outstanding, privateQueue, privateWork, waiting>>
    BY <1>7 DEF StopAll, queueVars, privateVars, descVars
  <2>2. at'[t] = what
        /\ \A u \in Thread : u # t =>
              at'[u] = at[u] \/ (at[u].step = "wait" /\ at'[u] = At("woken", "none"))
    BY <1>7, StopWakes
  <2>3. \A u \in Thread : at[u].step \in {"wait", "stopping"} =>
                             at[u].item = "none" /\ at[u].ops = <<>>
    BY <1>1 DEF Employed
  <2>4. Employed(At("woken", "none")) /\ Employed(At("loop", "none"))
    BY DEF Employed
  <2>5. ASSUME NEW v \in Thread
        PROVE  /\ at'[v].item = at[v].item /\ at'[v].ops = at[v].ops
               /\ at'[v].step = "return" <=> at[v].step = "return"
               /\ Employed(at'[v])
    <3>1. \/ at'[v] = at[v]
          \/ at[v].step = "wait" /\ at'[v] = At("woken", "none")
          \/ at[v].step = "stopping" /\ at'[v] = At("loop", "none")
      BY <1>7, <2>2
    <3> QED BY <1>1, <2>3, <2>4, <3>1
  <2> QED BY <2>1, <2>5, NothingMoves
<1>8. CASE CallStop(t)
  BY <1>7, <1>8 DEF CallStop, InHandler
<1>9. CASE OutOfWork(t)
  BY <1>7, <1>9 DEF OutOfWork
<1> QED BY <1>4, <1>5, <1>6, <1>8, <1>9

\* The handler's operation is finished, and what it has started on the side
\* is added up.
LEMMA ReturnKeepsCount ==
    ASSUME CountInv, Shape', NEW t \in Thread, Return(t)
    PROVE  Counted'
<1>1. /\ Shape /\ Employed(at[t]) /\ outstanding \in Int /\ privateWork[t] \in Nat
      /\ privateQueue[t] \in Seq(Op \cup Desc) /\ Apt(at[t], privateQueue[t])
      /\ opQueue \in Seq(Queued)
  BY DEF CountInv, ReadyInv, Counted, Shape
<1>2. PICK s \in {"stopping", "loop"} : Goes(t, At(s, "none"))
  BY DEF Return
<1>3. Employed(At(s, "none")) /\ Apt(At(s, "none"), privateQueue[t])
  BY NoneIsNoDescriptor DEF Employed, Apt, At
<1>4. /\ outstanding' = (outstanding + privateWork[t]) - 1
      /\ privateWork' = [privateWork EXCEPT ![t] = 0]
      /\ UNCHANGED <<opQueue, privateQueue, waiting>>
  BY DEF Return, descVars
<1>5. Load(privateQueue[t], at[t]) = Count(privateQueue[t]) + 1
  <2>1. CASE at[t].step = "return"
    BY <1>1, <2>1, LoadIs
  <2>2. CASE InHandler(t)
    <3>1. at[t].step = "body" /\ One(at[t].item) = 1
      BY <1>1, <2>2 DEF InHandler, Employed, One
    <3> QED BY <1>1, <3>1, LoadIs
  <2> QED BY <2>1, <2>2 DEF Return
<1>6. /\ Load(privateQueue'[t], At(s, "none")) = Count(privateQueue[t])
      /\ Count(privateQueue[t]) \in Nat
  BY <1>1, <1>3, <1>4, LoadIs DEF At
<1>7. Count(opQueue) \in Nat /\ Count(opQueue') = Count(opQueue)
  BY <1>1, <1>4, PlacesAreFinite
<1>8. outstanding' \in Int /\ 0 \in Nat
      /\ outstanding' + 0 + Count(opQueue) + Load(privateQueue[t], at[t])
           = outstanding + privateWork[t] + Count(opQueue')
               + Load(privateQueue'[t], At(s, "none")) + 0
  BY SMTT(30), <1>1, <1>4, <1>5, <1>6, <1>7
<1> QED BY <1>2, <1>3, <1>4, <1>8, WaitingStays, GoingBalances

\* A step of one thread that settles no work.
LEMMA GoingKeepsWork ==
    ASSUME CountInv, Shape', NEW t \in Thread, NEW what, Goes(t, what), Employed(what),
           \A u \in Thread : u # t => privateQueue'[u] = privateQueue[u],
           UNCHANGED <<outstanding, privateWork>>, IsFiniteSet(AtDescriptors'), NEW n \in Int,
           Cardinality(AtDescriptors') = Cardinality(AtDescriptors) + n,
           Count(opQueue) + Load(privateQueue[t], at[t])
             = Count(opQueue') + Load(privateQueue'[t], what) + n,
           Count(opQueue) \in Nat, Count(opQueue') \in Nat,
           Load(privateQueue[t], at[t]) \in Nat, Load(privateQueue'[t], what) \in Nat
    PROVE  Counted'
<1>1. outstanding \in Int /\ privateWork \in [Thread -> Nat]
  BY DEF CountInv, Counted
<1>2. PICK w \in Nat : w = privateWork[t]
  BY <1>1
<1>3. privateWork' = [privateWork EXCEPT ![t] = w] /\ outstanding' \in Int
  BY <1>1, <1>2
<1>4. PICK a, b, c, d :
         /\ a = Count(opQueue) /\ b = Load(privateQueue[t], at[t])
         /\ c = Count(opQueue') /\ d = Load(privateQueue'[t], what)
  OBVIOUS
<1>5. outstanding' + w + a + b = outstanding + privateWork[t] + c + d + n
  BY <1>1, <1>2, <1>4
<1> QED BY <1>3, <1>4, <1>5, GoingBalances

\* What a thread has before its step.
LEMMA Before ==
    ASSUME CountInv, NEW t \in Thread
    PROVE  /\ Shape /\ Employed(at[t]) /\ outstanding \in Int /\ privateWork[t] \in Nat
           /\ privateWork \in [Thread -> Nat]
           /\ privateQueue[t] \in Seq(Op \cup Desc) /\ Apt(at[t], privateQueue[t])
           /\ opQueue \in Seq(Queued)
           /\ Count(opQueue) \in Nat /\ Count(privateQueue[t]) \in Nat
           /\ Load(privateQueue[t], at[t]) \in Nat
<1>1. /\ Shape /\ Employed(at[t]) /\ outstanding \in Int /\ privateWork[t] \in Nat
      /\ privateWork \in [Thread -> Nat]
      /\ privateQueue[t] \in Seq(Op \cup Desc) /\ Apt(at[t], privateQueue[t])
      /\ opQueue \in Seq(Queued)
  BY DEF CountInv, ReadyInv, Counted, Shape
<1>2. Count(opQueue) \in Nat /\ Count(privateQueue[t]) \in Nat
  BY <1>1, PlacesAreFinite
<1> QED BY <1>1, <1>2, LoadIs

LEMMA TaskIsNoOp == "task" \notin Op /\ "none" \notin Op /\ \A d \in Desc : d \notin Op
  BY NamesAssumption

LEMMA CountOfQueue ==
    ASSUME Shape, NEW t \in Thread
    PROVE  Count(Queue(t)) = Count(opQueue) + Count(privateQueue[t])
<1>1. PICK a, b, c :
         /\ a = opQueue /\ b = privateQueue[t]
         /\ c = IF at[t].step = "collected" THEN <<"task">> ELSE <<>>
  OBVIOUS
<1>2. a \in Seq(Queued) /\ b \in Seq(Queued)
  <2>1. privateQueue[t] \in Seq(Op \cup Desc) /\ Op \cup Desc \subseteq Queued
    BY DEF Shape, Queued
  <2> QED BY <1>1, <2>1 DEF Shape
<1>3. c \in Seq(Queued) /\ Count(c) = 0
  <2>1. <<"task">> \in Seq(Queued) /\ <<>> \in Seq(Queued)
    BY DEF Queued
  <2>2. Count(<<"task">>) = 0 /\ Count(<<>>) = 0
    BY TaskIsNoOp, CountOfOne, CountOfNone
  <2> QED BY <1>1, <2>1, <2>2
<1>4. a \o b \in Seq(Queued) /\ Count(a \o b) = Count(a) + Count(b)
  BY <1>2, CountOfConcat
<1>5. Count((a \o b) \o c) = Count(a \o b) + Count(c)
  BY <1>3, <1>4, CountOfConcat
<1>6. Count(a) \in Nat /\ Count(b) \in Nat
  BY <1>2, PlacesAreFinite
<1>7. Queue(t) = (a \o b) \o c
  BY <1>1 DEF Queue
<1> QED BY <1>1, <1>3, <1>4, <1>5, <1>6, <1>7

\* A thread has the mutex: what was its own is shared now, or in its hands.
LEMMA LoopKeepsCount ==
    ASSUME CountInv, Shape', NEW t \in Thread, Exit(t) \/ TakeTask(t) \/ TakeOperation(t)
    PROVE  Counted'
<1> USE DEF At
<1>1. /\ Shape /\ Employed(at[t]) /\ privateQueue[t] \in Seq(Op \cup Desc)
      /\ Apt(at[t], privateQueue[t]) /\ Count(opQueue) \in Nat /\ Count(privateQueue[t]) \in Nat
  BY Before
<1>2. /\ UNCHANGED <<outstanding, privateWork, waiting>>
      /\ at[t].step \in {"loop", "collected", "woken"}
      /\ privateQueue' = [privateQueue EXCEPT ![t] = <<>>]
  BY DEF Exit, TakeTask, TakeOperation, AtQueue, descVars
<1>3. Load(privateQueue[t], at[t]) = Count(privateQueue[t])
  BY <1>1, <1>2, LoadIs
<1>4. privateQueue'[t] = <<>> /\ \A u \in Thread : u # t => privateQueue'[u] = privateQueue[u]
  BY <1>1, <1>2 DEF Shape
<1>5. PICK q : q = Queue(t)
  OBVIOUS
<1>6. q \in Seq(Queued) /\ Count(q) = Count(opQueue) + Count(privateQueue[t])
  BY <1>1, <1>5, CountOfQueue, QueueIs
<1>7. Count(q) \in Nat
  BY <1>6, PlacesAreFinite
<1>8. ASSUME q # <<>>
      PROVE  /\ Head(q) \in Queued /\ Tail(q) \in Seq(Queued) /\ Count(Tail(q)) \in Nat
             /\ Count(q) = One(Head(q)) + Count(Tail(q)) /\ One(Head(q)) \in Nat
  <2>1. Head(q) \in Queued /\ Tail(q) \in Seq(Queued)
    BY <1>6, <1>8
  <2>2. Count(q) = Count(<<Head(q)>>) + Count(Tail(q))
    BY <1>6, <1>8, CountOfTail
  <2>3. Count(<<Head(q)>>) = One(Head(q)) /\ One(Head(q)) \in Nat
    BY CountOfOne DEF One
  <2>4. Count(Tail(q)) \in Nat
    BY <2>1, PlacesAreFinite
  <2> QED BY <2>1, <2>2, <2>3, <2>4
<1>9. PICK what :
         /\ Goes(t, what) /\ Employed(what) /\ Apt(what, <<>>)
         /\ Count(opQueue') \in Nat /\ Load(<<>>, what) \in Nat
         /\ Count(q) = Count(opQueue') + Load(<<>>, what)
  <2>1. Count(<<>>) = 0 /\ <<>> \in Seq(Op \cup Desc)
    BY CountOfNone
  <2>2. CASE Exit(t)
    <3>1. PICK what : what = At("exited", "none")
      OBVIOUS
    <3>2. Employed(what) /\ Apt(what, <<>>) /\ what.step = "exited"
      BY <3>1, NoneIsNoDescriptor DEF Employed, Apt
    <3>3. Load(<<>>, what) = 0
      BY <2>1, <3>2, LoadIs
    <3>4. Goes(t, what) /\ opQueue' = q
      BY <1>5, <2>2, <3>1 DEF Exit
    <3> QED BY <1>7, <3>2, <3>3, <3>4
  <2>3. CASE TakeTask(t)
    <3>1. PICK s \in {"poll", "block"} : Goes(t, At(s, "none"))
      BY <2>3 DEF TakeTask
    <3>2. PICK what : what = At(s, "none")
      OBVIOUS
    <3>3. Employed(what) /\ Apt(what, <<>>) /\ what.step \in {"poll", "block"}
      BY <3>2, NoneIsNoDescriptor DEF Employed, Apt
    <3>4. Load(<<>>, what) = 0
      BY <2>1, <3>3, LoadIs
    <3>5. Head(q) = "task" /\ q # <<>> /\ opQueue' = Tail(q)
      BY <1>5, <2>3 DEF TakeTask
    <3>6. One(Head(q)) = 0
      BY <3>5, TaskIsNoOp DEF One
    <3> QED BY <1>8, <3>1, <3>2, <3>3, <3>4, <3>5, <3>6
  <2>4. CASE TakeOperation(t)
    <3>1. /\ Head(q) # "task" /\ q # <<>> /\ opQueue' = Tail(q)
          /\ Goes(t, At(IF Head(q) \in Desc THEN "complete" ELSE "body", Head(q)))
      BY <1>5, <2>4 DEF TakeOperation
    <3>2. Head(q) \in Op \cup Desc
      BY <1>8, <3>1 DEF Queued
    <3>3. PICK what : what = At(IF Head(q) \in Desc THEN "complete" ELSE "body", Head(q))
      OBVIOUS
    <3>4. /\ what.item = Head(q) /\ what.ops = <<>>
          /\ Head(q) \in Desc => what.step = "complete"
          /\ Head(q) \notin Desc => what.step = "body"
      BY <3>3
    <3>5. Employed(what) /\ Apt(what, <<>>)
      BY <3>2, <3>4 DEF Employed, Apt
    <3>6. Load(<<>>, what) = One(Head(q))
      <4>1. CASE Head(q) \in Desc
        <5>1. Load(<<>>, what) = 0
          BY <2>1, <3>4, <3>5, <4>1, LoadIs
        <5>2. One(Head(q)) = 0
          BY <4>1, TaskIsNoOp DEF One
        <5> QED BY <5>1, <5>2
      <4>2. CASE Head(q) \notin Desc
        <5>1. Load(<<>>, what) = Count(<<>>) + One(what.item) /\ One(what.item) \in Nat
          BY <2>1, <3>4, <3>5, <4>2, LoadIs
        <5> QED BY <2>1, <3>4, <5>1
      <4> QED BY <4>1, <4>2
    <3> QED BY <1>8, <3>1, <3>3, <3>5, <3>6
  <2> QED BY <2>2, <2>3, <2>4
<1>10. Count(opQueue) + Load(privateQueue[t], at[t])
         = Count(opQueue') + Load(privateQueue'[t], what) + 0
  BY <1>1, <1>3, <1>4, <1>6, <1>9
<1> QED BY <1>1, <1>2, <1>3, <1>4, <1>9, <1>10, WaitingStays, GoingKeepsWork

\* Descriptors are no work.
LEMMA EpollKeepsCount ==
    ASSUME CountInv, Shape', NEW t \in Thread, EpollReturns(t)
    PROVE  Counted'
<1> USE DEF At
<1>1. /\ Shape /\ Employed(at[t]) /\ privateQueue[t] \in Seq(Op \cup Desc)
      /\ Apt(at[t], privateQueue[t]) /\ Count(opQueue) \in Nat
  BY Before
<1>2. PICK ready \in SetToSeqs(Reported \cap Desc) :
         privateQueue' = [privateQueue EXCEPT ![t] = ready]
  BY DEF EpollReturns
<1>3. IsFiniteSet(Reported \cap Desc)
  BY <1>1, FS_Subset DEF Shape, Reported
<1>4. ready \in Seq(Desc)
  <2>1. ready \in Seq(Reported \cap Desc)
    BY <1>3, ItemsOfSetToSeqs
  <2> QED BY <2>1
<1>5. Count(ready) = 0 /\ ready \in Seq(Op \cup Desc)
  <2>1. Desc \cap Op = {}
    BY NamesAssumption
  <2> QED BY <1>4, <2>1, CountOfOthers
<1>6. /\ at[t].step \in {"poll", "block"}
      /\ UNCHANGED <<outstanding, privateWork, waiting, opQueue>>
  BY DEF EpollReturns, queueVars, descVars
<1>7. privateQueue'[t] = ready /\ \A u \in Thread : u # t => privateQueue'[u] = privateQueue[u]
  BY <1>1, <1>2 DEF Shape
<1>8. Load(privateQueue[t], at[t]) = 0
  <2>1. privateQueue[t] = <<>>
    BY <1>1, <1>6 DEF Apt
  <2> QED BY <1>1, <1>6, <2>1, LoadIs, CountOfNone
<1>9. PICK what : what = At("collected", "none")
  OBVIOUS
<1>10. Employed(what) /\ Apt(what, ready) /\ what.step = "collected" /\ Goes(t, what)
  BY <1>9, NoneIsNoDescriptor DEF Employed, Apt, EpollReturns
<1>11. Load(privateQueue'[t], what) = 0
  BY <1>5, <1>7, <1>10, LoadIs
<1> QED BY <1>1, <1>6, <1>7, <1>8, <1>10, <1>11, WaitingStays, GoingKeepsWork

LEMMA PushKeepsCount ==
    ASSUME CountInv, Shape', NEW t \in Thread, Push(t)
    PROVE  Counted'
<1> USE DEF At
<1>1. /\ Shape /\ Employed(at[t]) /\ privateQueue[t] \in Seq(Op \cup Desc)
      /\ Apt(at[t], privateQueue[t]) /\ opQueue \in Seq(Queued) /\ Count(opQueue) \in Nat
      /\ Count(privateQueue[t]) \in Nat
  BY Before
<1>2. /\ at[t].step = "push" /\ Goes(t, At("body", at[t].item))
      /\ UNCHANGED <<outstanding, privateWork, privateQueue, waiting>>
  BY DEF Push, privateVars, descVars
<1>3. PICK p, o : p = opQueue /\ o = at[t].ops
  OBVIOUS
<1>4. /\ opQueue' = p \o o /\ p \in Seq(Queued) /\ o \in Seq(Op) /\ o \in Seq(Queued)
  BY <1>1, <1>3 DEF Push, Employed, Queued
<1>5. Count(opQueue') = Count(opQueue) + Len(o) /\ Len(o) \in Nat
  <2>1. Count(p \o o) = Count(p) + Count(o)
    BY <1>4, CountOfConcat
  <2>2. Count(o) = Len(o) /\ Len(o) \in Nat
    BY <1>4, CountOfOps
  <2> QED BY <1>3, <1>4, <2>1, <2>2
<1>6. PICK what : what = At("body", at[t].item)
  OBVIOUS
<1>7. Employed(what) /\ Apt(what, privateQueue[t]) /\ what.step = "body"
      /\ what.item = at[t].item /\ Goes(t, what)
  BY <1>1, <1>2, <1>6 DEF Employed, Apt
<1>8. /\ Load(privateQueue[t], at[t]) = Count(privateQueue[t]) + Len(o) + One(at[t].item)
      /\ One(at[t].item) \in Nat
  BY <1>1, <1>2, <1>3, LoadIs
<1>9. Load(privateQueue'[t], what) = Count(privateQueue[t]) + One(at[t].item)
  BY <1>1, <1>2, <1>7, LoadIs
<1>10. /\ Load(privateQueue[t], at[t]) \in Nat /\ Load(privateQueue'[t], what) \in Nat
       /\ Count(opQueue') \in Nat
       /\ Count(opQueue) + Load(privateQueue[t], at[t])
            = Count(opQueue') + Load(privateQueue'[t], what) + 0
  BY <1>1, <1>5, <1>8, <1>9
<1>11. \A u \in Thread : u # t => privateQueue'[u] = privateQueue[u]
  BY <1>2
<1> QED BY <1>1, <1>2, <1>7, <1>10, <1>11, WaitingStays, GoingKeepsWork

\* A new operation is counted for the thread alone, or for all of them.
LEMMA ImmediateKeepsCount ==
    ASSUME CountInv, Shape', NEW t \in Thread, NEW o \in Op, NEW continuation \in BOOLEAN,
           at[t].step = "body", Immediate(t, o, continuation), UNCHANGED <<opQueue, waiting>>
    PROVE  Counted'
<1>1. /\ Shape /\ Employed(at[t]) /\ outstanding \in Int /\ privateWork[t] \in Nat
      /\ privateWork \in [Thread -> Nat]
      /\ privateQueue[t] \in Seq(Op \cup Desc) /\ Apt(at[t], privateQueue[t])
      /\ Count(opQueue) \in Nat /\ Count(privateQueue[t]) \in Nat
  BY Before
<1>2. Load(privateQueue[t], at[t]) = Count(privateQueue[t]) + One(at[t].item)
      /\ One(at[t].item) \in Nat
  BY <1>1, LoadIs
<1>3. /\ IsFiniteSet(AtDescriptors') /\ 0 \in Int
      /\ Cardinality(AtDescriptors') = Cardinality(AtDescriptors) + 0
  BY WaitingStays
<1>4. CASE (oneThread \/ continuation) /\ InHandler(t)
  <2>1. PICK p : p = privateQueue[t]
    OBVIOUS
  <2>2. /\ UNCHANGED <<outstanding, at>>
        /\ privateQueue' = [privateQueue EXCEPT ![t] = Append(p, o)]
        /\ privateWork' = [privateWork EXCEPT ![t] = privateWork[t] + 1]
    BY <1>4, <2>1 DEF Immediate
  <2>3. Count(Append(p, o)) = Count(p) + 1 /\ Append(p, o) \in Seq(Op \cup Desc)
    <3>1. PICK S : S = Op \cup Desc
      OBVIOUS
    <3>2. p \in Seq(S) /\ o \in S
      BY <1>1, <2>1, <3>1
    <3>3. Count(Append(p, o)) = Count(p) + Count(<<o>>)
      BY <3>2, CountOfAppend
    <3>4. Count(<<o>>) = 1
      BY CountOfOne
    <3>5. Append(p, o) \in Seq(S)
      BY <3>2
    <3> QED BY <3>1, <3>3, <3>4, <3>5
  <2>4. /\ privateQueue'[t] = Append(p, o)
        /\ \A u \in Thread : u # t => privateQueue'[u] = privateQueue[u]
    BY <1>1, <2>2 DEF Shape
  <2>5. Goes(t, at[t])
    BY <1>1, <2>2 DEF Goes, Shape
  <2>6. Apt(at[t], privateQueue'[t])
    BY <1>1 DEF Apt
  <2>7. Load(privateQueue'[t], at[t]) = Count(p) + 1 + One(at[t].item)
    BY <1>1, <2>3, <2>4, <2>6, LoadIs
  <2>8. PICK w \in Nat : w = privateWork[t] + 1
    BY <1>1
  <2>9. /\ privateWork' = [privateWork EXCEPT ![t] = w] /\ outstanding' \in Int
        /\ outstanding' + w + Count(opQueue) + Load(privateQueue[t], at[t])
             = outstanding + privateWork[t] + Count(opQueue') + Load(privateQueue'[t], at[t]) + 0
    BY SMTT(30), <1>1, <1>2, <2>1, <2>2, <2>7, <2>8
  <2> QED BY <1>1, <1>3, <2>4, <2>5, <2>9, GoingBalances
<1>5. CASE ~((oneThread \/ continuation) /\ InHandler(t))
  <2>1. PICK what : what = [step |-> "push", item |-> at[t].item, ops |-> <<o>>]
    OBVIOUS
  <2>2. /\ outstanding' = outstanding + 1 /\ Goes(t, what)
        /\ UNCHANGED <<privateQueue, privateWork>>
    BY <1>5, <2>1 DEF Immediate, privateVars
  <2>3. /\ Employed(what) /\ Apt(what, privateQueue[t]) /\ what.step = "push"
        /\ what.item = at[t].item /\ Len(what.ops) = 1
    BY <1>1, <2>1 DEF Employed, Apt
  <2>4. Load(privateQueue'[t], what) = Count(privateQueue[t]) + 1 + One(at[t].item)
    BY <1>1, <2>2, <2>3, LoadIs
  <2>5. PICK w \in Nat : w = privateWork[t]
    BY <1>1
  <2>6. /\ privateWork' = [privateWork EXCEPT ![t] = w] /\ outstanding' \in Int
        /\ outstanding' + w + Count(opQueue) + Load(privateQueue[t], at[t])
             = outstanding + privateWork[t] + Count(opQueue') + Load(privateQueue'[t], what) + 0
    BY SMTT(30), <1>1, <1>2, <2>2, <2>4, <2>5
  <2>7. \A u \in Thread : u # t => privateQueue'[u] = privateQueue[u]
    BY <2>2
  <2> QED BY <1>3, <2>2, <2>3, <2>6, <2>7, GoingBalances
<1> QED BY <1>4, <1>5

LEMMA StartOpKeepsCount ==
    ASSUME CountInv, Shape', NEW t \in Thread, NEW d \in Desc, NEW o \in Op,
           NEW continuation \in BOOLEAN, StartOp(t, d, o, continuation)
    PROVE  Counted'
<1>1. /\ Shape /\ Employed(at[t]) /\ outstanding \in Int /\ privateWork[t] \in Nat
      /\ privateWork \in [Thread -> Nat] /\ Load(privateQueue[t], at[t]) \in Nat
      /\ Count(opQueue) \in Nat
  BY Before
<1>2. at[t].step = "body" /\ UNCHANGED opQueue
  BY DEF StartOp
<1>3. CASE waiting[d] = <<>> /\ speculative[d] /\ Available(d) > 0
  <2>1. Immediate(t, o, continuation) /\ UNCHANGED waiting
    BY <1>3 DEF StartOp
  <2> QED BY <1>2, <2>1, ImmediateKeepsCount
<1>4. CASE ~(waiting[d] = <<>> /\ speculative[d] /\ Available(d) > 0)
  <2>1. /\ waiting' = [waiting EXCEPT ![d] = Append(waiting[d], o)]
        /\ outstanding' = outstanding + 1
        /\ UNCHANGED <<at, privateQueue, privateWork>>
    BY <1>4 DEF StartOp, privateVars
  <2>2. PICK q : q = waiting[d]
    OBVIOUS
  <2>3. q \in Seq(Op) /\ Len(Append(q, o)) = Len(q) + 1 /\ Len(q) \in Nat
    BY <1>1, <2>2 DEF Shape
  <2>4. /\ waiting'[d] = Append(q, o)
        /\ \A e \in Desc : e # d => waiting'[e] = waiting[e]
    BY <1>1, <2>1, <2>2 DEF Shape
  <2>5. /\ IsFiniteSet(AtDescriptors')
        /\ Cardinality(AtDescriptors')
             = Cardinality(AtDescriptors) + (Len(waiting'[d]) - Len(waiting[d]))
    BY <2>4, WaitingChanges
  <2>6. Len(waiting'[d]) - Len(waiting[d]) = 1 /\ 1 \in Int
    BY <2>2, <2>3, <2>4
  <2>7. Cardinality(AtDescriptors') = Cardinality(AtDescriptors) + 1
    BY <2>5, <2>6
  <2>8. PICK w \in Nat : w = privateWork[t]
    BY <1>1
  <2>9. /\ privateWork' = [privateWork EXCEPT ![t] = w] /\ outstanding' \in Int
        /\ outstanding' + w + Count(opQueue) + Load(privateQueue[t], at[t])
             = outstanding + privateWork[t] + Count(opQueue') + Load(privateQueue'[t], at[t]) + 1
    BY <1>1, <1>2, <2>1, <2>8
  <2>10. Goes(t, at[t]) /\ \A u \in Thread : u # t => privateQueue'[u] = privateQueue[u]
    BY <1>1, <2>1 DEF Goes, Shape
  <2> QED BY <1>1, <2>5, <2>6, <2>7, <2>9, <2>10, GoingBalances
<1> QED BY <1>3, <1>4

\* Operations that waited at a descriptor are handed on.
LEMMA HandKeepsCount ==
    ASSUME CountInv, Shape', NEW t \in Thread, NEW item \in Op \cup {"none"},
           NEW ops \in Seq(Op), Hand(t, item, ops),
           UNCHANGED <<opQueue, outstanding, privateWork>>,
           IsFiniteSet(AtDescriptors'), NEW n \in Int,
           Cardinality(AtDescriptors') = Cardinality(AtDescriptors) + n,
           Load(privateQueue[t], at[t]) = Count(privateQueue[t]) + One(item) + Len(ops) + n
    PROVE  Counted'
<1>1. /\ Shape /\ Count(opQueue) \in Nat /\ Count(privateQueue[t]) \in Nat
      /\ privateQueue[t] \in Seq(Op \cup Desc) /\ Apt(at[t], privateQueue[t])
      /\ Load(privateQueue[t], at[t]) \in Nat
  BY Before
<1>2. ops \in Seq(Op \cup Desc) /\ Len(ops) \in Nat /\ Count(ops) = Len(ops)
      /\ item \notin Desc
  BY CountOfOps, NamesAssumption
<1>3. CASE oneThread /\ item # "none"
  <2>1. PICK p, what : p = privateQueue[t] /\ what = At("body", item)
    OBVIOUS
  <2>2. Goes(t, what) /\ privateQueue' = [privateQueue EXCEPT ![t] = p \o ops]
    BY <1>3, <2>1 DEF Hand
  <2>3. p \in Seq(Op \cup Desc)
    BY <1>1, <2>1
  <2>4. Count(p \o ops) = Count(p) + Count(ops)
    BY <1>2, <2>3, CountOfConcat
  <2>5. p \o ops \in Seq(Op \cup Desc)
    BY <1>2, <2>3
  <2>6. /\ privateQueue'[t] = p \o ops
        /\ \A u \in Thread : u # t => privateQueue'[u] = privateQueue[u]
    BY <1>1, <2>2, <2>5 DEF Shape
  <2>7. Employed(what) /\ Apt(what, p \o ops) /\ what.step = "body" /\ what.item = item
    BY <1>2, <2>1 DEF Employed, Apt, At
  <2>8. /\ Load(p \o ops, what) = Count(p \o ops) + One(item) /\ One(item) \in Nat
        /\ Load(p \o ops, what) \in Nat
    BY <2>5, <2>7, LoadIs
  <2>9. /\ Load(privateQueue'[t], what) \in Nat /\ Count(opQueue') \in Nat
        /\ Count(opQueue) + Load(privateQueue[t], at[t])
             = Count(opQueue') + Load(privateQueue'[t], what) + n
    BY SMTT(30), <1>1, <1>2, <2>1, <2>4, <2>6, <2>8
  <2> QED BY <1>1, <2>2, <2>6, <2>7, <2>9, GoingKeepsWork
<1>4. CASE ~(oneThread /\ item # "none")
  <2>1. PICK what : what = [step |-> "push", item |-> item, ops |-> ops]
    OBVIOUS
  <2>2. Goes(t, what) /\ UNCHANGED privateQueue
    BY <1>4, <2>1 DEF Hand
  <2>3. /\ Employed(what) /\ Apt(what, privateQueue[t]) /\ what.step = "push"
        /\ what.item = item /\ what.ops = ops
    BY <1>2, <2>1 DEF Employed, Apt
  <2>4. /\ Load(privateQueue[t], what) = Count(privateQueue[t]) + Len(ops) + One(item)
        /\ One(item) \in Nat /\ Load(privateQueue[t], what) \in Nat
    BY <1>1, <2>3, LoadIs
  <2>5. /\ Load(privateQueue'[t], what) \in Nat /\ Count(opQueue') \in Nat
        /\ Count(opQueue) + Load(privateQueue[t], at[t])
             = Count(opQueue') + Load(privateQueue'[t], what) + n
    BY SMTT(30), <1>1, <1>2, <2>2, <2>4
  <2>6. \A u \in Thread : u # t => privateQueue'[u] = privateQueue[u]
    BY <2>2
  <2> QED BY <1>1, <2>2, <2>3, <2>5, <2>6, GoingKeepsWork
<1> QED BY <1>3, <1>4

LEMMA CancelKeepsCount ==
    ASSUME CountInv, Shape', NEW t \in Thread, NEW d \in Desc, CancelOps(t, d)
    PROVE  Counted'
<1>1. /\ Shape /\ Employed(at[t]) /\ privateQueue[t] \in Seq(Op \cup Desc)
      /\ Apt(at[t], privateQueue[t]) /\ Count(privateQueue[t]) \in Nat
  BY Before
<1>2. /\ at[t].step = "body" /\ Hand(t, at[t].item, waiting[d])
      /\ waiting' = [waiting EXCEPT ![d] = <<>>]
      /\ UNCHANGED <<opQueue, outstanding, privateWork>>
  BY DEF CancelOps, InHandler, queueVars
<1>3. PICK q, item : q = waiting[d] /\ item = at[t].item
  OBVIOUS
<1>4. q \in Seq(Op) /\ item \in Op \cup {"none"} /\ Len(q) \in Nat /\ Hand(t, item, q)
  BY <1>1, <1>2, <1>3 DEF Shape, Employed
<1>5. waiting'[d] = <<>> /\ \A e \in Desc : e # d => waiting'[e] = waiting[e]
  BY <1>1, <1>2 DEF Shape
<1>6. /\ IsFiniteSet(AtDescriptors')
      /\ Cardinality(AtDescriptors')
           = Cardinality(AtDescriptors) + (Len(waiting'[d]) - Len(waiting[d]))
  BY <1>5, WaitingChanges
<1>7. PICK n \in Int : n = 0 - Len(q)
  BY <1>4
<1>8. Cardinality(AtDescriptors') = Cardinality(AtDescriptors) + n
  <2>1. Len(waiting'[d]) - Len(waiting[d]) = n
    BY <1>3, <1>4, <1>5, <1>7
  <2> QED BY <1>6, <2>1
<1>9. Load(privateQueue[t], at[t]) = Count(privateQueue[t]) + One(item) + Len(q) + n
  <2>1. /\ Load(privateQueue[t], at[t]) = Count(privateQueue[t]) + One(item)
        /\ One(item) \in Nat
    BY <1>1, <1>2, <1>3, LoadIs
  <2> QED BY <1>1, <1>4, <1>7, <2>1
<1> QED BY <1>2, <1>4, <1>6, <1>8, <1>9, HandKeepsCount

\* perform_io takes what it has done from the descriptor; the first operation
\* is in the thread's hands, or if there is none, one too many is counted until
\* the thread returns.
LEMMA PerformIoKeepsCount ==
    ASSUME CountInv, Shape', NEW t \in Thread, PerformIo(t)
    PROVE  Counted'
<1>1. /\ Shape /\ Employed(at[t]) /\ outstanding \in Int /\ privateWork[t] \in Nat
      /\ privateWork \in [Thread -> Nat]
      /\ privateQueue[t] \in Seq(Op \cup Desc) /\ Apt(at[t], privateQueue[t])
      /\ Count(opQueue) \in Nat /\ Count(privateQueue[t]) \in Nat
  BY Before
<1>2. /\ at[t].step = "complete" /\ UNCHANGED <<opQueue, outstanding>>
  BY DEF PerformIo, queueVars
<1>3. PICK d : d = at[t].item
  OBVIOUS
<1>4. d \in Desc /\ waiting[d] \in Seq(Op) /\ Available(d) \in Nat
  BY <1>1, <1>2, <1>3 DEF Apt, Shape, Available
<1>5. PICK n : n = Progress(d)
  OBVIOUS
<1>6. n \in Nat /\ n <= Len(waiting[d]) /\ Len(waiting[d]) \in Nat
  BY <1>4, <1>5 DEF Progress
<1>7. PICK done, rest : /\ done = SubSeq(waiting[d], 1, n)
                        /\ rest = SubSeq(waiting[d], n + 1, Len(waiting[d]))
  OBVIOUS
<1>8. /\ waiting' = [waiting EXCEPT ![d] = rest]
      /\ \/ n = 0 /\ CompensatingWork(t) /\ Goes(t, At("return", "none"))
            /\ UNCHANGED privateQueue
         \/ n = 1 /\ Goes(t, At("body", done[1])) /\ UNCHANGED privateVars
         \/ n > 1 /\ Hand(t, done[1], Tail(done)) /\ UNCHANGED privateWork
  BY <1>1, <1>3, <1>4, <1>5, <1>7 DEF PerformIo, Shape
<1>9. done \in Seq(Op) /\ Len(done) = n
  BY <1>4, <1>6, <1>7
<1>10. /\ n >= 1 => done[1] \in Op
       /\ n > 1 => Tail(done) \in Seq(Op) /\ Len(Tail(done)) = n - 1
  BY <1>6, <1>9
<1>11. rest \in Seq(Op) /\ Len(rest) = Len(waiting[d]) - n
  BY <1>4, <1>6, <1>7
<1>12. PICK m \in Int : m = 0 - n
  BY <1>6
<1>13. /\ IsFiniteSet(AtDescriptors')
       /\ Cardinality(AtDescriptors') = Cardinality(AtDescriptors) + m
  <2>1. waiting'[d] = rest /\ \A e \in Desc : e # d => waiting'[e] = waiting[e]
    BY <1>1, <1>4, <1>8 DEF Shape
  <2>2. /\ IsFiniteSet(AtDescriptors')
        /\ Cardinality(AtDescriptors')
             = Cardinality(AtDescriptors) + (Len(waiting'[d]) - Len(waiting[d]))
    BY <1>4, <2>1, WaitingChanges
  <2>3. Len(waiting'[d]) - Len(waiting[d]) = m
    <3>1. PICK a, b : a = Len(rest) /\ b = Len(waiting[d])
      OBVIOUS
    <3>2. a = b - n /\ b \in Nat /\ n \in Nat
      BY <1>6, <1>11, <3>1
    <3>3. a - b = m
      BY ONLY <1>12, <3>2
    <3> QED BY <2>1, <3>1, <3>3, Zenon
  <2> QED BY <2>2, <2>3
<1>14. Load(privateQueue[t], at[t]) = Count(privateQueue[t])
  BY <1>1, <1>2, LoadIs
<1>15. CASE n = 0 /\ CompensatingWork(t) /\ Goes(t, At("return", "none"))
            /\ UNCHANGED privateQueue
  <2>1. PICK what : what = At("return", "none")
    OBVIOUS
  <2>2. /\ Employed(what) /\ Apt(what, privateQueue[t]) /\ what.step = "return"
        /\ Goes(t, what)
    BY <1>15, <2>1, NoneIsNoDescriptor DEF Employed, Apt, At
  <2>3. Load(privateQueue'[t], what) = Count(privateQueue[t]) + 1
    BY <1>1, <1>15, <2>2, LoadIs
  <2>4. PICK w \in Nat : w = privateWork[t] + 1
    BY <1>1
  <2>5. privateWork' = [privateWork EXCEPT ![t] = w] /\ outstanding' \in Int /\ m = 0
    BY <1>1, <1>2, <1>12, <1>15, <2>4 DEF CompensatingWork
  <2>6. outstanding' + w + Count(opQueue) + Load(privateQueue[t], at[t])
          = outstanding + privateWork[t] + Count(opQueue') + Load(privateQueue'[t], what) + m
    BY <1>1, <1>2, <1>14, <2>3, <2>4, <2>5
  <2>7. \A u \in Thread : u # t => privateQueue'[u] = privateQueue[u]
    BY <1>15
  <2> QED BY <1>13, <2>2, <2>5, <2>6, <2>7, GoingBalances
<1>16. CASE n = 1 /\ Goes(t, At("body", done[1])) /\ UNCHANGED privateVars
  <2>1. PICK what : what = At("body", done[1])
    OBVIOUS
  <2>2. /\ Employed(what) /\ Apt(what, privateQueue[t]) /\ what.step = "body"
        /\ what.item = done[1] /\ One(what.item) = 1 /\ Goes(t, what)
    BY <1>10, <1>16, <2>1, NoneIsNoDescriptor DEF Employed, Apt, At, One
  <2>3. UNCHANGED <<privateQueue, privateWork>>
    BY <1>16 DEF privateVars
  <2>4. Load(privateQueue'[t], what) = Count(privateQueue[t]) + 1
    BY <1>1, <2>2, <2>3, LoadIs
  <2>5. /\ Load(privateQueue[t], at[t]) \in Nat /\ Load(privateQueue'[t], what) \in Nat
        /\ Count(opQueue') \in Nat
        /\ Count(opQueue) + Load(privateQueue[t], at[t])
             = Count(opQueue') + Load(privateQueue'[t], what) + m
    BY <1>1, <1>2, <1>12, <1>14, <1>16, <2>4
  <2>6. \A u \in Thread : u # t => privateQueue'[u] = privateQueue[u]
    BY <2>3
  <2> QED BY <1>1, <1>2, <1>13, <2>2, <2>3, <2>5, <2>6, GoingKeepsWork
<1>17. CASE n > 1 /\ Hand(t, done[1], Tail(done)) /\ UNCHANGED privateWork
  <2>1. PICK item, ops : item = done[1] /\ ops = Tail(done)
    OBVIOUS
  <2>2. /\ item \in Op \cup {"none"} /\ ops \in Seq(Op) /\ Len(ops) = n - 1
        /\ Hand(t, item, ops) /\ One(item) = 1
    BY <1>6, <1>10, <1>17, <2>1 DEF One
  <2>3. Load(privateQueue[t], at[t]) = Count(privateQueue[t]) + One(item) + Len(ops) + m
    <3>1. PICK c, l : c = Count(privateQueue[t]) /\ l = Len(ops)
      OBVIOUS
    <3>2. c \in Nat /\ l = n - 1 /\ m = 0 - n /\ n \in Nat
      BY <1>1, <1>6, <1>12, <2>2, <3>1
    <3>3. c = c + 1 + l + m
      BY ONLY <3>2
    <3> QED BY <1>14, <2>2, <3>1, <3>3
  <2>4. UNCHANGED <<opQueue, outstanding, privateWork>>
    BY <1>2, <1>17
  <2> QED BY <1>13, <2>2, <2>3, <2>4, HandKeepsCount
<1> QED BY <1>8, <1>15, <1>16, <1>17

LEMMA InitCountInv == Init => CountInv
<1> SUFFICES ASSUME Init PROVE Counted
  BY InitReadyInv DEF CountInv
<1>1. /\ outstanding = 0 /\ privateWork = [t \in Thread |-> 0]
      /\ opQueue = <<"task">> /\ privateQueue = [t \in Thread |-> <<>>]
      /\ waiting = [d \in Desc |-> <<>>] /\ at = [t \in Thread |-> Outside]
  BY DEF Init
<1>2. Outside.step = "body" /\ Outside.item = "none" /\ Outside.ops = <<>>
  BY DEF Outside, At
<1>3. \A t \in Thread : Employed(at[t])
  <2>1. Employed(Outside)
    BY <1>2 DEF Employed
  <2>2. \A t \in Thread : at[t] = Outside
    BY <1>1
  <2> QED BY <2>1, <2>2
<1>4. Work = {}
  <2>1. \A t \in Thread : {t} \X (1..privateWork[t]) = {}
    BY <1>1
  <2> QED BY <2>1 DEF Work
<1>5. InHands = {}
  <2>1. ASSUME NEW t \in Thread PROVE Held(t) = <<"none">>
    <3>1. Held(t) = <<>> \o <<>> \o <<"none">>
      BY <1>1, <1>2, <2>1 DEF Held
    <3> QED BY <3>1
  <2>2. \A t \in Thread : Occurrences("thread", t, <<"none">>) = {}
    BY TaskIsNoOp DEF Occurrences
  <2> QED BY <2>1, <2>2 DEF InHands, Family
<1>6. AtDescriptors = {}
  <2>1. \A d \in Desc : Occurrences("waiting", d, <<>>) = {}
    BY DEF Occurrences
  <2> QED BY <1>1, <2>1 DEF AtDescriptors, Family
<1>7. Returning = {}
  BY <1>1, <1>2 DEF Returning
<1>8. Unfinished = {}
  <2>1. Occurrences("queue", "shared", opQueue) = {}
    BY <1>1, TaskIsNoOp DEF Occurrences
  <2>2. Unfinished = Occurrences("queue", "shared", opQueue) \cup InHands \cup AtDescriptors
    BY DEF Unfinished, InHands, AtDescriptors, Family
  <2> QED BY <1>5, <1>6, <2>1, <2>2
<1>9. Cardinality({}) = 0 /\ IsFiniteSet({})
  BY FS_EmptySet
<1>10. WorkIsCounted
  <2>1. outstanding + Cardinality(Work) = Cardinality(Unfinished) + Cardinality(Returning)
    BY <1>1, <1>4, <1>7, <1>8, <1>9
  <2> QED BY <2>1 DEF WorkIsCounted, Work, Returning
<1>11. outstanding \in Int /\ privateWork \in [Thread -> Nat]
  BY <1>1
<1> QED BY <1>3, <1>4, <1>5, <1>6, <1>7, <1>9, <1>10, <1>11 DEF Counted

LEMMA NextKeepsCount == CountInv /\ [Next]_vars => CountInv'
<1> SUFFICES ASSUME CountInv, [Next]_vars PROVE Counted'
  BY NextKeepsReady DEF CountInv
<1>1. Shape'
  BY NextKeepsReady DEF CountInv, ReadyInv
<1>2. ASSUME NEW t \in Thread, Step(t) PROVE Counted'
  BY <1>1, <1>2, WakingKeepsCount, LoopKeepsCount, EpollKeepsCount, PushKeepsCount,
     PerformIoKeepsCount, ReturnKeepsCount DEF Step
<1>3. ASSUME NEW t \in Thread, Run(t) \/ SpuriousWakeup(t) \/ CallStop(t) PROVE Counted'
  BY <1>3, WakingKeepsCount
<1>4. ASSUME NEW t \in Thread, NEW o \in Op, NEW continuation \in BOOLEAN,
             Post(t, o, continuation)
      PROVE  Counted'
  <2>1. /\ at[t].step = "body" /\ Immediate(t, o, continuation)
        /\ UNCHANGED <<opQueue, waiting>>
    BY <1>4 DEF Post, descVars
  <2> QED BY <1>1, <2>1, ImmediateKeepsCount
<1>5. ASSUME NEW t \in Thread, NEW o \in Op, NEW continuation \in BOOLEAN, NEW d \in Desc,
             StartOp(t, d, o, continuation)
      PROVE  Counted'
  BY <1>1, <1>5, StartOpKeepsCount
<1>6. ASSUME NEW t \in Thread, NEW d \in Desc, CancelOps(t, d) PROVE Counted'
  BY <1>1, <1>6, CancelKeepsCount
<1>7. ASSUME UNCHANGED <<opQueue, outstanding, privateQueue, privateWork, waiting, at>>
      PROVE  Counted'
  BY <1>7, NothingMoves DEF CountInv, Counted
<1>8. ASSUME NEW d \in Desc, DataArrives(d) \/ InputEnds(d) PROVE Counted'
  BY <1>7, <1>8 DEF DataArrives, InputEnds, queueVars, privateVars
<1>9. CASE UNCHANGED vars
  BY <1>7, <1>9 DEF vars, queueVars, privateVars, descVars
<1> QED BY <1>2, <1>3, <1>4, <1>5, <1>6, <1>8, <1>9 DEF Next

\* outstanding_work_ and what threads have counted for themselves are together
\* the number of operations that have been started and have not ended, wherever
\* they are: in a queue, at a descriptor, about to be pushed or in a handler.
\* So run() returns for want of work only when there is none, whatever the
\* reactor, cancel_ops, continuations and other threads do meanwhile.
THEOREM OperationsAreCounted == Spec => []WorkIsCounted
<1>1. CountInv => WorkIsCounted
  BY DEF CountInv, Counted
<1> QED BY <1>1, InitCountInv, NextKeepsCount, PTL DEF Spec
=============================================================================
