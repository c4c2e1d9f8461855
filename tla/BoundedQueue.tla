---------------------------- MODULE BoundedQueue ----------------------------
(***************************************************************************)
(* The bounded blocking queue of week 41 (concurrent.c) with the threads    *)
(* that share it: producers that push, consumers that pop until the queue   *)
(* is closed and drained, and main, which joins the producers, closes the   *)
(* queue, joins the consumers and destroys the queue.                       *)
(*                                                                          *)
(* A step is what a thread does between two points where another thread can *)
(* interfere: taking the mutex, one evaluation of the wait loop with what   *)
(* follows it under the mutex, releasing the mutex, and the atomic counters *)
(* after it.  pthread_cond_wait is two steps: release-and-block, then       *)
(* re-acquire once woken.  A wakeup comes from a signal (which POSIX lets   *)
(* wake one or more threads), from a broadcast, or from nowhere (spurious). *)
(*                                                                          *)
(* The value id * 1000000 + i that producer id pushes at iteration i is the *)
(* pair <<id, i>>.  The behaviour starts once main has created all threads. *)
(***************************************************************************)
EXTENDS Naturals, Sequences, FiniteSets

CONSTANTS
    Producers, Consumers,  \* the threads of pt[] and ct[]
    Main,                  \* the thread running main
    NoThread,              \* the owner of a free mutex
    NoValue,               \* the content of a slot never written
    Capacity,              \* QUEUE_CAPACITY
    PerProducer,           \* PER_PRODUCER
    MaxSpurious            \* bound: spurious wakeups in one behaviour

Workers == Producers \cup Consumers
Threads == Workers \cup {Main}
Value == Producers \X (0 .. PerProducer - 1)
Slots == 0 .. Capacity - 1

ASSUME ThreadsAssumption ==
    /\ Producers \cap Consumers = {}
    /\ Main \notin Workers
    /\ NoThread \notin Threads
    /\ IsFiniteSet(Workers) /\ Consumers # {}
ASSUME SizesAssumption ==
    /\ Capacity \in Nat \ {0}
    /\ PerProducer \in Nat
    /\ MaxSpurious \in Nat
ASSUME NoValueAssumption == NoValue \notin Value

VARIABLES
    items, head, tail, count, closed,  \* the fields of Queue
    lock,                \* the thread that owns q->lock, or NoThread
    notEmpty, notFull,   \* the threads blocked on each condition variable
    pc,                  \* where each thread is
    i,                   \* each producer's loop variable
    value,               \* each consumer's local "value"
    myItems,             \* the thread-local my_items
    produced, consumed,  \* the atomic counters
    checksum,            \* the values summed into checksum
    popped,              \* history: every value popped, in order
    spurious             \* spurious wakeups so far

ring == <<items, head, tail, count, closed>>
waiters == <<notEmpty, notFull>>
totals == <<myItems, produced, consumed, checksum>>
vars == <<items, head, tail, count, closed, lock, notEmpty, notFull, pc, i,
          value, myItems, produced, consumed, checksum, popped, spurious>>

Init ==
    /\ items = [s \in Slots |-> NoValue]
    /\ head = 0 /\ tail = 0 /\ count = 0
    /\ closed = FALSE
    /\ lock = NoThread
    /\ notEmpty = {} /\ notFull = {}
    /\ pc = [t \in Threads |-> IF t = Main THEN "join_producers"
                               ELSE IF t \in Producers /\ PerProducer = 0
                                    THEN "done" ELSE "lock"]
    /\ i = [p \in Producers |-> 0]
    /\ value = [c \in Consumers |-> NoValue]
    /\ myItems = [t \in Workers |-> 0]
    /\ produced = 0 /\ consumed = 0
    /\ checksum = {}
    /\ popped = <<>>
    /\ spurious = 0

-----------------------------------------------------------------------------
\* The parts the operations are built from.  A definition whose name starts
\* with "Bug" is a mistake the definition after it could have had: no action
\* uses it, and a property of this module refutes each.

Goto(t, label) == pc' = [pc EXCEPT ![t] = label]

BugAcquire(t) == lock' = t            \* without waiting for the owner
Acquire(t) == lock = NoThread /\ lock' = t
Release == lock' = NoThread

NextSlot(s) == (s + 1) % Capacity

\* The conditions of the two wait loops.
BugMustWaitToPush == count > Capacity /\ ~ closed
MustWaitToPush == count = Capacity /\ ~ closed
MustWaitToPop == count = 0 /\ ~ closed

\* What pthread_cond_signal and pthread_cond_broadcast may leave of a set of
\* blocked threads.
Signal(blocked) ==
    IF blocked = {} THEN {{}}
    ELSE {blocked \ woken : woken \in (SUBSET blocked) \ {{}}}
Broadcast(blocked) == {{}}

\* Who is still blocked after push, pop and close signalled.
AfterPush(blocked) == Signal(blocked)
BugAfterPop(blocked) ==               \* signals only a queue that was full
    IF count = Capacity THEN Signal(blocked) ELSE {blocked}
AfterPop(blocked) == Signal(blocked)
BugAfterClose(blocked) == Signal(blocked)      \* signal for broadcast
AfterClose(blocked) == Broadcast(blocked)

-----------------------------------------------------------------------------
\* Taking the mutex on entry to queue_push, queue_pop and queue_close.
Lock(t) ==
    /\ pc[t] = "lock"
    /\ Acquire(t)
    /\ Goto(t, IF t = Main THEN "close" ELSE "test")
    /\ UNCHANGED <<ring, waiters, i, value, totals, popped, spurious>>

\* pthread_cond_wait, second half: woken, and the mutex is free again.  The
\* wait stands in a while loop, so the condition is tested again.
Reacquire(t) ==
    /\ pc[t] = "waiting"
    /\ t \notin notEmpty \cup notFull
    /\ Acquire(t)
    /\ Goto(t, "test")
    /\ UNCHANGED <<ring, waiters, i, value, totals, popped, spurious>>

\* A blocked thread wakes although nobody signalled it.
SpuriousWakeup(t) ==
    /\ t \in notEmpty \cup notFull
    /\ spurious < MaxSpurious
    /\ spurious' = spurious + 1
    /\ notEmpty' = notEmpty \ {t}
    /\ notFull' = notFull \ {t}
    /\ UNCHANGED <<ring, lock, pc, i, value, totals, popped>>

\* queue_push: the queue is full and open, so block and release the mutex.
PushWait(p) ==
    /\ pc[p] = "test" /\ p \in Producers
    /\ MustWaitToPush
    /\ notFull' = notFull \cup {p}
    /\ Release
    /\ Goto(p, "waiting")
    /\ UNCHANGED <<ring, notEmpty, i, value, totals, popped, spurious>>

\* queue_push: out of the loop.  On a closed queue the value is silently
\* dropped.
PushStore(p) ==
    /\ pc[p] = "test" /\ p \in Producers
    /\ ~ MustWaitToPush
    /\ IF closed
       THEN UNCHANGED <<items, tail, count, notEmpty>>
       ELSE /\ items' = [items EXCEPT ![tail] = <<p, i[p]>>]
            /\ tail' = NextSlot(tail)
            /\ count' = count + 1
            /\ notEmpty' \in AfterPush(notEmpty)
    /\ Goto(p, "unlock")
    /\ UNCHANGED <<head, closed, lock, notFull, i, value, totals, popped,
                   spurious>>

\* queue_pop: empty and open, so block and release the mutex.
PopWait(c) ==
    /\ pc[c] = "test" /\ c \in Consumers
    /\ MustWaitToPop
    /\ notEmpty' = notEmpty \cup {c}
    /\ Release
    /\ Goto(c, "waiting")
    /\ UNCHANGED <<ring, notFull, i, value, totals, popped, spurious>>

BugPopNothing(c) ==                   \* gives up on what is still queued
    /\ pc[c] = "test" /\ c \in Consumers
    /\ closed
    /\ Goto(c, "leave")
    /\ UNCHANGED <<ring, lock, waiters, i, value, totals, popped, spurious>>

\* queue_pop: closed and drained, so it will return false.
PopNothing(c) ==
    /\ pc[c] = "test" /\ c \in Consumers
    /\ ~ MustWaitToPop /\ count = 0
    /\ Goto(c, "leave")
    /\ UNCHANGED <<ring, lock, waiters, i, value, totals, popped, spurious>>

\* queue_pop: the oldest item is taken, also from a closed queue.
PopTake(c) ==
    /\ pc[c] = "test" /\ c \in Consumers
    /\ ~ MustWaitToPop /\ count # 0
    /\ value' = [value EXCEPT ![c] = items[head]]
    /\ popped' = Append(popped, items[head])
    /\ head' = NextSlot(head)
    /\ count' = count - 1
    /\ notFull' \in AfterPop(notFull)
    /\ Goto(c, "unlock")
    /\ UNCHANGED <<items, tail, closed, lock, notEmpty, i, totals, spurious>>

\* queue_close by main, once the producers are joined.
CloseQueue ==
    /\ pc[Main] = "close"
    /\ closed' = TRUE
    /\ notEmpty' \in AfterClose(notEmpty)
    /\ notFull' \in AfterClose(notFull)
    /\ Goto(Main, "unlock")
    /\ UNCHANGED <<items, head, tail, count, lock, i, value, totals, popped,
                   spurious>>

\* The pthread_mutex_unlock that ends each operation.  A popper leaving with
\* false is at "leave"; its thread function returns.
Unlock(t) ==
    /\ pc[t] \in {"unlock", "leave"}
    /\ Release
    /\ Goto(t, IF pc[t] = "leave" THEN "done"
               ELSE IF t = Main THEN "join_consumers" ELSE "count")
    /\ UNCHANGED <<ring, waiters, i, value, totals, popped, spurious>>

\* The end of producer's loop body, and its loop test.
CountProduced(p) ==
    /\ pc[p] = "count" /\ p \in Producers
    /\ produced' = produced + 1
    /\ myItems' = [myItems EXCEPT ![p] = @ + 1]
    /\ i' = [i EXCEPT ![p] = @ + 1]
    /\ Goto(p, IF i[p] + 1 < PerProducer THEN "lock" ELSE "done")
    /\ UNCHANGED <<ring, lock, waiters, value, consumed, checksum, popped,
                   spurious>>

\* The body of consumer's loop.
CountConsumed(c) ==
    /\ pc[c] = "count" /\ c \in Consumers
    /\ consumed' = consumed + 1
    /\ checksum' = checksum \cup {value[c]}
    /\ myItems' = [myItems EXCEPT ![c] = @ + 1]
    /\ Goto(c, "lock")
    /\ UNCHANGED <<ring, lock, waiters, i, value, produced, popped, spurious>>

\* main's two join loops.  After the second the queue is destroyed and the
\* totals are printed.
JoinProducers ==
    /\ pc[Main] = "join_producers"
    /\ \A p \in Producers : pc[p] = "done"
    /\ Goto(Main, "lock")
    /\ UNCHANGED <<ring, lock, waiters, i, value, totals, popped, spurious>>

JoinConsumers ==
    /\ pc[Main] = "join_consumers"
    /\ \A c \in Consumers : pc[c] = "done"
    /\ Goto(Main, "done")
    /\ UNCHANGED <<ring, lock, waiters, i, value, totals, popped, spurious>>

\* The program is over.
Finished == pc[Main] = "done" /\ UNCHANGED vars

\* What a thread does of its own accord.
Step(t) ==
    \/ Lock(t)
    \/ Reacquire(t)
    \/ PushWait(t) \/ PushStore(t)
    \/ PopWait(t) \/ PopNothing(t) \/ PopTake(t)
    \/ Unlock(t)
    \/ CountProduced(t) \/ CountConsumed(t)
    \/ t = Main /\ (CloseQueue \/ JoinProducers \/ JoinConsumers)

Next ==
    \/ \E t \in Threads : Step(t) \/ SpuriousWakeup(t)
    \/ Finished

Spec == Init /\ [][Next]_vars

\* The scheduler runs every thread that can run, and an unlocked mutex is
\* obtained in the end: the contention is finite, as each producer does
\* finitely many pushes and a consumer sleeps between pops.
FairSpec == Spec /\ \A t \in Threads : WF_vars(Step(t))

-----------------------------------------------------------------------------
\* What the ring holds, oldest first.
SlotAt(k) == IF head + k < Capacity THEN head + k ELSE head + k - Capacity
Contents == [k \in 1 .. count |-> items[SlotAt(k - 1)]]

CQ == INSTANCE ClosableQueue WITH
    Bound <- Capacity, buffer <- Contents, isClosed <- closed, taken <- popped

Labels == {"lock", "test", "waiting", "unlock", "leave", "count", "done",
           "join_producers", "close", "join_consumers"}

\* Every variable stays in its range.
TypeOK ==
    /\ items \in [Slots -> Value \cup {NoValue}]
    /\ head \in Slots /\ tail \in Slots /\ count \in 0 .. Capacity
    /\ closed \in BOOLEAN
    /\ lock \in Threads \cup {NoThread}
    /\ notEmpty \subseteq Consumers /\ notFull \subseteq Producers
    /\ pc \in [Threads -> Labels]
    /\ i \in [Producers -> 0 .. PerProducer]
    /\ value \in [Consumers -> Value \cup {NoValue}]
    /\ myItems \in [Workers -> Nat]
    /\ produced \in Nat /\ consumed \in Nat
    /\ checksum \subseteq Value \cup {NoValue}
    /\ popped \in Seq(Value \cup {NoValue})
    /\ spurious \in 0 .. MaxSpurious

\* A thread is inside a critical section of the queue.
Inside(t) == pc[t] \in {"test", "unlock", "leave", "close"}

\* The mutex discipline: exactly the threads between pthread_mutex_lock and
\* pthread_mutex_unlock own the mutex, and a thread blocked on a condition
\* variable has given it up.
LockInv ==
    /\ \A t \in Threads : Inside(t) <=> lock = t
    /\ \A t \in notEmpty \cup notFull : pc[t] = "waiting"

\* head, tail and count agree: tail is the slot count places after head, so
\* the ring is neither overwritten nor read past its contents.
RingInv == tail = SlotAt(count)

\* A producer inside its loop has iterations left, so the value it pushes is
\* one of Value.
LoopInv == \A p \in Producers : pc[p] # "done" => i[p] < PerProducer

\* The mutex is held by the thread inside a critical section and by no other,
\* and the ring agrees with its count.
LocalInv == TypeOK /\ LoopInv /\ LockInv /\ RingInv

\* Everything that ever was in the queue, in queue order.
Through == popped \o Contents

\* How many values p has pushed: the current one is in as soon as it is stored.
Stored(p) == i[p] + (IF pc[p] \in {"unlock", "count"} THEN 1 ELSE 0)

\* What is popped and queued is what the producers pushed, each value once, and
\* of one producer in its order.
InOrder ==
    /\ {Through[k] : k \in 1 .. Len(Through)} = {v \in Value : v[2] < Stored(v[1])}
    /\ \A j, k \in 1 .. Len(Through) :
         j < k /\ Through[j][1] = Through[k][1] => Through[j][2] < Through[k][2]

\* When main has joined everybody, all that was produced was consumed, and
\* queue_destroy finds a free mutex and no blocked thread.
CleanFinish ==
    pc[Main] = "done" =>
        /\ produced = Cardinality(Value) /\ consumed = produced
        /\ checksum = Value
        /\ count = 0
        /\ lock = NoThread /\ notEmpty = {} /\ notFull = {}

\* Nothing a producer pushed is lost, duplicated, dropped at close, or
\* overtaken by a later value of the same producer, up to the end of main.
Conservation == InOrder /\ CleanFinish

\* main closes the queue after every producer's last push, and consumers leave
\* only a queue that is closed and empty.
PhasesInv ==
    /\ pc[Main] \in {"join_producers", "lock", "close", "unlock", "join_consumers", "done"}
    /\ closed <=> pc[Main] \in {"unlock", "join_consumers", "done"}
    /\ pc[Main] # "join_producers" => \A p \in Producers : pc[p] = "done"
    /\ pc[Main] = "done" => \A c \in Consumers : pc[c] = "done"
    /\ \A p \in Producers :
         pc[p] # "leave" /\ (pc[p] = "done" => i[p] = PerProducer)
    /\ \A c \in Consumers : pc[c] \in {"leave", "done"} => closed /\ count = 0

\* A popped value is in the hands of one consumer, which is on its way to count
\* it, or is counted; the totals are the numbers of values counted.
Holding == {c \in Consumers : pc[c] \in {"unlock", "count"}}
Counted == {v \in Value : v[2] < i[v[1]]}
TotalsInv ==
    /\ {popped[k] : k \in 1 .. Len(popped)} = checksum \cup {value[c] : c \in Holding}
    /\ \A c \in Holding : value[c] \notin checksum
    /\ \A c, d \in Holding : value[c] = value[d] => c = d
    /\ produced = Cardinality(Counted) /\ consumed = Cardinality(checksum)

\* Threads of a group that will look at the queue again without being woken.
Alert(group, blocked) ==
    {t \in group \ blocked : pc[t] \in {"waiting", "test"}}

\* No wakeup is lost: while a producer sleeps, every free slot has a producer
\* on its way to it, and while a consumer sleeps every queued item has a
\* consumer on its way.  A signal sent only when the queue stops being full
\* or empty, or a signal at close, breaks this.
NoLostWakeup ==
    /\ notFull # {} =>
         Capacity - count <= Cardinality(Alert(Producers, notFull))
    /\ notEmpty # {} =>
         /\ ~ closed
         /\ count <= Cardinality(Alert(Consumers, notEmpty))

\* The inductive invariant.
IInv == LocalInv /\ PhasesInv /\ InOrder /\ TotalsInv /\ NoLostWakeup

\* The queue is a closable bounded FIFO queue.
ImplementsClosableQueue == CQ!CQSpec

\* The program ends: no producer or consumer blocks for ever.
Termination == <>(pc[Main] = "done")
=============================================================================
