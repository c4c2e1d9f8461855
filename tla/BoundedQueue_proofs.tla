------------------------- MODULE BoundedQueue_proofs -------------------------
(***************************************************************************)
(* Proofs about the blocking queue of week 41, for every number of threads, *)
(* every capacity and every number of items: type correctness, the mutex    *)
(* discipline, the consistency of the ring, that the queue implements the   *)
(* abstract closable FIFO queue, that nothing is lost or popped twice, and  *)
(* that no wakeup is lost.                                                  *)
(***************************************************************************)
EXTENDS BoundedQueue, SequenceTheorems, FiniteSetTheorems, TLAPS

\* The modulus of the code is one conditional subtraction.
LEMMA NextSlotIsSlot ==
    ASSUME NEW s \in Slots
    PROVE  NextSlot(s) = IF s + 1 = Capacity THEN 0 ELSE s + 1
BY SizesAssumption DEF Slots, NextSlot

\* What a signal or broadcast leaves is a part of who was blocked.
LEMMA SignalLeaves ==
    ASSUME NEW blocked, NEW rest \in Signal(blocked)
    PROVE  rest \subseteq blocked
BY DEF Signal

THEOREM InitLocalInv == Init => LocalInv
<1> SUFFICES ASSUME Init PROVE LocalInv
  OBVIOUS
<1>1. TypeOK
  <2>1. pc \in [Threads -> Labels]
    BY DEF Init, Labels
  <2>2. /\ items \in [Slots -> Value \cup {NoValue}]
        /\ head \in Slots /\ tail \in Slots /\ count \in 0 .. Capacity
        /\ spurious \in 0 .. MaxSpurious
    BY SizesAssumption DEF Init, Slots
  <2>3. /\ i \in [Producers -> 0 .. PerProducer]
        /\ value \in [Consumers -> Value \cup {NoValue}]
        /\ myItems \in [Workers -> Nat]
        /\ produced \in Nat /\ consumed \in Nat
    BY SizesAssumption DEF Init
  <2>4. /\ notEmpty \subseteq Consumers /\ notFull \subseteq Producers
        /\ checksum \subseteq Value \cup {NoValue}
        /\ closed \in BOOLEAN /\ lock \in Threads \cup {NoThread}
    BY DEF Init
  <2>5. popped \in Seq(Value \cup {NoValue})
    BY EmptySeq DEF Init
  <2> QED
    BY <2>1, <2>2, <2>3, <2>4, <2>5 DEF TypeOK
<1>2. LoopInv
  BY ThreadsAssumption, SizesAssumption DEF Init, LoopInv, Threads, Workers
<1>3. LockInv
  BY ThreadsAssumption DEF Init, LockInv, Inside, Threads, Workers
<1>4. RingInv
  BY SizesAssumption DEF Init, RingInv, SlotAt
<1> QED
  BY <1>1, <1>2, <1>3, <1>4 DEF LocalInv

\* Type correctness is preserved by every step.
LEMMA NextTypeOK == LocalInv /\ [Next]_vars => TypeOK'
<1> SUFFICES ASSUME LocalInv, [Next]_vars PROVE TypeOK'
  OBVIOUS
<1> USE ThreadsAssumption, SizesAssumption
    DEF LocalInv, TypeOK, ring, waiters, totals, Goto, Acquire, Release,
        Threads, Workers, Labels
<1>1. ASSUME NEW t \in Threads, Lock(t) PROVE TypeOK'
  BY <1>1 DEF Lock
<1>2. ASSUME NEW t \in Threads, Reacquire(t) PROVE TypeOK'
  BY <1>2 DEF Reacquire
<1>3. ASSUME NEW t \in Threads, SpuriousWakeup(t) PROVE TypeOK'
  BY <1>3 DEF SpuriousWakeup
<1>4. ASSUME NEW t \in Threads, PushWait(t) PROVE TypeOK'
  BY <1>4 DEF PushWait
<1>5. ASSUME NEW t \in Threads, PushStore(t) PROVE TypeOK'
  <2>1. t \in Producers /\ i[t] \in 0 .. PerProducer - 1
    <3>1. t \in Producers /\ pc[t] = "test"
      BY <1>5 DEF PushStore
    <3>2. i[t] \in 0 .. PerProducer /\ i[t] < PerProducer
      BY <3>1 DEF LoopInv
    <3> QED
      BY <3>1, <3>2
  <2>2. <<t, i[t]>> \in Value
    BY <2>1 DEF Value
  <2>3. NextSlot(tail) \in Slots
    BY NextSlotIsSlot DEF Slots
  <2>4. ~ closed => count + 1 \in 0 .. Capacity
    BY <1>5 DEF PushStore, MustWaitToPush
  <2>5. ~ closed => notEmpty' \subseteq Consumers
    BY <1>5, SignalLeaves DEF PushStore, AfterPush
  <2>6. /\ items' \in [Slots -> Value \cup {NoValue}]
        /\ tail' \in Slots /\ count' \in 0 .. Capacity
        /\ notEmpty' \subseteq Consumers
    <3>1. CASE closed
      BY <1>5, <3>1 DEF PushStore
    <3>2. CASE ~ closed
      <4>1. items' = [items EXCEPT ![tail] = <<t, i[t]>>]
        BY <1>5, <3>2 DEF PushStore
      <4>2. items' \in [Slots -> Value \cup {NoValue}]
        BY <4>1, <2>2
      <4> QED
        BY <1>5, <3>2, <4>2, <2>3, <2>4, <2>5 DEF PushStore
    <3> QED
      BY <3>1, <3>2
  <2>7. pc' \in [Threads -> Labels]
    BY <1>5 DEF PushStore
  <2> QED
    BY <1>5, <2>6, <2>7 DEF PushStore
<1>6. ASSUME NEW t \in Threads, PopWait(t) PROVE TypeOK'
  BY <1>6 DEF PopWait
<1>7. ASSUME NEW t \in Threads, PopNothing(t) PROVE TypeOK'
  BY <1>7 DEF PopNothing
<1>8. ASSUME NEW t \in Threads, PopTake(t) PROVE TypeOK'
  <2>1. t \in Consumers
    BY <1>8 DEF PopTake
  <2>2. items[head] \in Value \cup {NoValue}
    OBVIOUS
  <2>3. NextSlot(head) \in Slots
    BY NextSlotIsSlot DEF Slots
  <2>4. count - 1 \in 0 .. Capacity
    BY <1>8 DEF PopTake
  <2>5. notFull' \subseteq Producers
    BY <1>8, SignalLeaves DEF PopTake, AfterPop
  <2> QED
    BY <1>8, <2>1, <2>2, <2>3, <2>4, <2>5 DEF PopTake
<1>9. ASSUME CloseQueue PROVE TypeOK'
  BY <1>9 DEF CloseQueue, AfterClose, Broadcast
<1>10. ASSUME NEW t \in Threads, Unlock(t) PROVE TypeOK'
  BY <1>10 DEF Unlock
<1>11. ASSUME NEW t \in Threads, CountProduced(t) PROVE TypeOK'
  <2>1. t \in Producers /\ pc[t] = "count"
    BY <1>11 DEF CountProduced
  <2>2. i[t] \in 0 .. PerProducer /\ i[t] < PerProducer
    BY <2>1 DEF LoopInv
  <2>3. i' \in [Producers -> 0 .. PerProducer]
    <3>1. i[t] + 1 \in 0 .. PerProducer
      BY <2>2
    <3> QED
      BY <1>11, <3>1 DEF CountProduced
  <2>4. myItems' \in [Workers -> Nat] /\ produced' \in Nat
    BY <1>11 DEF CountProduced
  <2>5. pc' \in [Threads -> Labels]
    BY <1>11 DEF CountProduced
  <2> QED
    BY <1>11, <2>3, <2>4, <2>5 DEF CountProduced
<1>12. ASSUME NEW t \in Threads, CountConsumed(t) PROVE TypeOK'
  BY <1>12 DEF CountConsumed
<1>13. ASSUME JoinProducers \/ JoinConsumers PROVE TypeOK'
  BY <1>13 DEF JoinProducers, JoinConsumers
<1>14. ASSUME UNCHANGED vars PROVE TypeOK'
  BY <1>14 DEF vars
<1> QED
  BY <1>1, <1>2, <1>3, <1>4, <1>5, <1>6, <1>7, <1>8, <1>9, <1>10, <1>11,
     <1>12, <1>13, <1>14 DEF Next, Step, Finished

\* A producer counts its iterations before it tests whether there are more.
LEMMA NextLoopInv == LocalInv /\ [Next]_vars => LoopInv'
<1> SUFFICES ASSUME LocalInv, [Next]_vars, NEW p \in Producers, pc'[p] # "done"
             PROVE  i'[p] < PerProducer
  BY DEF LoopInv
<1> USE ThreadsAssumption, SizesAssumption DEF Goto, Threads, Workers
<1>1. /\ i \in [Producers -> 0 .. PerProducer] /\ pc \in [Threads -> Labels]
      /\ pc[p] # "done" => i[p] < PerProducer
      /\ p # Main
  BY DEF LocalInv, TypeOK, LoopInv
<1>2. ASSUME NEW t \in Threads, CountProduced(t) PROVE i'[p] < PerProducer
  <2>1. CASE t = p
    BY <1>1, <1>2, <2>1 DEF CountProduced
  <2>2. CASE t # p
    BY <1>1, <1>2, <2>2 DEF CountProduced
  <2> QED
    BY <2>1, <2>2
<1>3. ASSUME NEW t \in Threads,
             \/ Lock(t) \/ Reacquire(t) \/ SpuriousWakeup(t)
             \/ PushWait(t) \/ PushStore(t)
             \/ PopWait(t) \/ PopNothing(t) \/ PopTake(t)
             \/ Unlock(t) \/ CountConsumed(t)
      PROVE  i' = i /\ (pc'[p] # "done" => pc[p] # "done")
  BY <1>1, <1>3 DEF Lock, Reacquire, SpuriousWakeup, PushWait, PushStore,
     PopWait, PopNothing, PopTake, Unlock, CountConsumed
<1>4. ASSUME CloseQueue \/ JoinProducers \/ JoinConsumers \/ UNCHANGED vars
      PROVE  i' = i /\ (pc'[p] # "done" => pc[p] # "done")
  BY <1>1, <1>4 DEF CloseQueue, JoinProducers, JoinConsumers, vars
<1> QED
  BY <1>1, <1>2, <1>3, <1>4 DEF Next, Step, Finished

\* The mutex discipline is preserved: a step takes the mutex as its thread
\* enters a critical section, or releases it as its thread leaves one, or
\* moves its thread within one.
LEMMA NextLockInv == LocalInv /\ [Next]_vars => LockInv'
<1> SUFFICES ASSUME LocalInv, [Next]_vars PROVE LockInv'
  OBVIOUS
<1> USE ThreadsAssumption DEF LockInv, Inside, Goto, Acquire, Release
<1>1. /\ pc \in [Threads -> Labels]
      /\ lock \in Threads \cup {NoThread}
      /\ notEmpty \subseteq Threads /\ notFull \subseteq Threads
      /\ LockInv /\ NoThread \notin Threads
  BY DEF LocalInv, TypeOK, Threads, Workers
<1>2. ASSUME NEW t \in Threads, Lock(t) \/ Reacquire(t) PROVE LockInv'
  BY <1>1, <1>2 DEF Lock, Reacquire, waiters
<1>3. ASSUME NEW t \in Threads, SpuriousWakeup(t) PROVE LockInv'
  BY <1>1, <1>3 DEF SpuriousWakeup
<1>4. ASSUME NEW t \in Threads, PushWait(t) \/ PopWait(t) PROVE LockInv'
  BY <1>1, <1>4 DEF PushWait, PopWait
<1>5. ASSUME NEW t \in Threads, PushStore(t) PROVE LockInv'
  <2>1. notEmpty' \subseteq notEmpty
    BY <1>5, SignalLeaves DEF PushStore, AfterPush
  <2> QED
    BY <1>1, <1>5, <2>1 DEF PushStore
<1>6. ASSUME NEW t \in Threads, PopTake(t) PROVE LockInv'
  <2>1. notFull' \subseteq notFull
    BY <1>6, SignalLeaves DEF PopTake, AfterPop
  <2> QED
    BY <1>1, <1>6, <2>1 DEF PopTake
<1>7. ASSUME NEW t \in Threads, PopNothing(t) PROVE LockInv'
  BY <1>1, <1>7 DEF PopNothing, waiters
<1>8. ASSUME NEW t \in Threads, Unlock(t) PROVE LockInv'
  BY <1>1, <1>8 DEF Unlock, waiters
<1>9. ASSUME NEW t \in Threads, CountProduced(t) \/ CountConsumed(t)
      PROVE  LockInv'
  BY <1>1, <1>9 DEF CountProduced, CountConsumed, waiters
<1>10. ASSUME CloseQueue PROVE LockInv'
  BY <1>1, <1>10 DEF CloseQueue, AfterClose, Broadcast, Threads
<1>11. ASSUME JoinProducers \/ JoinConsumers PROVE LockInv'
  BY <1>1, <1>11 DEF JoinProducers, JoinConsumers, waiters, Threads
<1>12. ASSUME UNCHANGED vars PROVE LockInv'
  BY <1>1, <1>12 DEF vars
<1> QED
  BY <1>2, <1>3, <1>4, <1>5, <1>6, <1>7, <1>8, <1>9, <1>10, <1>11, <1>12
     DEF Next, Step, Finished

\* The ring stays consistent: a store moves tail and count together, a take
\* moves head and count together.
LEMMA NextRingInv == LocalInv /\ [Next]_vars => RingInv'
<1> SUFFICES ASSUME LocalInv, [Next]_vars PROVE RingInv'
  OBVIOUS
<1> USE SizesAssumption DEF RingInv, SlotAt
<1>1. /\ head \in Slots /\ tail \in Slots /\ count \in 0 .. Capacity
      /\ RingInv
  BY DEF LocalInv, TypeOK
<1>2. ASSUME NEW t \in Threads, PushStore(t) PROVE RingInv'
  <2>1. CASE closed
    BY <1>1, <1>2, <2>1 DEF PushStore
  <2>2. CASE ~ closed
    <3>1. /\ tail' = NextSlot(tail) /\ count' = count + 1 /\ head' = head
          /\ count # Capacity
      BY <1>2, <2>2 DEF PushStore, MustWaitToPush
    <3> QED
      BY <1>1, <3>1, NextSlotIsSlot DEF Slots
  <2> QED
    BY <2>1, <2>2
<1>3. ASSUME NEW t \in Threads, PopTake(t) PROVE RingInv'
  <2>1. /\ head' = NextSlot(head) /\ count' = count - 1 /\ tail' = tail
        /\ count # 0
    BY <1>3 DEF PopTake
  <2> QED
    BY <1>1, <2>1, NextSlotIsSlot DEF Slots
<1>4. ASSUME UNCHANGED <<head, tail, count>> PROVE RingInv'
  BY <1>1, <1>4
<1>5. ASSUME NEW t \in Threads,
             \/ Lock(t) \/ Reacquire(t) \/ SpuriousWakeup(t) \/ PushWait(t)
             \/ PopWait(t) \/ PopNothing(t) \/ Unlock(t)
             \/ CountProduced(t) \/ CountConsumed(t)
      PROVE  UNCHANGED <<head, tail, count>>
  BY <1>5 DEF Lock, Reacquire, SpuriousWakeup, PushWait, PopWait, PopNothing,
     Unlock, CountProduced, CountConsumed, ring
<1>6. ASSUME CloseQueue \/ JoinProducers \/ JoinConsumers \/ UNCHANGED vars
      PROVE  UNCHANGED <<head, tail, count>>
  BY <1>6 DEF CloseQueue, JoinProducers, JoinConsumers, ring, vars
<1> QED
  BY <1>2, <1>3, <1>4, <1>5, <1>6 DEF Next, Step, Finished

\* The invariant holds in every reachable state.
THEOREM LocalInvariance == Spec => []LocalInv
<1>1. LocalInv /\ [Next]_vars => LocalInv'
  BY NextTypeOK, NextLoopInv, NextLockInv, NextRingInv DEF LocalInv
<1> QED
  BY InitLocalInv, <1>1, PTL DEF Spec

\* Every variable of the queue program stays in its range.
THEOREM TypeCorrect == Spec => []TypeOK
BY LocalInvariance, PTL DEF LocalInv

\* At most one thread is inside a critical section of the queue, and it is
\* the owner of the mutex.
THEOREM MutualExclusion == Spec => []LockInv
BY LocalInvariance, PTL DEF LocalInv

\* head, tail and count of the ring agree in every state.
THEOREM RingConsistent == Spec => []RingInv
BY LocalInvariance, PTL DEF LocalInv

-----------------------------------------------------------------------------
\* The refinement of ClosableQueue.

Item == Value \cup {NoValue}

\* Contents is a sequence of count items.
ContentsShape ==
    /\ Contents \in Seq(Item)
    /\ Len(Contents) = count
    /\ \A k \in 1 .. count : Contents[k] = items[SlotAt(k - 1)]

LEMMA ContentsSeq == TypeOK => ContentsShape
<1> SUFFICES ASSUME TypeOK PROVE ContentsShape
  OBVIOUS
<1>1. count \in Nat /\ items \in [Slots -> Item]
  BY SizesAssumption DEF TypeOK, Item
<1>2. \A k \in 1 .. count : SlotAt(k - 1) \in Slots
  BY SizesAssumption DEF TypeOK, SlotAt, Slots
<1>3. Contents \in [1 .. count -> Item]
  BY <1>1, <1>2 DEF Contents
<1>4. Contents \in Seq(Item)
  BY <1>1, <1>3, SeqDef
<1>5. Len(Contents) = count
  BY <1>1, <1>3, <1>4, LenProperties
<1> QED
  BY <1>4, <1>5 DEF Contents, ContentsShape

\* The queue starts as the empty open queue.
LEMMA InitRefines == Init => CQ!CQInit
<1> SUFFICES ASSUME Init PROVE CQ!CQInit
  OBVIOUS
<1>1. TypeOK
  BY InitLocalInv DEF LocalInv
<1>2. Contents \in Seq(Item) /\ Len(Contents) = 0
  BY <1>1, ContentsSeq DEF Init, ContentsShape
<1>3. Contents = <<>>
  BY <1>2, EmptySeq
<1> QED
  BY <1>3 DEF Init, CQ!CQInit

\* queue_push's store puts the value at the back of the queue.
LEMMA PushStoreRefines ==
    ASSUME LocalInv, TypeOK', NEW t \in Threads, PushStore(t), ~ closed
    PROVE  CQ!Put(<<t, i[t]>>) /\ <<t, i[t]>> \in Value
<1> DEFINE v == <<t, i[t]>>
<1>1. /\ t \in Producers /\ pc[t] = "test" /\ count # Capacity
      /\ items' = [items EXCEPT ![tail] = v]
      /\ count' = count + 1
      /\ head' = head /\ closed' = closed /\ popped' = popped
  BY DEF PushStore, MustWaitToPush
<1>2. /\ head \in Slots /\ count \in 0 .. Capacity - 1
      /\ tail = SlotAt(count) /\ tail \in Slots
      /\ items \in [Slots -> Item]
  BY <1>1, SizesAssumption DEF LocalInv, TypeOK, RingInv, Item
<1>3. v \in Value
  <2>1. i[t] \in 0 .. PerProducer /\ i[t] < PerProducer
    BY <1>1 DEF LocalInv, TypeOK, LoopInv
  <2> QED
    BY <1>1, <2>1, SizesAssumption DEF Value
<1>4. /\ Contents \in Seq(Item) /\ Len(Contents) = count
      /\ \A k \in 1 .. count : Contents[k] = items[SlotAt(k - 1)]
  BY ContentsSeq DEF LocalInv, ContentsShape
<1>5. /\ Contents' \in Seq(Item) /\ Len(Contents') = count + 1
      /\ \A k \in 1 .. count + 1 : Contents'[k] = items'[SlotAt(k - 1)']
  <2>1. ContentsShape'
    BY ContentsSeq, PTL
  <2> QED
    BY <1>1, <1>2, <2>1 DEF ContentsShape
<1>6. \A k \in 1 .. count + 1 :
        SlotAt(k - 1)' = SlotAt(k - 1) /\ SlotAt(k - 1) \in Slots
  BY <1>1, <1>2, SizesAssumption DEF SlotAt, Slots
<1>7. \A k \in 1 .. count : SlotAt(k - 1) # tail
  BY <1>2, SizesAssumption DEF SlotAt, Slots
<1>8. Contents' = Append(Contents, v)
  <2>1. v \in Item
    BY <1>3 DEF Item
  <2>2. /\ Append(Contents, v) \in Seq(Item)
        /\ Len(Append(Contents, v)) = count + 1
        /\ \A k \in 1 .. count : Append(Contents, v)[k] = Contents[k]
        /\ Append(Contents, v)[count + 1] = v
    BY <1>4, <2>1, AppendProperties
  <2>3. \A k \in 1 .. count + 1 : Contents'[k] = items'[SlotAt(k - 1)]
    BY <1>5, <1>6
  <2>4. \A k \in 1 .. count : Contents'[k] = Append(Contents, v)[k]
    <3>1. TAKE k \in 1 .. count
    <3>2. k \in 1 .. count + 1
      BY <1>2
    <3>3. items'[SlotAt(k - 1)] = items[SlotAt(k - 1)]
      BY <1>1, <1>2, <1>6, <1>7, <3>2
    <3> QED
      BY <1>4, <2>2, <2>3, <3>2, <3>3
  <2>5. Contents'[count + 1] = v
    <3>1. Contents'[count + 1] = items'[SlotAt(count + 1 - 1)]
      BY <1>2, <2>3
    <3>2. SlotAt(count + 1 - 1) = tail
      BY <1>2
    <3> QED
      BY <1>1, <1>2, <3>1, <3>2
  <2>6. \A k \in 1 .. count + 1 : Contents'[k] = Append(Contents, v)[k]
    BY <1>2, <2>2, <2>4, <2>5
  <2> QED
    BY <1>5, <2>2, <2>6, SeqEqual
<1> QED
  <2>1. Len(Contents) < Capacity
    BY <1>2, <1>4, SizesAssumption
  <2> QED
    BY <1>1, <1>3, <1>8, <2>1 DEF CQ!Put, v

\* queue_pop's take removes the front of the queue.
LEMMA PopTakeRefines ==
    ASSUME LocalInv, TypeOK', NEW t \in Threads, PopTake(t)
    PROVE  CQ!Take
<1>1. /\ count # 0
      /\ popped' = Append(popped, items[head])
      /\ head' = NextSlot(head) /\ count' = count - 1
      /\ items' = items /\ closed' = closed
  BY DEF PopTake
<1>2. /\ head \in Slots /\ count \in 1 .. Capacity
      /\ items \in [Slots -> Item]
  BY <1>1, SizesAssumption DEF LocalInv, TypeOK, Item
<1>3. /\ Contents \in Seq(Item) /\ Len(Contents) = count
      /\ \A k \in 1 .. count : Contents[k] = items[SlotAt(k - 1)]
  BY ContentsSeq DEF LocalInv, ContentsShape
<1>4. /\ Contents' \in Seq(Item) /\ Len(Contents') = count - 1
      /\ \A k \in 1 .. count - 1 : Contents'[k] = items[SlotAt(k - 1)']
  <2>1. ContentsShape'
    BY ContentsSeq, PTL
  <2> QED
    BY <1>1, <1>2, <2>1 DEF ContentsShape
<1>5. \A k \in 1 .. count - 1 : SlotAt(k - 1)' = SlotAt(k + 1 - 1)
  <2>1. head' = IF head + 1 = Capacity THEN 0 ELSE head + 1
    BY <1>1, <1>2, NextSlotIsSlot
  <2> QED
    BY <1>2, <2>1, SizesAssumption DEF SlotAt, Slots
<1>6. Contents # <<>>
  BY <1>2, <1>3, EmptySeq
<1>7. Head(Contents) = items[head]
  <2>1. Contents[1] = items[SlotAt(1 - 1)]
    BY <1>2, <1>3
  <2>2. SlotAt(1 - 1) = head
    BY <1>2, SizesAssumption DEF SlotAt, Slots
  <2> QED
    BY <1>3, <1>6, <2>1, <2>2
<1>8. Contents' = Tail(Contents)
  <2>1. /\ Tail(Contents) \in Seq(Item)
        /\ Len(Tail(Contents)) = count - 1
        /\ \A k \in 1 .. count - 1 : Tail(Contents)[k] = Contents[k + 1]
    BY <1>3, <1>6, HeadTailProperties
  <2>2. ASSUME NEW k \in 1 .. count - 1
        PROVE  Contents'[k] = Tail(Contents)[k]
    <3>1. Contents'[k] = items[SlotAt(k + 1 - 1)]
      BY <1>4, <1>5
    <3>2. k + 1 \in 1 .. count
      BY <1>2
    <3>3. Contents[k + 1] = items[SlotAt(k + 1 - 1)]
      BY <1>3, <3>2
    <3> QED
      BY <2>1, <3>1, <3>3
  <2> QED
    BY <1>4, <2>1, <2>2, SeqEqual
<1> QED
  BY <1>1, <1>6, <1>7, <1>8 DEF CQ!Take

\* Every step is a step of the abstract queue or leaves it alone.
LEMMA NextRefines ==
    LocalInv /\ LocalInv' /\ [Next]_vars => [CQ!CQNext]_(CQ!cqVars)
<1> SUFFICES ASSUME LocalInv, LocalInv', [Next]_vars
             PROVE  [CQ!CQNext]_(CQ!cqVars)
  OBVIOUS
<1> USE DEF CQ!CQNext, CQ!cqVars
<1>1. ASSUME UNCHANGED <<items, head, count, closed, popped>>
      PROVE  UNCHANGED CQ!cqVars
  BY <1>1 DEF Contents, SlotAt
<1>2. ASSUME NEW t \in Threads, PushStore(t)
      PROVE  [CQ!CQNext]_(CQ!cqVars)
  <2>1. CASE closed
    BY <1>1, <1>2, <2>1 DEF PushStore
  <2>2. CASE ~ closed
    BY <1>2, <2>2, PushStoreRefines DEF LocalInv
  <2> QED
    BY <2>1, <2>2
<1>3. ASSUME NEW t \in Threads, PopTake(t)
      PROVE  [CQ!CQNext]_(CQ!cqVars)
  BY <1>3, PopTakeRefines DEF LocalInv
<1>4. ASSUME CloseQueue PROVE [CQ!CQNext]_(CQ!cqVars)
  <2>1. /\ closed' = TRUE
        /\ UNCHANGED <<items, head, count, popped>>
    BY <1>4 DEF CloseQueue
  <2>2. Contents' = Contents
    BY <2>1 DEF Contents, SlotAt
  <2> QED
    BY <2>1, <2>2 DEF CQ!Close
<1>5. ASSUME NEW t \in Threads,
             \/ Lock(t) \/ Reacquire(t) \/ SpuriousWakeup(t) \/ PushWait(t)
             \/ PopWait(t) \/ PopNothing(t) \/ Unlock(t)
             \/ CountProduced(t) \/ CountConsumed(t)
      PROVE  UNCHANGED <<items, head, count, closed, popped>>
  BY <1>5 DEF Lock, Reacquire, SpuriousWakeup, PushWait, PopWait, PopNothing,
     Unlock, CountProduced, CountConsumed, ring
<1>6. ASSUME JoinProducers \/ JoinConsumers \/ UNCHANGED vars
      PROVE  UNCHANGED <<items, head, count, closed, popped>>
  BY <1>6 DEF JoinProducers, JoinConsumers, ring, vars
<1> QED
  BY <1>1, <1>2, <1>3, <1>4, <1>5, <1>6 DEF Next, Step, Finished

\* The blocking queue implements the closable FIFO queue: what is popped is
\* what was pushed, in order, and nothing enters a full or closed queue.
THEOREM Refinement == Spec => ImplementsClosableQueue
BY InitRefines, NextRefines, LocalInvariance, PTL
   DEF Spec, ImplementsClosableQueue, CQ!CQSpec

-----------------------------------------------------------------------------
\* The phases of main, and what its threads leave behind.

\* main closes the queue when the producers are done, and a consumer that leaves
\* has seen it closed and empty; so it stays.
LEMMA NextPhasesInv == LocalInv /\ PhasesInv /\ [Next]_vars => PhasesInv'
<1> SUFFICES ASSUME LocalInv, PhasesInv, [Next]_vars PROVE PhasesInv'
  OBVIOUS
<1> USE ThreadsAssumption, SizesAssumption DEF Goto, Threads, Workers, PhasesInv
<1>1. /\ pc \in [Threads -> Labels] /\ i \in [Producers -> 0 .. PerProducer]
      /\ count \in 0 .. Capacity /\ PhasesInv
  BY DEF LocalInv, TypeOK
<1>2. ASSUME NEW t \in Threads,
             Lock(t) \/ Reacquire(t) \/ SpuriousWakeup(t) \/ CountConsumed(t)
      PROVE  PhasesInv'
  BY <1>1, <1>2 DEF Lock, Reacquire, SpuriousWakeup, CountConsumed, ring
<1>3. ASSUME NEW t \in Threads, PushWait(t) \/ PopWait(t) \/ PopNothing(t)
      PROVE  PhasesInv'
  BY <1>1, <1>3 DEF PushWait, PopWait, PopNothing, MustWaitToPop, ring
<1>4. ASSUME NEW t \in Threads, PushStore(t) PROVE PhasesInv'
  BY <1>1, <1>4 DEF PushStore
<1>5. ASSUME NEW t \in Threads, PopTake(t) PROVE PhasesInv'
  BY <1>1, <1>5 DEF PopTake
<1>6. ASSUME NEW t \in Threads, Unlock(t) PROVE PhasesInv'
  BY <1>1, <1>6 DEF Unlock, ring
<1>7. ASSUME NEW t \in Threads, CountProduced(t) PROVE PhasesInv'
  <2>1. /\ t \in Producers /\ pc[t] = "count" /\ i[t] < PerProducer
        /\ i' = [i EXCEPT ![t] = @ + 1] /\ UNCHANGED <<closed, count>>
        /\ pc' = [pc EXCEPT ![t] = IF i[t] + 1 < PerProducer THEN "lock" ELSE "done"]
    BY <1>7 DEF CountProduced, ring, LocalInv, LoopInv
  <2>2. pc'[t] = "done" => i'[t] = PerProducer
    <3>1. i[t] \in Nat
      BY <1>1, <2>1
    <3> QED
      BY <1>1, <2>1, <3>1
  <2>3. \A p \in Producers \ {t} : pc'[p] = pc[p] /\ i'[p] = i[p]
    BY <1>1, <2>1
  <2>4. pc'[t] \in {"lock", "done"} /\ pc'[Main] = pc[Main]
    BY <1>1, <2>1
  <2>5. \A c \in Consumers : pc'[c] = pc[c]
    BY <1>1, <2>1
  <2>6. pc[Main] = "join_producers"
    BY <1>1, <2>1
  <2> QED
    BY <1>1, <2>1, <2>2, <2>3, <2>4, <2>5, <2>6
<1>8. CASE CloseQueue
  BY <1>1, <1>8 DEF CloseQueue
<1>9. CASE JoinProducers \/ JoinConsumers
  BY <1>1, <1>9 DEF JoinProducers, JoinConsumers, ring
<1>10. CASE UNCHANGED vars
  BY <1>1, <1>10 DEF vars
<1> HIDE DEF PhasesInv
<1> QED
  BY <1>2, <1>3, <1>4, <1>5, <1>6, <1>7, <1>8, <1>9, <1>10 DEF Next, Step, Finished

\* A signal wakes somebody if there is somebody to wake.
LEMMA SignalWakes ==
    ASSUME NEW blocked, NEW rest \in Signal(blocked), blocked # {}
    PROVE  \E w \in blocked : w \notin rest
<1>1. PICK woken \in (SUBSET blocked) \ {{}} : rest = blocked \ woken
  BY DEF Signal
<1>2. woken \subseteq blocked /\ woken # {}
  BY <1>1
<1>3. PICK w \in woken : TRUE
  BY <1>2
<1> QED
  BY <1>1, <1>2, <1>3

\* No wakeup is lost.  A producer that stores, or a consumer that takes, is one
\* alert thread less; but so is the free slot or the item, and the thread that
\* is woken, if one sleeps, is one more alert thread on the other side.
LEMMA NextNoLostWakeup ==
    LocalInv /\ PhasesInv /\ NoLostWakeup /\ [Next]_vars => NoLostWakeup'
<1> SUFFICES ASSUME LocalInv, PhasesInv, NoLostWakeup, [Next]_vars PROVE NoLostWakeup'
  OBVIOUS
<1> USE ThreadsAssumption, SizesAssumption DEF Goto, Threads, Workers
<1> DEFINE producers == Alert(Producers, notFull)
           consumers == Alert(Consumers, notEmpty)
<1>1. /\ pc \in [Threads -> Labels] /\ count \in 0 .. Capacity
      /\ notEmpty \subseteq Consumers /\ notFull \subseteq Producers
      /\ \A t \in notEmpty \cup notFull : pc[t] = "waiting"
  BY DEF LocalInv, TypeOK, LockInv
<1>2. /\ notFull # {} => Capacity - count <= Cardinality(producers)
      /\ notEmpty # {} => ~ closed /\ count <= Cardinality(consumers)
  BY DEF NoLostWakeup
<1>3. /\ producers = {t \in Producers \ notFull : pc[t] \in {"waiting", "test"}}
      /\ consumers = {t \in Consumers \ notEmpty : pc[t] \in {"waiting", "test"}}
      /\ producers' = {t \in Producers \ notFull' : pc'[t] \in {"waiting", "test"}}
      /\ consumers' = {t \in Consumers \ notEmpty' : pc'[t] \in {"waiting", "test"}}
  BY DEF Alert
<1>4. /\ NoLostWakeup' <=>
           /\ notFull' # {} => Capacity - count' <= Cardinality(producers')
           /\ notEmpty' # {} => ~ closed' /\ count' <= Cardinality(consumers')
  BY DEF NoLostWakeup
<1> HIDE DEF producers, consumers
<1>5. /\ IsFiniteSet(producers) /\ IsFiniteSet(producers')
      /\ IsFiniteSet(consumers) /\ IsFiniteSet(consumers')
      /\ Cardinality(producers) \in Nat /\ Cardinality(producers') \in Nat
      /\ Cardinality(consumers) \in Nat /\ Cardinality(consumers') \in Nat
  <2>1. IsFiniteSet(Producers) /\ IsFiniteSet(Consumers)
    BY FS_Subset
  <2>2. /\ producers \subseteq Producers /\ producers' \subseteq Producers
        /\ consumers \subseteq Consumers /\ consumers' \subseteq Consumers
    BY <1>3
  <2>3. /\ IsFiniteSet(producers) /\ IsFiniteSet(producers')
        /\ IsFiniteSet(consumers) /\ IsFiniteSet(consumers')
    BY <2>1, <2>2, FS_Subset
  <2> QED
    BY <2>3, FS_CardinalityType
\* The producers' part and the consumers' part, when nobody stops being alert.
<1>6. ASSUME count' = count, notFull' \subseteq notFull, producers \subseteq producers'
      PROVE  notFull' # {} => Capacity - count' <= Cardinality(producers')
  <2>1. Cardinality(producers) <= Cardinality(producers')
    BY <1>5, <1>6, FS_Subset
  <2> QED
    BY <1>1, <1>2, <1>5, <1>6, <2>1
<1>7. ASSUME count' = count, closed' = closed, notEmpty' \subseteq notEmpty,
             consumers \subseteq consumers'
      PROVE  notEmpty' # {} => ~ closed' /\ count' <= Cardinality(consumers')
  <2>1. Cardinality(consumers) <= Cardinality(consumers')
    BY <1>5, <1>7, FS_Subset
  <2> QED
    BY <1>1, <1>2, <1>5, <1>7, <2>1
<1>8. ASSUME NEW t \in Threads,
             \/ Lock(t) \/ Reacquire(t) \/ SpuriousWakeup(t) \/ Unlock(t)
             \/ CountProduced(t) \/ CountConsumed(t)
             \/ t = Main /\ (JoinProducers \/ JoinConsumers)
      PROVE  NoLostWakeup'
  <2>1. UNCHANGED <<count, closed>> /\ notFull' \subseteq notFull /\ notEmpty' \subseteq notEmpty
    BY <1>8 DEF Lock, Reacquire, SpuriousWakeup, Unlock, CountProduced, CountConsumed,
       JoinProducers, JoinConsumers, ring, waiters
  <2>2. \A u \in Threads : pc[u] \in {"waiting", "test"} => pc'[u] \in {"waiting", "test"}
    BY <1>1, <1>8 DEF Lock, Reacquire, SpuriousWakeup, Unlock, CountProduced, CountConsumed,
       JoinProducers, JoinConsumers
  <2>3. producers \subseteq producers' /\ consumers \subseteq consumers'
    BY <1>3, <2>1, <2>2
  <2> QED
    BY <1>4, <1>6, <1>7, <2>1, <2>3
<1>9. ASSUME NEW t \in Threads, PushWait(t) PROVE NoLostWakeup'
  <2>1. /\ t \in Producers /\ count = Capacity /\ UNCHANGED <<count, closed, notEmpty>>
        /\ pc' = [pc EXCEPT ![t] = "waiting"]
    BY <1>9 DEF PushWait, MustWaitToPush, ring
  <2>2. consumers \subseteq consumers'
    BY <1>1, <1>3, <2>1
  <2> QED
    BY <1>1, <1>4, <1>5, <1>7, <2>1, <2>2
<1>10. ASSUME NEW t \in Threads, PopWait(t) PROVE NoLostWakeup'
  <2>1. /\ t \in Consumers /\ count = 0 /\ ~ closed /\ UNCHANGED <<count, closed, notFull>>
        /\ pc' = [pc EXCEPT ![t] = "waiting"]
    BY <1>10 DEF PopWait, MustWaitToPop, ring
  <2>2. producers \subseteq producers'
    BY <1>1, <1>3, <2>1
  <2> QED
    BY <1>1, <1>4, <1>5, <1>6, <2>1, <2>2
<1>11. ASSUME NEW t \in Threads, PopNothing(t) PROVE NoLostWakeup'
  <2>1. /\ t \in Consumers /\ closed /\ UNCHANGED <<count, closed, notFull, notEmpty>>
        /\ pc' = [pc EXCEPT ![t] = "leave"]
    BY <1>11 DEF PopNothing, MustWaitToPop, ring, waiters
  <2>2. producers \subseteq producers'
    BY <1>1, <1>3, <2>1
  <2> QED
    BY <1>2, <1>4, <1>6, <2>1, <2>2
<1>12. ASSUME NEW t \in Threads, PushStore(t) PROVE NoLostWakeup'
  <2>1. /\ t \in Producers /\ pc[t] = "test" /\ ~ closed
        /\ pc' = [pc EXCEPT ![t] = "unlock"] /\ UNCHANGED <<closed, notFull>>
    BY <1>12 DEF PushStore, PhasesInv
  <2>2. count' = count + 1 /\ notEmpty' \in Signal(notEmpty)
    BY <1>12, <2>1 DEF PushStore, AfterPush
  <2>3. notFull' # {} => Capacity - count' <= Cardinality(producers')
    <3>1. t \in producers /\ producers' = producers \ {t}
      BY <1>1, <1>3, <2>1
    <3>2. Cardinality(producers') = Cardinality(producers) - 1
      BY <1>5, <3>1, FS_RemoveElement
    <3> QED
      BY <1>1, <1>2, <1>5, <2>1, <2>2, <3>2
  <2>4. ASSUME notEmpty' # {} PROVE count' <= Cardinality(consumers')
    <3>1. notEmpty' \subseteq notEmpty
      BY <2>2, SignalLeaves
    <3>2. PICK w \in notEmpty : w \notin notEmpty'
      BY <2>2, <2>4, <3>1, SignalWakes
    <3>3. w \notin consumers /\ consumers \cup {w} \subseteq consumers'
      BY <1>1, <1>3, <2>1, <3>1, <3>2
    <3>4. Cardinality(consumers \cup {w}) = Cardinality(consumers) + 1
      BY <1>5, <3>3, FS_AddElement
    <3>5. Cardinality(consumers \cup {w}) <= Cardinality(consumers')
      BY <1>5, <3>3, FS_Subset
    <3> QED
      BY <1>1, <1>2, <1>5, <2>2, <2>4, <3>1, <3>4, <3>5
  <2> QED
    BY <1>4, <2>1, <2>3, <2>4
<1>13. ASSUME NEW t \in Threads, PopTake(t) PROVE NoLostWakeup'
  <2>1. /\ t \in Consumers /\ pc[t] = "test" /\ count # 0 /\ count' = count - 1
        /\ pc' = [pc EXCEPT ![t] = "unlock"] /\ UNCHANGED <<closed, notEmpty>>
        /\ notFull' \in Signal(notFull)
    BY <1>13 DEF PopTake, AfterPop
  <2>2. notEmpty' # {} => ~ closed' /\ count' <= Cardinality(consumers')
    <3>1. t \in consumers /\ consumers' = consumers \ {t}
      BY <1>1, <1>3, <2>1
    <3>2. Cardinality(consumers') = Cardinality(consumers) - 1
      BY <1>5, <3>1, FS_RemoveElement
    <3> QED
      BY <1>1, <1>2, <1>5, <2>1, <3>2
  <2>3. ASSUME notFull' # {} PROVE Capacity - count' <= Cardinality(producers')
    <3>1. notFull' \subseteq notFull
      BY <2>1, SignalLeaves
    <3>2. PICK w \in notFull : w \notin notFull'
      BY <2>1, <2>3, <3>1, SignalWakes
    <3>3. w \notin producers /\ producers \cup {w} \subseteq producers'
      BY <1>1, <1>3, <2>1, <3>1, <3>2
    <3>4. Cardinality(producers \cup {w}) = Cardinality(producers) + 1
      BY <1>5, <3>3, FS_AddElement
    <3>5. Cardinality(producers \cup {w}) <= Cardinality(producers')
      BY <1>5, <3>3, FS_Subset
    <3> QED
      BY <1>1, <1>2, <1>5, <2>1, <2>3, <3>1, <3>4, <3>5
  <2> QED
    BY <1>4, <2>2, <2>3
<1>14. CASE CloseQueue
  BY <1>4, <1>14 DEF CloseQueue, AfterClose, Broadcast
<1>15. CASE UNCHANGED vars
  BY <1>15 DEF vars, NoLostWakeup, Alert
<1> QED
  BY <1>8, <1>9, <1>10, <1>11, <1>12, <1>13, <1>14, <1>15 DEF Next, Step, Finished

-----------------------------------------------------------------------------
\* What goes through the queue.

\* It is a sequence of popped values and of those still queued.
LEMMA ThroughSeq ==
    LocalInv => /\ popped \in Seq(Item) /\ Contents \in Seq(Item) /\ Through \in Seq(Item)
                /\ Len(Through) = Len(popped) + count
                /\ \A k \in 1 .. Len(popped) : Through[k] = popped[k]
<1> SUFFICES ASSUME LocalInv
             PROVE  /\ popped \in Seq(Item) /\ Contents \in Seq(Item) /\ Through \in Seq(Item)
                    /\ Len(Through) = Len(popped) + count
                    /\ \A k \in 1 .. Len(popped) : Through[k] = popped[k]
  OBVIOUS
<1>1. popped \in Seq(Item) /\ Contents \in Seq(Item) /\ Len(Contents) = count
  BY ContentsSeq DEF LocalInv, TypeOK, ContentsShape, Item
<1>2. Len(popped) \in Nat /\ Len(Contents) \in Nat
  BY <1>1, LenProperties
<1>3. /\ Through \in Seq(Item) /\ Len(Through) = Len(popped) + Len(Contents)
      /\ \A k \in 1 .. Len(popped) + Len(Contents) :
           Through[k] = IF k <= Len(popped) THEN popped[k] ELSE Contents[k - Len(popped)]
  BY <1>1, ConcatProperties DEF Through
<1> QED
  BY <1>1, <1>2, <1>3

\* A push adds its value to it, and a pop only moves one.
LEMMA PushGoesThrough ==
    ASSUME LocalInv, TypeOK', NEW t \in Threads, PushStore(t), ~ closed
    PROVE  Through' = Append(Through, <<t, i[t]>>) /\ <<t, i[t]>> \in Value
<1> DEFINE v == <<t, i[t]>>
<1>1. v \in Value /\ Contents' = Append(Contents, v) /\ popped' = popped
  BY PushStoreRefines DEF CQ!Put
<1>2. popped \in Seq(Item) /\ Contents \in Seq(Item) /\ v \in Item /\ <<v>> \in Seq(Item)
  BY <1>1, ThroughSeq DEF Item
<1>3. /\ Append(Contents, v) = Contents \o <<v>>
      /\ Append(popped \o Contents, v) = (popped \o Contents) \o <<v>>
  BY <1>2, ConcatProperties, AppendIsConcat
<1>4. (popped \o Contents) \o <<v>> = popped \o (Contents \o <<v>>)
  BY <1>2, ConcatAssociative
<1> QED
  BY <1>1, <1>3, <1>4 DEF Through

LEMMA PopGoesThrough ==
    ASSUME LocalInv, TypeOK', NEW t \in Threads, PopTake(t)
    PROVE  /\ Through' = Through /\ popped' = Append(popped, items[head])
           /\ items[head] \in Item /\ items[head] = Through[Len(popped) + 1]
           /\ Len(popped) + 1 \in 1 .. Len(Through)
<1> DEFINE v == Head(Contents)
<1>1. /\ Contents # <<>> /\ popped' = Append(popped, v) /\ Contents' = Tail(Contents)
  BY PopTakeRefines DEF CQ!Take
<1>2. /\ popped \in Seq(Item) /\ Contents \in Seq(Item) /\ Len(Contents) = count
      /\ count \in 1 .. Capacity
  BY ThroughSeq, ContentsSeq, SizesAssumption
     DEF LocalInv, TypeOK, ContentsShape, PopTake
<1>3. v \in Item /\ Tail(Contents) \in Seq(Item) /\ <<v>> \in Seq(Item)
  BY <1>1, <1>2, HeadTailProperties
<1>4. Contents = <<v>> \o Tail(Contents)
  <2>1. Len(Contents) \in Nat /\ Len(Tail(Contents)) = Len(Contents) - 1
    BY <1>1, <1>2, HeadTailProperties, LenProperties
  <2>2. /\ <<v>> \o Tail(Contents) \in Seq(Item)
        /\ Len(<<v>> \o Tail(Contents)) = Len(Contents)
        /\ \A k \in 1 .. Len(Contents) :
             (<<v>> \o Tail(Contents))[k] = IF k <= 1 THEN <<v>>[k] ELSE Tail(Contents)[k - 1]
    BY <1>3, <2>1, ConcatProperties
  <2>3. ASSUME NEW k \in 1 .. Len(Contents)
        PROVE  Contents[k] = (<<v>> \o Tail(Contents))[k]
    <3>1. CASE k = 1
      BY <1>1, <1>2, <2>2, <3>1
    <3>2. CASE k # 1
      <4>1. k - 1 \in 1 .. Len(Tail(Contents)) /\ k = (k - 1) + 1 /\ ~ (k <= 1)
        BY <2>1, <3>2
      <4>2. Tail(Contents)[k - 1] = Contents[(k - 1) + 1]
        BY <1>1, <1>2, <4>1, HeadTailProperties
      <4> QED
        BY <2>2, <4>1, <4>2
    <3> QED
      BY <3>1, <3>2
  <2> QED
    BY <1>2, <2>2, <2>3, SeqEqual
<1>5. Append(popped, v) \o Tail(Contents) = popped \o (<<v>> \o Tail(Contents))
  <2>1. Append(popped, v) = popped \o <<v>>
    BY <1>2, <1>3, AppendIsConcat
  <2> QED
    BY <1>2, <1>3, <2>1, ConcatAssociative
<1>6. Through' = Through
  BY <1>1, <1>4, <1>5 DEF Through
<1>7. v = items[head]
  <2>1. Contents[1] = items[SlotAt(1 - 1)]
    BY <1>2, ContentsSeq DEF LocalInv, ContentsShape
  <2>2. SlotAt(1 - 1) = head
    BY SizesAssumption DEF LocalInv, TypeOK, SlotAt, Slots
  <2> QED
    BY <1>1, <1>2, <2>1, <2>2
<1>8. Len(popped) \in Nat
  BY <1>2, LenProperties
<1>9. /\ Len(popped) + 1 \in 1 .. Len(Through)
      /\ Through[Len(popped) + 1] = Contents[1]
  <2>1. /\ Len(Through) = Len(popped) + Len(Contents)
        /\ \A k \in 1 .. Len(popped) + Len(Contents) :
             Through[k] = IF k <= Len(popped) THEN popped[k] ELSE Contents[k - Len(popped)]
    BY <1>2, ConcatProperties DEF Through
  <2>2. Len(popped) + 1 \in 1 .. Len(popped) + Len(Contents)
    BY <1>2, <1>8
  <2>3. ~ (Len(popped) + 1 <= Len(popped)) /\ (Len(popped) + 1) - Len(popped) = 1
    BY <1>8
  <2> QED
    BY <2>1, <2>2, <2>3
<1> QED
  BY <1>1, <1>2, <1>3, <1>6, <1>7, <1>9

\* What an appended value does to the set of values.
LEMMA AppendedSet ==
    ASSUME NEW S, NEW s \in Seq(S), NEW v \in S
    PROVE  {Append(s, v)[k] : k \in 1 .. Len(Append(s, v))}
             = {s[k] : k \in 1 .. Len(s)} \cup {v}
<1>1. /\ Len(Append(s, v)) = Len(s) + 1 /\ Len(s) \in Nat
      /\ \A k \in 1 .. Len(s) : Append(s, v)[k] = s[k]
      /\ Append(s, v)[Len(s) + 1] = v
  BY AppendProperties, LenProperties
<1>2. 1 .. Len(s) + 1 = (1 .. Len(s)) \cup {Len(s) + 1}
  BY <1>1
<1> QED
  BY <1>1, <1>2

\* A value is stored when its producer has stored it, and nothing else changes
\* what is stored.
LEMMA StoredStep ==
    ASSUME LocalInv, PhasesInv, NEW t \in Threads, NEW p \in Producers,
           \/ Lock(t) \/ Reacquire(t) \/ SpuriousWakeup(t) \/ PushWait(t)
           \/ PopWait(t) \/ PopNothing(t) \/ PopTake(t) \/ Unlock(t)
           \/ CountProduced(t) \/ CountConsumed(t)
           \/ CloseQueue \/ JoinProducers \/ JoinConsumers \/ UNCHANGED vars
    PROVE  Stored(p)' = Stored(p)
<1> USE ThreadsAssumption DEF Goto, Threads, Workers, Stored
<1>1. /\ pc \in [Threads -> Labels] /\ i \in [Producers -> 0 .. PerProducer]
      /\ p # Main /\ p \notin Consumers /\ pc[p] # "leave"
  BY DEF LocalInv, TypeOK, PhasesInv
<1>2. CASE CountProduced(t)
  <2>1. /\ t \in Producers /\ pc[t] = "count" /\ i' = [i EXCEPT ![t] = @ + 1]
        /\ pc' = [pc EXCEPT ![t] = IF i[t] + 1 < PerProducer THEN "lock" ELSE "done"]
    BY <1>2 DEF CountProduced
  <2>2. CASE t = p
    <3>1. i'[p] = i[p] + 1 /\ pc'[p] \in {"lock", "done"} /\ pc[p] = "count"
      BY <1>1, <2>1, <2>2
    <3>2. i[p] \in Nat
      BY <1>1, SizesAssumption
    <3> QED
      BY <3>1, <3>2
  <2>3. CASE t # p
    BY <1>1, <2>1, <2>3
  <2> QED
    BY <2>2, <2>3
<1>3. CASE Lock(t) \/ Reacquire(t) \/ SpuriousWakeup(t) \/ PushWait(t) \/ PopWait(t)
  BY <1>1, <1>3 DEF Lock, Reacquire, SpuriousWakeup, PushWait, PopWait
<1>4. CASE PopNothing(t) \/ PopTake(t) \/ Unlock(t) \/ CountConsumed(t)
  BY <1>1, <1>4 DEF PopNothing, PopTake, Unlock, CountConsumed
<1>5. CASE CloseQueue \/ JoinProducers \/ JoinConsumers \/ UNCHANGED vars
  BY <1>1, <1>5 DEF CloseQueue, JoinProducers, JoinConsumers, vars
<1> QED
  BY <1>2, <1>3, <1>4, <1>5

\* Only a push changes what goes through.
LEMMA ThroughStep ==
    ASSUME LocalInv, TypeOK', NEW t \in Threads,
           \/ Lock(t) \/ Reacquire(t) \/ SpuriousWakeup(t) \/ PushWait(t)
           \/ PopWait(t) \/ PopNothing(t) \/ PopTake(t) \/ Unlock(t)
           \/ CountProduced(t) \/ CountConsumed(t)
           \/ CloseQueue \/ JoinProducers \/ JoinConsumers \/ UNCHANGED vars
    PROVE  Through' = Through
<1>1. CASE PopTake(t)
  BY <1>1, PopGoesThrough
<1>2. CASE UNCHANGED <<items, head, count, popped>>
  BY <1>2 DEF Through, Contents, SlotAt
<1> QED
  BY <1>1, <1>2 DEF Lock, Reacquire, SpuriousWakeup, PushWait, PopWait, PopNothing, Unlock,
     CountProduced, CountConsumed, CloseQueue, JoinProducers, JoinConsumers, ring, vars

\* What goes through is what was pushed, in each producer's order.
LEMMA NextInOrder ==
    LocalInv /\ PhasesInv /\ TypeOK' /\ InOrder /\ [Next]_vars => InOrder'
<1> SUFFICES ASSUME LocalInv, PhasesInv, TypeOK', InOrder, [Next]_vars PROVE InOrder'
  OBVIOUS
<1>1. ASSUME Through' = Through, \A p \in Producers : Stored(p)' = Stored(p)
      PROVE  InOrder'
  <2>1. \A v \in Value : Stored(v[1])' = Stored(v[1])
    BY <1>1 DEF Value
  <2> QED
    BY <1>1, <2>1 DEF InOrder
<1>2. ASSUME NEW t \in Threads, PushStore(t) PROVE InOrder'
  <2> DEFINE v == <<t, i[t]>>
  <2>1. /\ t \in Producers /\ pc[t] = "test" /\ ~ closed
        /\ pc' = [pc EXCEPT ![t] = "unlock"] /\ i' = i
    BY <1>2 DEF PushStore, PhasesInv, Goto
  <2>2. Through' = Append(Through, v) /\ v \in Value /\ Through \in Seq(Item) /\ v \in Item
    BY <1>2, <2>1, PushGoesThrough, ThroughSeq DEF Item
  <2>3. /\ pc \in [Threads -> Labels] /\ i \in [Producers -> 0 .. PerProducer]
    BY DEF LocalInv, TypeOK
  <2>4. /\ Stored(t) = i[t] /\ Stored(t)' = i[t] + 1 /\ i[t] \in Nat
        /\ \A p \in Producers \ {t} : Stored(p)' = Stored(p)
    BY <2>1, <2>3, SizesAssumption DEF Stored
  <2>5. {w \in Value : w[2] < Stored(w[1])'} = {w \in Value : w[2] < Stored(w[1])} \cup {v}
    <3>1. ASSUME NEW w \in Value
          PROVE  w[2] < Stored(w[1])' <=> w[2] < Stored(w[1]) \/ w = v
      <4>1. w = <<w[1], w[2]>> /\ w[1] \in Producers /\ w[2] \in Nat
        BY SizesAssumption DEF Value
      <4>2. CASE w[1] = t
        BY <2>4, <4>1, <4>2
      <4>3. CASE w[1] # t
        BY <2>4, <4>1, <4>3
      <4> QED
        BY <4>2, <4>3
    <3> QED
      BY <2>2, <3>1
  <2>6. /\ Len(Through) \in Nat /\ Len(Through') = Len(Through) + 1
        /\ \A k \in 1 .. Len(Through) : Through'[k] = Through[k]
        /\ Through'[Len(Through) + 1] = v
    BY <2>2, AppendProperties, LenProperties
  <2>7. {Through'[k] : k \in 1 .. Len(Through')} = {Through[k] : k \in 1 .. Len(Through)} \cup {v}
    BY <2>2, AppendedSet
  <2>8. ASSUME NEW j \in 1 .. Len(Through'), NEW k \in 1 .. Len(Through'),
               j < k, Through'[j][1] = Through'[k][1]
        PROVE  Through'[j][2] < Through'[k][2]
    <3>1. j \in 1 .. Len(Through) /\ Through'[j] = Through[j]
      BY <2>6, <2>8
    <3>2. CASE k = Len(Through) + 1
      <4>1. Through[j] \in Value /\ Through[j][2] < Stored(Through[j][1])
        BY <3>1 DEF InOrder
      <4> QED
        BY <2>4, <2>6, <2>8, <3>1, <3>2, <4>1
    <3>3. CASE k # Len(Through) + 1
      <4>1. k \in 1 .. Len(Through) /\ Through'[k] = Through[k]
        BY <2>6, <3>3
      <4> QED
        BY <2>8, <3>1, <4>1 DEF InOrder
    <3> QED
      BY <3>2, <3>3
  <2> QED
    BY <2>5, <2>7, <2>8 DEF InOrder
<1>3. ASSUME NEW t \in Threads, Step(t) \/ SpuriousWakeup(t) PROVE InOrder'
  BY <1>1, <1>2, <1>3, StoredStep, ThroughStep DEF Step
<1>4. ASSUME UNCHANGED vars PROVE InOrder'
  <2>1. Main \in Threads
    BY DEF Threads
  <2> QED
    BY <1>1, <1>4, <2>1, StoredStep, ThroughStep
<1> QED
  BY <1>3, <1>4 DEF Next, Finished

\* No value goes through twice.
LEMMA ThroughDistinct ==
    ASSUME LocalInv, InOrder, NEW j \in 1 .. Len(Through), NEW k \in 1 .. Len(Through), j # k
    PROVE  Through[j] # Through[k]
<1> SUFFICES ASSUME Through[j] = Through[k] PROVE FALSE
  OBVIOUS
<1>1. Len(Through) \in Nat
  BY ThroughSeq, LenProperties
<1>2. j < k \/ k < j
  BY <1>1
<1>3. Through[j][2] < Through[j][2]
  BY <1>2 DEF InOrder
<1>4. Through[j] \in Value
  BY DEF InOrder
<1>5. Through[j][2] \in Nat
  BY <1>4, SizesAssumption DEF Value
<1> QED
  BY <1>3, <1>5

LEMMA ValuesAreFinite == IsFiniteSet(Value) /\ IsFiniteSet(Value \cup {NoValue})
<1>1. IsFiniteSet(Producers)
  BY ThreadsAssumption, FS_Subset DEF Workers
<1>2. IsFiniteSet(0 .. PerProducer - 1)
  BY SizesAssumption, FS_Interval
<1>3. IsFiniteSet(Value)
  BY <1>1, <1>2, FS_Product DEF Value
<1> QED
  BY <1>3, FS_AddElement

\* A consumer that pops holds a value nobody else has or had, and counts it once.
LEMMA NextTotalsInv ==
    LocalInv /\ TypeOK' /\ PhasesInv /\ InOrder /\ TotalsInv /\ [Next]_vars => TotalsInv'
<1> SUFFICES ASSUME LocalInv, TypeOK', PhasesInv, InOrder, TotalsInv, [Next]_vars
             PROVE  TotalsInv'
  OBVIOUS
<1> USE ThreadsAssumption DEF Goto, Threads, Workers
<1> DEFINE taken == {popped[k] : k \in 1 .. Len(popped)}
<1>1. /\ pc \in [Threads -> Labels] /\ i \in [Producers -> 0 .. PerProducer]
      /\ value \in [Consumers -> Value \cup {NoValue}] /\ checksum \subseteq Value \cup {NoValue}
      /\ \A p \in Producers : pc[p] # "done" => i[p] < PerProducer
  BY DEF LocalInv, TypeOK, LoopInv
<1>2. /\ taken = checksum \cup {value[c] : c \in Holding}
      /\ \A c \in Holding : value[c] \notin checksum
      /\ \A c, d \in Holding : value[c] = value[d] => c = d
      /\ produced = Cardinality(Counted) /\ consumed = Cardinality(checksum)
  BY DEF TotalsInv
<1>3. /\ Holding = {c \in Consumers : pc[c] \in {"unlock", "count"}}
      /\ Holding' = {c \in Consumers : pc'[c] \in {"unlock", "count"}}
  BY DEF Holding
<1>4. i' = i => Counted' = Counted
  BY DEF Counted
<1>5. ASSUME UNCHANGED <<popped, checksum, value, i, produced, consumed>>, Holding' = Holding
      PROVE  TotalsInv'
  BY <1>4, <1>5 DEF TotalsInv
<1>6. ASSUME NEW t \in Threads,
             \/ Lock(t) \/ Reacquire(t) \/ SpuriousWakeup(t) \/ PushWait(t) \/ PushStore(t)
             \/ PopWait(t) \/ PopNothing(t) \/ Unlock(t)
             \/ CloseQueue \/ JoinProducers \/ JoinConsumers \/ UNCHANGED vars
      PROVE  TotalsInv'
  <2>1. UNCHANGED <<popped, checksum, value, i, produced, consumed>>
    BY <1>6 DEF Lock, Reacquire, SpuriousWakeup, PushWait, PushStore, PopWait, PopNothing,
       Unlock, CloseQueue, JoinProducers, JoinConsumers, totals, vars
  <2>2. ASSUME NEW c \in Consumers
        PROVE  pc'[c] \in {"unlock", "count"} <=> pc[c] \in {"unlock", "count"}
    <3>1. CASE Lock(t) \/ Reacquire(t) \/ SpuriousWakeup(t) \/ PushWait(t) \/ PushStore(t)
      BY <1>1, <3>1 DEF Lock, Reacquire, SpuriousWakeup, PushWait, PushStore
    <3>2. CASE PopWait(t) \/ PopNothing(t) \/ Unlock(t)
      BY <1>1, <3>2 DEF PopWait, PopNothing, Unlock
    <3>3. CASE CloseQueue \/ JoinProducers \/ JoinConsumers \/ UNCHANGED vars
      BY <1>1, <3>3 DEF CloseQueue, JoinProducers, JoinConsumers, vars
    <3> QED
      BY <1>6, <3>1, <3>2, <3>3
  <2>3. Holding' = Holding
    BY <1>3, <2>2
  <2> QED
    BY <1>5, <2>1, <2>3
<1>7. ASSUME NEW t \in Threads, PopTake(t) PROVE TotalsInv'
  <2> DEFINE v == items[head]
  <2>1. /\ t \in Consumers /\ pc[t] = "test" /\ pc' = [pc EXCEPT ![t] = "unlock"]
        /\ value' = [value EXCEPT ![t] = v]
        /\ UNCHANGED <<i, produced, consumed, checksum>>
    BY <1>7 DEF PopTake, totals
  <2>2. /\ popped' = Append(popped, v) /\ v \in Item /\ v = Through[Len(popped) + 1]
        /\ Len(popped) + 1 \in 1 .. Len(Through)
    BY <1>7, PopGoesThrough
  <2>3. /\ popped \in Seq(Item) /\ Len(popped) \in Nat
        /\ Len(Through) = Len(popped) + count
        /\ \A k \in 1 .. Len(popped) : Through[k] = popped[k]
    BY ThroughSeq, LenProperties
  <2>4. v \notin taken
    <3>1. ASSUME NEW k \in 1 .. Len(popped) PROVE popped[k] # v
      <4>1. k \in 1 .. Len(Through) /\ k # Len(popped) + 1
        BY <2>2, <2>3
      <4>2. Through[k] # Through[Len(popped) + 1]
        BY <2>2, <4>1, ThroughDistinct
      <4> QED
        BY <2>2, <2>3, <4>2
    <3> QED
      BY <3>1
  <2>5. {popped'[k] : k \in 1 .. Len(popped')} = taken \cup {v}
    BY <2>2, <2>3, AppendedSet
  <2>6. Holding' = Holding \cup {t} /\ t \notin Holding
    BY <1>1, <1>3, <2>1
  <2>7. value'[t] = v /\ \A c \in Holding : value'[c] = value[c]
    BY <1>1, <1>3, <2>1, <2>6
  <2> HIDE DEF v, taken
  <2>8. {value'[c] : c \in Holding'} = {value[c] : c \in Holding} \cup {v}
    BY <2>6, <2>7
  <2>9. \A c \in Holding : value[c] # v
    BY <1>2, <2>4
  <2>10. /\ \A c \in Holding' : value'[c] \notin checksum'
         /\ \A c, d \in Holding' : value'[c] = value'[d] => c = d
    BY <1>2, <2>1, <2>4, <2>6, <2>7, <2>9
  <2>11. {popped'[k] : k \in 1 .. Len(popped')} = checksum' \cup {value'[c] : c \in Holding'}
    BY <1>2, <2>1, <2>5, <2>8
  <2>12. produced' = Cardinality(Counted)' /\ consumed' = Cardinality(checksum)'
    BY <1>2, <1>4, <2>1
  <2> QED
    BY <2>10, <2>11, <2>12 DEF TotalsInv
<1>8. ASSUME NEW t \in Threads, CountProduced(t) PROVE TotalsInv'
  <2> DEFINE v == <<t, i[t]>>
  <2>1. /\ t \in Producers /\ pc[t] = "count" /\ i' = [i EXCEPT ![t] = @ + 1]
        /\ produced' = produced + 1 /\ UNCHANGED <<popped, checksum, value, consumed>>
        /\ \A c \in Consumers : pc'[c] = pc[c]
    BY <1>1, <1>8 DEF CountProduced
  <2>2. Holding' = Holding
    BY <1>3, <2>1
  <2>3. i[t] \in 0 .. PerProducer - 1 /\ v \in Value
    BY <1>1, <2>1, SizesAssumption DEF Value
  <2>4. Counted' = Counted \cup {v} /\ v \notin Counted
    <3>1. ASSUME NEW w \in Value
          PROVE  w[2] < i'[w[1]] <=> w[2] < i[w[1]] \/ w = v
      <4>1. w = <<w[1], w[2]>> /\ w[1] \in Producers /\ w[2] \in Nat
        BY SizesAssumption DEF Value
      <4>2. CASE w[1] = t
        BY <1>1, <2>1, <2>3, <4>1, <4>2
      <4>3. CASE w[1] # t
        BY <1>1, <2>1, <2>3, <4>1, <4>3
      <4> QED
        BY <4>2, <4>3
    <3> QED
      BY <2>3, <3>1 DEF Counted
  <2>5. IsFiniteSet(Counted)
    BY ValuesAreFinite, FS_Subset DEF Counted
  <2>6. Cardinality(Counted') = Cardinality(Counted) + 1
    BY <2>4, <2>5, FS_AddElement
  <2> QED
    BY <1>2, <2>1, <2>2, <2>6 DEF TotalsInv
<1>9. ASSUME NEW t \in Threads, CountConsumed(t) PROVE TotalsInv'
  <2>1. /\ t \in Consumers /\ pc[t] = "count" /\ pc' = [pc EXCEPT ![t] = "lock"]
        /\ consumed' = consumed + 1 /\ checksum' = checksum \cup {value[t]}
        /\ UNCHANGED <<popped, value, i, produced>>
    BY <1>9 DEF CountConsumed
  <2>2. Holding' = Holding \ {t} /\ t \in Holding
    BY <1>1, <1>3, <2>1
  <2>3. IsFiniteSet(checksum)
    BY <1>1, ValuesAreFinite, FS_Subset
  <2>4. Cardinality(checksum') = Cardinality(checksum) + 1
    BY <1>2, <2>1, <2>2, <2>3, FS_AddElement
  <2>5. taken = checksum' \cup {value[c] : c \in Holding'}
    BY <1>2, <2>1, <2>2
  <2>6. \A c \in Holding' : value[c] \notin checksum'
    BY <1>2, <2>1, <2>2
  <2> QED
    BY <1>2, <1>4, <2>1, <2>2, <2>4, <2>5, <2>6 DEF TotalsInv
<1> QED
  BY <1>6, <1>7, <1>8, <1>9 DEF Next, Step, Finished

\* The whole invariant holds in every reachable state.
THEOREM Invariance == Spec => []IInv
<1>1. Init => IInv
  <2> SUFFICES ASSUME Init PROVE IInv
    OBVIOUS
  <2>1. LocalInv
    BY InitLocalInv
  <2>2. PhasesInv
    BY ThreadsAssumption, SizesAssumption DEF Init, PhasesInv, Threads, Workers
  <2>3. Through \in Seq(Item) /\ Len(Through) = 0
    BY <2>1, ThroughSeq, EmptySeq DEF Init
  <2>4. Holding = {} /\ \A p \in Producers : Stored(p) = 0
    BY ThreadsAssumption DEF Init, Holding, Stored, Threads, Workers
  <2>5. InOrder
    <3>1. {v \in Value : v[2] < Stored(v[1])} = {}
      BY <2>4, SizesAssumption DEF Value
    <3> QED
      BY <2>3, <3>1 DEF InOrder
  <2>6. TotalsInv
    <3>1. Counted = {}
      BY SizesAssumption DEF Init, Counted, Value
    <3>2. Len(popped) = 0 /\ checksum = {} /\ produced = 0 /\ consumed = 0
      BY EmptySeq DEF Init
    <3> QED
      BY <2>4, <3>1, <3>2, FS_EmptySet DEF TotalsInv
  <2>7. NoLostWakeup
    BY DEF Init, NoLostWakeup
  <2> QED
    BY <2>1, <2>2, <2>5, <2>6, <2>7 DEF IInv
<1>2. IInv /\ [Next]_vars => IInv'
  <2>1. LocalInv /\ [Next]_vars => LocalInv'
    BY NextTypeOK, NextLoopInv, NextLockInv, NextRingInv DEF LocalInv
  <2> QED
    BY <2>1, NextTypeOK, NextPhasesInv, NextInOrder, NextTotalsInv, NextNoLostWakeup DEF IInv
<1> QED
  BY <1>1, <1>2, PTL DEF Spec

\* While a producer sleeps every free slot has a producer on its way to it, and
\* while a consumer sleeps every queued item has a consumer on its way.
THEOREM WakeupsAreNotLost == Spec => []NoLostWakeup
BY Invariance, PTL DEF IInv

\* Everything pushed is popped once, in its producer's order, and when main has
\* joined everybody it has all been counted.
THEOREM NothingIsLost == Spec => []Conservation
<1>1. ASSUME IInv PROVE CleanFinish
  <2> SUFFICES ASSUME pc[Main] = "done"
               PROVE  /\ produced = Cardinality(Value) /\ consumed = produced
                      /\ checksum = Value /\ count = 0
                      /\ lock = NoThread /\ notEmpty = {} /\ notFull = {}
    BY DEF CleanFinish
  <2>1. /\ LocalInv /\ TypeOK /\ LockInv /\ PhasesInv /\ InOrder /\ TotalsInv
    BY <1>1 DEF IInv, LocalInv
  <2>2. \A t \in Workers : pc[t] = "done"
    BY <2>1 DEF PhasesInv, Workers
  <2>3. \A p \in Producers : i[p] = PerProducer /\ Stored(p) = PerProducer
    <3>1. \A p \in Producers : pc[p] = "done" /\ i[p] = PerProducer
      BY <2>1, <2>2 DEF PhasesInv, Workers
    <3> QED
      BY <3>1, SizesAssumption DEF Stored
  <2>4. count = 0
    BY <2>1, <2>2, ThreadsAssumption DEF PhasesInv, Workers
  <2>5. lock = NoThread /\ notEmpty = {} /\ notFull = {}
    BY <2>1, <2>2 DEF TypeOK, LockInv, Inside, Threads, Workers
  <2>6. Holding = {}
    BY <2>2 DEF Holding, Workers
  <2>7. \A v \in Value : v[1] \in Producers /\ v[2] < PerProducer
    BY SizesAssumption DEF Value
  <2>8. Counted = Value /\ {v \in Value : v[2] < Stored(v[1])} = Value
    BY <2>3, <2>7 DEF Counted
  <2>9. {popped[k] : k \in 1 .. Len(popped)} = {Through[k] : k \in 1 .. Len(Through)}
    <3>1. Len(popped) \in Nat /\ Len(Through) = Len(popped) + count
      BY <2>1, ThroughSeq, LenProperties
    <3>2. Len(Through) = Len(popped)
      BY <2>4, <3>1
    <3> QED
      BY <2>1, <3>2, ThroughSeq
  <2>10. checksum = Value
    BY <2>1, <2>6, <2>8, <2>9 DEF InOrder, TotalsInv
  <2> QED
    BY <2>1, <2>4, <2>5, <2>8, <2>10 DEF TotalsInv
<1>2. IInv => Conservation
  BY <1>1 DEF IInv, Conservation
<1> QED
  BY <1>2, Invariance, PTL

=============================================================================
