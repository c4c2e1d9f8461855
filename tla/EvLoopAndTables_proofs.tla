------------------------ MODULE EvLoopAndTables_proofs ------------------------
(***************************************************************************)
(* Proofs about the event loop of week 47, for any descriptors, clients,    *)
(* batch size and time limits: the connection table, epoll and the kernel   *)
(* agree, no event reaches another connection than its own, and no idle     *)
(* connection is kept longer than the limits say.  And about the two maps   *)
(* and the search tree, for any keys, values, nodes, hash functions and     *)
(* numbers of buckets: the maps are dictionaries, and all keep their shape. *)
(***************************************************************************)
EXTENDS EvLoop, Structures, FiniteSetTheorems, SequenceTheorems, WellFoundedInduction, TLAPS

-----------------------------------------------------------------------------
\* The operators of the community modules.

LEMMA MinIsLeast ==
    ASSUME NEW S, S \subseteq Nat, S # {}
    PROVE  Min(S) \in S /\ \A y \in S : Min(S) <= y
<1> DEFINE less == {ss \in Nat \X Nat : ss[1] < ss[2]}
<1>1. IsWellFoundedOn(less, Nat)
  BY NatLessThanWellFounded DEF OpToRel
<1>2. PICK x \in S : \A y \in S : ~ (<<y, x>> \in less)
  <2> HIDE DEF less
  <2> QED
    BY <1>1, WFMin
<1>3. \A y \in S : x <= y
  <2>1. TAKE y \in S
  <2>2. <<y, x>> \in less <=> y < x
    OBVIOUS
  <2>3. ~ (<<y, x>> \in less) /\ x \in Nat /\ y \in Nat
    BY <1>2
  <2> QED
    BY <2>2, <2>3
<1> QED
  BY <1>3 DEF Min

LEMMA MaxOfTwo ==
    ASSUME NEW a \in Nat, NEW b \in Nat
    PROVE  Max({a, b}) \in Nat /\ Max({a, b}) >= a /\ Max({a, b}) >= b
           /\ Max({a, b}) \in {a, b}
<1>1. \E x \in {a, b} : \A y \in {a, b} : x >= y
  <2>1. CASE a >= b
    BY <2>1
  <2>2. CASE b >= a
    BY <2>2
  <2> QED
    BY <2>1, <2>2
<1> QED
  BY <1>1 DEF Max

\* An ordering of a finite set is a sequence of its elements, each once.
LEMMA OrderOfSet ==
    ASSUME NEW S, IsFiniteSet(S), NEW order \in SetToSeqs(S)
    PROVE  /\ order \in Seq(S) /\ Len(order) = Cardinality(S)
           /\ \A j, k \in 1 .. Len(order) : order[j] = order[k] => j = k
<1>1. /\ order \in [1 .. Cardinality(S) -> S]
      /\ \A j, k \in 1 .. Cardinality(S) : j # k => order[j] # order[k]
  BY DEF SetToSeqs
<1>2. Cardinality(S) \in Nat
  BY FS_CardinalityType
<1>3. order \in Seq(S)
  BY <1>1, <1>2, SeqDef
<1>4. Len(order) = Cardinality(S)
  BY <1>1, <1>2, <1>3, LenProperties
<1> QED
  BY <1>1, <1>3, <1>4

\* What is left of a batch when its first event is taken.
LEMMA RestOfBatch ==
    ASSUME NEW S, NEW b \in Seq(S), b # <<>>,
           \A j, k \in 1 .. Len(b) : b[j].item = b[k].item => j = k
    PROVE  /\ Head(b) \in S /\ Head(b) = b[1] /\ 1 \in 1 .. Len(b)
           /\ Tail(b) \in Seq(S) /\ Len(Tail(b)) <= Len(b)
           /\ \A k \in 1 .. Len(Tail(b)) :
                /\ \E j \in 1 .. Len(b) : Tail(b)[k] = b[j]
                /\ Tail(b)[k].item # Head(b).item
           /\ \A j, k \in 1 .. Len(Tail(b)) : Tail(b)[j].item = Tail(b)[k].item => j = k
<1>1. /\ Tail(b) \in Seq(S) /\ Len(Tail(b)) = Len(b) - 1 /\ Head(b) \in S
      /\ \A k \in 1 .. Len(Tail(b)) : Tail(b)[k] = b[k + 1]
  BY HeadTailProperties
<1>2. Len(b) \in Nat \ {0} /\ Head(b) = b[1] /\ 1 \in 1 .. Len(b)
  BY EmptySeq
<1>3. \A k \in 1 .. Len(Tail(b)) : k + 1 \in 1 .. Len(b) /\ k + 1 # 1 /\ k \in Nat
  BY <1>1, <1>2
<1>4. ASSUME NEW k \in 1 .. Len(Tail(b))
      PROVE  /\ \E j \in 1 .. Len(b) : Tail(b)[k] = b[j]
             /\ Tail(b)[k].item # Head(b).item
  BY <1>1, <1>2, <1>3
<1>5. ASSUME NEW j \in 1 .. Len(Tail(b)), NEW k \in 1 .. Len(Tail(b)),
             Tail(b)[j].item = Tail(b)[k].item
      PROVE  j = k
  <2>1. j + 1 = k + 1 /\ j \in Nat /\ k \in Nat
    BY <1>1, <1>3, <1>5
  <2> QED
    BY <2>1
<1>6. Len(Tail(b)) <= Len(b)
  BY <1>1, <1>2
<1> QED
  BY <1>1, <1>2, <1>4, <1>5, <1>6

-----------------------------------------------------------------------------
\* The table.

LEMMA TableIsFinite ==
    /\ IsFiniteSet(Table) /\ IsFiniteSet(Table') /\ Table \subseteq Fds /\ Table' \subseteq Fds
    /\ Cardinality(Table) \in Nat /\ Cardinality(Table') \in Nat
<1>1. Table \subseteq Fds /\ Table' \subseteq Fds
  BY DEF Table
<1>2. IsFiniteSet(Table) /\ IsFiniteSet(Table')
  BY <1>1, FdsAssumption, FS_Subset
<1> QED
  BY <1>1, <1>2, FS_CardinalityType

\* A free descriptor is outside the table.
LEMMA FreeFd ==
    ASSUME TableConsistent, Free # {}
    PROVE  /\ LowestFree \in Fds /\ LowestFree \notin Table /\ LowestFree \in Free
           /\ conns[LowestFree] = NoConn
<1>1. Free \subseteq Nat
  BY FdsAssumption DEF Free
<1>2. LowestFree \in Free
  BY <1>1, MinIsLeast DEF LowestFree
<1> QED
  BY <1>2 DEF Free, TableConsistent, Table

\* The server begins without connections.
LEMMA IInit == Init => IInv
<1> SUFFICES ASSUME Init PROVE IInv
  OBVIOUS
<1> USE FdsAssumption, NamesAssumption, LimitsAssumption
<1>1. Table = {} /\ Open = {}
  BY DEF Init, Table, Open
<1>2. batch \in Seq(Events) /\ Len(batch) = 0
  BY EmptySeq DEF Init
<1>3. TypeOK
  BY <1>2 DEF Init, TypeOK
<1>4. TableConsistent
  BY <1>1, <1>3, FS_EmptySet DEF Init, TableConsistent
<1>5. EventsHitTheirConnection
  BY <1>2 DEF EventsHitTheirConnection
<1>6. BatchInv
  BY <1>2 DEF Init, BatchInv
<1>7. SweepInv
  BY <1>1 DEF Init, SweepInv
<1> QED
  BY <1>4, <1>5, <1>6, <1>7 DEF IInv

\* conn_close on some of the connections in the table.
LEMMA CloseStep ==
    ASSUME TableConsistent, NEW closed, closed \subseteq Table, CloseConnections(closed)
    PROVE  /\ Table' = Table \ closed /\ Open' = Open \ closed
           /\ \A fd \in Table' : UNCHANGED <<conns[fd], kernel[fd], idle[fd]>>
           /\ watched' = watched \ closed /\ live' = Cardinality(Table') /\ live' <= live
           /\ conns' \in [Fds -> Conn \cup {NoConn}]
      /\ kernel' \in [Fds -> Clients \cup {NoClient}]
           /\ idle' \in [Fds -> Nat] /\ ready' \subseteq Fds /\ hungUp' \subseteq Fds
           /\ watched' \subseteq Fds /\ live' \in Nat
<1>1. /\ conns \in [Fds -> Conn \cup {NoConn}] /\ kernel \in [Fds -> Clients \cup {NoClient}]
      /\ idle \in [Fds -> Nat] /\ ready \subseteq Fds
      /\ hungUp \subseteq Fds /\ watched \subseteq Fds
      /\ live = Cardinality(Table) /\ live \in Nat
  BY DEF TableConsistent, TypeOK
<1>2. /\ conns' = [fd \in Fds |-> IF fd \in closed THEN NoConn ELSE conns[fd]]
      /\ kernel' = [fd \in Fds |-> IF fd \in closed THEN NoClient ELSE kernel[fd]]
      /\ idle' = [fd \in Fds |-> IF fd \in closed THEN 0 ELSE idle[fd]]
      /\ watched' = watched \ closed /\ ready' = ready \ closed /\ hungUp' = hungUp \ closed
      /\ live' = live - Cardinality(closed)
  BY DEF CloseConnections, LiveWithout
<1>3. Table' = Table \ closed /\ Open' = Open \ closed
  BY <1>2 DEF Table, Open
<1>4. /\ conns' \in [Fds -> Conn \cup {NoConn}] /\ kernel' \in [Fds -> Clients \cup {NoClient}]
      /\ idle' \in [Fds -> Nat]
  BY <1>1, <1>2
<1>5. \A fd \in Table' : UNCHANGED <<conns[fd], kernel[fd], idle[fd]>>
  BY <1>2, <1>3, TableIsFinite
<1>6. live' = Cardinality(Table') /\ live' <= live /\ live' \in Nat
  <2>1. Cardinality(Table \ closed) = Cardinality(Table) - Cardinality(Table \cap closed)
    BY TableIsFinite, FS_Difference
  <2>2. Table \cap closed = closed /\ IsFiniteSet(closed)
    BY TableIsFinite, FS_Subset
  <2>3. Cardinality(closed) \in Nat
    BY <2>2, FS_CardinalityType
  <2>4. Cardinality(Table') = Cardinality(Table) - Cardinality(closed)
    BY <1>3, <2>1, <2>2
  <2>5. Cardinality(Table') \in Nat /\ Cardinality(Table) \in Nat
    BY TableIsFinite
  <2>6. live' = Cardinality(Table')
    BY <1>1, <1>2, <2>4
  <2> QED
    BY <1>1, <2>3, <2>4, <2>5, <2>6
<1> QED
  BY <1>1, <1>2, <1>3, <1>4, <1>5, <1>6

\* A batch reports descriptors epoll watches, each once.
LEMMA WakeStep ==
    ASSUME TableConsistent, NEW items, items \subseteq ReadyItems, Wake(items)
    PROVE  /\ batch' \in Seq(Events) /\ Len(batch') <= MaxEvents
           /\ \A j, k \in 1 .. Len(batch') : batch'[j].item = batch'[k].item => j = k
           /\ \A k \in 1 .. Len(batch') : batch'[k].item \in Fds =>
                /\ batch'[k].item \in Table
                /\ batch'[k].client = kernel[batch'[k].item]
<1> USE FdsAssumption, NamesAssumption, LimitsAssumption
<1> DEFINE Items == Fds \cup {Listener, WakePipe}
<1>1. ReadyItems \subseteq watched \cup {Listener, WakePipe} /\ ReadyItems \subseteq Items
  BY DEF ReadyItems, TableConsistent, TypeOK
<1>2. IsFiniteSet(Items)
  <2>1. Items = (Fds \cup {Listener}) \cup {WakePipe}
    OBVIOUS
  <2> QED
    BY <2>1, FS_AddElement
<1>3. IsFiniteSet(items) /\ Cardinality(ReadyItems) \in Nat
  BY <1>1, <1>2, FS_Subset, FS_CardinalityType
<1>4. Cardinality(items) <= MaxEvents
  <2> DEFINE both == {MaxEvents, Cardinality(ReadyItems)}
  <2>1. both \subseteq Nat /\ both # {} /\ MaxEvents \in both
    BY <1>3
  <2>2. \A y \in both : Min(both) <= y
    <3> HIDE DEF both
    <3> QED
      BY <2>1, MinIsLeast
  <2> QED
    BY <2>1, <2>2 DEF Wake
<1>5. PICK order \in SetToSeqs(items) : batch' = [k \in 1 .. Len(order) |-> Event(order[k])]
  BY DEF Wake
<1>6. /\ order \in Seq(items) /\ Len(order) = Cardinality(items) /\ Len(order) \in Nat
      /\ \A j, k \in 1 .. Len(order) : order[j] = order[k] => j = k
      /\ \A k \in 1 .. Len(order) : order[k] \in items
  BY <1>3, OrderOfSet, LenProperties, ElementOfSeq, FS_CardinalityType
<1>7. kernel \in [Fds -> Clients \cup {NoClient}] /\ watched = Table
  BY DEF TableConsistent, TypeOK
<1>8. ASSUME NEW item \in Items
      PROVE  /\ Event(item) \in Events /\ Event(item).item = item
             /\ item \in Fds => Event(item).client = kernel[item]
  <2>1. CASE item \in Fds
    <3>1. Event(item) = [item |-> item, client |-> kernel[item], hup |-> item \in hungUp]
      BY <2>1 DEF Event
    <3>2. kernel[item] \in Clients \cup {NoClient} /\ (item \in hungUp) \in BOOLEAN
      BY <1>7, <2>1
    <3> QED
      BY <3>1, <3>2, <2>1 DEF Events
  <2>2. CASE item \notin Fds
    <3>1. Event(item) = [item |-> item, client |-> NoClient, hup |-> FALSE]
      BY <2>2 DEF Event
    <3> QED
      BY <3>1, <2>2 DEF Events
  <2> QED
    BY <2>1, <2>2
<1>9. ASSUME NEW k \in 1 .. Len(order)
      PROVE  order[k] \in Items /\ (order[k] \in Fds => order[k] \in Table)
  BY <1>1, <1>6, <1>7
<1>10. batch' \in Seq(Events) /\ Len(batch') = Len(order)
  <2>1. batch' \in [1 .. Len(order) -> Events]
    BY <1>5, <1>8, <1>9
  <2>2. batch' \in Seq(Events)
    BY <1>6, <2>1, SeqDef
  <2> QED
    BY <1>6, <2>1, <2>2, LenProperties
<1>11. \A k \in 1 .. Len(order) :
         /\ batch'[k].item = order[k]
         /\ order[k] \in Fds => batch'[k].client = kernel[order[k]]
  BY <1>5, <1>8, <1>9
<1>12. batch' \in Seq(Events) /\ Len(batch') <= MaxEvents
  BY <1>4, <1>6, <1>10
<1>13. \A j, k \in 1 .. Len(batch') : batch'[j].item = batch'[k].item => j = k
  BY <1>6, <1>10, <1>11
<1>14. ASSUME NEW k \in 1 .. Len(batch'), batch'[k].item \in Fds
       PROVE  batch'[k].item \in Table /\ batch'[k].client = kernel[batch'[k].item]
  <2>1. k \in 1 .. Len(order) /\ batch'[k].item = order[k]
    BY <1>10, <1>11
  <2>2. order[k] \in Fds
    BY <1>14, <2>1
  <2> QED
    BY <1>9, <1>11, <2>1, <2>2
<1> QED
  BY <1>12, <1>13, <1>14

-----------------------------------------------------------------------------
\* What steps have in common.

\* A step that leaves the table, the counters and the batch alone.
LEMMA QuietStep ==
    IInv /\ UNCHANGED <<table, counters, batch>> /\ TypeOK' /\ (pc' = "done" => pc = "done")
    => /\ TableConsistent' /\ EventsHitTheirConnection' /\ Table' = Table
       /\ \A j, k \in 1 .. Len(batch') : batch'[j].item = batch'[k].item => j = k
<1>1. SUFFICES ASSUME IInv, UNCHANGED <<table, counters, batch>>, TypeOK',
                      pc' = "done" => pc = "done"
               PROVE  /\ TableConsistent' /\ EventsHitTheirConnection' /\ Table' = Table
                      /\ \A j, k \in 1 .. Len(batch') :
                           batch'[j].item = batch'[k].item => j = k
  OBVIOUS
<1>2. UNCHANGED <<conns, kernel, watched, live, peak, total, batch>>
  BY <1>1 DEF table, counters
<1>3. Table' = Table /\ Open' = Open
  BY <1>2 DEF Table, Open
<1>4. TableConsistent'
  BY <1>1, <1>2, <1>3 DEF IInv, TableConsistent
<1>5. EventsHitTheirConnection'
  BY <1>1, <1>2 DEF IInv, EventsHitTheirConnection
<1>6. \A j, k \in 1 .. Len(batch') : batch'[j].item = batch'[k].item => j = k
  BY <1>1, <1>2 DEF IInv, BatchInv
<1> QED
  BY <1>3, <1>4, <1>5, <1>6

\* Taking the first event of a batch: the events left are about connections
\* the step does not replace.
LEMMA TakeEvent ==
    /\ IInv /\ batch # <<>> /\ batch' = Tail(batch)
    /\ \A fd \in Table : fd # NextEvent.item =>
         conns'[fd] # NoConn /\ conns'[fd].client = conns[fd].client
    => /\ batch' \in Seq(Events) /\ Len(batch') <= MaxEvents
       /\ EventsHitTheirConnection'
       /\ \A j, k \in 1 .. Len(batch') : batch'[j].item = batch'[k].item => j = k
<1>1. SUFFICES ASSUME IInv, batch # <<>>, batch' = Tail(batch),
                      \A fd \in Table : fd # NextEvent.item =>
                        conns'[fd] # NoConn /\ conns'[fd].client = conns[fd].client
               PROVE  /\ batch' \in Seq(Events) /\ Len(batch') <= MaxEvents
                      /\ EventsHitTheirConnection'
                      /\ \A j, k \in 1 .. Len(batch') :
                           batch'[j].item = batch'[k].item => j = k
  OBVIOUS
<1>2. batch \in Seq(Events) /\ Len(batch) <= MaxEvents
  BY <1>1 DEF IInv, TableConsistent, TypeOK
<1>3. \A j, k \in 1 .. Len(batch) : batch[j].item = batch[k].item => j = k
  BY <1>1 DEF IInv, BatchInv
<1>4. /\ batch' \in Seq(Events) /\ Len(batch') <= Len(batch)
      /\ \A k \in 1 .. Len(batch') :
           /\ \E j \in 1 .. Len(batch) : batch'[k] = batch[j]
           /\ batch'[k].item # NextEvent.item
      /\ \A j, k \in 1 .. Len(batch') : batch'[j].item = batch'[k].item => j = k
  BY <1>1, <1>2, <1>3, RestOfBatch DEF NextEvent
<1>5. Len(batch') <= MaxEvents
  <2>1. Len(batch) \in Nat /\ Len(batch') \in Nat /\ MaxEvents \in Nat
    BY <1>2, <1>4, LenProperties, LimitsAssumption
  <2> QED
    BY <1>2, <1>4, <2>1
<1>6. ASSUME NEW k \in 1 .. Len(batch'), batch'[k].item \in Fds
      PROVE  /\ conns'[batch'[k].item] # NoConn
             /\ conns'[batch'[k].item].client = batch'[k].client
  <2>1. PICK j \in 1 .. Len(batch) : batch'[k] = batch[j]
    BY <1>4
  <2>2. conns[batch[j].item] # NoConn /\ conns[batch[j].item].client = batch[j].client
    BY <1>1, <1>6, <2>1 DEF IInv, EventsHitTheirConnection
  <2>3. batch[j].item \in Table /\ batch[j].item # NextEvent.item
    BY <1>4, <1>6, <2>1, <2>2 DEF Table
  <2> QED
    BY <1>1, <2>1, <2>2, <2>3
<1>7. EventsHitTheirConnection'
  BY <1>6 DEF EventsHitTheirConnection
<1> QED
  BY <1>4, <1>5, <1>7

-----------------------------------------------------------------------------
\* One lemma per action.

LEMMA ConnectKeeps ==
    \A k \in Clients :
      IInv /\ Connect(k) => IInv'
<1>1. SUFFICES ASSUME NEW k \in Clients, IInv, Connect(k) PROVE IInv'
  OBVIOUS
<1> USE FdsAssumption, NamesAssumption, LimitsAssumption
<1>2. TypeOK /\ BatchInv /\ SweepInv
  BY <1>1 DEF IInv, TableConsistent
<1>3. UNCHANGED <<table, counters, batch>> /\ (pc' = "done" => pc = "done")
  BY <1>1 DEF Connect, counters, table, clock, environment
<1>4. TypeOK'
  BY <1>1, <1>2 DEF Connect, TypeOK, table, counters, clock, environment
<1>5. TableConsistent' /\ EventsHitTheirConnection' /\ Table' = Table
  BY <1>1, <1>3, <1>4, QuietStep
<1>6. BatchInv'
  BY <1>1, <1>2 DEF Connect, BatchInv, TypeOK, table, counters, clock, environment
<1>7. SweepInv'
  BY <1>1, <1>2, <1>5, TableIsFinite
  DEF Connect, SweepInv, TypeOK, table, counters, clock, environment
<1> QED
  BY <1>5, <1>6, <1>7 DEF IInv

LEMMA ActivityKeeps ==
    \A fd \in Fds :
      IInv /\ Activity(fd) => IInv'
<1>1. SUFFICES ASSUME NEW fd \in Fds, IInv, Activity(fd) PROVE IInv'
  OBVIOUS
<1> USE FdsAssumption, NamesAssumption, LimitsAssumption
<1>2. TypeOK /\ BatchInv /\ SweepInv
  BY <1>1 DEF IInv, TableConsistent
<1>3. UNCHANGED <<table, counters, batch>> /\ (pc' = "done" => pc = "done")
  BY <1>1 DEF Activity, counters, table, clock, environment
<1>4. TypeOK'
  BY <1>1, <1>2 DEF Activity, TypeOK, table, counters, clock, environment
<1>5. TableConsistent' /\ EventsHitTheirConnection' /\ Table' = Table
  BY <1>1, <1>3, <1>4, QuietStep
<1>6. BatchInv'
  BY <1>1, <1>2 DEF Activity, BatchInv, TypeOK, table, counters, clock, environment
<1>7. SweepInv'
  BY <1>1, <1>2, <1>5, TableIsFinite
  DEF Activity, SweepInv, TypeOK, table, counters, clock, environment
<1> QED
  BY <1>5, <1>6, <1>7 DEF IInv

LEMMA HangUpKeeps ==
    \A fd \in Fds :
      IInv /\ HangUp(fd) => IInv'
<1>1. SUFFICES ASSUME NEW fd \in Fds, IInv, HangUp(fd) PROVE IInv'
  OBVIOUS
<1> USE FdsAssumption, NamesAssumption, LimitsAssumption
<1>2. TypeOK /\ BatchInv /\ SweepInv
  BY <1>1 DEF IInv, TableConsistent
<1>3. UNCHANGED <<table, counters, batch>> /\ (pc' = "done" => pc = "done")
  BY <1>1 DEF HangUp, counters, table, clock, environment
<1>4. TypeOK'
  BY <1>1, <1>2 DEF HangUp, TypeOK, table, counters, clock, environment
<1>5. TableConsistent' /\ EventsHitTheirConnection' /\ Table' = Table
  BY <1>1, <1>3, <1>4, QuietStep
<1>6. BatchInv'
  BY <1>1, <1>2 DEF HangUp, BatchInv, TypeOK, table, counters, clock, environment
<1>7. SweepInv'
  BY <1>1, <1>2, <1>5, TableIsFinite
  DEF HangUp, SweepInv, TypeOK, table, counters, clock, environment
<1> QED
  BY <1>5, <1>6, <1>7 DEF IInv

LEMMA SignalKeeps == IInv /\ Signal => IInv'
<1>1. SUFFICES ASSUME IInv, Signal PROVE IInv'
  OBVIOUS
<1> USE FdsAssumption, NamesAssumption, LimitsAssumption
<1>2. TypeOK /\ BatchInv /\ SweepInv
  BY <1>1 DEF IInv, TableConsistent
<1>3. UNCHANGED <<table, counters, batch>> /\ (pc' = "done" => pc = "done")
  BY <1>1 DEF Signal, counters, table, clock, environment
<1>4. TypeOK'
  <2>1. pipe' \in 0 .. MaxSignals /\ signals' \in 0 .. MaxSignals
    <3>1. /\ pipe' = pipe + 1 /\ signals' = signals + 1 /\ signals < MaxSignals
          /\ pipe <= signals /\ pipe \in Nat /\ signals \in Nat
      BY <1>1, <1>2 DEF Signal, TypeOK, BatchInv
    <3> QED
      BY <3>1
  <2>2. waited' \in 0 .. WaitLimit
    BY <1>1, <1>2 DEF Signal, TypeOK
  <2> QED
    BY <1>1, <1>2, <2>1, <2>2 DEF Signal, TypeOK, table, counters
<1>5. TableConsistent' /\ EventsHitTheirConnection' /\ Table' = Table
  BY <1>1, <1>3, <1>4, QuietStep
<1>6. BatchInv'
  BY <1>1, <1>2 DEF Signal, BatchInv, TypeOK, table, counters, clock, environment
<1>7. SweepInv'
  BY <1>1, <1>2, <1>5, TableIsFinite
  DEF Signal, SweepInv, TypeOK, table, counters, clock, environment
<1> QED
  BY <1>5, <1>6, <1>7 DEF IInv

LEMMA TickKeeps == IInv /\ Tick => IInv'
<1>1. SUFFICES ASSUME IInv, Tick PROVE IInv'
  OBVIOUS
<1> USE FdsAssumption, NamesAssumption, LimitsAssumption
<1>2. TypeOK /\ BatchInv /\ SweepInv
  BY <1>1 DEF IInv, TableConsistent
<1>3. UNCHANGED <<table, counters, batch>> /\ (pc' = "done" => pc = "done")
  BY <1>1 DEF Tick, counters, table, clock, environment
<1>4. TypeOK'
  BY <1>1, <1>2 DEF Tick, TypeOK, table, counters, clock, environment
<1>5. TableConsistent' /\ EventsHitTheirConnection' /\ Table' = Table
  BY <1>1, <1>3, <1>4, QuietStep
<1>6. BatchInv'
  BY <1>1, <1>2 DEF Tick, BatchInv, TypeOK, table, counters, clock, environment
<1>7. SweepInv'
  BY <1>1, <1>2, <1>5, TableIsFinite
  DEF Tick, SweepInv, TypeOK, table, counters, clock, environment, ReadyItems
<1> QED
  BY <1>5, <1>6, <1>7 DEF IInv

LEMMA TimeOutKeeps == IInv /\ TimeOut => IInv'
<1>1. SUFFICES ASSUME IInv, TimeOut PROVE IInv'
  OBVIOUS
<1> USE FdsAssumption, NamesAssumption, LimitsAssumption
<1>2. TypeOK /\ BatchInv /\ SweepInv
  BY <1>1 DEF IInv, TableConsistent
<1>3. UNCHANGED <<table, counters, batch>> /\ (pc' = "done" => pc = "done")
  BY <1>1 DEF TimeOut, counters, table, clock, environment
<1>4. TypeOK'
  BY <1>1, <1>2 DEF TimeOut, TypeOK, table, counters, clock, environment
<1>5. TableConsistent' /\ EventsHitTheirConnection' /\ Table' = Table
  BY <1>1, <1>3, <1>4, QuietStep
<1>6. BatchInv'
  BY <1>1, <1>2 DEF TimeOut, BatchInv, TypeOK, table, counters, clock, environment
<1>7. SweepInv'
  BY <1>1, <1>2, <1>5, TableIsFinite
  DEF TimeOut, SweepInv, TypeOK, table, counters, clock, environment
<1> QED
  BY <1>5, <1>6, <1>7 DEF IInv

LEMMA StopAcceptingKeeps == IInv /\ StopAccepting => IInv'
<1>1. SUFFICES ASSUME IInv, StopAccepting PROVE IInv'
  OBVIOUS
<1> USE FdsAssumption, NamesAssumption, LimitsAssumption
<1>2. TypeOK /\ BatchInv /\ SweepInv
  BY <1>1 DEF IInv, TableConsistent
<1>3. UNCHANGED <<table, counters, batch>> /\ (pc' = "done" => pc = "done")
  BY <1>1 DEF StopAccepting, counters, table, clock, environment
<1>4. TypeOK'
  BY <1>1, <1>2 DEF StopAccepting, TypeOK, table, counters, clock, environment
<1>5. TableConsistent' /\ EventsHitTheirConnection' /\ Table' = Table
  BY <1>1, <1>3, <1>4, QuietStep
<1>6. BatchInv'
  BY <1>1, <1>2 DEF StopAccepting, BatchInv, TypeOK, table, counters, clock, environment
<1>7. SweepInv'
  BY <1>1, <1>2, <1>5, TableIsFinite
  DEF StopAccepting, SweepInv, TypeOK, table, counters, clock, environment
<1> QED
  BY <1>5, <1>6, <1>7 DEF IInv

LEMMA AgainKeeps == IInv /\ Again => IInv'
<1>1. SUFFICES ASSUME IInv, Again PROVE IInv'
  OBVIOUS
<1> USE FdsAssumption, NamesAssumption, LimitsAssumption
<1>2. TypeOK /\ BatchInv /\ SweepInv
  BY <1>1 DEF IInv, TableConsistent
<1>3. UNCHANGED <<table, counters, batch>> /\ (pc' = "done" => pc = "done")
  BY <1>1 DEF Again, counters, table, clock, environment
<1>4. TypeOK'
  BY <1>1, <1>2 DEF Again, TypeOK, table, counters, clock, environment
<1>5. TableConsistent' /\ EventsHitTheirConnection' /\ Table' = Table
  BY <1>1, <1>3, <1>4, QuietStep
<1>6. BatchInv'
  BY <1>1, <1>2 DEF Again, BatchInv, TypeOK, table, counters, clock, environment
<1>7. SweepInv'
  BY <1>1, <1>2, <1>5, TableIsFinite
  DEF Again, SweepInv, TypeOK, table, counters, clock, environment, SweepDue
<1> QED
  BY <1>5, <1>6, <1>7 DEF IInv

LEMMA WaitForEventsKeeps == IInv /\ WaitForEvents => IInv'
<1>1. SUFFICES ASSUME IInv, NEW items \in (SUBSET ReadyItems) \ {{}}, Wake(items) PROVE IInv'
  BY DEF WaitForEvents
<1> USE FdsAssumption, NamesAssumption, LimitsAssumption
<1>2. TypeOK /\ TableConsistent /\ BatchInv /\ SweepInv
  BY <1>1 DEF IInv, TableConsistent
<1>3. /\ batch' \in Seq(Events) /\ Len(batch') <= MaxEvents
      /\ \A j, k \in 1 .. Len(batch') : batch'[j].item = batch'[k].item => j = k
      /\ \A k \in 1 .. Len(batch') : batch'[k].item \in Fds =>
           /\ batch'[k].item \in Table
           /\ batch'[k].client = kernel[batch'[k].item]
  BY <1>1, <1>2, WakeStep
<1>4. /\ UNCHANGED <<conns, kernel, watched, live, peak, total>> /\ pc' = "dispatch"
      /\ UNCHANGED <<pipe, signals, idle, sinceSweep>>
  BY <1>1 DEF Wake, table, counters, environment, clock
<1>5. Table' = Table /\ Open' = Open
  BY <1>4 DEF Table, Open
<1>6. TypeOK'
  BY <1>1, <1>2, <1>3 DEF Wake, TypeOK, table, counters, environment, clock
<1>7. TableConsistent'
  BY <1>2, <1>4, <1>5, <1>6 DEF TableConsistent
<1>8. EventsHitTheirConnection'
  BY <1>2, <1>3, <1>4 DEF TableConsistent, EventsHitTheirConnection, Table
<1>9. BatchInv'
  BY <1>2, <1>3, <1>4 DEF BatchInv
<1>10. SweepInv'
  BY <1>2, <1>4, <1>5 DEF SweepInv
<1> QED
  BY <1>7, <1>8, <1>9, <1>10 DEF IInv

LEMMA StartAcceptKeeps == IInv /\ StartAccept => IInv'
<1>1. SUFFICES ASSUME IInv, StartAccept PROVE IInv'
  OBVIOUS
<1> USE FdsAssumption, NamesAssumption, LimitsAssumption
<1>2. TypeOK /\ TableConsistent /\ BatchInv /\ SweepInv
  BY <1>1 DEF IInv, TableConsistent
<1>3. /\ UNCHANGED <<conns, kernel, watched, live, peak, total>> /\ pc' = "accept"
      /\ UNCHANGED <<pipe, signals, idle, sinceSweep>>
      /\ batch # <<>> /\ batch' = Tail(batch)
  BY <1>1 DEF StartAccept, table, counters, environment, clock
<1>4. /\ batch' \in Seq(Events) /\ Len(batch') <= MaxEvents
      /\ EventsHitTheirConnection'
      /\ \A j, k \in 1 .. Len(batch') : batch'[j].item = batch'[k].item => j = k
  BY <1>1, <1>3, TakeEvent DEF Table
<1>5. Table' = Table /\ Open' = Open
  BY <1>3 DEF Table, Open
<1>6. TypeOK'
  BY <1>1, <1>2, <1>4 DEF StartAccept, TypeOK, table, counters, environment, clock
<1>7. TableConsistent'
  BY <1>2, <1>3, <1>5, <1>6 DEF TableConsistent
<1>8. BatchInv'
  BY <1>2, <1>3, <1>4 DEF BatchInv
<1>9. SweepInv'
  BY <1>2, <1>3, <1>5 DEF SweepInv
<1> QED
  BY <1>4, <1>7, <1>8, <1>9 DEF IInv

LEMMA DrainPipeKeeps == IInv /\ DrainPipe => IInv'
<1>1. SUFFICES ASSUME IInv, DrainPipe PROVE IInv'
  OBVIOUS
<1> USE FdsAssumption, NamesAssumption, LimitsAssumption
<1>2. TypeOK /\ TableConsistent /\ BatchInv /\ SweepInv
  BY <1>1 DEF IInv, TableConsistent
<1>3. /\ UNCHANGED <<conns, kernel, watched, live, peak, total>> /\ UNCHANGED pc
      /\ UNCHANGED <<signals, idle, sinceSweep>> /\ pipe' = 0 /\ pc = "dispatch"
      /\ batch # <<>> /\ batch' = Tail(batch)
  BY <1>1 DEF DrainPipe, table, counters, clock
<1>4. /\ batch' \in Seq(Events) /\ Len(batch') <= MaxEvents
      /\ EventsHitTheirConnection'
      /\ \A j, k \in 1 .. Len(batch') : batch'[j].item = batch'[k].item => j = k
  BY <1>1, <1>3, TakeEvent DEF Table
<1>5. Table' = Table /\ Open' = Open
  BY <1>3 DEF Table, Open
<1>6. TypeOK'
  <2>1. pipe' \in 0 .. MaxSignals /\ running' \in BOOLEAN
    <3>1. pipe' = 0 /\ running' = FALSE
      BY <1>1 DEF DrainPipe
    <3>2. 0 \in 0 .. MaxSignals
      OBVIOUS
    <3> QED
      BY <3>1, <3>2
  <2> QED
    BY <1>1, <1>2, <1>4, <2>1 DEF DrainPipe, TypeOK, table, counters, clock
<1>7. TableConsistent'
  BY <1>2, <1>3, <1>5, <1>6 DEF TableConsistent
<1>8. BatchInv'
  BY <1>2, <1>3, <1>4 DEF BatchInv, TypeOK
<1>9. SweepInv'
  BY <1>2, <1>3, <1>5 DEF SweepInv
<1> QED
  BY <1>4, <1>7, <1>8, <1>9 DEF IInv

LEMMA CloseOnEventKeeps == IInv /\ CloseOnEvent => IInv'
<1>1. SUFFICES ASSUME IInv, CloseOnEvent PROVE IInv'
  OBVIOUS
<1> USE FdsAssumption, NamesAssumption, LimitsAssumption
<1> DEFINE closed == {NextEvent.item}
<1>2. TypeOK /\ TableConsistent /\ BatchInv /\ SweepInv
  BY <1>1 DEF IInv, TableConsistent
<1>3. /\ UNCHANGED <<backlog, pipe, signals, connects, pc, running, sinceSweep, waited,
                     peak, total>>
      /\ pc = "dispatch" /\ batch # <<>> /\ batch' = Tail(batch)
      /\ closed \subseteq Table /\ CloseConnections(closed)
  BY <1>1 DEF CloseOnEvent
<1>4. /\ Table' = Table \ closed /\ Open' = Open \ closed
      /\ \A fd \in Table' : UNCHANGED <<conns[fd], kernel[fd], idle[fd]>>
      /\ watched' = watched \ closed /\ live' = Cardinality(Table') /\ live' <= live
      /\ conns' \in [Fds -> Conn \cup {NoConn}]
      /\ kernel' \in [Fds -> Clients \cup {NoClient}]
      /\ idle' \in [Fds -> Nat] /\ ready' \subseteq Fds /\ hungUp' \subseteq Fds
      /\ watched' \subseteq Fds /\ live' \in Nat
  BY <1>2, <1>3, CloseStep
<1>5. \A fd \in Table : fd # NextEvent.item =>
        conns'[fd] # NoConn /\ conns'[fd].client = conns[fd].client
  BY <1>4 DEF Table
<1>6. /\ batch' \in Seq(Events) /\ Len(batch') <= MaxEvents
      /\ EventsHitTheirConnection'
      /\ \A j, k \in 1 .. Len(batch') : batch'[j].item = batch'[k].item => j = k
  BY <1>1, <1>3, <1>5, TakeEvent
<1>7. TypeOK'
  BY <1>2, <1>3, <1>4, <1>6 DEF TypeOK
<1>8. TableConsistent'
  <2>1. watched' = Table' /\ Open' = Table' /\ (\A fd \in Table' : conns'[fd].client = kernel'[fd])
    BY <1>2, <1>4 DEF TableConsistent
  <2>2. live' = Cardinality(Table') /\ live' <= peak' /\ peak' <= total' /\ pc' # "done"
    BY <1>2, <1>3, <1>4 DEF TableConsistent, TypeOK
  <2> QED
    BY <1>7, <2>1, <2>2 DEF TableConsistent
<1>9. BatchInv'
  BY <1>2, <1>3, <1>6 DEF BatchInv
<1>10. SweepInv'
  BY <1>2, <1>3, <1>4 DEF SweepInv
<1> QED
  BY <1>6, <1>8, <1>9, <1>10 DEF IInv

LEMMA SweepKeeps == IInv /\ Sweep => IInv'
<1>1. SUFFICES ASSUME IInv, Sweep PROVE IInv'
  OBVIOUS
<1> USE FdsAssumption, NamesAssumption, LimitsAssumption
<1> DEFINE closed == {fd \in Table : idle[fd] > IdleLimit}
<1>2. TypeOK /\ TableConsistent /\ BatchInv /\ SweepInv
  BY <1>1 DEF IInv, TableConsistent
<1>3. /\ UNCHANGED <<backlog, pipe, signals, connects, pc, batch, running, waited,
                     peak, total>>
      /\ pc = "dispatch" /\ batch = <<>> /\ sinceSweep' = 0
      /\ closed \subseteq Table /\ CloseConnections(closed)
  BY <1>1 DEF Sweep, BatchDone
<1>4. /\ Table' = Table \ closed /\ Open' = Open \ closed
      /\ \A fd \in Table' : UNCHANGED <<conns[fd], kernel[fd], idle[fd]>>
      /\ watched' = watched \ closed /\ live' = Cardinality(Table') /\ live' <= live
      /\ conns' \in [Fds -> Conn \cup {NoConn}]
      /\ kernel' \in [Fds -> Clients \cup {NoClient}]
      /\ idle' \in [Fds -> Nat] /\ ready' \subseteq Fds /\ hungUp' \subseteq Fds
      /\ watched' \subseteq Fds /\ live' \in Nat
  <2> HIDE DEF closed
  <2> QED
    BY <1>2, <1>3, CloseStep
<1>5. \A fd \in Table' : idle'[fd] <= IdleLimit
  BY <1>2, <1>4, TableIsFinite DEF TypeOK
<1> HIDE DEF closed
<1>6. batch' = batch /\ Len(batch') = 0
  BY <1>3, EmptySeq
<1>7. EventsHitTheirConnection'
  BY <1>6 DEF EventsHitTheirConnection
<1>8. TypeOK'
  BY <1>2, <1>3, <1>4 DEF TypeOK
<1>9. TableConsistent'
  <2>1. watched' = Table' /\ Open' = Table' /\ (\A fd \in Table' : conns'[fd].client = kernel'[fd])
    BY <1>2, <1>4 DEF TableConsistent
  <2>2. live' = Cardinality(Table') /\ live' <= peak' /\ peak' <= total' /\ pc' # "done"
    BY <1>2, <1>3, <1>4 DEF TableConsistent, TypeOK
  <2> QED
    BY <1>8, <2>1, <2>2 DEF TableConsistent
<1>10. BatchInv'
  BY <1>2, <1>3, <1>6 DEF BatchInv
<1>11. SweepInv'
  BY <1>2, <1>3, <1>5, <1>8 DEF SweepInv, TypeOK
<1> QED
  BY <1>7, <1>9, <1>10, <1>11 DEF IInv

LEMMA ExitKeeps == IInv /\ Exit => IInv'
<1>1. SUFFICES ASSUME IInv, Exit PROVE IInv'
  OBVIOUS
<1> USE FdsAssumption, NamesAssumption, LimitsAssumption
<1>2. TypeOK /\ TableConsistent /\ BatchInv /\ SweepInv
  BY <1>1 DEF IInv, TableConsistent
<1>3. /\ UNCHANGED <<pipe, signals, connects, batch, running, sinceSweep, waited, peak, total>>
      /\ backlog' = {} /\ pc = "exit" /\ pc' = "done"
      /\ CloseConnections(Table)
  BY <1>1 DEF Exit, ClosedAtExit
<1>4. /\ Table' = Table \ Table /\ Open' = Open \ Table
      /\ watched' = watched \ Table /\ live' = Cardinality(Table') /\ live' <= live
      /\ conns' \in [Fds -> Conn \cup {NoConn}]
      /\ kernel' \in [Fds -> Clients \cup {NoClient}]
      /\ idle' \in [Fds -> Nat] /\ ready' \subseteq Fds /\ hungUp' \subseteq Fds
      /\ watched' \subseteq Fds /\ live' \in Nat
  BY <1>2, <1>3, CloseStep
<1>5. Table' = {} /\ Open' = {} /\ watched' = {}
  BY <1>2, <1>4 DEF TableConsistent
<1>6. batch' = <<>> /\ Len(batch') = 0
  BY <1>2, <1>3, EmptySeq DEF BatchInv
<1>7. EventsHitTheirConnection'
  BY <1>6 DEF EventsHitTheirConnection
<1>8. TypeOK'
  BY <1>2, <1>3, <1>4 DEF TypeOK
<1>9. TableConsistent'
  <2>1. live' = Cardinality(Table') /\ live' <= peak' /\ peak' <= total'
    BY <1>2, <1>3, <1>4 DEF TableConsistent, TypeOK
  <2> QED
    BY <1>5, <1>8, <2>1 DEF TableConsistent
<1>10. BatchInv'
  BY <1>2, <1>3, <1>6 DEF BatchInv
<1>11. SweepInv'
  BY <1>2, <1>3, <1>5 DEF SweepInv
<1> QED
  BY <1>7, <1>9, <1>10, <1>11 DEF IInv

LEMMA ServeKeeps == IInv /\ Serve => IInv'
<1>1. SUFFICES ASSUME IInv, Serve PROVE IInv'
  OBVIOUS
<1> USE FdsAssumption, NamesAssumption, LimitsAssumption
<1> DEFINE fd == NextEvent.item
<1>2. TypeOK /\ TableConsistent /\ BatchInv /\ SweepInv
  BY <1>1 DEF IInv, TableConsistent
<1>3. PICK closing \in {conns[fd].closing, TRUE}, pending \in BOOLEAN, moved \in BOOLEAN,
           more \in BOOLEAN :
        /\ conns' = [conns EXCEPT ![fd].closing = closing, ![fd].pending = pending]
        /\ idle' = [idle EXCEPT ![fd] = IF moved THEN 0 ELSE @]
        /\ ready' = IF more THEN ready ELSE ready \ {fd}
  BY <1>1 DEF Serve
<1>4. /\ UNCHANGED <<kernel, watched, hungUp, backlog, pipe, signals, connects, pc,
                     running, sinceSweep, waited, live, peak, total>>
      /\ pc = "dispatch" /\ batch # <<>> /\ batch' = Tail(batch) /\ fd \in Table
  BY <1>1 DEF Serve, counters
<1>5. conns[fd] \in Conn /\ fd \in Fds /\ conns \in [Fds -> Conn \cup {NoConn}]
      /\ idle \in [Fds -> Nat]
  BY <1>2, <1>4 DEF TypeOK, Table
<1> HIDE DEF fd
<1>6. closing \in BOOLEAN
  BY <1>3, <1>5 DEF Conn
<1> DEFINE served == [client |-> conns[fd].client, closing |-> closing, pending |-> pending]
<1>7. served \in Conn /\ served # NoConn /\ served.client = conns[fd].client
  <2>1. conns[fd].client \in Clients
    BY <1>5 DEF Conn
  <2>2. served \in Conn
    BY <1>6, <2>1 DEF Conn
  <2> QED
    BY <2>2
<1>8. conns' = [conns EXCEPT ![fd] = served]
  <2>1. \A old \in Conn : [[old EXCEPT !.closing = closing] EXCEPT !.pending = pending]
                          = [client |-> old.client, closing |-> closing, pending |-> pending]
    <3>1. TAKE old \in Conn
    <3>2. PICK c \in Clients, x \in BOOLEAN, y \in BOOLEAN :
            old = [client |-> c, closing |-> x, pending |-> y]
      BY DEF Conn
    <3>3. [old EXCEPT !.closing = closing] = [client |-> c, closing |-> closing, pending |-> y]
      BY <3>2
    <3>4. [[client |-> c, closing |-> closing, pending |-> y] EXCEPT !.pending = pending]
          = [client |-> c, closing |-> closing, pending |-> pending]
      OBVIOUS
    <3>5. old.client = c
      BY <3>2
    <3>6. [[old EXCEPT !.closing = closing] EXCEPT !.pending = pending]
          = [client |-> c, closing |-> closing, pending |-> pending]
      BY <3>3, <3>4
    <3> QED
      BY <3>5, <3>6
  <2>2. conns' = [[conns EXCEPT ![fd].closing = closing] EXCEPT ![fd].pending = pending]
    BY <1>3
  <2>3. conns' = [conns EXCEPT ![fd] =
                   [[conns[fd] EXCEPT !.closing = closing] EXCEPT !.pending = pending]]
    BY <1>5, <2>2
  <2> QED
    BY <1>5, <2>1, <2>3
<1> HIDE DEF served
<1>9. /\ conns' \in [Fds -> Conn \cup {NoConn}]
      /\ \A other \in Fds : other # fd => conns'[other] = conns[other]
      /\ conns'[fd] = served
  BY <1>5, <1>7, <1>8
<1>10. Table' = Table /\ Open' = Open
  BY <1>4, <1>7, <1>9 DEF Table, Open
<1>11. /\ idle' \in [Fds -> Nat] /\ \A other \in Fds : idle'[other] <= idle[other]
       /\ ready' \subseteq Fds
  <2>1. \A other \in Fds : idle'[other] = IF other = fd /\ moved THEN 0 ELSE idle[other]
    BY <1>3, <1>5
  <2>2. ready' \subseteq Fds
    BY <1>2, <1>3 DEF TypeOK
  <2>3. idle' \in [Fds -> Nat]
    BY <1>3, <1>5
  <2> QED
    BY <1>5, <2>1, <2>2, <2>3
<1>12. /\ batch' \in Seq(Events) /\ Len(batch') <= MaxEvents
       /\ EventsHitTheirConnection'
       /\ \A j, k \in 1 .. Len(batch') : batch'[j].item = batch'[k].item => j = k
  <2>1. \A other \in Table : other # NextEvent.item =>
          conns'[other] # NoConn /\ conns'[other].client = conns[other].client
    BY <1>9 DEF Table, fd
  <2> QED
    BY <1>1, <1>4, <2>1, TakeEvent
<1>13. TypeOK'
  BY <1>2, <1>4, <1>9, <1>11, <1>12 DEF TypeOK
<1>14. TableConsistent'
  <2>1. \A other \in Table : conns'[other].client = kernel[other]
    BY <1>2, <1>7, <1>9 DEF TableConsistent, Table
  <2> QED
    BY <1>2, <1>4, <1>10, <1>13, <2>1 DEF TableConsistent
<1>15. BatchInv'
  BY <1>2, <1>4, <1>12 DEF BatchInv
<1>16. SweepInv'
  <2>1. \A other \in Table' : idle'[other] <= IdleLimit + sinceSweep'
    <3>1. TAKE other \in Table'
    <3>2. /\ idle'[other] <= idle[other] /\ idle[other] <= IdleLimit + sinceSweep
          /\ idle'[other] \in Nat /\ idle[other] \in Nat /\ sinceSweep \in Nat
      BY <1>2, <1>5, <1>10, <1>11, TableIsFinite DEF SweepInv, TypeOK
    <3> QED
      BY <1>4, <3>2
  <2> QED
    BY <1>2, <1>4, <2>1 DEF SweepInv
<1> QED
  BY <1>12, <1>14, <1>15, <1>16 DEF IInv

LEMMA AcceptKeeps == \A k \in Clients : IInv /\ Accept(k) => IInv'
<1>1. SUFFICES ASSUME NEW k \in Clients, IInv, Accept(k) PROVE IInv'
  OBVIOUS
<1> USE FdsAssumption, NamesAssumption, LimitsAssumption
<1> DEFINE new == [client |-> k, closing |-> FALSE, pending |-> TRUE]
<1>2. TypeOK /\ TableConsistent /\ BatchInv /\ SweepInv
  BY <1>1 DEF IInv, TableConsistent
<1>3. /\ LowestFree \in Fds /\ LowestFree \notin Table /\ LowestFree \in Free
      /\ conns[LowestFree] = NoConn
  BY <1>1, <1>2, FreeFd DEF Accept
<1>4. PICK fd \in Fds : fd = LowestFree
  BY <1>3
<1>5. /\ kernel' = [kernel EXCEPT ![fd] = k] /\ conns' = [conns EXCEPT ![fd] = new]
      /\ idle' = [idle EXCEPT ![fd] = 0]
      /\ watched' = watched \cup {fd} /\ ready' = ready \ {fd} /\ hungUp' = hungUp \ {fd}
      /\ backlog' = backlog \ {k}
      /\ live' = live + 1 /\ total' = total + 1 /\ peak' = Max({peak, live + 1})
      /\ UNCHANGED <<pipe, signals, connects, batch, pc, running, sinceSweep, waited>>
      /\ pc = "accept"
  BY <1>1, <1>4 DEF Accept
<1>6. /\ conns \in [Fds -> Conn \cup {NoConn}] /\ kernel \in [Fds -> Clients \cup {NoClient}]
      /\ idle \in [Fds -> Nat] /\ live \in Nat /\ peak \in Nat /\ total \in Nat
      /\ live = Cardinality(Table) /\ live <= peak /\ peak <= total
      /\ watched = Table /\ Open = Table
      /\ \A other \in Table : conns[other].client = kernel[other]
  BY <1>2 DEF TypeOK, TableConsistent
<1>7. new \in Conn /\ new # NoConn /\ new.client = k /\ k # NoClient
  <2>1. new \in Conn
    BY DEF Conn
  <2> QED
    BY <2>1
<1> HIDE DEF new
<1>8. /\ conns' \in [Fds -> Conn \cup {NoConn}] /\ kernel' \in [Fds -> Clients \cup {NoClient}]
      /\ idle' \in [Fds -> Nat]
      /\ conns'[fd] = new /\ kernel'[fd] = k /\ idle'[fd] = 0
      /\ \A other \in Fds : other # fd =>
           /\ conns'[other] = conns[other] /\ kernel'[other] = kernel[other]
           /\ idle'[other] = idle[other]
  BY <1>5, <1>6, <1>7
<1>9. Table' = Table \cup {fd} /\ Open' = Open \cup {fd}
  BY <1>7, <1>8 DEF Table, Open
<1>10. Cardinality(Table') = Cardinality(Table) + 1
  BY <1>3, <1>4, <1>9, TableIsFinite, FS_AddElement
<1>11. peak' \in Nat /\ live' <= peak' /\ peak' <= total' /\ live' \in Nat /\ total' \in Nat
  <2>1. live + 1 \in Nat
    BY <1>6
  <2>2. peak' \in Nat /\ peak' >= live + 1 /\ peak' \in {peak, live + 1}
    BY <1>5, <1>6, <2>1, MaxOfTwo
  <2> QED
    BY <1>5, <1>6, <2>2
<1>12. TypeOK'
  BY <1>2, <1>5, <1>8, <1>11 DEF TypeOK
<1>13. TableConsistent'
  <2>1. \A other \in Table' : conns'[other].client = kernel'[other]
    BY <1>6, <1>7, <1>8, <1>9, TableIsFinite
  <2>2. live' = Cardinality(Table')
    BY <1>5, <1>6, <1>10
  <2> QED
    BY <1>5, <1>6, <1>9, <1>11, <1>12, <2>1, <2>2 DEF TableConsistent
<1>14. EventsHitTheirConnection'
  <2>1. ASSUME NEW j \in 1 .. Len(batch), batch[j].item \in Fds
        PROVE  conns'[batch[j].item] # NoConn
               /\ conns'[batch[j].item].client = batch[j].client
    <3>1. conns[batch[j].item] # NoConn /\ conns[batch[j].item].client = batch[j].client
      BY <1>1, <2>1 DEF IInv, EventsHitTheirConnection
    <3>2. batch[j].item # fd
      BY <1>3, <1>4, <3>1
    <3> QED
      BY <1>8, <2>1, <3>1, <3>2
  <2> QED
    BY <1>5, <2>1 DEF EventsHitTheirConnection
<1>15. BatchInv'
  BY <1>2, <1>5 DEF BatchInv
<1>16. SweepInv'
  <2>1. \A other \in Table' : idle'[other] <= IdleLimit + sinceSweep
    BY <1>2, <1>8, <1>9, TableIsFinite DEF SweepInv, TypeOK
  <2> QED
    BY <1>2, <1>5, <2>1 DEF SweepInv
<1> QED
  BY <1>13, <1>14, <1>15, <1>16 DEF IInv

LEMMA AcceptAndGiveUpKeeps == \A k \in Clients : IInv /\ AcceptAndGiveUp(k) => IInv'
<1>1. SUFFICES ASSUME NEW k \in Clients, IInv, AcceptAndGiveUp(k) PROVE IInv'
  OBVIOUS
<1> USE FdsAssumption, NamesAssumption, LimitsAssumption
<1>2. TypeOK /\ BatchInv /\ SweepInv /\ TableConsistent
  BY <1>1 DEF IInv, TableConsistent
<1>3. conns' = conns
  <2>1. LowestFree \in Fds /\ conns[LowestFree] = NoConn
    BY <1>1, <1>2, FreeFd DEF AcceptAndGiveUp
  <2>2. conns' = [conns EXCEPT ![LowestFree] = NoConn]
    BY <1>1 DEF AcceptAndGiveUp, AfterFailedAdd
  <2>3. conns \in [Fds -> Conn \cup {NoConn}]
    BY <1>2 DEF TypeOK
  <2> QED
    BY <2>1, <2>2, <2>3
<1>4. UNCHANGED <<table, counters, batch>> /\ (pc' = "done" => pc = "done")
  BY <1>1, <1>3 DEF AcceptAndGiveUp, counters, table
<1>5. TypeOK'
  BY <1>1, <1>2, <1>3 DEF AcceptAndGiveUp, TypeOK, counters, clock
<1>6. TableConsistent' /\ EventsHitTheirConnection' /\ Table' = Table
  BY <1>1, <1>4, <1>5, QuietStep
<1>7. BatchInv'
  BY <1>1, <1>2 DEF AcceptAndGiveUp, BatchInv
<1>8. SweepInv'
  BY <1>1, <1>2, <1>6 DEF AcceptAndGiveUp, SweepInv, clock
<1> QED
  BY <1>6, <1>7, <1>8 DEF IInv

LEMMA StutterKeeps == IInv /\ UNCHANGED vars => IInv'
<1>1. SUFFICES ASSUME IInv, UNCHANGED vars PROVE IInv'
  OBVIOUS
<1>2. UNCHANGED <<conns, kernel, watched, live, peak, total, batch, pc, pipe, signals,
                  idle, sinceSweep, waited>>
  BY <1>1 DEF vars
<1>3. TypeOK'
  BY <1>1 DEF IInv, TableConsistent, TypeOK, vars
<1>4. UNCHANGED <<table, counters, batch>>
  BY <1>2 DEF table, counters
<1>5. TableConsistent' /\ EventsHitTheirConnection' /\ Table' = Table
  BY <1>1, <1>2, <1>3, <1>4, QuietStep
<1>6. BatchInv'
  BY <1>1, <1>2 DEF IInv, BatchInv
<1>7. SweepInv'
  BY <1>1, <1>2, <1>5 DEF IInv, SweepInv
<1> QED
  BY <1>5, <1>6, <1>7 DEF IInv

-----------------------------------------------------------------------------
\* The theorems.

\* The inductive invariant holds of every behaviour of the event loop.
THEOREM Invariance == Spec => []IInv
<1>1. IInv /\ [Next]_vars => IInv'
  <2> SUFFICES ASSUME IInv, [Next]_vars PROVE IInv'
    OBVIOUS
  <2>1. CASE Loop
    BY <2>1, WaitForEventsKeeps, TimeOutKeeps, StartAcceptKeeps, AcceptKeeps,
       AcceptAndGiveUpKeeps, StopAcceptingKeeps, DrainPipeKeeps, CloseOnEventKeeps, ServeKeeps,
       SweepKeeps, AgainKeeps, ExitKeeps DEF Loop
  <2>2. CASE Environment
    BY <2>2, ConnectKeeps, ActivityKeeps, HangUpKeeps, SignalKeeps, TickKeeps DEF Environment
  <2>3. CASE UNCHANGED vars
    BY <2>3, StutterKeeps
  <2> QED
    BY <2>1, <2>2, <2>3 DEF Next
<1> QED
  BY IInit, <1>1, PTL DEF Spec

\* The table of connections, the descriptors the kernel has open and the set
\* epoll watches name the same descriptors with the same clients, through
\* every failing step of accept_new and every conn_close, whoever calls it;
\* live, peak and total agree with it; and nothing is left open at the end.
THEOREM TableStaysConsistent == Spec => []TableConsistent
<1>1. IInv => TableConsistent
  BY DEF IInv
<1> QED
  BY <1>1, Invariance, PTL

\* An event that main's loop handles is about the connection that is in
\* conns[fd] now, although other events of the same batch closed connections
\* and accepted new ones, which get the lowest free descriptors.
THEOREM EventsReachTheirConnection == Spec => []EventsHitTheirConnection
<1>1. IInv => EventsHitTheirConnection
  BY DEF IInv
<1> QED
  BY <1>1, Invariance, PTL

\* sweep_idle closes an idle connection within the idle limit, the sweep
\* period and one sleep of epoll_wait, however signals interrupt the sleep.
THEOREM IdleIsBounded == Spec => []IdleBounded
<1>1. IInv => IdleBounded
  <2>1. SUFFICES ASSUME IInv, NEW fd \in Table
                 PROVE  idle[fd] <= IdleLimit + SweepPeriod + WaitLimit - 1
    BY DEF IdleBounded
  <2>2. /\ sinceSweep <= SweepPeriod - 1 + WaitLimit /\ idle[fd] <= IdleLimit + sinceSweep
        /\ sinceSweep \in Nat /\ idle[fd] \in Nat
    BY <2>1, TableIsFinite DEF IInv, SweepInv, TableConsistent, TypeOK
  <2> QED
    BY <2>2, LimitsAssumption
<1> QED
  BY <1>1, Invariance, PTL

-----------------------------------------------------------------------------
\* Induction, as a fact about sets: a set that has 0 and with every number the
\* next has every number, for there is no least number that it has not.
LEMMA NatSet ==
    ASSUME NEW T, 0 \in T, \A n \in Nat : n \in T => n + 1 \in T
    PROVE  Nat \subseteq T
<1> DEFINE less == {ss \in Nat \X Nat : ss[1] < ss[2]}
           rest == Nat \ T
<1>1. SUFFICES ASSUME rest # {} PROVE FALSE
  OBVIOUS
<1>2. IsWellFoundedOn(less, Nat)
  BY NatLessThanWellFounded DEF OpToRel
<1>3. PICK x \in rest : \A y \in rest : ~ (<<y, x>> \in less)
  <2> HIDE DEF less
  <2>1. rest \subseteq Nat /\ rest # {}
    BY <1>1
  <2> HIDE DEF rest
  <2> QED
    BY <1>2, <2>1, WFMin
<1>4. x \in Nat /\ x # 0 /\ x \notin T
  BY <1>3
<1>5. x - 1 \in Nat /\ x - 1 \notin rest
  <2>1. x - 1 \in Nat /\ x - 1 < x
    BY <1>4
  <2>2. <<x - 1, x>> \in less
    BY <1>4, <2>1
  <2> QED
    BY <1>3, <2>1, <2>2
<1> QED
  BY <1>4, <1>5

-----------------------------------------------------------------------------
\* adt.c, tests.c: the two maps.  What a table of chains contains is a set of
\* entries; an operation on a chain is an operation on that set.

Entry == [key : Keys, value : Values]
Elements(s) == {s[j] : j \in 1 .. Len(s)}

\* A chain of bucket b, by the hash h and for n buckets, and a table of n of them.
ChainOf(h, n, b, s) ==
    /\ s \in Seq(Entry)
    /\ \A j \in 1 .. Len(s) : h[s[j].key] % n = b
    /\ \A j, k \in 1 .. Len(s) : s[j].key = s[k].key => j = k
Hashed(h, n, bs) ==
    /\ h \in [Keys -> Nat] /\ n \in Nat
    /\ bs = [b \in 0 .. n - 1 |-> bs[b]]
    /\ \A b \in 0 .. n - 1 : ChainOf(h, n, b, bs[b])
AllIn(n, bs) == UNION {Elements(bs[b]) : b \in 0 .. n - 1}

LEMMA LeastIs ==
    ASSUME NEW S \in SUBSET Nat, S # {}
    PROVE  \E x \in S : \A y \in S : x <= y
<1> DEFINE less == {ss \in Nat \X Nat : ss[1] < ss[2]}
<1>1. IsWellFoundedOn(less, Nat)
  BY NatLessThanWellFounded DEF OpToRel
<1>2. PICK x \in S : \A y \in S : ~ (<<y, x>> \in less)
  <2> HIDE DEF less
  <2> QED
    BY <1>1, WFMin
<1>3. ASSUME NEW y \in S PROVE x <= y
  <2>1. y < x => <<y, x>> \in less
    OBVIOUS
  <2>2. ~ (y < x)
    <3> HIDE DEF less
    <3> QED
      BY <1>2, <2>1
  <2> QED
    BY <2>2
<1> QED
  BY <1>3

LEMMA BucketIs ==
    ASSUME NEW h \in [Keys -> Nat], NEW n \in Nat, n # 0, NEW k \in Keys
    PROVE  h[k] % n \in 0 .. n - 1
<1>1. PICK x \in Nat : x = h[k]
  OBVIOUS
<1>2. x % n \in 0 .. n - 1
  OBVIOUS
<1> QED
  BY <1>1, <1>2

\* An entry more, an entry with another value, an entry less.
LEMMA Pushed ==
    ASSUME NEW h, NEW n, NEW b, NEW s, ChainOf(h, n, b, s),
           NEW e \in Entry, h[e.key] % n = b, \A j \in 1 .. Len(s) : s[j].key # e.key
    PROVE  ChainOf(h, n, b, <<e>> \o s) /\ Elements(<<e>> \o s) = Elements(s) \cup {e}
<1>1. s \in Seq(Entry) /\ Len(s) \in Nat /\ \A j \in 1 .. Len(s) : s[j] \in Entry
  <2>1. s \in Seq(Entry)
    BY DEF ChainOf
  <2> QED
    BY <2>1, LenProperties, ElementOfSeq
<1>2. <<e>> \in Seq(Entry) /\ Len(<<e>>) = 1 /\ <<e>>[1] = e
  OBVIOUS
<1>3. PICK t \in Seq(Entry) : t = <<e>> \o s
  <2>1. <<e>> \o s \in Seq(Entry)
    BY <1>1, <1>2, ConcatProperties
  <2> QED
    BY <2>1
<1>4. /\ Len(t) = Len(<<e>>) + Len(s)
      /\ \A k \in 1 .. Len(<<e>>) + Len(s) :
            t[k] = IF k <= Len(<<e>>) THEN <<e>>[k] ELSE s[k - Len(<<e>>)]
  BY <1>1, <1>2, <1>3, ConcatProperties
<1>5. Len(t) = Len(s) + 1 /\ t[1] = e
  BY <1>1, <1>2, <1>4
<1>6. \A k \in 2 .. Len(s) + 1 : k - 1 \in 1 .. Len(s) /\ t[k] = s[k - 1]
  <2> SUFFICES ASSUME NEW k \in 2 .. Len(s) + 1 PROVE k - 1 \in 1 .. Len(s) /\ t[k] = s[k - 1]
    OBVIOUS
  <2>1. k \in 1 .. Len(<<e>>) + Len(s) /\ ~ (k <= Len(<<e>>)) /\ k - 1 \in 1 .. Len(s)
    BY <1>1, <1>2
  <2> QED
    BY <1>2, <1>4, <2>1
<1>7. \A j \in 1 .. Len(t) : j = 1 \/ j \in 2 .. Len(s) + 1
  BY <1>1, <1>5
<1>8. ASSUME NEW j \in 1 .. Len(t) PROVE h[t[j].key] % n = b
  <2>1. CASE j = 1
    BY <1>5, <2>1
  <2>2. CASE j \in 2 .. Len(s) + 1
    BY <1>6, <2>2 DEF ChainOf
  <2> QED
    BY <1>7, <2>1, <2>2
<1>9. ASSUME NEW j \in 1 .. Len(t), NEW k \in 1 .. Len(t), t[j].key = t[k].key PROVE j = k
  <2>1. CASE j \in 2 .. Len(s) + 1 /\ k \in 2 .. Len(s) + 1
    <3>1. j - 1 = k - 1
      BY <1>6, <1>9, <2>1 DEF ChainOf
    <3> QED
      BY <3>1
  <2>2. CASE j = 1 \/ k = 1
    BY <1>5, <1>6, <1>7, <1>9, <2>2
  <2> QED
    BY <1>7, <2>1, <2>2
<1>10. Elements(t) = Elements(s) \cup {e}
  <2>1. ASSUME NEW x \in Elements(t) PROVE x \in Elements(s) \cup {e}
    <3>1. PICK j \in 1 .. Len(t) : x = t[j]
      BY DEF Elements
    <3> QED
      BY <1>5, <1>6, <1>7, <3>1 DEF Elements
  <2>2. e \in Elements(t)
    <3>1. 1 \in 1 .. Len(t)
      BY <1>1, <1>5
    <3> QED
      BY <1>5, <3>1 DEF Elements
  <2>3. ASSUME NEW j \in 1 .. Len(s) PROVE s[j] \in Elements(t)
    <3>1. j + 1 \in 2 .. Len(s) + 1 /\ j + 1 \in 1 .. Len(t) /\ j + 1 - 1 = j
      BY <1>1, <1>5
    <3>2. t[j + 1] = s[j]
      BY <1>6, <3>1
    <3> QED
      BY <3>1, <3>2 DEF Elements
  <2> QED
    BY <2>1, <2>2, <2>3 DEF Elements
<1>11. ChainOf(h, n, b, t)
  BY <1>3, <1>8, <1>9 DEF ChainOf
<1> QED
  BY <1>3, <1>10, <1>11

LEMMA Changed ==
    ASSUME NEW h, NEW n, NEW b, NEW s, ChainOf(h, n, b, s), NEW p \in 1 .. Len(s), NEW v \in Values
    PROVE  /\ ChainOf(h, n, b, [s EXCEPT ![p].value = v])
           /\ Elements([s EXCEPT ![p].value = v]) =
                 (Elements(s) \ {s[p]}) \cup {[key |-> s[p].key, value |-> v]}
<1>1. s \in Seq(Entry) /\ Len(s) \in Nat /\ \A j \in 1 .. Len(s) : s[j] \in Entry
  <2>1. s \in Seq(Entry)
    BY DEF ChainOf
  <2> QED
    BY <2>1, LenProperties, ElementOfSeq
<1>2. s \in [1 .. Len(s) -> Entry]
  BY <1>1, LenProperties
<1> DEFINE e == [key |-> s[p].key, value |-> v]
           t == [s EXCEPT ![p].value = v]
<1>3. e \in Entry /\ e = [s[p] EXCEPT !.value = v]
  BY <1>1 DEF Entry
<1>4. t \in [1 .. Len(s) -> Entry] /\ t[p] = e /\ \A j \in 1 .. Len(s) : j # p => t[j] = s[j]
  BY <1>2, <1>3
<1>5. e.key = s[p].key
  OBVIOUS
<1> HIDE DEF t, e
<1>6. t \in Seq(Entry) /\ Len(t) = Len(s)
  BY <1>1, <1>4, SeqDef, LenProperties
<1>7. \A j \in 1 .. Len(s) : t[j].key = s[j].key
  BY <1>4, <1>5
<1>8. ChainOf(h, n, b, t)
  BY <1>6, <1>7 DEF ChainOf
<1>9. Elements(t) = (Elements(s) \ {s[p]}) \cup {e}
  <2>1. ASSUME NEW j \in 1 .. Len(s), j # p PROVE t[j] = s[j] /\ s[j] # s[p]
    BY <1>4, <2>1 DEF ChainOf
  <2> QED
    BY <1>4, <1>6, <2>1 DEF Elements
<1> QED
  BY <1>8, <1>9 DEF t, e

LEMMA Dropped ==
    ASSUME NEW h, NEW n, NEW b, NEW s, ChainOf(h, n, b, s), NEW p \in 1 .. Len(s),
           NEW t, t \in Seq(Entry), Len(t) = Len(s) - 1,
           \A j \in 1 .. Len(s) - 1 : t[j] = IF j < p THEN s[j] ELSE s[j + 1]
    PROVE  ChainOf(h, n, b, t) /\ Elements(t) = Elements(s) \ {s[p]}
<1>1. s \in Seq(Entry) /\ Len(s) \in Nat
  <2>1. s \in Seq(Entry)
    BY DEF ChainOf
  <2> QED
    BY <2>1, LenProperties
<1> DEFINE at(j) == IF j < p THEN j ELSE j + 1
<1>2. \A j \in 1 .. Len(t) : at(j) \in 1 .. Len(s) /\ at(j) # p /\ t[j] = s[at(j)]
  BY <1>1
<1>3. \A j, k \in 1 .. Len(t) : at(j) = at(k) => j = k
  BY <1>1
<1>4. \A k \in 1 .. Len(s) : k # p => \E j \in 1 .. Len(t) : at(j) = k
  <2> SUFFICES ASSUME NEW k \in 1 .. Len(s), k # p PROVE \E j \in 1 .. Len(t) : at(j) = k
    OBVIOUS
  <2>1. CASE k < p
    <3>1. k \in 1 .. Len(t) /\ at(k) = k
      BY <1>1, <2>1
    <3> HIDE DEF at
    <3> QED
      BY <3>1
  <2>2. CASE ~ (k < p)
    <3>1. k - 1 \in 1 .. Len(t) /\ at(k - 1) = k
      BY <1>1, <2>2
    <3> HIDE DEF at
    <3> QED
      BY <3>1
  <2> QED
    BY <2>1, <2>2
<1> HIDE DEF at
<1>5. ChainOf(h, n, b, t)
  BY <1>2, <1>3 DEF ChainOf
<1>6. ASSUME NEW j \in 1 .. Len(t) PROVE t[j] \in Elements(s) \ {s[p]}
  <2>1. at(j) \in 1 .. Len(s) /\ at(j) # p /\ t[j] = s[at(j)]
    BY <1>2
  <2>2. s[at(j)] # s[p]
    BY <2>1 DEF ChainOf
  <2> QED
    BY <2>1, <2>2 DEF Elements
<1>7. ASSUME NEW k \in 1 .. Len(s), s[k] # s[p] PROVE s[k] \in Elements(t)
  <2>1. PICK j \in 1 .. Len(t) : at(j) = k
    BY <1>4, <1>7
  <2> QED
    BY <1>2, <2>1 DEF Elements
<1> QED
  BY <1>5, <1>6, <1>7 DEF Elements

\* An entry is in the chain where its key leads, and no other entry has its key.
LEMMA TableIs ==
    ASSUME NEW h, NEW n, NEW bs, Hashed(h, n, bs)
    PROVE  /\ \A b \in 0 .. n - 1 : bs[b] \in Seq(Entry) /\ Len(bs[b]) \in Nat
           /\ AllIn(n, bs) \subseteq Entry
           /\ \A e \in AllIn(n, bs) :
                 /\ h[e.key] % n \in 0 .. n - 1
                 /\ \E j \in 1 .. Len(bs[h[e.key] % n]) : e = bs[h[e.key] % n][j]
           /\ \A b \in 0 .. n - 1 : \A j \in 1 .. Len(bs[b]) : bs[b][j] \in AllIn(n, bs)
           /\ \A e, f \in AllIn(n, bs) : e.key = f.key => e = f
<1>1. \A b \in 0 .. n - 1 : bs[b] \in Seq(Entry) /\ Len(bs[b]) \in Nat
  <2>1. \A b \in 0 .. n - 1 : bs[b] \in Seq(Entry)
    BY DEF Hashed, ChainOf
  <2> QED
    BY <2>1, LenProperties
<1>2. \A b \in 0 .. n - 1 : \A j \in 1 .. Len(bs[b]) : bs[b][j] \in Entry
  BY <1>1, ElementOfSeq
<1>3. AllIn(n, bs) \subseteq Entry
  BY <1>2 DEF AllIn, Elements
<1>4. ASSUME NEW e \in AllIn(n, bs)
      PROVE  /\ h[e.key] % n \in 0 .. n - 1
             /\ \E j \in 1 .. Len(bs[h[e.key] % n]) : e = bs[h[e.key] % n][j]
  <2>1. PICK b \in 0 .. n - 1 : \E j \in 1 .. Len(bs[b]) : e = bs[b][j]
    BY DEF AllIn, Elements
  <2>2. PICK j \in 1 .. Len(bs[b]) : e = bs[b][j]
    BY <2>1
  <2>3. h[bs[b][j].key] % n = b
    BY DEF Hashed, ChainOf
  <2> QED
    BY <2>2, <2>3
<1>5. \A b \in 0 .. n - 1 : \A j \in 1 .. Len(bs[b]) : bs[b][j] \in AllIn(n, bs)
  BY DEF AllIn, Elements
<1>6. ASSUME NEW e \in AllIn(n, bs), NEW f \in AllIn(n, bs), e.key = f.key PROVE e = f
  <2>1. PICK b \in 0 .. n - 1 : b = h[e.key] % n
    BY <1>4
  <2>2. PICK j \in 1 .. Len(bs[b]) : e = bs[b][j]
    BY <1>4, <2>1
  <2>3. PICK k \in 1 .. Len(bs[b]) : f = bs[b][k]
    BY <1>4, <1>6, <2>1
  <2>4. j = k
    BY <1>6, <2>2, <2>3 DEF Hashed, ChainOf
  <2> QED
    BY <2>2, <2>3, <2>4
<1> QED
  BY <1>1, <1>3, <1>4, <1>5, <1>6

Put(bs, b, t) == [bs EXCEPT ![b] = t]

LEMMA ChainChanges ==
    ASSUME NEW h, NEW n, NEW bs, Hashed(h, n, bs), NEW b \in 0 .. n - 1, NEW t, ChainOf(h, n, b, t)
    PROVE  /\ Hashed(h, n, Put(bs, b, t))
           /\ AllIn(n, Put(bs, b, t)) = (AllIn(n, bs) \ Elements(bs[b])) \cup Elements(t)
<1> DEFINE new == Put(bs, b, t)
<1>1. /\ new = [c \in 0 .. n - 1 |-> new[c]]
      /\ new[b] = t /\ \A c \in 0 .. n - 1 : c # b => new[c] = bs[c]
  <2>1. DOMAIN bs = 0 .. n - 1
    BY DEF Hashed
  <2> QED
    BY <2>1 DEF Put
<1> HIDE DEF new
<1>2. Hashed(h, n, new)
  BY <1>1 DEF Hashed
<1>3. ASSUME NEW c \in 0 .. n - 1, c # b, NEW e \in Elements(bs[c]) PROVE e \notin Elements(bs[b])
  <2>1. h[e.key] % n = c
    BY DEF Hashed, ChainOf, Elements
  <2>2. \A f \in Elements(bs[b]) : h[f.key] % n = b
    BY DEF Hashed, ChainOf, Elements
  <2> QED
    BY <1>3, <2>1, <2>2
<1>4. AllIn(n, new) = (AllIn(n, bs) \ Elements(bs[b])) \cup Elements(t)
  <2>1. ASSUME NEW e \in AllIn(n, new) PROVE e \in (AllIn(n, bs) \ Elements(bs[b])) \cup Elements(t)
    <3>1. PICK c \in 0 .. n - 1 : e \in Elements(new[c])
      BY DEF AllIn
    <3>2. CASE c = b
      BY <1>1, <3>1, <3>2
    <3>3. CASE c # b
      <4>1. e \in Elements(bs[c])
        BY <1>1, <3>1, <3>3
      <4>2. e \in AllIn(n, bs)
        BY <4>1 DEF AllIn
      <4> QED
        BY <1>3, <3>3, <4>1, <4>2
    <3> QED
      BY <3>2, <3>3
  <2>2. Elements(t) \subseteq AllIn(n, new)
    BY <1>1 DEF AllIn
  <2>3. ASSUME NEW e \in AllIn(n, bs), e \notin Elements(bs[b]) PROVE e \in AllIn(n, new)
    <3>1. PICK c \in 0 .. n - 1 : e \in Elements(bs[c])
      BY DEF AllIn
    <3>2. c # b
      BY <2>3, <3>1
    <3> QED
      BY <1>1, <3>1, <3>2 DEF AllIn
  <2> QED
    BY <2>1, <2>2, <2>3
<1> QED
  BY <1>2, <1>4 DEF new

\* A set of entries without those of a key.
Without(S, k) == {e \in S : e.key # k}
With(S, k, v) == Without(S, k) \cup {[key |-> k, value |-> v]}

Pushing(bs, b, e) == [bs EXCEPT ![b] = <<e>> \o @]
Changing(bs, b, p, v) == [bs EXCEPT ![b][p].value = v]

LEMMA TablePushes ==
    ASSUME NEW h, NEW n, NEW bs, Hashed(h, n, bs), NEW k \in Keys, NEW v \in Values, n # 0,
           NEW b, b = h[k] % n, \A j \in 1 .. Len(bs[b]) : bs[b][j].key # k
    PROVE  /\ Hashed(h, n, Pushing(bs, b, [key |-> k, value |-> v]))
           /\ \A f \in AllIn(n, bs) : f.key # k
           /\ AllIn(n, Pushing(bs, b, [key |-> k, value |-> v])) = With(AllIn(n, bs), k, v)
<1> DEFINE e == [key |-> k, value |-> v]
<1>1. b \in 0 .. n - 1
  BY BucketIs DEF Hashed
<1>2. e \in Entry /\ e.key = k
  BY DEF Entry
<1>3. ChainOf(h, n, b, bs[b]) /\ DOMAIN bs = 0 .. n - 1
  BY <1>1 DEF Hashed
<1>4. Elements(bs[b]) \subseteq AllIn(n, bs)
  BY <1>1 DEF AllIn
<1>5. /\ Hashed(h, n, Pushing(bs, b, e))
      /\ \A f \in AllIn(n, bs) : f.key # k
      /\ AllIn(n, Pushing(bs, b, e)) = With(AllIn(n, bs), k, v)
  <2> HIDE DEF e
  <2>1. ChainOf(h, n, b, <<e>> \o bs[b]) /\ Elements(<<e>> \o bs[b]) = Elements(bs[b]) \cup {e}
    BY <1>2, <1>3, Pushed
  <2>2. PICK t : t = <<e>> \o bs[b]
    OBVIOUS
  <2>3. Pushing(bs, b, e) = Put(bs, b, t)
    BY <1>1, <1>3, <2>2 DEF Put, Pushing
  <2>4. /\ Hashed(h, n, Put(bs, b, t))
        /\ AllIn(n, Put(bs, b, t)) = (AllIn(n, bs) \ Elements(bs[b])) \cup Elements(t)
    <3>1. ChainOf(h, n, b, t)
      BY <2>1, <2>2
    <3>2. Hashed(h, n, Put(bs, b, t))
      BY <1>1, <3>1, ChainChanges
    <3>3. AllIn(n, Put(bs, b, t)) = (AllIn(n, bs) \ Elements(bs[b])) \cup Elements(t)
      BY <1>1, <3>1, ChainChanges
    <3> QED
      BY <3>2, <3>3
  <2>5. \A f \in AllIn(n, bs) : f.key # k
    BY TableIs
  <2>6. With(AllIn(n, bs), k, v) = AllIn(n, bs) \cup {e}
    BY <2>5 DEF With, Without, e
  <2> QED
    BY <1>4, <2>1, <2>2, <2>3, <2>4, <2>5, <2>6
<1> QED
  BY <1>5

LEMMA TableChanges ==
    ASSUME NEW h, NEW n, NEW bs, Hashed(h, n, bs), NEW k \in Keys, NEW v \in Values, n # 0,
           NEW b, b = h[k] % n, NEW p \in 1 .. Len(bs[b]), bs[b][p].key = k
    PROVE  /\ Hashed(h, n, Changing(bs, b, p, v))
           /\ bs[b][p] \in AllIn(n, bs)
           /\ AllIn(n, Changing(bs, b, p, v)) = With(AllIn(n, bs), k, v)
<1> DEFINE e == [key |-> k, value |-> v]
<1>1. b \in 0 .. n - 1
  BY BucketIs DEF Hashed
<1>2. e \in Entry /\ e.key = k
  BY DEF Entry
<1>3. ChainOf(h, n, b, bs[b]) /\ DOMAIN bs = 0 .. n - 1
  BY <1>1 DEF Hashed
<1>4. Elements(bs[b]) \subseteq AllIn(n, bs)
  BY <1>1 DEF AllIn
<1>5. /\ Hashed(h, n, Changing(bs, b, p, v))
      /\ bs[b][p] \in AllIn(n, bs)
      /\ AllIn(n, Changing(bs, b, p, v)) = With(AllIn(n, bs), k, v)
  <2>1. PICK t : t = [bs[b] EXCEPT ![p].value = v]
    OBVIOUS
  <2>2. ChainOf(h, n, b, t) /\ Elements(t) = (Elements(bs[b]) \ {bs[b][p]}) \cup {e}
    <3>1. PICK s : s = bs[b]
      OBVIOUS
    <3>2. ChainOf(h, n, b, s) /\ p \in 1 .. Len(s)
      BY <1>3, <3>1
    <3>3. /\ ChainOf(h, n, b, [s EXCEPT ![p].value = v])
          /\ Elements([s EXCEPT ![p].value = v]) =
                (Elements(s) \ {s[p]}) \cup {[key |-> s[p].key, value |-> v]}
      <4>1. ChainOf(h, n, b, [s EXCEPT ![p].value = v])
        BY <3>2, Changed
      <4>2. Elements([s EXCEPT ![p].value = v]) =
               (Elements(s) \ {s[p]}) \cup {[key |-> s[p].key, value |-> v]}
        BY <3>2, Changed
      <4> QED
        BY <4>1, <4>2
    <3>4. t = [s EXCEPT ![p].value = v] /\ e = [key |-> s[p].key, value |-> v]
      BY <2>1, <3>1
    <3> QED
      BY <3>1, <3>3, <3>4
  <2>3. Changing(bs, b, p, v) = Put(bs, b, t)
    BY <1>1, <1>3, <2>1 DEF Put, Changing
  <2>4. /\ Hashed(h, n, Put(bs, b, t))
        /\ AllIn(n, Put(bs, b, t)) = (AllIn(n, bs) \ Elements(bs[b])) \cup Elements(t)
    <3>1. ChainOf(h, n, b, t)
      BY <2>2
    <3>2. Hashed(h, n, Put(bs, b, t))
      BY <1>1, <3>1, ChainChanges
    <3>3. AllIn(n, Put(bs, b, t)) = (AllIn(n, bs) \ Elements(bs[b])) \cup Elements(t)
      BY <1>1, <3>1, ChainChanges
    <3> QED
      BY <3>2, <3>3
  <2>5. bs[b][p] \in AllIn(n, bs) /\ bs[b][p] \in Elements(bs[b])
    BY <1>1, TableIs DEF Elements
  <2>6. \A f \in AllIn(n, bs) : f.key = k <=> f = bs[b][p]
    BY <2>5, TableIs
  <2> HIDE DEF e
  <2>7. (AllIn(n, bs) \ Elements(bs[b])) \cup ((Elements(bs[b]) \ {bs[b][p]}) \cup {e}) =
           Without(AllIn(n, bs), k) \cup {e}
    BY <1>4, <2>5, <2>6 DEF Without
  <2>8. With(AllIn(n, bs), k, v) = Without(AllIn(n, bs), k) \cup {e}
    BY DEF With, e
  <2> QED
    BY <2>2, <2>3, <2>4, <2>5, <2>7, <2>8
<1> QED
  BY <1>5

LEMMA TableDrops ==
    ASSUME NEW h, NEW n, NEW bs, Hashed(h, n, bs), NEW b \in 0 .. n - 1, NEW p \in 1 .. Len(bs[b]),
           NEW t, t \in Seq(Entry), Len(t) = Len(bs[b]) - 1,
           \A j \in 1 .. Len(bs[b]) - 1 : t[j] = IF j < p THEN bs[b][j] ELSE bs[b][j + 1]
    PROVE  /\ Hashed(h, n, Put(bs, b, t))
           /\ bs[b][p] \in AllIn(n, bs)
           /\ AllIn(n, Put(bs, b, t)) = Without(AllIn(n, bs), bs[b][p].key)
           /\ AllIn(n, Put(bs, b, t)) = AllIn(n, bs) \ {bs[b][p]}
<1>1. ChainOf(h, n, b, bs[b])
  BY DEF Hashed
<1>2. ChainOf(h, n, b, t) /\ Elements(t) = Elements(bs[b]) \ {bs[b][p]}
  <2>1. PICK s : s = bs[b]
    OBVIOUS
  <2>2. /\ ChainOf(h, n, b, s) /\ p \in 1 .. Len(s) /\ Len(t) = Len(s) - 1
        /\ \A j \in 1 .. Len(s) - 1 : t[j] = IF j < p THEN s[j] ELSE s[j + 1]
    BY <1>1, <2>1
  <2>3. ChainOf(h, n, b, t) /\ Elements(t) = Elements(s) \ {s[p]}
    <3>1. ChainOf(h, n, b, t)
      BY <2>2, Dropped
    <3>2. Elements(t) = Elements(s) \ {s[p]}
      BY <2>2, Dropped
    <3> QED
      BY <3>1, <3>2
  <2> QED
    BY <2>1, <2>3
<1>3. /\ Hashed(h, n, Put(bs, b, t))
      /\ AllIn(n, Put(bs, b, t)) = (AllIn(n, bs) \ Elements(bs[b])) \cup Elements(t)
  <2>1. ChainOf(h, n, b, t)
    BY <1>2
  <2>2. Hashed(h, n, Put(bs, b, t))
    BY <2>1, ChainChanges
  <2>3. AllIn(n, Put(bs, b, t)) = (AllIn(n, bs) \ Elements(bs[b])) \cup Elements(t)
    BY <2>1, ChainChanges
  <2> QED
    BY <2>2, <2>3
<1>4. bs[b][p] \in AllIn(n, bs) /\ bs[b][p] \in Elements(bs[b]) /\ Elements(bs[b]) \subseteq AllIn(n, bs)
  <2>1. bs[b][p] \in Elements(bs[b])
    BY DEF Elements
  <2> QED
    BY <2>1 DEF AllIn
<1>5. \A f \in AllIn(n, bs) : f.key = bs[b][p].key <=> f = bs[b][p]
  BY <1>4, TableIs
<1>6. AllIn(n, Put(bs, b, t)) = AllIn(n, bs) \ {bs[b][p]}
  BY <1>2, <1>3, <1>4
<1> QED
  BY <1>3, <1>4, <1>5, <1>6 DEF Without

\* A list of the entries of a set, once each.
Lists(s, S) ==
    /\ s \in Seq(Entry) /\ Elements(s) = S
    /\ \A j, k \in 1 .. Len(s) : s[j].key = s[k].key => j = k

LEMMA ListsCount ==
    ASSUME NEW s, NEW S, Lists(s, S)
    PROVE  /\ IsFiniteSet(S) /\ Cardinality(S) = Len(s)
           /\ Cardinality({s[j].key : j \in 1 .. Len(s)}) = Len(s)
           /\ S = {} <=> s = <<>>
<1>1. s \in Seq(Entry) /\ Len(s) \in Nat
  <2>1. s \in Seq(Entry)
    BY DEF Lists
  <2> QED
    BY <2>1, LenProperties
<1>2. IsFiniteSet(1 .. Len(s)) /\ Cardinality(1 .. Len(s)) = Len(s)
  BY <1>1, FS_Interval
<1> DEFINE f == [j \in 1 .. Len(s) |-> s[j]]
           g == [j \in 1 .. Len(s) |-> s[j].key]
           K == {s[j].key : j \in 1 .. Len(s)}
<1>3. f \in Surjection(1 .. Len(s), S) /\ f \in Injection(1 .. Len(s), S)
  BY DEF Surjection, Injection, IsInjective, Lists, Elements
<1>4. g \in Surjection(1 .. Len(s), K) /\ g \in Injection(1 .. Len(s), K)
  <2>1. \A j, k \in 1 .. Len(s) : g[j] = g[k] => j = k
    BY DEF Lists
  <2>2. g \in [1 .. Len(s) -> K] /\ \A x \in K : \E j \in 1 .. Len(s) : g[j] = x
    OBVIOUS
  <2> HIDE DEF g, K
  <2> QED
    BY <2>1, <2>2 DEF Surjection, Injection, IsInjective
<1>5. f \in Bijection(1 .. Len(s), S) /\ g \in Bijection(1 .. Len(s), K)
  <2> HIDE DEF f, g, K
  <2> QED
    BY <1>3, <1>4 DEF Bijection
<1> HIDE DEF f, g, K
<1>6. IsFiniteSet(S) /\ Cardinality(S) = Len(s) /\ Cardinality(K) = Len(s)
  BY <1>2, <1>5, FS_Bijection DEF ExistsBijection
<1>7. S = {} <=> s = <<>>
  <2>1. s = <<>> <=> Len(s) = 0
    BY <1>1, EmptySeq
  <2>2. S = {} <=> Cardinality(S) = 0
    BY <1>6, FS_EmptySet
  <2> QED
    BY <1>6, <2>1, <2>2
<1> QED
  BY <1>6, <1>7 DEF K

Joined(s, t) == s \o t

LEMMA ListsJoin ==
    ASSUME NEW s, NEW S, Lists(s, S), NEW t, NEW T, Lists(t, T), \A e \in S, f \in T : e.key # f.key
    PROVE  Lists(Joined(s, t), S \cup T)
<1>1. s \in Seq(Entry) /\ Len(s) \in Nat /\ t \in Seq(Entry) /\ Len(t) \in Nat
  <2>1. s \in Seq(Entry) /\ t \in Seq(Entry)
    BY DEF Lists
  <2> QED
    BY <2>1, LenProperties
<1>2. PICK u \in Seq(Entry) : u = s \o t
  <2>1. s \o t \in Seq(Entry)
    BY <1>1, ConcatProperties
  <2> QED
    BY <2>1
<1>3. /\ Len(u) = Len(s) + Len(t)
      /\ \A k \in 1 .. Len(s) + Len(t) : u[k] = IF k <= Len(s) THEN s[k] ELSE t[k - Len(s)]
  BY <1>1, <1>2, ConcatProperties
<1>4. \A k \in 1 .. Len(s) : k \in 1 .. Len(u) /\ u[k] = s[k] /\ u[k] \in S
  BY <1>1, <1>3 DEF Lists, Elements
<1>5. \A k \in 1 .. Len(t) : \E m \in 1 .. Len(u) : u[m] = t[k]
  <2> SUFFICES ASSUME NEW k \in 1 .. Len(t) PROVE \E m \in 1 .. Len(u) : u[m] = t[k]
    OBVIOUS
  <2>1. PICK m : m = k + Len(s)
    OBVIOUS
  <2>2. m \in 1 .. Len(s) + Len(t) /\ ~ (m <= Len(s)) /\ m - Len(s) = k
    BY <1>1, <2>1
  <2>3. m \in 1 .. Len(u) /\ u[m] = t[k]
    BY <1>3, <2>2
  <2> QED
    BY <2>3
<1>6. \A k \in 1 .. Len(u) : k \in 1 .. Len(s)
          \/ (k - Len(s) \in 1 .. Len(t) /\ u[k] = t[k - Len(s)] /\ u[k] \in T)
  <2> SUFFICES ASSUME NEW k \in 1 .. Len(u), k \notin 1 .. Len(s)
               PROVE  k - Len(s) \in 1 .. Len(t) /\ u[k] = t[k - Len(s)] /\ u[k] \in T
    OBVIOUS
  <2>1. k - Len(s) \in 1 .. Len(t) /\ u[k] = t[k - Len(s)]
    BY <1>1, <1>3
  <2> QED
    BY <2>1 DEF Lists, Elements
<1>7. ASSUME NEW j \in 1 .. Len(u), NEW k \in 1 .. Len(u), u[j].key = u[k].key PROVE j = k
  <2>1. CASE j \in 1 .. Len(s) /\ k \in 1 .. Len(s)
    BY <1>4, <1>7, <2>1 DEF Lists
  <2>2. CASE j \notin 1 .. Len(s) /\ k \notin 1 .. Len(s)
    <3>1. j - Len(s) = k - Len(s)
      BY <1>6, <1>7, <2>2 DEF Lists
    <3> QED
      BY <1>1, <3>1
  <2>3. CASE j \in 1 .. Len(s) /\ k \notin 1 .. Len(s)
    BY <1>4, <1>6, <1>7, <2>3
  <2>4. CASE j \notin 1 .. Len(s) /\ k \in 1 .. Len(s)
    <3>1. u[k] \in S /\ u[j] \in T
      BY <1>4, <1>6, <2>4
    <3> QED
      BY <1>7, <3>1
  <2> QED
    BY <2>1, <2>2, <2>3, <2>4
<1>8. Elements(u) = S \cup T
  <2>1. \A e \in S : \E k \in 1 .. Len(s) : e = s[k]
    BY DEF Lists, Elements
  <2>2. \A e \in T : \E k \in 1 .. Len(t) : e = t[k]
    BY DEF Lists, Elements
  <2>3. S \subseteq Elements(u)
    BY <1>4, <2>1 DEF Elements
  <2>4. T \subseteq Elements(u)
    BY <1>5, <2>2 DEF Elements
  <2>5. Elements(u) \subseteq S \cup T
    BY <1>4, <1>6 DEF Elements
  <2> QED
    BY <2>3, <2>4, <2>5
<1> QED
  BY <1>2, <1>7, <1>8 DEF Lists, Joined

\* The entries bucket by bucket, as map_grow and map_destroy visit them.
IsUpto(f, n, bs) == f = [b \in 0 .. n |-> IF b = 0 THEN <<>> ELSE f[b - 1] \o bs[b - 1]]

LEMMA UptoExists ==
    ASSUME NEW n \in Nat, NEW bs
    PROVE  \E f : IsUpto(f, n, bs)
<1> DEFINE T == {m \in Nat : \E f : IsUpto(f, m, bs)}
<1>1. 0 \in T
  <2>1. PICK f : f = [b \in 0 .. 0 |-> <<>>]
    OBVIOUS
  <2>2. IsUpto(f, 0, bs)
    <3>1. \A b \in 0 .. 0 : b = 0
      OBVIOUS
    <3> QED
      BY <2>1, <3>1 DEF IsUpto
  <2> QED
    BY <2>2
<1>2. ASSUME NEW m \in Nat, m \in T PROVE m + 1 \in T
  <2>1. PICK f : IsUpto(f, m, bs)
    BY <1>2
  <2>2. PICK g : g = [b \in 0 .. m + 1 |-> IF b = m + 1 THEN f[m] \o bs[m] ELSE f[b]]
    OBVIOUS
  <2>3. ASSUME NEW b \in 0 .. m + 1
        PROVE  g[b] = IF b = 0 THEN <<>> ELSE g[b - 1] \o bs[b - 1]
    <3>1. CASE b = m + 1
      <4>1. b # 0 /\ b - 1 = m /\ m \in 0 .. m + 1 /\ m # m + 1
        BY <3>1
      <4> QED
        BY <2>2, <3>1, <4>1
    <3>2. CASE b # m + 1
      <4>1. b \in 0 .. m /\ (b # 0 => b - 1 \in 0 .. m + 1 /\ b - 1 # m + 1)
        BY <3>2
      <4>2. f[b] = IF b = 0 THEN <<>> ELSE f[b - 1] \o bs[b - 1]
        BY <2>1, <4>1 DEF IsUpto
      <4> QED
        BY <2>2, <3>2, <4>1, <4>2
    <3> QED
      BY <3>1, <3>2
  <2>4. IsUpto(g, m + 1, bs)
    BY <2>2, <2>3 DEF IsUpto
  <2> QED
    BY <2>4
<1>3. Nat \subseteq T
  <2> HIDE DEF T
  <2> QED
    BY <1>1, <1>2, NatSet
<1> QED
  BY <1>3

LEMMA EntriesAre ==
    ASSUME NEW h, NEW n, NEW bs, Hashed(h, n, bs), NEW f, IsUpto(f, n, bs)
    PROVE  Lists(f[n], AllIn(n, bs))
<1>1. n \in Nat
  BY DEF Hashed
<1> DEFINE T == {m \in Nat : m <= n => Lists(f[m], AllIn(m, bs))}
<1>2. 0 \in T
  <2>1. f[0] = <<>>
    BY <1>1 DEF IsUpto
  <2>2. AllIn(0, bs) = {}
    BY DEF AllIn
  <2>3. Lists(<<>>, {})
    BY DEF Lists, Elements
  <2> QED
    BY <2>1, <2>2, <2>3
<1>3. ASSUME NEW m \in Nat, m \in T PROVE m + 1 \in T
  <2>1. CASE ~ (m + 1 <= n)
    BY <2>1
  <2>2. CASE m + 1 <= n
    <3>1. Lists(f[m], AllIn(m, bs)) /\ m \in 0 .. n - 1
      BY <1>1, <1>3, <2>2
    <3>2. f[m + 1] = Joined(f[m], bs[m])
      <4>1. PICK b : b = m + 1
        OBVIOUS
      <4>2. b \in 0 .. n /\ b # 0 /\ b - 1 = m
        BY <1>1, <2>2, <4>1
      <4>3. f[b] = f[b - 1] \o bs[b - 1]
        BY <4>2 DEF IsUpto
      <4> QED
        BY <4>1, <4>2, <4>3 DEF Joined
    <3>3. Lists(bs[m], Elements(bs[m]))
      BY <3>1 DEF Lists, Hashed, ChainOf
    <3>4. ASSUME NEW e \in AllIn(m, bs), NEW g \in Elements(bs[m]) PROVE e.key # g.key
      <4>1. PICK c \in 0 .. m - 1 : e \in Elements(bs[c])
        BY DEF AllIn
      <4>2. c \in 0 .. n - 1 /\ c # m
        BY <1>1, <3>1
      <4>3. h[e.key] % n = c /\ h[g.key] % n = m
        BY <3>1, <4>1, <4>2 DEF Hashed, ChainOf, Elements
      <4> QED
        BY <4>2, <4>3
    <3>5. Lists(Joined(f[m], bs[m]), AllIn(m, bs) \cup Elements(bs[m]))
      <4>1. PICK s, t, S, U : s = f[m] /\ t = bs[m] /\ S = AllIn(m, bs) /\ U = Elements(bs[m])
        OBVIOUS
      <4>2. Lists(s, S) /\ Lists(t, U) /\ \A e \in S, g \in U : e.key # g.key
        BY <3>1, <3>3, <3>4, <4>1
      <4>3. Lists(Joined(s, t), S \cup U)
        BY <4>2, ListsJoin
      <4> QED
        BY <4>1, <4>3
    <3>6. AllIn(m + 1, bs) = AllIn(m, bs) \cup Elements(bs[m])
      <4>1. \A c \in 0 .. m + 1 - 1 : c = m \/ c \in 0 .. m - 1
        OBVIOUS
      <4>2. m \in 0 .. m + 1 - 1 /\ 0 .. m - 1 \subseteq 0 .. m + 1 - 1
        OBVIOUS
      <4> QED
        BY <4>1, <4>2 DEF AllIn
    <3>7. Lists(f[m + 1], AllIn(m + 1, bs))
      BY <3>2, <3>5, <3>6
    <3> QED
      BY <3>7
  <2> QED
    BY <2>1, <2>2
<1>4. Nat \subseteq T
  <2> HIDE DEF T
  <2>1. \A m \in Nat : m \in T => m + 1 \in T
    BY <1>3
  <2> QED
    BY <1>2, <2>1, NatSet
<1> QED
  BY <1>1, <1>4

\* The table that map_grow fills with the entries of a list, one after another.
IsMoved(f, h, n, s) ==
    f = [m \in 0 .. Len(s) |->
            IF m = 0 THEN [b \in 0 .. n - 1 |-> <<>>]
            ELSE [f[m - 1] EXCEPT ![h[s[m].key] % n] = <<s[m]>> \o @]]

LEMMA MovedExists ==
    ASSUME NEW h, NEW n, NEW s, Len(s) \in Nat
    PROVE  \E f : IsMoved(f, h, n, s)
<1> DEFINE Start == [b \in 0 .. n - 1 |-> <<>>]
           Step(g, k) == [g EXCEPT ![h[s[k].key] % n] = <<s[k]>> \o @]
           To(f, m) == f = [k \in 0 .. m |-> IF k = 0 THEN Start ELSE Step(f[k - 1], k)]
           T == {m \in Nat : \E f : To(f, m)}
<1> HIDE DEF Start, Step
<1>1. 0 \in T
  <2>1. PICK f : f = [b \in 0 .. 0 |-> Start]
    OBVIOUS
  <2>2. To(f, 0)
    <3>1. \A b \in 0 .. 0 : b = 0
      OBVIOUS
    <3> QED
      BY <2>1, <3>1
  <2> QED
    BY <2>2
<1>2. ASSUME NEW m \in Nat, m \in T PROVE m + 1 \in T
  <2>1. PICK f : To(f, m)
    BY <1>2
  <2>2. PICK g : g = [k \in 0 .. m + 1 |-> IF k = m + 1 THEN Step(f[m], m + 1) ELSE f[k]]
    OBVIOUS
  <2>3. ASSUME NEW k \in 0 .. m + 1
        PROVE  g[k] = IF k = 0 THEN Start ELSE Step(g[k - 1], k)
    <3>1. CASE k = m + 1
      <4>1. k # 0 /\ k - 1 = m /\ m \in 0 .. m + 1 /\ m # m + 1
        BY <3>1
      <4> QED
        BY <2>2, <3>1, <4>1
    <3>2. CASE k # m + 1
      <4>1. k \in 0 .. m /\ (k # 0 => k - 1 \in 0 .. m + 1 /\ k - 1 # m + 1)
        BY <3>2
      <4>2. f[k] = IF k = 0 THEN Start ELSE Step(f[k - 1], k)
        BY <2>1, <4>1
      <4> QED
        BY <2>2, <3>2, <4>1, <4>2
    <3> QED
      BY <3>1, <3>2
  <2>4. To(g, m + 1)
    BY <2>2, <2>3
  <2> QED
    BY <2>4
<1>3. Nat \subseteq T
  <2> HIDE DEF T
  <2> QED
    BY <1>1, <1>2, NatSet
<1> QED
  BY <1>3 DEF IsMoved, Start, Step

LEMMA MovedIs ==
    ASSUME NEW h \in [Keys -> Nat], NEW n \in Nat, n # 0, NEW s, NEW S, Lists(s, S),
           NEW f, IsMoved(f, h, n, s)
    PROVE  Hashed(h, n, f[Len(s)]) /\ AllIn(n, f[Len(s)]) = S
<1>1. s \in Seq(Entry) /\ Len(s) \in Nat /\ \A j \in 1 .. Len(s) : s[j] \in Entry
  <2>1. s \in Seq(Entry)
    BY DEF Lists
  <2> QED
    BY <2>1, LenProperties, ElementOfSeq
<1> DEFINE Upto(m) == {s[j] : j \in 1 .. m}
<1>2. /\ Upto(0) = {} /\ Upto(Len(s)) = S
      /\ \A m : Upto(m) = {s[j] : j \in 1 .. m}
  BY DEF Lists, Elements
<1> HIDE DEF Upto
<1> DEFINE T == {m \in Nat : m <= Len(s) => Hashed(h, n, f[m]) /\ AllIn(n, f[m]) = Upto(m)}
<1>3. 0 \in T
  <2>1. PICK bs : bs = f[0]
    OBVIOUS
  <2>2. bs = [b \in 0 .. n - 1 |-> <<>>]
    BY <1>1, <2>1 DEF IsMoved
  <2>3. \A b : ChainOf(h, n, b, <<>>)
    BY DEF ChainOf
  <2>4. Hashed(h, n, bs)
    BY <2>2, <2>3 DEF Hashed
  <2>5. AllIn(n, bs) = {}
    BY <2>2 DEF AllIn, Elements
  <2> QED
    BY <1>2, <2>1, <2>4, <2>5
<1>4. ASSUME NEW m \in Nat, m \in T PROVE m + 1 \in T
  <2>1. CASE ~ (m + 1 <= Len(s))
    BY <2>1
  <2>2. CASE m + 1 <= Len(s)
    <3>1. PICK j : j = m + 1
      OBVIOUS
    <3>2. j \in 1 .. Len(s) /\ j - 1 = m /\ j # 0 /\ j \in 0 .. Len(s)
      BY <1>1, <2>2, <3>1
    <3>3. PICK bs, k, v, b : bs = f[m] /\ k = s[j].key /\ v = s[j].value /\ b = h[k] % n
      OBVIOUS
    <3>4. s[j] = [key |-> k, value |-> v] /\ k \in Keys /\ v \in Values
      BY <1>1, <3>2, <3>3 DEF Entry
    <3>5. Hashed(h, n, bs) /\ AllIn(n, bs) = Upto(m)
      <4>1. m <= Len(s)
        <5>1. Len(s) \in Nat
          BY <1>1
        <5> QED
          BY <2>2, <5>1
      <4>2. Hashed(h, n, f[m]) /\ AllIn(n, f[m]) = Upto(m)
        BY <1>4, <4>1
      <4>3. bs = f[m]
        BY <3>3, Zenon
      <4> QED
        BY <4>2, <4>3
    <3>6. f[j] = Pushing(bs, b, [key |-> k, value |-> v])
      <4>1. f[j] = [f[j - 1] EXCEPT ![h[s[j].key] % n] = <<s[j]>> \o @]
        BY <3>2, Zenon DEF IsMoved
      <4>2. f[j - 1] = bs /\ h[s[j].key] % n = b
        BY <3>2, <3>3, Zenon
      <4>3. f[j] = [bs EXCEPT ![b] = <<s[j]>> \o @]
        BY <4>1, <4>2, Zenon
      <4> QED
        BY <3>4, <4>3 DEF Pushing
    <3>7. b \in 0 .. n - 1
      BY <3>3, <3>4, BucketIs
    <3>8. ASSUME NEW c \in 1 .. Len(bs[b]) PROVE bs[b][c].key # k
      <4>1. bs[b][c] \in Upto(m)
        BY <3>5, <3>7, TableIs
      <4>2. PICK d \in 1 .. m : bs[b][c] = s[d]
        BY <1>2, <4>1
      <4>3. d \in 1 .. Len(s) /\ d # j
        BY <1>1, <2>2, <3>1
      <4> QED
        BY <3>2, <3>3, <4>2, <4>3 DEF Lists
    <3>9. /\ Hashed(h, n, Pushing(bs, b, [key |-> k, value |-> v]))
          /\ AllIn(n, Pushing(bs, b, [key |-> k, value |-> v])) =
                AllIn(n, bs) \cup {[key |-> k, value |-> v]}
      <4>1. \A c \in 1 .. Len(bs[b]) : bs[b][c].key # k
        BY <3>8
      <4>2. Hashed(h, n, bs) /\ k \in Keys /\ v \in Values /\ b = h[k] % n
        BY <3>3, <3>4, <3>5
      <4>3. Hashed(h, n, Pushing(bs, b, [key |-> k, value |-> v]))
        BY <4>1, <4>2, TablePushes
      <4>4. AllIn(n, Pushing(bs, b, [key |-> k, value |-> v])) = With(AllIn(n, bs), k, v)
        BY <4>1, <4>2, TablePushes
      <4>5. \A e \in AllIn(n, bs) : e.key # k
        BY <4>1, <4>2, TableIs
      <4>6. With(AllIn(n, bs), k, v) = AllIn(n, bs) \cup {[key |-> k, value |-> v]}
        BY <4>5 DEF With, Without
      <4> QED
        BY <4>3, <4>4, <4>6
    <3>10. Upto(j) = Upto(m) \cup {s[j]}
      <4>1. \A d \in 1 .. j : d = j \/ d \in 1 .. m
        BY <3>1
      <4>2. j \in 1 .. j /\ 1 .. m \subseteq 1 .. j
        BY <3>1
      <4> QED
        BY <1>2, <4>1, <4>2
    <3>11. Hashed(h, n, f[j]) /\ AllIn(n, f[j]) = Upto(j)
        BY <3>4, <3>5, <3>6, <3>9, <3>10
    <3> QED
      BY <3>1, <3>11
  <2> QED
    BY <2>1, <2>2
<1>5. Nat \subseteq T
  <2> HIDE DEF T
  <2> QED
    BY <1>3, <1>4, NatSet
<1> QED
  BY <1>1, <1>5, <1>2

\* The search of a chain.
FoundAt(s, k, p) ==
    \/ p = 0 /\ \A j \in 1 .. Len(s) : s[j].key # k
    \/ p \in 1 .. Len(s) /\ s[p].key = k

LEMMA MapFindIs ==
    ASSUME NEW s, s \in Seq(Entry), NEW k
    PROVE  FoundAt(s, k, Map!Find(s, k))
<1> DEFINE I == {j \in 1 .. Len(s) : s[j].key = k}
<1>1. Len(s) \in Nat /\ I \in SUBSET Nat
  BY LenProperties
<1>2. Map!Find(s, k) = IF I # {} THEN CHOOSE x \in I : \A y \in I : x <= y ELSE 0
  BY DEF Map!Find, Map!SelectInSeq, Map!Min
<1>3. ASSUME I # {} PROVE Map!Find(s, k) \in I
  <2>1. \E x \in I : \A y \in I : x <= y
    <3> HIDE DEF I
    <3> QED
      BY <1>1, <1>3, LeastIs
  <2> HIDE DEF I
  <2> QED
    BY <1>2, <1>3, <2>1
<1>4. CASE I = {}
  BY <1>2, <1>4 DEF FoundAt
<1>5. CASE I # {}
  BY <1>3, <1>5 DEF FoundAt
<1> QED
  BY <1>4, <1>5

LEMMA FixedFindIs ==
    ASSUME NEW k, NEW s, s = fbuckets[Fixed!Bucket(k)], s \in Seq(Entry)
    PROVE  FoundAt(s, k, Fixed!Find(k))
<1> DEFINE I == {j \in 1 .. Len(s) : s[j].key = k}
<1>1. Len(s) \in Nat /\ I \in SUBSET Nat
  BY LenProperties
<1>2. Fixed!Find(k) = IF I # {} THEN CHOOSE x \in I : \A y \in I : x <= y ELSE 0
  BY DEF Fixed!Find, Fixed!SelectInSeq, Fixed!Min
<1>3. ASSUME I # {} PROVE Fixed!Find(k) \in I
  <2>1. \E x \in I : \A y \in I : x <= y
    <3> HIDE DEF I
    <3> QED
      BY <1>1, <1>3, LeastIs
  <2> HIDE DEF I
  <2> QED
    BY <1>2, <1>3, <2>1
<1>4. CASE I = {}
  BY <1>2, <1>4 DEF FoundAt
<1>5. CASE I # {}
  BY <1>3, <1>5 DEF FoundAt
<1> QED
  BY <1>4, <1>5

\* The dictionary that a set of entries is, and what becomes of it.
DictOf(S) == [k \in {e.key : e \in S} |-> (CHOOSE e \in S : e.key = k).value]
Functional(S) == S \subseteq Entry /\ \A e, f \in S : e.key = f.key => e = f

Stored(d, k, v) == [j \in DOMAIN d \cup {k} |-> IF j = k THEN v ELSE d[j]]
Forgot(d, k) == [j \in DOMAIN d \ {k} |-> d[j]]

LEMMA DictIs ==
    ASSUME NEW S, Functional(S)
    PROVE  /\ DOMAIN DictOf(S) = {e.key : e \in S}
           /\ \A e \in S : DictOf(S)[e.key] = e.value
<1>1. ASSUME NEW e \in S PROVE DictOf(S)[e.key] = e.value
  <2>1. DictOf(S)[e.key] = (CHOOSE f \in S : f.key = e.key).value
    BY DEF DictOf
  <2>2. (CHOOSE f \in S : f.key = e.key) = e
    BY DEF Functional
  <2> QED
    BY <2>1, <2>2
<1> QED
  BY <1>1 DEF DictOf

LEMMA DictStore ==
    ASSUME NEW S, Functional(S), NEW k \in Keys, NEW v \in Values
    PROVE  /\ Functional(With(S, k, v))
           /\ DictOf(With(S, k, v)) = Stored(DictOf(S), k, v)
<1> DEFINE new == [key |-> k, value |-> v]
<1>1. new \in Entry /\ new.key = k /\ new.value = v
  BY DEF Entry
<1> HIDE DEF new
<1> DEFINE R == Without(S, k) \cup {new}
<1>2. Functional(R)
  BY <1>1 DEF Functional, Without
<1>3. {e.key : e \in R} = {e.key : e \in S} \cup {k}
  BY <1>1 DEF Without
<1>4. ASSUME NEW j \in {e.key : e \in S} \cup {k}
      PROVE  DictOf(R)[j] = IF j = k THEN v ELSE DictOf(S)[j]
  <2>1. PICK e \in R : e.key = j
    BY <1>3
  <2>2. DictOf(R)[j] = e.value
    BY <1>2, <2>1, DictIs
  <2>3. CASE j = k
    <3>1. e = new
      BY <1>1, <2>1, <2>3 DEF Without
    <3> QED
      BY <1>1, <2>2, <2>3, <3>1
  <2>4. CASE j # k
    <3>1. e \in S
      BY <1>1, <2>1, <2>4 DEF Without
    <3>2. DictOf(S)[j] = e.value
      BY <2>1, <3>1, DictIs
    <3> QED
      BY <2>2, <2>4, <3>2
  <2> QED
    BY <2>3, <2>4
<1> HIDE DEF R
<1>5. DictOf(R) = [j \in DOMAIN DictOf(S) \cup {k} |-> IF j = k THEN v ELSE DictOf(S)[j]]
  <2>1. DOMAIN DictOf(R) = DOMAIN DictOf(S) \cup {k} /\ DOMAIN DictOf(S) = {e.key : e \in S}
    BY <1>2, <1>3, DictIs
  <2>2. DictOf(R) = [j \in DOMAIN DictOf(R) |-> DictOf(R)[j]]
    BY DEF DictOf
  <2> QED
    BY <1>4, <2>1, <2>2
<1> QED
  BY <1>2, <1>5 DEF R, new, With, Stored

LEMMA DictForget ==
    ASSUME NEW S, Functional(S), NEW k
    PROVE  /\ Functional(Without(S, k))
           /\ DictOf(Without(S, k)) = Forgot(DictOf(S), k)
<1> DEFINE R == Without(S, k)
<1>1. Functional(R) /\ R \subseteq S
  BY DEF Functional, Without
<1>2. {e.key : e \in R} = {e.key : e \in S} \ {k}
  BY DEF Without
<1> HIDE DEF R
<1>3. ASSUME NEW j \in {e.key : e \in R} PROVE DictOf(R)[j] = DictOf(S)[j]
  <2>1. PICK e \in R : e.key = j
    OBVIOUS
  <2>2. DictOf(R)[j] = e.value
    BY <1>1, <2>1, DictIs
  <2>3. DictOf(S)[j] = e.value
    BY <1>1, <2>1, DictIs
  <2> QED
    BY <2>2, <2>3
<1>4. DictOf(R) = [j \in DOMAIN DictOf(S) \ {k} |-> DictOf(S)[j]]
  <2>1. DOMAIN DictOf(R) = DOMAIN DictOf(S) \ {k} /\ DOMAIN DictOf(S) = {e.key : e \in S}
        /\ DOMAIN DictOf(R) = {e.key : e \in R}
    BY <1>1, <1>2, DictIs
  <2>2. DictOf(R) = [j \in DOMAIN DictOf(R) |-> DictOf(R)[j]]
    BY DEF DictOf
  <2> QED
    BY <1>3, <2>1, <2>2
<1> QED
  BY <1>1, <1>4 DEF R, Forgot

LEMMA DictEmpty == DictOf({}) = <<>> /\ Functional({})
<1>1. DictOf({}) = [k \in {} |-> (CHOOSE e \in {} : e.key = k).value]
  BY DEF DictOf
<1>2. <<>> = [k \in {} |-> (CHOOSE e \in {} : e.key = k).value]
  OBVIOUS
<1> QED
  BY <1>1, <1>2 DEF Functional

\* A sequence of length l without its element p.
Spliced(s, p, l) == SubSeq(s, 1, p - 1) \o SubSeq(s, p + 1, l)

Lacks(t, s, p, l) ==
    /\ t \in Seq(Entry) /\ Len(t) = l - 1
    /\ \A j \in 1 .. l - 1 : t[j] = IF j < p THEN s[j] ELSE s[j + 1]

LEMMA SpliceIs ==
    ASSUME NEW s, s \in Seq(Entry), NEW l, l = Len(s), NEW p, p \in 1 .. l
    PROVE  Lacks(Spliced(s, p, l), s, p, l)
<1>1. l \in Nat /\ \A j \in 1 .. l : s[j] \in Entry
  BY ElementOfSeq, LenProperties
<1>2. PICK u \in Seq(Entry) : /\ u = SubSeq(s, 1, p - 1) /\ Len(u) = p - 1
                         /\ \A j \in 1 .. p - 1 : u[j] = s[j]
  <2>1. /\ SubSeq(s, 1, p - 1) \in Seq(Entry) /\ Len(SubSeq(s, 1, p - 1)) = p - 1
        /\ \A j \in 1 .. p - 1 : SubSeq(s, 1, p - 1)[j] = s[j]
    BY <1>1
  <2> QED
    BY <2>1
<1>3. PICK w \in Seq(Entry) : /\ w = SubSeq(s, p + 1, l) /\ Len(w) = l - p
                         /\ \A j \in 1 .. l - p : w[j] = s[p + j]
  <2>1. /\ SubSeq(s, p + 1, l) \in Seq(Entry) /\ Len(SubSeq(s, p + 1, l)) = l - p
        /\ \A j \in 1 .. l - p : SubSeq(s, p + 1, l)[j] = s[p + j]
    BY <1>1
  <2> QED
    BY <2>1
<1>4. PICK t \in Seq(Entry) : t = u \o w
  <2>1. u \o w \in Seq(Entry)
    BY ConcatProperties
  <2> QED
    BY <2>1
<1>5. /\ Len(t) = Len(u) + Len(w)
      /\ \A j \in 1 .. Len(u) + Len(w) : t[j] = IF j <= Len(u) THEN u[j] ELSE w[j - Len(u)]
  BY <1>4, ConcatProperties
<1>6. Len(t) = l - 1
  BY <1>1, <1>2, <1>3, <1>5
<1>7. ASSUME NEW j \in 1 .. l - 1 PROVE t[j] = IF j < p THEN s[j] ELSE s[j + 1]
  <2>1. t[j] = IF j <= p - 1 THEN u[j] ELSE w[j - (p - 1)]
    <3>1. Len(u) = p - 1 /\ Len(u) + Len(w) = l - 1
      BY <1>2, <1>5, <1>6
    <3>2. t[j] = IF j <= Len(u) THEN u[j] ELSE w[j - Len(u)]
      BY <1>5, <3>1
    <3> QED
      BY <3>1, <3>2
  <2>2. CASE j < p
    <3>1. j \in 1 .. p - 1
      BY <2>2
    <3> QED
      BY <1>2, <2>1, <2>2, <3>1
  <2>3. CASE ~ (j < p)
    <3>1. j - (p - 1) \in 1 .. l - p /\ p + (j - (p - 1)) = j + 1 /\ ~ (j <= p - 1)
      BY <1>1, <2>3
    <3> QED
      BY <1>3, <2>1, <2>3, <3>1
  <2> QED
    BY <2>2, <2>3
<1>8. t = Spliced(s, p, l)
  BY <1>2, <1>3, <1>4 DEF Spliced
<1> QED
  BY <1>6, <1>7, <1>8 DEF Lacks

LEMMA TailOf ==
    ASSUME NEW X, NEW s, s \in Seq(X), s # <<>>, NEW t, t = Tail(s), NEW p, p = 1
    PROVE  /\ p \in 1 .. Len(s) /\ t \in Seq(X) /\ Len(t) = Len(s) - 1
           /\ \A j \in 1 .. Len(s) - 1 : t[j] = IF j < p THEN s[j] ELSE s[j + 1]
<1>1. Len(s) \in Nat /\ Len(s) # 0
  BY LenProperties, EmptySeq
<1>2. t \in Seq(X) /\ Len(t) = Len(s) - 1 /\ \A j \in 1 .. Len(s) - 1 : t[j] = s[j + 1]
  BY HeadTailProperties, <1>1
<1> QED
  BY <1>1, <1>2

\* What a map's count and its number of buckets are.
LEMMA ContentsAreFinite ==
    ASSUME NEW h, NEW n, NEW bs, Hashed(h, n, bs)
    PROVE  /\ IsFiniteSet(AllIn(n, bs)) /\ Cardinality(AllIn(n, bs)) \in Nat
           /\ Functional(AllIn(n, bs))
           /\ Cardinality(DOMAIN bs) = n
<1>1. n \in Nat
  BY DEF Hashed
<1>2. PICK f : IsUpto(f, n, bs)
  BY <1>1, UptoExists
<1>3. IsFiniteSet(AllIn(n, bs))
  BY <1>2, EntriesAre, ListsCount
<1>4. Functional(AllIn(n, bs))
  BY TableIs DEF Functional
<1>5. Cardinality(DOMAIN bs) = n
  <2>1. DOMAIN bs = 0 .. n - 1
    BY DEF Hashed
  <2>2. PICK m : m = n - 1
    OBVIOUS
  <2>3. Cardinality(0 .. m) = n
    BY <1>1, <2>2, FS_Interval
  <2> QED
    BY <2>1, <2>2, <2>3
<1> QED
  BY <1>3, <1>4, <1>5, FS_CardinalityType

LEMMA EmptyTable ==
    ASSUME NEW h \in [Keys -> Nat], NEW n \in Nat, NEW bs, bs = [b \in 0 .. n - 1 |-> <<>>]
    PROVE  Hashed(h, n, bs) /\ AllIn(n, bs) = {}
<1>1. \A b : ChainOf(h, n, b, <<>>)
  BY DEF ChainOf
<1>2. Hashed(h, n, bs)
  BY <1>1 DEF Hashed
<1>3. AllIn(n, bs) = {}
  BY DEF AllIn, Elements
<1> QED
  BY <1>2, <1>3

\* What a search for every key finds, if at says where.
FoundBy(h, n, bs, at) == [k \in {j \in Keys : at[j] # 0} |-> bs[h[k] % n][at[k]].value]
FindsAll(h, n, bs, at) == \A k \in Keys : FoundAt(bs[h[k] % n], k, at[k])

LEMMA DictionaryOfTable ==
    ASSUME NEW h, NEW n, NEW bs, Hashed(h, n, bs), n # 0, NEW at, FindsAll(h, n, bs, at)
    PROVE  /\ FoundBy(h, n, bs, at) = DictOf(AllIn(n, bs))
           /\ \A k \in Keys : at[k] # 0 <=> \E e \in AllIn(n, bs) : e.key = k
<1>1. Functional(AllIn(n, bs))
  BY ContentsAreFinite
<1>2. ASSUME NEW k \in Keys
      PROVE  h[k] % n \in 0 .. n - 1
  BY BucketIs DEF Hashed
<1>3. ASSUME NEW k \in Keys, at[k] # 0
      PROVE  /\ bs[h[k] % n][at[k]] \in AllIn(n, bs)
             /\ bs[h[k] % n][at[k]].key = k
  BY <1>2, <1>3, TableIs DEF FoundAt, FindsAll
<1>4. ASSUME NEW e \in AllIn(n, bs) PROVE e.key \in Keys /\ at[e.key] # 0
  <2>1. e.key \in Keys
    BY TableIs DEF Entry
  <2>2. PICK b \in 0 .. n - 1 : b = h[e.key] % n
    BY <1>2, <2>1
  <2>3. PICK j \in 1 .. Len(bs[b]) : e = bs[b][j]
    BY <2>2, TableIs
  <2>4. FoundAt(bs[b], e.key, at[e.key])
    BY <2>1, <2>2 DEF FindsAll
  <2>5. ~ \A i \in 1 .. Len(bs[b]) : bs[b][i].key # e.key
    BY <2>3
  <2>6. Len(bs[b]) \in Nat
    BY TableIs
  <2> QED
    BY <2>1, <2>4, <2>5, <2>6 DEF FoundAt
<1>5. {j \in Keys : at[j] # 0} = {e.key : e \in AllIn(n, bs)}
  BY <1>3, <1>4
<1>6. ASSUME NEW k \in {j \in Keys : at[j] # 0}
      PROVE  DictOf(AllIn(n, bs))[k] = bs[h[k] % n][at[k]].value
  <2>1. PICK e : e = bs[h[k] % n][at[k]]
    OBVIOUS
  <2>2. e \in AllIn(n, bs) /\ e.key = k
    BY <1>3, <2>1
  <2> QED
    BY <1>1, <2>1, <2>2, DictIs
<1>7. DictOf(AllIn(n, bs)) = [k \in {e.key : e \in AllIn(n, bs)} |-> DictOf(AllIn(n, bs))[k]]
  BY DEF DictOf
<1>8. [k \in {j \in Keys : at[j] # 0} |-> bs[h[k] % n][at[k]].value] = DictOf(AllIn(n, bs))
  BY <1>5, <1>6, <1>7
<1> QED
  BY <1>3, <1>4, <1>8 DEF FoundBy

Removing(bs, b, p) == [bs EXCEPT ![b] = Spliced(@, p, Len(@))]

LEMMA TableForgets ==
    ASSUME NEW h, NEW n, NEW bs, Hashed(h, n, bs), NEW b \in 0 .. n - 1, NEW p \in 1 .. Len(bs[b])
    PROVE  /\ Hashed(h, n, Removing(bs, b, p))
           /\ bs[b][p] \in AllIn(n, bs)
           /\ AllIn(n, Removing(bs, b, p)) = Without(AllIn(n, bs), bs[b][p].key)
           /\ AllIn(n, Removing(bs, b, p)) = AllIn(n, bs) \ {bs[b][p]}
<1>1. PICK s, l : s = bs[b] /\ l = Len(s)
  OBVIOUS
<1>2. s \in Seq(Entry) /\ l = Len(s) /\ p \in 1 .. l
  BY <1>1, TableIs
<1>3. PICK t : /\ t \in Seq(Entry) /\ t = Spliced(s, p, l)
               /\ Len(t) = l - 1
               /\ \A j \in 1 .. l - 1 : t[j] = IF j < p THEN s[j] ELSE s[j + 1]
  <2>1. Lacks(Spliced(s, p, l), s, p, l)
    BY <1>2, SpliceIs
  <2> QED
    BY <2>1 DEF Lacks
<1>4. /\ t \in Seq(Entry) /\ Len(t) = Len(bs[b]) - 1
      /\ \A j \in 1 .. Len(bs[b]) - 1 : t[j] = IF j < p THEN bs[b][j] ELSE bs[b][j + 1]
  BY <1>1, <1>3
<1>5. Removing(bs, b, p) = Put(bs, b, t)
  BY <1>1, <1>3 DEF Removing, Put
<1>6. Hashed(h, n, Put(bs, b, t))
  BY <1>4, TableDrops
<1>7. bs[b][p] \in AllIn(n, bs)
  BY TableIs
<1>8. AllIn(n, Put(bs, b, t)) = Without(AllIn(n, bs), bs[b][p].key)
  BY <1>4, TableDrops
<1>9. AllIn(n, Put(bs, b, t)) = AllIn(n, bs) \ {bs[b][p]}
  BY <1>4, TableDrops
<1> QED
  BY <1>5, <1>6, <1>7, <1>8, <1>9

Tailing(bs, b) == [bs EXCEPT ![b] = Tail(@)]

LEMMA TableTails ==
    ASSUME NEW h, NEW n, NEW bs, Hashed(h, n, bs), NEW b \in 0 .. n - 1, bs[b] # <<>>
    PROVE  /\ Hashed(h, n, Tailing(bs, b))
           /\ \E e \in AllIn(n, bs) : AllIn(n, Tailing(bs, b)) = AllIn(n, bs) \ {e}
<1>1. PICK s, t, p : s = bs[b] /\ t = Tail(s) /\ p = 1
  OBVIOUS
<1>2. s \in Seq(Entry) /\ s # <<>>
  BY <1>1, TableIs
<1>3. /\ p \in 1 .. Len(s) /\ t \in Seq(Entry) /\ Len(t) = Len(s) - 1
      /\ \A j \in 1 .. Len(s) - 1 : t[j] = IF j < p THEN s[j] ELSE s[j + 1]
  BY <1>1, <1>2, TailOf
<1>4. /\ t \in Seq(Entry) /\ Len(t) = Len(bs[b]) - 1 /\ p \in 1 .. Len(bs[b])
      /\ \A j \in 1 .. Len(bs[b]) - 1 : t[j] = IF j < p THEN bs[b][j] ELSE bs[b][j + 1]
  BY <1>1, <1>3
<1>5. Tailing(bs, b) = Put(bs, b, t)
  BY <1>1 DEF Tailing, Put
<1>6. Hashed(h, n, Put(bs, b, t))
  BY <1>4, TableDrops
<1>7. AllIn(n, Put(bs, b, t)) = AllIn(n, bs) \ {bs[b][p]}
  BY <1>4, TableDrops
<1>8. bs[b][p] \in AllIn(n, bs)
  BY <1>4, TableIs
<1> QED
  BY <1>5, <1>6, <1>7, <1>8

\* The size of a set of entries, with an entry more, one less and another one.
LEMMA SizeMore ==
    ASSUME NEW S, IsFiniteSet(S), NEW k, \A e \in S : e.key # k, NEW v
    PROVE  Cardinality(With(S, k, v)) = Cardinality(S) + 1
<1> DEFINE new == [key |-> k, value |-> v]
<1>1. new.key = k /\ With(S, k, v) = S \cup {new}
  BY DEF With, Without
<1> HIDE DEF new
<1>2. new \notin S
  BY <1>1
<1>3. Cardinality(S \cup {new}) = Cardinality(S) + 1
  BY <1>2, FS_AddElement
<1> QED
  BY <1>1, <1>3

LEMMA SizeLess ==
    ASSUME NEW S, IsFiniteSet(S), NEW e \in S
    PROVE  Cardinality(S \ {e}) = Cardinality(S) - 1 /\ IsFiniteSet(S \ {e})
BY FS_RemoveElement

LEMMA SizeSame ==
    ASSUME NEW S, IsFiniteSet(S), Functional(S), NEW e \in S, NEW k, e.key = k, NEW v
    PROVE  /\ Without(S, k) = S \ {e}
           /\ Cardinality(With(S, k, v)) = Cardinality(S)
<1>1. Without(S, k) = S \ {e}
  BY DEF Without, Functional
<1>2. PICK R : R = Without(S, k)
  OBVIOUS
<1>3. /\ IsFiniteSet(R) /\ Cardinality(R) = Cardinality(S) - 1 /\ Cardinality(S) \in Nat
      /\ \A f \in R : f.key # k
  BY <1>1, <1>2, SizeLess, FS_CardinalityType DEF Without
<1>4. With(R, k, v) = With(S, k, v)
  BY <1>2 DEF With, Without
<1>5. Cardinality(With(R, k, v)) = Cardinality(R) + 1
  BY <1>3, SizeMore
<1>6. Cardinality(With(R, k, v)) = Cardinality(S)
  BY <1>3, <1>5
<1> QED
  BY <1>1, <1>4, <1>6

-----------------------------------------------------------------------------
\* adt.c: what each place of an operation knows of the table.

MapContents == AllIn(Map!bucket_count, mbuckets)
AtRest == mpc \notin {"none", "create", "destroy"}
MapKnows ==
    /\ mpc \in {"none", "create", "idle", "put", "grow", "entry", "key", "remove", "destroy"}
    /\ Hashed(mhash, Map!bucket_count, mbuckets)
    /\ Map!bucket_count = 0 <=> mpc \in {"none", "create"}
    /\ mblocks = Map!Held + 2 * Cardinality(MapContents)
    /\ AtRest => mcount = Cardinality(MapContents) /\ mcount * 4 <= Map!bucket_count * 3
    /\ Map!Busy =>
           /\ mkey \in Keys /\ mi = mhash[mkey] % Map!bucket_count
           /\ IF mpc = "remove" THEN mval = NoValue ELSE mval \in Values
    /\ mpc \in {"grow", "entry", "key"} => \A e \in MapContents : e.key # mkey
    /\ mpc \in {"entry", "key"} => (mcount + 1) * 4 <= Map!bucket_count * 3

LEMMA MapCardinality == \A S : Map!Cardinality(S) = Cardinality(S)
BY DEF Map!Cardinality, Map!IsFiniteSet, Cardinality, IsFiniteSet

\* What a table of n chains that contains S is to the callers.
MapSeen(S) == IF AtRest THEN DictOf(S) ELSE <<>>
LEMMA MapSees ==
    ASSUME NEW n, NEW S, Hashed(mhash, n, mbuckets), AllIn(n, mbuckets) = S, n = 0 => ~ AtRest
    PROVE  Map!bucket_count = n /\ MapContents = S /\ Map!Lookup = MapSeen(S)
<1>1. Map!bucket_count = n
  BY ContentsAreFinite, MapCardinality DEF Map!bucket_count
<1>2. MapContents = S
  BY <1>1 DEF MapContents
<1>3. CASE ~ AtRest
  <2>1. Map!Present = {}
    BY <1>3 DEF Map!Present, AtRest
  <2>2. Map!Lookup = <<>>
    BY <2>1 DEF Map!Lookup
  <2> QED
    BY <1>1, <1>2, <1>3, <2>2 DEF MapSeen
<1>4. CASE AtRest
  <2>1. PICK at : at = [k \in Keys |-> Map!Find(mbuckets[mhash[k] % n], k)]
    OBVIOUS
  <2>2. n # 0 /\ n \in Nat /\ mhash \in [Keys -> Nat]
    BY <1>4 DEF Hashed
  <2>3. ASSUME NEW k \in Keys PROVE FoundAt(mbuckets[mhash[k] % n], k, at[k])
    <3>1. mhash[k] % n \in 0 .. n - 1
      BY <2>2, BucketIs
    <3>2. mbuckets[mhash[k] % n] \in Seq(Entry)
      BY <3>1, TableIs
    <3> QED
      BY <2>1, <3>2, MapFindIs
  <2>4. FoundBy(mhash, n, mbuckets, at) = DictOf(S)
    <3>1. FindsAll(mhash, n, mbuckets, at)
      BY <2>3 DEF FindsAll
    <3> QED
      BY <2>2, <3>1, DictionaryOfTable
  <2>5. \A k \in Keys : Map!Chain(k) = mbuckets[mhash[k] % n] /\ Map!Find(Map!Chain(k), k) = at[k]
    BY <1>1, <2>1 DEF Map!Chain, Map!Bucket
  <2>6. Map!Present = {j \in Keys : at[j] # 0}
    BY <1>4, <2>5 DEF Map!Present, AtRest
  <2>7. Map!Lookup = FoundBy(mhash, n, mbuckets, at)
    BY <2>5, <2>6 DEF Map!Lookup, FoundBy
  <2> QED
    BY <1>1, <1>2, <1>4, <2>4, <2>7 DEF MapSeen
<1> QED
  BY <1>3, <1>4

MapSight ==
    \A n, S : Hashed(mhash, n, mbuckets) /\ AllIn(n, mbuckets) = S /\ (n = 0 => ~ AtRest)
        => Map!bucket_count = n /\ MapContents = S /\ Map!Lookup = MapSeen(S)
LEMMA MapSighted == MapSight
BY MapSees DEF MapSight

\* p is where a search for k ends, in its chain of the table bs.
Searched(h, n, bs, k, c, p) ==
    Hashed(h, n, bs) /\ n # 0 /\ k \in Keys /\ c = h[k] % n /\ FoundAt(bs[c], k, p)

LEMMA SearchIs ==
    ASSUME NEW h, NEW n, NEW bs, NEW k, NEW c, NEW p, Searched(h, n, bs, k, c, p)
    PROVE  /\ c \in 0 .. n - 1
           /\ p = 0 => \A e \in AllIn(n, bs) : e.key # k
           /\ p # 0 => p \in 1 .. Len(bs[c]) /\ bs[c][p] \in AllIn(n, bs) /\ bs[c][p].key = k
<1>1. Hashed(h, n, bs) /\ n # 0 /\ k \in Keys /\ c = h[k] % n /\ FoundAt(bs[c], k, p)
  BY DEF Searched
<1>2. c \in 0 .. n - 1
  BY <1>1, BucketIs DEF Hashed
<1>3. Len(bs[c]) \in Nat
  BY <1>1, <1>2, TableIs
<1>4. ASSUME p = 0, NEW e \in AllIn(n, bs) PROVE e.key # k
  <2>1. \A j \in 1 .. Len(bs[c]) : bs[c][j].key # k
    BY <1>1, <1>3, <1>4 DEF FoundAt
  <2>2. e.key = k => \E j \in 1 .. Len(bs[c]) : e = bs[c][j]
    BY <1>1, TableIs
  <2> QED
    BY <2>1, <2>2
<1>5. ASSUME p # 0
      PROVE  p \in 1 .. Len(bs[c]) /\ bs[c][p] \in AllIn(n, bs) /\ bs[c][p].key = k
  <2>1. p \in 1 .. Len(bs[c]) /\ bs[c][p].key = k
    BY <1>1, <1>5 DEF FoundAt
  <2> QED
    BY <1>1, <1>2, <2>1, TableIs
<1> QED
  BY <1>2, <1>4, <1>5

\* Where the operation under way looks for its key.
LEMMA MapSearches ==
    ASSUME MapKnows, Map!Busy, NEW p, p = Map!Find(mbuckets[mi], mkey)
    PROVE  /\ mkey \in Keys /\ mi \in 0 .. Map!bucket_count - 1 /\ Map!bucket_count # 0
           /\ mi = mhash[mkey] % Map!bucket_count
           /\ p = 0 => \A e \in MapContents : e.key # mkey
           /\ p # 0 => /\ p \in 1 .. Len(mbuckets[mi]) /\ mbuckets[mi][p] \in MapContents
                       /\ mbuckets[mi][p].key = mkey
<1>1. PICK n : n = Map!bucket_count
  OBVIOUS
<1>2. /\ Hashed(mhash, n, mbuckets) /\ n # 0 /\ mkey \in Keys /\ mi = mhash[mkey] % n
      /\ AllIn(n, mbuckets) = MapContents
  BY <1>1 DEF MapKnows, Map!Busy, MapContents
<1>3. mi \in 0 .. n - 1
  BY <1>2, BucketIs DEF Hashed
<1>4. mbuckets[mi] \in Seq(Entry)
  BY <1>2, <1>3, TableIs
<1>5. FoundAt(mbuckets[mi], mkey, p)
  BY <1>4, MapFindIs
<1>6. PICK h, bs, k, c : h = mhash /\ bs = mbuckets /\ k = mkey /\ c = mi
  OBVIOUS
<1>7. Searched(h, n, bs, k, c, p)
  BY <1>2, <1>5, <1>6 DEF Searched
<1>8. /\ p = 0 => \A e \in AllIn(n, bs) : e.key # k
      /\ p # 0 => p \in 1 .. Len(bs[c]) /\ bs[c][p] \in AllIn(n, bs) /\ bs[c][p].key = k
  BY <1>7, SearchIs
<1> QED
  BY <1>1, <1>2, <1>3, <1>6, <1>8

\* What the callers see: no call, or the one under way.
Call == IF Map!Busy THEN <<mkey, mval>> ELSE <<>>
dictVars == <<Map!Lookup, Call, manswer>>

\* A step that leaves the chains alone.
LEMMA MapWaits ==
    ASSUME MapKnows, MapSight',
           \/ Map!CreateMap \/ Map!CreateFails \/ Map!NewEntry \/ Map!NotThere \/ UNCHANGED mapVars
    PROVE  MapKnows' /\ UNCHANGED dictVars
<1>1. PICK n, S : n = Map!bucket_count /\ S = MapContents
  OBVIOUS
<1>2. /\ Hashed(mhash, n, mbuckets) /\ AllIn(n, mbuckets) = S /\ (n = 0 <=> mpc \in {"none", "create"})
      /\ n \in Nat
  BY <1>1 DEF MapKnows, MapContents, Hashed
<1>3. mhash' = mhash /\ mbuckets' = mbuckets /\ mcount' = mcount
      /\ mkey' = mkey /\ mval' = mval /\ mi' = mi /\ manswer' = manswer
  BY DEF Map!CreateMap, Map!CreateFails, Map!NewEntry, Map!NotThere, mapVars, Map!args
<1>4. (AtRest' <=> AtRest) /\ (Map!Busy' <=> Map!Busy) /\ (n = 0 <=> mpc' \in {"none", "create"})
  BY <1>2 DEF Map!CreateMap, Map!CreateFails, Map!NewEntry, Map!NotThere, mapVars, AtRest, Map!Busy
<1>5. Map!Lookup = MapSeen(S)
  BY <1>2, MapSees DEF AtRest
<1>6. Map!bucket_count' = n /\ MapContents' = S /\ Map!Lookup' = MapSeen(S)'
  BY <1>2, <1>3, <1>4 DEF MapSight, AtRest
<1>7. UNCHANGED dictVars
  BY <1>3, <1>4, <1>5, <1>6 DEF dictVars, Call, MapSeen
<1>8. MapKnows'
  <2>1. Cardinality(S) \in Nat
    BY <1>2, ContentsAreFinite
  <2>2. CASE Map!CreateMap
    BY <1>1, <1>2, <1>3, <1>4, <1>6, <2>1, <2>2 DEF MapKnows, Map!CreateMap, Map!Held, AtRest, Map!Busy
  <2>3. CASE Map!CreateFails
    BY <1>1, <1>2, <1>3, <1>4, <1>6, <2>1, <2>3 DEF MapKnows, Map!CreateFails, Map!Held, AtRest, Map!Busy
  <2>4. CASE Map!NewEntry
    BY <1>1, <1>2, <1>3, <1>4, <1>6, <2>1, <2>4 DEF MapKnows, Map!NewEntry, Map!Held, AtRest, Map!Busy
  <2>5. CASE Map!NotThere
    <3>1. \A e \in S : e.key # mkey
      <4>1. Map!Busy /\ Map!Find(mbuckets[mi], mkey) = 0
        BY <2>5 DEF Map!NotThere, Map!Busy
      <4> QED
        BY <1>1, <4>1, MapSearches
    <3>2. mcount = Cardinality(S)
      BY <1>1, <2>5 DEF MapKnows, Map!NotThere, AtRest
    <3>3. mpc' = "entry" => (mcount + 1) * 4 <= n * 3
      BY <1>1, <1>2, <2>1, <2>5, <3>2 DEF Map!NotThere, Map!TooFull
    <3> QED
      BY <1>1, <1>2, <1>3, <1>4, <1>6, <2>1, <2>5, <3>1, <3>3
         DEF MapKnows, Map!NotThere, Map!Held, AtRest, Map!Busy
  <2>6. CASE UNCHANGED mapVars
    BY <1>1, <1>2, <1>3, <1>4, <1>6, <2>6 DEF MapKnows, mapVars, Map!Held, AtRest, Map!Busy
  <2> QED
    BY <2>2, <2>3, <2>4, <2>5, <2>6
<1> QED
  BY <1>7, <1>8

LEMMA MapCreated ==
    ASSUME MapKnows, MapSight', Map!CreateBuckets
    PROVE  MapKnows' /\ UNCHANGED dictVars
<1>1. PICK n : n = FirstBuckets
  OBVIOUS
<1>2. n \in Nat /\ n # 0
  BY <1>1, MapAssumption
<1>3. mhash \in [Keys -> Nat] /\ mhash' = mhash
  BY DEF MapKnows, Hashed, Map!CreateBuckets
<1>4. mbuckets' = [b \in 0 .. n - 1 |-> <<>>]
  BY <1>1 DEF Map!CreateBuckets
<1>5. Hashed(mhash', n, mbuckets') /\ AllIn(n, mbuckets') = {}
  BY <1>2, <1>3, <1>4, EmptyTable
<1>6. Map!bucket_count' = n /\ MapContents' = {} /\ Map!Lookup' = MapSeen({})'
  BY <1>2, <1>5 DEF MapSight
<1>7. Map!Lookup = <<>>
  BY DEF Map!CreateBuckets, Map!Lookup, Map!Present
<1>8. UNCHANGED dictVars
  BY <1>6, <1>7, DictEmpty DEF Map!CreateBuckets, Map!args, dictVars, Call, Map!Busy, MapSeen
<1>9. MapContents = {}
  <2>1. Map!bucket_count = 0
    BY DEF MapKnows, Map!CreateBuckets
  <2> QED
    BY <2>1 DEF MapContents, AllIn
<1>10. MapKnows'
  <2>1. Cardinality({}) = 0
    BY FS_EmptySet
  <2> QED
    BY <1>2, <1>5, <1>6, <1>9, <2>1 DEF MapKnows, Map!CreateBuckets, Map!args, Map!Held, AtRest, Map!Busy
<1> QED
  BY <1>8, <1>10

LEMMA MapBegins ==
    ASSUME MapKnows, MapSight', NEW k \in Keys, NEW v, NEW operation,
           Map!Start(k, v, operation),
           \/ operation = "put" /\ v \in Values
           \/ operation = "remove" /\ v = NoValue
    PROVE  MapKnows' /\ Map!D!Begin(k, v)
<1>1. PICK n, S : n = Map!bucket_count /\ S = MapContents
  OBVIOUS
<1>2. /\ Hashed(mhash, n, mbuckets) /\ AllIn(n, mbuckets) = S /\ mpc = "idle" /\ n # 0
      /\ mcount = Cardinality(S) /\ mcount * 4 <= n * 3
  BY <1>1 DEF MapKnows, MapContents, AtRest, Map!Start
<1>3. /\ mhash' = mhash /\ mbuckets' = mbuckets /\ mcount' = mcount /\ mblocks' = mblocks
      /\ manswer' = manswer /\ mkey' = k /\ mval' = v /\ mi' = mhash[k] % n /\ mpc' = operation
  BY <1>1 DEF Map!Start, Map!Bucket
<1>4. AtRest /\ AtRest' /\ ~ Map!Busy /\ Map!Busy'
  BY <1>2, <1>3 DEF AtRest, Map!Busy
<1>5. Map!Lookup = MapSeen(S)
  BY <1>2, MapSees DEF AtRest
<1>6. Map!bucket_count' = n /\ MapContents' = S /\ Map!Lookup' = MapSeen(S)'
  BY <1>2, <1>3, <1>4 DEF MapSight, AtRest
<1>7. Map!D!Begin(k, v)
  BY <1>3, <1>4, <1>5, <1>6 DEF Map!D!Begin, MapSeen
<1>8. MapKnows'
  BY <1>1, <1>2, <1>3, <1>4, <1>6 DEF MapKnows, Map!Held, AtRest, Map!Busy
<1> QED
  BY <1>7, <1>8

\* The key is put: where it was, or in front of its chain.
LEMMA MapReplaces ==
    ASSUME MapKnows, MapSight', Map!Replace
    PROVE  MapKnows' /\ mkey \in Keys /\ mval \in Values /\ Map!D!Store(mkey, mval)
<1>1. PICK n, S : n = Map!bucket_count /\ S = MapContents
  OBVIOUS
<1>2. /\ Hashed(mhash, n, mbuckets) /\ AllIn(n, mbuckets) = S /\ mpc = "put" /\ n # 0
      /\ mcount = Cardinality(S) /\ mcount * 4 <= n * 3 /\ mval \in Values
      /\ mblocks = 2 + 2 * Cardinality(S)
  BY <1>1 DEF MapKnows, MapContents, AtRest, Map!Replace, Map!Held, Map!Busy
<1>3. PICK h, bs, k, v, c, p :
          /\ h = mhash /\ bs = mbuckets /\ k = mkey /\ v = mval /\ c = mi
          /\ p = Map!Find(mbuckets[mi], mkey)
  OBVIOUS
<1>4. /\ Map!Busy /\ p # 0 /\ mhash' = h /\ mcount' = mcount /\ mblocks' = mblocks
      /\ mbuckets' = Changing(bs, c, p, v) /\ mpc' = "idle" /\ manswer' = TRUE
  BY <1>3 DEF Map!Replace, Map!Return, Map!Busy, Changing
<1>5. /\ k \in Keys /\ c = h[k] % n /\ c \in 0 .. n - 1
      /\ p \in 1 .. Len(bs[c]) /\ bs[c][p] \in S /\ bs[c][p].key = k
  BY <1>1, <1>3, <1>4, MapSearches
<1>6. Hashed(h, n, bs) /\ AllIn(n, bs) = S /\ v \in Values
  BY <1>2, <1>3
<1> DEFINE T == With(S, k, v)
<1>7. Hashed(h, n, Changing(bs, c, p, v)) /\ AllIn(n, Changing(bs, c, p, v)) = T
  <2> HIDE DEF T
  <2>1. n # 0 /\ k \in Keys /\ v \in Values /\ c = h[k] % n /\ Hashed(h, n, bs)
    BY <1>2, <1>5, <1>6
  <2>2. Hashed(h, n, Changing(bs, c, p, v))
    BY <1>5, <2>1, TableChanges
  <2>3. AllIn(n, Changing(bs, c, p, v)) = With(AllIn(n, bs), k, v)
    <3>1. p \in 1 .. Len(bs[c]) /\ bs[c][p].key = k
      BY <1>5
    <3> QED
      BY <2>1, <3>1, TableChanges
  <2> QED
    BY <1>6, <2>2, <2>3 DEF T
<1>8. IsFiniteSet(S) /\ Functional(S)
  BY <1>6, ContentsAreFinite
<1>9. Cardinality(T) = Cardinality(S)
  <2>1. PICK e \in S : e = bs[c][p]
    BY <1>5
  <2>2. e.key = k
    BY <1>5, <2>1
  <2> QED
    BY <1>8, <2>2, SizeSame
<1>10. DictOf(T) = Stored(DictOf(S), k, v)
  BY <1>5, <1>6, <1>8, DictStore
<1> HIDE DEF T
<1>11. Map!Lookup = DictOf(S)
  BY <1>2, MapSees DEF AtRest, MapSeen
<1>12. Map!bucket_count' = n /\ MapContents' = T /\ Map!Lookup' = DictOf(T)
  BY <1>2, <1>4, <1>7 DEF MapSight, AtRest, MapSeen
<1>13. Map!D!Store(k, v)
  BY <1>3, <1>4, <1>10, <1>11, <1>12 DEF Stored, Map!D!Store, Map!D!UnderWay, Map!Busy
<1>14. MapKnows'
  BY <1>2, <1>3, <1>4, <1>7, <1>9, <1>12 DEF MapKnows, Map!Held, AtRest, Map!Busy
<1> QED
  BY <1>2, <1>3, <1>5, <1>13, <1>14

LEMMA MapAdds ==
    ASSUME MapKnows, MapSight', Map!NewKey
    PROVE  MapKnows' /\ mkey \in Keys /\ mval \in Values /\ Map!D!Store(mkey, mval)
<1>1. PICK n, S : n = Map!bucket_count /\ S = MapContents
  OBVIOUS
<1>2. /\ Hashed(mhash, n, mbuckets) /\ AllIn(n, mbuckets) = S /\ mpc = "key" /\ n # 0 /\ n \in Nat
      /\ mcount = Cardinality(S) /\ (mcount + 1) * 4 <= n * 3 /\ mval \in Values
      /\ mblocks = 3 + 2 * Cardinality(S) /\ mkey \in Keys /\ mi = mhash[mkey] % n
      /\ \A e \in S : e.key # mkey
  BY <1>1 DEF MapKnows, MapContents, AtRest, Map!NewKey, Map!Held, Map!Busy, Hashed
<1>3. PICK h, bs, k, v, c : h = mhash /\ bs = mbuckets /\ k = mkey /\ v = mval /\ c = mi
  OBVIOUS
<1> DEFINE new == [key |-> k, value |-> v]
           T == With(S, k, v)
<1>4. /\ Map!Busy /\ mhash' = h /\ mcount' = mcount + 1 /\ mblocks' = mblocks + 1
      /\ mbuckets' = Pushing(bs, c, new) /\ mpc' = "idle" /\ manswer' = TRUE
  BY <1>3 DEF Map!NewKey, Map!Return, Map!Busy, Pushing
<1>5. /\ Hashed(h, n, bs) /\ AllIn(n, bs) = S /\ v \in Values /\ k \in Keys
      /\ c = h[k] % n /\ c \in 0 .. n - 1
  <2>1. Hashed(h, n, bs) /\ AllIn(n, bs) = S /\ v \in Values /\ k \in Keys /\ c = h[k] % n
    BY <1>2, <1>3
  <2> QED
    BY <1>2, <2>1, BucketIs DEF Hashed
<1>6. \A j \in 1 .. Len(bs[c]) : bs[c][j].key # k
  BY <1>2, <1>3, <1>5, TableIs
<1>7. Hashed(h, n, Pushing(bs, c, new)) /\ AllIn(n, Pushing(bs, c, new)) = T
  <2>1. Hashed(h, n, Pushing(bs, c, new))
    BY <1>2, <1>5, <1>6, TablePushes
  <2>2. AllIn(n, Pushing(bs, c, new)) = T
    BY <1>2, <1>5, <1>6, TablePushes
  <2> QED
    BY <2>1, <2>2
<1>8. IsFiniteSet(S) /\ Functional(S) /\ Cardinality(S) \in Nat
  BY <1>5, ContentsAreFinite
<1>9. Cardinality(T) = Cardinality(S) + 1
  <2>1. \A e \in S : e.key # k
    BY <1>2, <1>3
  <2> QED
    BY <1>8, <2>1, SizeMore
<1>10. DictOf(T) = Stored(DictOf(S), k, v)
  BY <1>5, <1>8, DictStore
<1> HIDE DEF T
<1>11. Map!Lookup = DictOf(S)
  BY <1>2, MapSees DEF AtRest, MapSeen
<1>12. Map!bucket_count' = n /\ MapContents' = T /\ Map!Lookup' = DictOf(T)
  BY <1>2, <1>4, <1>7 DEF MapSight, AtRest, MapSeen
<1>13. Map!D!Store(k, v)
  BY <1>3, <1>4, <1>10, <1>11, <1>12 DEF Stored, Map!D!Store, Map!D!UnderWay, Map!Busy
<1>14. MapKnows'
  <2>1. mblocks' = 2 + 2 * Cardinality(T) /\ mcount' = Cardinality(T) /\ mcount' * 4 <= n * 3
    BY <1>2, <1>4, <1>8, <1>9
  <2> QED
    BY <1>2, <1>3, <1>4, <1>7, <1>12, <2>1 DEF MapKnows, Map!Held, AtRest, Map!Busy
<1> QED
  BY <1>2, <1>3, <1>13, <1>14

\* map_grow's list of the entries, and the table it makes of them.
LEMMA MapEntriesAre ==
    ASSUME Hashed(mhash, Map!bucket_count, mbuckets)
    PROVE  Lists(Map!Entries, MapContents)
<1>1. PICK n : n = Map!bucket_count
  OBVIOUS
<1> DEFINE F == CHOOSE f : IsUpto(f, n, mbuckets)
<1>2. Map!Entries = F[n]
  BY <1>1 DEF Map!Entries, IsUpto
<1>3. n \in Nat /\ Hashed(mhash, n, mbuckets)
  BY <1>1 DEF Hashed
<1>4. \E f : IsUpto(f, n, mbuckets)
  BY <1>3, UptoExists
<1>5. IsUpto(F, n, mbuckets)
  <2> HIDE DEF IsUpto
  <2> QED
    BY <1>4
<1> HIDE DEF F
<1>6. Lists(F[n], AllIn(n, mbuckets))
  BY <1>3, <1>5, EntriesAre
<1> QED
  BY <1>1, <1>2, <1>6 DEF MapContents

LEMMA RehashedIs ==
    ASSUME Hashed(mhash, Map!bucket_count, mbuckets), NEW n \in Nat, n # 0
    PROVE  Hashed(mhash, n, Map!Rehashed(n)) /\ AllIn(n, Map!Rehashed(n)) = MapContents
<1>1. PICK s, S, h : s = Map!Entries /\ S = MapContents /\ h = mhash
  OBVIOUS
<1>2. Lists(s, S) /\ Len(s) \in Nat /\ h \in [Keys -> Nat]
  <2>1. Lists(s, S)
    BY <1>1, MapEntriesAre
  <2>2. s \in Seq(Entry)
    BY <2>1 DEF Lists
  <2> QED
    BY <1>1, <2>1, <2>2, LenProperties DEF Hashed
<1> DEFINE F == CHOOSE f : IsMoved(f, h, n, s)
<1>3. Map!Rehashed(n) = F[Len(s)]
  BY <1>1 DEF Map!Rehashed, Map!Bucket, IsMoved
<1>4. \E f : IsMoved(f, h, n, s)
  BY <1>2, MovedExists
<1>5. IsMoved(F, h, n, s)
  <2> HIDE DEF IsMoved
  <2> QED
    BY <1>4
<1> HIDE DEF F
<1>6. Hashed(h, n, F[Len(s)]) /\ AllIn(n, F[Len(s)]) = S
  <2>1. Hashed(h, n, F[Len(s)])
    BY <1>2, <1>5, MovedIs
  <2>2. AllIn(n, F[Len(s)]) = S
    BY <1>2, <1>5, MovedIs
  <2> QED
    BY <2>1, <2>2
<1> QED
  BY <1>1, <1>3, <1>6

LEMMA MapGrows ==
    ASSUME MapKnows, MapSight', Map!Grow
    PROVE  MapKnows' /\ UNCHANGED dictVars
<1>1. PICK n, S : n = Map!bucket_count /\ S = MapContents
  OBVIOUS
<1>2. /\ Hashed(mhash, n, mbuckets) /\ AllIn(n, mbuckets) = S /\ mpc = "grow" /\ n # 0 /\ n \in Nat
      /\ mcount = Cardinality(S) /\ mcount * 4 <= n * 3
      /\ mblocks = 2 + 2 * Cardinality(S) /\ mkey \in Keys /\ mval \in Values
      /\ \A e \in S : e.key # mkey
  BY <1>1 DEF MapKnows, MapContents, AtRest, Map!Grow, Map!Held, Map!Busy, Hashed
<1>3. PICK m : m = n * 2
  OBVIOUS
<1>4. m \in Nat /\ m # 0
  BY <1>2, <1>3
<1>5. Hashed(mhash, m, Map!Rehashed(m)) /\ AllIn(m, Map!Rehashed(m)) = S
  BY <1>1, <1>2, <1>4, RehashedIs
<1>6. /\ mbuckets' = Map!Rehashed(m) /\ mi' = mhash[mkey] % m /\ mpc' = "entry"
      /\ mhash' = mhash /\ mcount' = mcount /\ mblocks' = mblocks
      /\ mkey' = mkey /\ mval' = mval /\ manswer' = manswer
  BY <1>1, <1>3 DEF Map!Grow, Map!NewIndex, Map!Bucket
<1>7. Map!Lookup = DictOf(S)
  BY <1>2, MapSees DEF AtRest, MapSeen
<1>8. Map!bucket_count' = m /\ MapContents' = S /\ Map!Lookup' = DictOf(S)
  BY <1>4, <1>5, <1>6 DEF MapSight, AtRest, MapSeen
<1>9. UNCHANGED dictVars
  BY <1>2, <1>6, <1>7, <1>8 DEF dictVars, Call, Map!Busy
<1>10. Cardinality(S) \in Nat
  BY <1>2, ContentsAreFinite
<1>11. mcount * 4 <= m * 3 /\ (mcount + 1) * 4 <= m * 3
  BY <1>2, <1>3, <1>10
<1>12. MapKnows'
  BY <1>2, <1>4, <1>5, <1>6, <1>8, <1>11 DEF MapKnows, Map!Held, AtRest, Map!Busy
<1> QED
  BY <1>9, <1>12

LEMMA MapRefuses ==
    ASSUME MapKnows, MapSight', Map!PutFails
    PROVE  MapKnows' /\ mkey \in Keys /\ mval \in Values /\ Map!D!Refuse(mkey, mval)
<1>1. PICK n, S : n = Map!bucket_count /\ S = MapContents
  OBVIOUS
<1>2. /\ Hashed(mhash, n, mbuckets) /\ AllIn(n, mbuckets) = S /\ n # 0
      /\ mpc \in {"grow", "entry", "key"}
      /\ mcount = Cardinality(S) /\ mcount * 4 <= n * 3
      /\ mkey \in Keys /\ mval \in Values
      /\ \A e \in S : e.key # mkey
  BY <1>1 DEF MapKnows, MapContents, AtRest, Map!PutFails, Map!Busy
<1>3. Functional(S) /\ Cardinality(S) \in Nat
  BY <1>2, ContentsAreFinite
<1>4. mblocks' = 2 + 2 * Cardinality(S)
  BY <1>1, <1>3 DEF MapKnows, Map!PutFails, Map!GivenBack, Map!Held
<1>5. /\ mpc' = "idle" /\ manswer' = FALSE /\ mhash' = mhash /\ mbuckets' = mbuckets
      /\ mcount' = mcount
  BY DEF Map!PutFails, Map!Return
<1>6. Map!Lookup = DictOf(S)
  BY <1>2, MapSees DEF AtRest, MapSeen
<1>7. Map!bucket_count' = n /\ MapContents' = S /\ Map!Lookup' = DictOf(S)
  BY <1>2, <1>5 DEF MapSight, AtRest, MapSeen
<1>8. mkey \notin DOMAIN DictOf(S)
  BY <1>2 DEF DictOf
<1>9. Map!D!Refuse(mkey, mval)
  BY <1>2, <1>5, <1>6, <1>7, <1>8 DEF Map!D!Refuse, Map!D!UnderWay, Map!Busy
<1>10. MapKnows'
  BY <1>2, <1>4, <1>5, <1>7 DEF MapKnows, Map!Held, AtRest, Map!Busy
<1> QED
  BY <1>2, <1>9, <1>10

LEMMA MapForgets ==
    ASSUME MapKnows, MapSight', Map!RemoveKey \/ Map!RemoveNothing
    PROVE  MapKnows' /\ mkey \in Keys /\ Map!D!Forget(mkey)
<1>1. PICK n, S : n = Map!bucket_count /\ S = MapContents
  OBVIOUS
<1>2. /\ Hashed(mhash, n, mbuckets) /\ AllIn(n, mbuckets) = S /\ mpc = "remove" /\ n # 0 /\ n \in Nat
      /\ mcount = Cardinality(S) /\ mcount * 4 <= n * 3
      /\ mblocks = 2 + 2 * Cardinality(S) /\ mval = NoValue
  BY <1>1 DEF MapKnows, MapContents, AtRest, Map!RemoveKey, Map!RemoveNothing, Map!Held, Map!Busy, Hashed
<1>3. PICK h, bs, k, c, p :
          /\ h = mhash /\ bs = mbuckets /\ k = mkey /\ c = mi
          /\ p = Map!Find(mbuckets[mi], mkey)
  OBVIOUS
<1>4. Hashed(h, n, bs) /\ AllIn(n, bs) = S
  BY <1>2, <1>3
<1>5. /\ k \in Keys /\ c \in 0 .. n - 1
      /\ p = 0 => \A e \in S : e.key # k
      /\ p # 0 => p \in 1 .. Len(bs[c]) /\ bs[c][p] \in S /\ bs[c][p].key = k
  <2>1. Map!Busy
    BY <1>2 DEF Map!Busy
  <2> QED
    BY <1>1, <1>3, <2>1, MapSearches
<1>6. IsFiniteSet(S) /\ Functional(S) /\ Cardinality(S) \in Nat
  BY <1>4, ContentsAreFinite
<1>7. DictOf(Without(S, k)) = Forgot(DictOf(S), k)
  BY <1>6, DictForget
<1>8. Map!Lookup = DictOf(S)
  BY <1>2, MapSees DEF AtRest, MapSeen
<1>9. /\ mhash' = h /\ mpc' = "idle" /\ manswer' = (p # 0)
  BY <1>3 DEF Map!RemoveKey, Map!RemoveNothing, Map!Return
<1>10. k \in DOMAIN DictOf(S) <=> p # 0
  <2>1. k \in DOMAIN DictOf(S) <=> \E e \in S : e.key = k
    BY DEF DictOf
  <2> QED
    BY <1>5, <2>1
<1>11. /\ Hashed(h, n, mbuckets') /\ AllIn(n, mbuckets') = Without(S, k)
       /\ mcount' = Cardinality(Without(S, k)) /\ mblocks' = 2 + 2 * Cardinality(Without(S, k))
       /\ mcount' * 4 <= n * 3
  <2>1. CASE p = 0
    <3>1. mbuckets' = bs /\ mcount' = mcount /\ mblocks' = mblocks
      BY <1>3, <2>1 DEF Map!RemoveKey, Map!RemoveNothing
    <3>2. Without(S, k) = S
      BY <1>5, <2>1 DEF Without
    <3> QED
      BY <1>2, <1>4, <3>1, <3>2
  <2>2. CASE p # 0
    <3>1. mbuckets' = Removing(bs, c, p) /\ mcount' = mcount - 1 /\ mblocks' = mblocks - 2
      BY <1>3, <2>2 DEF Map!RemoveKey, Map!RemoveNothing, Map!RemoveAt, Removing, Spliced
    <3>2. p \in 1 .. Len(bs[c]) /\ bs[c][p].key = k
      BY <1>5, <2>2
    <3>3. Hashed(h, n, Removing(bs, c, p))
      BY <1>4, <1>5, <3>2, TableForgets
    <3>4. AllIn(n, Removing(bs, c, p)) = Without(AllIn(n, bs), bs[c][p].key)
      BY <1>4, <1>5, <3>2, TableForgets
    <3>5. PICK e \in S : e = bs[c][p]
      BY <1>5, <2>2
    <3>6. Without(S, k) = S \ {e}
      BY <1>6, <3>2, <3>5, SizeSame
    <3>7. Cardinality(Without(S, k)) = Cardinality(S) - 1
      BY <1>6, <3>6, SizeLess
    <3> QED
      BY <1>2, <1>4, <1>6, <3>1, <3>2, <3>3, <3>4, <3>7
  <2> QED
    BY <2>1, <2>2
<1>12. Map!bucket_count' = n /\ MapContents' = Without(S, k) /\ Map!Lookup' = DictOf(Without(S, k))
  BY <1>2, <1>9, <1>11 DEF MapSight, AtRest, MapSeen
<1>13. Map!D!Forget(k)
  BY <1>2, <1>3, <1>7, <1>8, <1>9, <1>10, <1>12
     DEF Forgot, Map!D!Forget, Map!D!UnderWay, Map!Busy
<1>14. MapKnows'
  BY <1>2, <1>9, <1>11, <1>12 DEF MapKnows, Map!Held, AtRest, Map!Busy
<1> QED
  BY <1>3, <1>5, <1>13, <1>14

\* map_destroy finds a chain with an entry while there is one.
LEMMA SomeChainIsUsed ==
    ASSUME NEW h, NEW n, NEW bs, Hashed(h, n, bs), AllIn(n, bs) # {}
    PROVE  \E b \in DOMAIN bs : bs[b] # <<>> /\ \A c \in 0 .. b - 1 : bs[c] = <<>>
<1>1. n \in Nat /\ DOMAIN bs = 0 .. n - 1
  BY DEF Hashed
<1> DEFINE U == {b \in 0 .. n - 1 : bs[b] # <<>>}
<1>2. U # {}
  <2>1. PICK b \in 0 .. n - 1 : Elements(bs[b]) # {}
    BY DEF AllIn
  <2>2. bs[b] # <<>>
    BY <2>1 DEF Elements
  <2> QED
    BY <2>2
<1>3. U \in SUBSET Nat
  BY <1>1
<1>4. PICK b \in U : \A c \in U : b <= c
  <2> HIDE DEF U
  <2> QED
    BY <1>2, <1>3, LeastIs
<1>5. ASSUME NEW c \in 0 .. b - 1 PROVE bs[c] = <<>>
  <2>1. c \in 0 .. n - 1 /\ ~ (b <= c)
    BY <1>1
  <2> QED
    BY <1>4, <2>1
<1> QED
  BY <1>1, <1>5

LEMMA MapEmpties ==
    ASSUME MapKnows, MapSight', Map!DestroyEntry
    PROVE  MapKnows' /\ UNCHANGED dictVars
<1>1. PICK n, S : n = Map!bucket_count /\ S = MapContents
  OBVIOUS
<1>2. /\ Hashed(mhash, n, mbuckets) /\ AllIn(n, mbuckets) = S /\ mpc = "destroy" /\ n # 0 /\ n \in Nat
      /\ mblocks = 2 + 2 * Cardinality(S)
  BY <1>1 DEF MapKnows, MapContents, Map!DestroyEntry, Map!Held, Hashed
<1>3. PICK h, bs, b : h = mhash /\ bs = mbuckets /\ b = Map!FirstUsed
  OBVIOUS
<1>4. Hashed(h, n, bs) /\ AllIn(n, bs) = S
  BY <1>2, <1>3
<1>5. S # {}
  <2>1. Lists(Map!Entries, S)
    BY <1>1, <1>2, MapEntriesAre
  <2> QED
    BY <2>1, ListsCount DEF Map!DestroyEntry
<1>6. b \in 0 .. n - 1 /\ bs[b] # <<>>
  <2>1. \E c \in DOMAIN bs : bs[c] # <<>> /\ \A d \in 0 .. c - 1 : bs[d] = <<>>
    BY <1>4, <1>5, SomeChainIsUsed
  <2>2. b \in DOMAIN bs /\ bs[b] # <<>>
    BY <1>3, <2>1 DEF Map!FirstUsed
  <2> QED
    BY <1>4, <2>2 DEF Hashed
<1>7. /\ mbuckets' = Tailing(bs, b) /\ mhash' = h /\ mpc' = "destroy" /\ mblocks' = mblocks - 2
      /\ mkey' = mkey /\ mval' = mval /\ manswer' = manswer
  BY <1>2, <1>3 DEF Map!DestroyEntry, Map!args, Tailing
<1>8. Hashed(h, n, Tailing(bs, b))
  BY <1>4, <1>6, TableTails
<1>9. \E e \in S : AllIn(n, Tailing(bs, b)) = S \ {e}
  BY <1>4, <1>6, TableTails
<1>10. PICK e \in S : AllIn(n, Tailing(bs, b)) = S \ {e}
  BY <1>9
<1>11. Cardinality(S \ {e}) = Cardinality(S) - 1 /\ Cardinality(S) \in Nat
  BY <1>4, ContentsAreFinite, SizeLess
<1>12. Map!bucket_count' = n /\ MapContents' = S \ {e} /\ Map!Lookup' = <<>>
  BY <1>2, <1>7, <1>8, <1>10 DEF MapSight, AtRest, MapSeen
<1>13. Map!Lookup = <<>>
  BY <1>2, MapSees DEF AtRest, MapSeen
<1>14. UNCHANGED dictVars
  BY <1>2, <1>7, <1>12, <1>13 DEF dictVars, Call, Map!Busy
<1>15. mblocks' = 2 + 2 * Cardinality(S \ {e})
  BY <1>2, <1>7, <1>11
<1>16. MapKnows'
  BY <1>2, <1>7, <1>8, <1>12, <1>15 DEF MapKnows, Map!Held, AtRest, Map!Busy
<1> QED
  BY <1>14, <1>16

LEMMA MapGoes ==
    ASSUME MapKnows, MapSight', Map!DestroyMap
    PROVE  MapKnows' /\ UNCHANGED dictVars
<1>1. PICK n, S : n = Map!bucket_count /\ S = MapContents
  OBVIOUS
<1>2. /\ Hashed(mhash, n, mbuckets) /\ AllIn(n, mbuckets) = S /\ mpc = "destroy" /\ n # 0
      /\ mblocks = 2 + 2 * Cardinality(S)
  BY <1>1 DEF MapKnows, MapContents, Map!DestroyMap, Map!Held
<1>3. S = {}
  <2>1. Lists(Map!Entries, S)
    BY <1>1, <1>2, MapEntriesAre
  <2> QED
    BY <2>1, ListsCount DEF Map!DestroyMap
<1>4. Cardinality({}) = 0
  BY FS_EmptySet
<1>5. /\ mbuckets' = <<>> /\ mhash' = mhash /\ mpc' = "none" /\ mblocks' = 0
      /\ mkey' = mkey /\ mval' = mval /\ manswer' = manswer
  BY <1>2, <1>3, <1>4 DEF Map!DestroyMap, Map!args
<1>6. PICK none : none = 0
  OBVIOUS
<1>7. Hashed(mhash', none, mbuckets') /\ AllIn(none, mbuckets') = {}
  <2>1. mhash' \in [Keys -> Nat] /\ none \in Nat
    BY <1>2, <1>5, <1>6 DEF Hashed
  <2>2. mbuckets' = [b \in 0 .. none - 1 |-> <<>>]
    BY <1>5, <1>6
  <2> QED
    BY <2>1, <2>2, EmptyTable
<1>8. Map!bucket_count' = none /\ MapContents' = {} /\ Map!Lookup' = <<>>
  BY <1>5, <1>7 DEF MapSight, AtRest, MapSeen
<1>9. Map!Lookup = <<>>
  BY <1>2, MapSees DEF AtRest, MapSeen
<1>10. UNCHANGED dictVars
  BY <1>2, <1>5, <1>8, <1>9 DEF dictVars, Call, Map!Busy
<1>11. MapKnows'
  BY <1>4, <1>5, <1>6, <1>7, <1>8 DEF MapKnows, Map!Held, AtRest, Map!Busy
<1> QED
  BY <1>10, <1>11

\* To the callers the map is empty from the start of map_destroy.
LEMMA MapClears ==
    ASSUME MapKnows, MapSight', Map!StartDestroy
    PROVE  MapKnows' /\ Map!D!Clear
<1>1. PICK n, S : n = Map!bucket_count /\ S = MapContents
  OBVIOUS
<1>2. /\ Hashed(mhash, n, mbuckets) /\ AllIn(n, mbuckets) = S /\ mpc = "idle" /\ n # 0
      /\ mblocks = 2 + 2 * Cardinality(S)
  BY <1>1 DEF MapKnows, MapContents, Map!StartDestroy, Map!Held
<1>3. /\ mbuckets' = mbuckets /\ mhash' = mhash /\ mpc' = "destroy" /\ mblocks' = mblocks
      /\ manswer' = TRUE
  BY DEF Map!StartDestroy
<1>4. Map!bucket_count' = n /\ MapContents' = S /\ Map!Lookup' = <<>>
  BY <1>2, <1>3 DEF MapSight, AtRest, MapSeen
<1>5. Map!D!Clear
  BY <1>2, <1>3, <1>4 DEF Map!D!Clear, Map!Busy
<1>6. MapKnows'
  BY <1>2, <1>3, <1>4 DEF MapKnows, Map!Held, AtRest, Map!Busy
<1> QED
  BY <1>5, <1>6

\* A step of the map keeps what it knows, and is a step of the dictionary or none.
LEMMA MapStep ==
    MapKnows /\ [Map!Next]_mapVars => MapKnows' /\ [Map!D!DNext]_dictVars
<1> SUFFICES ASSUME MapKnows, [Map!Next]_mapVars PROVE MapKnows' /\ [Map!D!DNext]_dictVars
  OBVIOUS
<1>1. MapSight'
  BY MapSighted, PTL
<1>2. CASE \/ Map!CreateMap \/ Map!CreateFails \/ Map!NewEntry \/ Map!NotThere
           \/ UNCHANGED mapVars
  BY <1>1, <1>2, MapWaits
<1>3. CASE Map!CreateBuckets
  BY <1>1, <1>3, MapCreated
<1>4. CASE Map!Grow
  BY <1>1, <1>4, MapGrows
<1>5. CASE Map!DestroyEntry
  BY <1>1, <1>5, MapEmpties
<1>6. CASE Map!DestroyMap
  BY <1>1, <1>6, MapGoes
<1>7. CASE Map!StartDestroy
  <2>1. MapKnows' /\ Map!D!Clear
    BY <1>1, <1>7, MapClears
  <2> QED
    BY <2>1 DEF Map!D!DNext
<1>8. ASSUME NEW k \in Keys, Map!StartRemove(k)
      PROVE  MapKnows' /\ [Map!D!DNext]_dictVars
  <2>1. Map!Start(k, NoValue, "remove")
    BY <1>8 DEF Map!StartRemove
  <2>2. MapKnows' /\ Map!D!Begin(k, NoValue)
    BY <1>1, <2>1, MapBegins
  <2> QED
    BY <2>2 DEF Map!D!DNext
<1>9. ASSUME NEW k \in Keys, NEW v \in Values, Map!StartPut(k, v)
      PROVE  MapKnows' /\ [Map!D!DNext]_dictVars
  <2>1. Map!Start(k, v, "put")
    BY <1>9 DEF Map!StartPut
  <2>2. MapKnows' /\ Map!D!Begin(k, v)
    BY <1>1, <2>1, MapBegins
  <2> QED
    BY <2>2 DEF Map!D!DNext
<1>10. CASE Map!Replace
  <2>1. MapKnows' /\ mkey \in Keys /\ mval \in Values /\ Map!D!Store(mkey, mval)
    BY <1>1, <1>10, MapReplaces
  <2> QED
    BY <2>1 DEF Map!D!DNext
<1>11. CASE Map!NewKey
  <2>1. MapKnows' /\ mkey \in Keys /\ mval \in Values /\ Map!D!Store(mkey, mval)
    BY <1>1, <1>11, MapAdds
  <2> QED
    BY <2>1 DEF Map!D!DNext
<1>12. CASE Map!PutFails
  <2>1. MapKnows' /\ mkey \in Keys /\ mval \in Values /\ Map!D!Refuse(mkey, mval)
    BY <1>1, <1>12, MapRefuses
  <2> QED
    BY <2>1 DEF Map!D!DNext
<1>13. CASE Map!RemoveKey \/ Map!RemoveNothing
  <2>1. MapKnows' /\ mkey \in Keys /\ Map!D!Forget(mkey)
    BY <1>1, <1>13, MapForgets
  <2> QED
    BY <2>1 DEF Map!D!DNext
<1> QED
  BY <1>2, <1>3, <1>4, <1>5, <1>6, <1>7, <1>8, <1>9, <1>10, <1>11, <1>12, <1>13 DEF Map!Next

LEMMA MapInit == Map!Init => MapKnows /\ Map!D!DInit
<1> SUFFICES ASSUME Map!Init PROVE MapKnows /\ Map!D!DInit
  OBVIOUS
<1>1. PICK none : none = 0
  OBVIOUS
<1>2. mhash \in [Keys -> Nat]
  BY MapAssumption DEF Map!Init
<1>3. Hashed(mhash, none, mbuckets) /\ AllIn(none, mbuckets) = {}
  <2>1. mbuckets = [b \in 0 .. none - 1 |-> <<>>] /\ none \in Nat
    BY <1>1 DEF Map!Init
  <2> QED
    BY <1>2, <2>1, EmptyTable
<1>4. mpc = "none" /\ mblocks = 0 /\ manswer = TRUE
  BY DEF Map!Init
<1>5. Map!bucket_count = none /\ MapContents = {} /\ Map!Lookup = <<>>
  BY <1>3, <1>4, MapSees DEF AtRest, MapSeen
<1>6. Cardinality({}) = 0
  BY FS_EmptySet
<1>7. MapKnows
  BY <1>1, <1>3, <1>4, <1>5, <1>6 DEF MapKnows, Map!Held, AtRest, Map!Busy
<1> QED
  BY <1>4, <1>5, <1>7 DEF Map!D!DInit, Map!Busy

LEMMA MapFrame == [NextStructures]_structureVars => [Map!Next]_mapVars
BY DEF NextStructures, structureVars

LEMMA MapInvariance == SpecStructures => []MapKnows
<1>1. InitStructures => MapKnows
  BY MapInit DEF InitStructures
<1> QED
  BY <1>1, MapStep, MapFrame, PTL DEF SpecStructures

\* adt.c: to its callers the hash map is a dictionary.
THEOREM HashMapIsDictionary == SpecStructures => Map!ImplementsDictionary
<1>1. InitStructures => Map!D!DInit
  BY MapInit DEF InitStructures
<1>2. MapKnows /\ [NextStructures]_structureVars => [Map!D!DNext]_dictVars
  BY MapStep, MapFrame
<1> QED
  BY <1>1, <1>2, MapInvariance, PTL
     DEF SpecStructures, Map!ImplementsDictionary, Map!D!DSpec, dictVars, Call

\* adt.c: blocks, count and chains of the hash map agree.
THEOREM HashMapKeepsItsShape == SpecStructures => []Map!MapShape
<1>1. MapKnows => Map!MapShape
  <2> SUFFICES ASSUME MapKnows PROVE Map!MapShape
    OBVIOUS
  <2>1. PICK n, S, s : n = Map!bucket_count /\ S = MapContents /\ s = Map!Entries
    OBVIOUS
  <2>2. Hashed(mhash, n, mbuckets)
    BY <2>1 DEF MapKnows
  <2>3. Lists(s, S)
    BY <2>1, MapEntriesAre DEF MapKnows
  <2>4. Cardinality(S) = Len(s) /\ Cardinality({s[j].key : j \in 1 .. Len(s)}) = Len(s)
        /\ DOMAIN s = 1 .. Len(s)
    <3>1. s \in Seq(Entry)
      BY <2>3 DEF Lists
    <3> QED
      BY <2>3, <3>1, ListsCount, LenProperties
  <2>5. mblocks = Map!Held + 2 * Len(s)
    BY <2>1, <2>4 DEF MapKnows
  <2>6. ASSUME NEW b \in DOMAIN mbuckets, NEW j \in DOMAIN mbuckets[b]
        PROVE  Map!Bucket(mbuckets[b][j].key, n) = b
    <3>1. b \in 0 .. n - 1
      BY <2>2 DEF Hashed
    <3>2. ChainOf(mhash, n, b, mbuckets[b])
      BY <2>2, <3>1 DEF Hashed
    <3>3. mbuckets[b] \in Seq(Entry)
      BY <3>2 DEF ChainOf
    <3>4. j \in 1 .. Len(mbuckets[b])
      BY <3>3, LenProperties
    <3> QED
      BY <3>2, <3>4 DEF ChainOf, Map!Bucket
  <2>7. mpc \notin {"none", "create", "destroy"} => mcount = Len(s) /\ mcount * 4 <= n * 3
    BY <2>1, <2>4 DEF MapKnows, AtRest
  <2>8. Map!Cardinality({s[j].key : j \in DOMAIN s}) = Len(s)
    BY <2>4, MapCardinality
  <2> QED
    BY <2>1, <2>5, <2>6, <2>7, <2>8 DEF Map!MapShape
<1> QED
  BY <1>1, MapInvariance, PTL

-----------------------------------------------------------------------------
\* tests.c: the map of week 35, likewise.

FixedContents == AllIn(Fixed!bucket_count, fbuckets)
FixedKnows ==
    /\ fpc \in {"none", "idle", "put", "key", "remove"}
    /\ Hashed(fhash, Fixed!bucket_count, fbuckets)
    /\ Fixed!bucket_count = 0 <=> fpc = "none"
    /\ fblocks = CASE fpc = "none" -> 0
                   [] fpc = "key" -> 3 + 2 * Cardinality(FixedContents)
                   [] OTHER -> 2 + 2 * Cardinality(FixedContents)
    /\ fpc # "none" => fcount = Cardinality(FixedContents)
    /\ fpc \in {"put", "key", "remove"} =>
           /\ fkey \in Keys
           /\ IF fpc = "remove" THEN fval = NoValue ELSE fval \in Values
    /\ fpc = "key" => \A e \in FixedContents : e.key # fkey

LEMMA FixedCardinality == \A S : Fixed!Cardinality(S) = Cardinality(S)
BY DEF Fixed!Cardinality, Fixed!IsFiniteSet, Cardinality, IsFiniteSet

FixedSeen(S) == IF fpc = "none" THEN <<>> ELSE DictOf(S)
FixedSight ==
    \A n, S : Hashed(fhash, n, fbuckets) /\ AllIn(n, fbuckets) = S /\ (n = 0 => fpc = "none")
        => Fixed!bucket_count = n /\ FixedContents = S /\ Fixed!Lookup = FixedSeen(S)

LEMMA FixedSees ==
    ASSUME NEW n, NEW S, Hashed(fhash, n, fbuckets), AllIn(n, fbuckets) = S, n = 0 => fpc = "none"
    PROVE  Fixed!bucket_count = n /\ FixedContents = S /\ Fixed!Lookup = FixedSeen(S)
<1>1. Fixed!bucket_count = n
  BY ContentsAreFinite, FixedCardinality DEF Fixed!bucket_count
<1>2. FixedContents = S
  BY <1>1 DEF FixedContents
<1>3. CASE fpc = "none"
  <2>1. Fixed!Present = {}
    BY <1>3 DEF Fixed!Present
  <2>2. Fixed!Lookup = <<>>
    BY <2>1 DEF Fixed!Lookup
  <2> QED
    BY <1>1, <1>2, <1>3, <2>2 DEF FixedSeen
<1>4. CASE fpc # "none"
  <2>1. PICK at : at = [k \in Keys |-> Fixed!Find(k)]
    OBVIOUS
  <2>2. n # 0 /\ n \in Nat /\ fhash \in [Keys -> Nat]
    BY <1>4 DEF Hashed
  <2>3. \A k \in Keys : Fixed!Bucket(k) = fhash[k] % n
    BY <1>1 DEF Fixed!Bucket
  <2>4. ASSUME NEW k \in Keys PROVE FoundAt(fbuckets[fhash[k] % n], k, at[k])
    <3>1. fhash[k] % n \in 0 .. n - 1
      BY <2>2, BucketIs
    <3>2. fbuckets[fhash[k] % n] \in Seq(Entry)
      BY <3>1, TableIs
    <3>3. PICK s : s = fbuckets[Fixed!Bucket(k)]
      OBVIOUS
    <3>4. FoundAt(s, k, Fixed!Find(k))
      BY <2>3, <3>2, <3>3, FixedFindIs
    <3> QED
      BY <2>1, <2>3, <3>3, <3>4
  <2>5. FoundBy(fhash, n, fbuckets, at) = DictOf(S)
    <3>1. FindsAll(fhash, n, fbuckets, at)
      BY <2>4 DEF FindsAll
    <3> QED
      BY <2>2, <3>1, DictionaryOfTable
  <2>6. Fixed!Present = {j \in Keys : at[j] # 0}
    BY <1>4, <2>1 DEF Fixed!Present
  <2>7. Fixed!Lookup = FoundBy(fhash, n, fbuckets, at)
    BY <2>1, <2>3, <2>6 DEF Fixed!Lookup, FoundBy
  <2> QED
    BY <1>1, <1>2, <1>4, <2>5, <2>7 DEF FixedSeen
<1> QED
  BY <1>3, <1>4

LEMMA FixedSighted == FixedSight
BY FixedSees DEF FixedSight

LEMMA FixedSearches ==
    ASSUME FixedKnows, fpc \in {"put", "key", "remove"}, NEW c, c = Fixed!Bucket(fkey),
           NEW p, p = Fixed!Find(fkey)
    PROVE  /\ fkey \in Keys /\ c \in 0 .. Fixed!bucket_count - 1 /\ Fixed!bucket_count # 0
           /\ c = fhash[fkey] % Fixed!bucket_count
           /\ p = 0 => \A e \in FixedContents : e.key # fkey
           /\ p # 0 => /\ p \in 1 .. Len(fbuckets[c]) /\ fbuckets[c][p] \in FixedContents
                       /\ fbuckets[c][p].key = fkey
<1>1. PICK n : n = Fixed!bucket_count
  OBVIOUS
<1>2. /\ Hashed(fhash, n, fbuckets) /\ n # 0 /\ fkey \in Keys /\ c = fhash[fkey] % n
      /\ AllIn(n, fbuckets) = FixedContents
  BY <1>1 DEF FixedKnows, FixedContents, Fixed!Bucket
<1>3. c \in 0 .. n - 1
  BY <1>2, BucketIs DEF Hashed
<1>4. PICK h, bs, k, s : h = fhash /\ bs = fbuckets /\ k = fkey /\ s = fbuckets[Fixed!Bucket(k)]
  OBVIOUS
<1>5. s \in Seq(Entry) /\ s = bs[c]
  BY <1>2, <1>3, <1>4, TableIs
<1>6. FoundAt(s, k, p)
  BY <1>4, <1>5, FixedFindIs
<1>7. PICK d : d = c
  OBVIOUS
<1>8. Searched(h, n, bs, k, d, p)
  BY <1>2, <1>4, <1>5, <1>6, <1>7 DEF Searched
<1>9. /\ d \in 0 .. n - 1
      /\ p = 0 => \A e \in AllIn(n, bs) : e.key # k
      /\ p # 0 => p \in 1 .. Len(bs[d]) /\ bs[d][p] \in AllIn(n, bs) /\ bs[d][p].key = k
  BY <1>8, SearchIs
<1> QED
  BY <1>1, <1>2, <1>3, <1>4, <1>7, <1>9

FixedCall == IF fpc \in {"none", "idle"} THEN <<>> ELSE <<fkey, fval>>
fixedDict == <<Fixed!Lookup, FixedCall, fanswer>>

LEMMA FixedWaits ==
    ASSUME FixedKnows, FixedSight', Fixed!NewEntry \/ UNCHANGED fixedVars
    PROVE  FixedKnows' /\ UNCHANGED fixedDict
<1>1. PICK n, S : n = Fixed!bucket_count /\ S = FixedContents
  OBVIOUS
<1>2. /\ Hashed(fhash, n, fbuckets) /\ AllIn(n, fbuckets) = S /\ (n = 0 <=> fpc = "none")
  BY <1>1 DEF FixedKnows, FixedContents
<1>3. /\ fhash' = fhash /\ fbuckets' = fbuckets /\ fcount' = fcount
      /\ fkey' = fkey /\ fval' = fval /\ fanswer' = fanswer
      /\ (fpc' = "none" <=> fpc = "none") /\ (fpc' \in {"none", "idle"} <=> fpc \in {"none", "idle"})
  BY DEF Fixed!NewEntry, fixedVars
<1>4. Fixed!Lookup = FixedSeen(S)
  BY <1>2, FixedSees
<1>5. Fixed!bucket_count' = n /\ FixedContents' = S /\ Fixed!Lookup' = FixedSeen(S)'
  BY <1>2, <1>3 DEF FixedSight
<1>6. UNCHANGED fixedDict
  BY <1>3, <1>4, <1>5 DEF fixedDict, FixedCall, FixedSeen
<1>7. Cardinality(S) \in Nat
  BY <1>2, ContentsAreFinite
<1>8. CASE Fixed!NewEntry
  <2>1. fpc = "put" /\ fpc' = "key" /\ fblocks' = fblocks + 1 /\ Fixed!Find(fkey) = 0
    BY <1>8 DEF Fixed!NewEntry
  <2>2. \A e \in S : e.key # fkey
    BY <1>1, <2>1, FixedSearches
  <2>3. fblocks' = 3 + 2 * Cardinality(S)
    BY <1>1, <1>7, <2>1 DEF FixedKnows
  <2>4. FixedKnows'
    BY <1>1, <1>2, <1>3, <1>5, <2>1, <2>2, <2>3 DEF FixedKnows
  <2> QED
    BY <1>6, <2>4
<1>9. CASE UNCHANGED fixedVars
  <2>1. FixedKnows'
    BY <1>1, <1>2, <1>3, <1>5, <1>9 DEF FixedKnows, fixedVars
  <2> QED
    BY <1>6, <2>1
<1> QED
  BY <1>8, <1>9

LEMMA FixedCreated ==
    ASSUME FixedKnows, FixedSight', NEW m \in BucketCounts, Fixed!Create(m)
    PROVE  FixedKnows' /\ UNCHANGED fixedDict
<1>1. PICK n : n = IF m = 0 THEN DefaultBuckets ELSE m
  OBVIOUS
<1>2. n \in Nat /\ n # 0
  BY <1>1, MapAssumption
<1>3. fhash \in [Keys -> Nat] /\ fhash' = fhash
  BY DEF FixedKnows, Hashed, Fixed!Create
<1>4. fbuckets' = [b \in 0 .. n - 1 |-> <<>>]
  BY <1>1 DEF Fixed!Create
<1>5. Hashed(fhash', n, fbuckets') /\ AllIn(n, fbuckets') = {}
  BY <1>2, <1>3, <1>4, EmptyTable
<1>6. Fixed!bucket_count' = n /\ FixedContents' = {} /\ Fixed!Lookup' = FixedSeen({})'
  BY <1>2, <1>5 DEF FixedSight
<1>7. Fixed!Lookup = <<>>
  BY DEF Fixed!Create, Fixed!Lookup, Fixed!Present
<1>8. UNCHANGED fixedDict
  BY <1>6, <1>7, DictEmpty DEF Fixed!Create, fixedDict, FixedCall, FixedSeen
<1>9. Cardinality({}) = 0
  BY FS_EmptySet
<1>10. FixedKnows'
  BY <1>2, <1>5, <1>6, <1>9 DEF FixedKnows, Fixed!Create
<1> QED
  BY <1>8, <1>10

LEMMA FixedBegins ==
    ASSUME FixedKnows, FixedSight', NEW k \in Keys, NEW v, NEW operation,
           Fixed!Start(k, v, operation),
           \/ operation = "put" /\ v \in Values
           \/ operation = "remove" /\ v = NoValue
    PROVE  FixedKnows' /\ Fixed!D!Begin(k, v)
<1>1. PICK n, S : n = Fixed!bucket_count /\ S = FixedContents
  OBVIOUS
<1>2. /\ Hashed(fhash, n, fbuckets) /\ AllIn(n, fbuckets) = S /\ fpc = "idle" /\ n # 0
      /\ fcount = Cardinality(S) /\ fblocks = 2 + 2 * Cardinality(S)
  BY <1>1 DEF FixedKnows, FixedContents, Fixed!Start
<1>3. /\ fhash' = fhash /\ fbuckets' = fbuckets /\ fcount' = fcount /\ fblocks' = fblocks
      /\ fanswer' = fanswer /\ fkey' = k /\ fval' = v /\ fpc' = operation
  BY DEF Fixed!Start
<1>4. Fixed!Lookup = DictOf(S)
  BY <1>2, FixedSees DEF FixedSeen
<1>5. Fixed!bucket_count' = n /\ FixedContents' = S /\ Fixed!Lookup' = DictOf(S)
  BY <1>2, <1>3 DEF FixedSight, FixedSeen
<1>6. Fixed!D!Begin(k, v)
  BY <1>2, <1>3, <1>4, <1>5 DEF Fixed!D!Begin
<1>7. FixedKnows'
  BY <1>2, <1>3, <1>5 DEF FixedKnows
<1> QED
  BY <1>6, <1>7

LEMMA FixedReplaces ==
    ASSUME FixedKnows, FixedSight', Fixed!Replace
    PROVE  FixedKnows' /\ fkey \in Keys /\ fval \in Values /\ Fixed!D!Store(fkey, fval)
<1>1. PICK n, S : n = Fixed!bucket_count /\ S = FixedContents
  OBVIOUS
<1>2. /\ Hashed(fhash, n, fbuckets) /\ AllIn(n, fbuckets) = S /\ fpc = "put" /\ n # 0
      /\ fcount = Cardinality(S) /\ fval \in Values /\ fblocks = 2 + 2 * Cardinality(S)
  BY <1>1 DEF FixedKnows, FixedContents, Fixed!Replace
<1>3. PICK h, bs, k, v, c, p :
          /\ h = fhash /\ bs = fbuckets /\ k = fkey /\ v = fval /\ c = Fixed!Bucket(fkey)
          /\ p = Fixed!Find(fkey)
  OBVIOUS
<1>4. /\ p # 0 /\ fhash' = h /\ fcount' = fcount /\ fblocks' = fblocks
      /\ fbuckets' = Changing(bs, c, p, v) /\ fpc' = "idle" /\ fanswer' = TRUE
  BY <1>3 DEF Fixed!Replace, Fixed!Return, Changing
<1>5. /\ k \in Keys /\ c = h[k] % n /\ c \in 0 .. n - 1
      /\ p \in 1 .. Len(bs[c]) /\ bs[c][p] \in S /\ bs[c][p].key = k
  BY <1>1, <1>2, <1>3, <1>4, FixedSearches
<1>6. Hashed(h, n, bs) /\ AllIn(n, bs) = S /\ v \in Values
  BY <1>2, <1>3
<1> DEFINE T == With(S, k, v)
<1>7. Hashed(h, n, Changing(bs, c, p, v)) /\ AllIn(n, Changing(bs, c, p, v)) = T
  <2> HIDE DEF T
  <2>1. n # 0 /\ k \in Keys /\ v \in Values /\ c = h[k] % n /\ Hashed(h, n, bs)
    BY <1>2, <1>5, <1>6
  <2>2. p \in 1 .. Len(bs[c]) /\ bs[c][p].key = k
    BY <1>5
  <2>3. Hashed(h, n, Changing(bs, c, p, v))
    BY <2>1, <2>2, TableChanges
  <2>4. AllIn(n, Changing(bs, c, p, v)) = With(AllIn(n, bs), k, v)
    BY <2>1, <2>2, TableChanges
  <2> QED
    BY <1>6, <2>3, <2>4 DEF T
<1>8. IsFiniteSet(S) /\ Functional(S)
  BY <1>6, ContentsAreFinite
<1>9. Cardinality(T) = Cardinality(S)
  <2>1. PICK e \in S : e = bs[c][p]
    BY <1>5
  <2>2. e.key = k
    BY <1>5, <2>1
  <2> QED
    BY <1>8, <2>2, SizeSame
<1>10. DictOf(T) = Stored(DictOf(S), k, v)
  BY <1>5, <1>6, <1>8, DictStore
<1> HIDE DEF T
<1>11. Fixed!Lookup = DictOf(S)
  BY <1>2, FixedSees DEF FixedSeen
<1>12. Fixed!bucket_count' = n /\ FixedContents' = T /\ Fixed!Lookup' = DictOf(T)
  BY <1>2, <1>4, <1>7 DEF FixedSight, FixedSeen
<1>13. Fixed!D!Store(k, v)
  BY <1>2, <1>3, <1>4, <1>10, <1>11, <1>12 DEF Stored, Fixed!D!Store, Fixed!D!UnderWay
<1>14. FixedKnows'
  BY <1>2, <1>3, <1>4, <1>7, <1>9, <1>12 DEF FixedKnows
<1> QED
  BY <1>2, <1>3, <1>5, <1>13, <1>14

LEMMA FixedAdds ==
    ASSUME FixedKnows, FixedSight', Fixed!NewKey
    PROVE  FixedKnows' /\ fkey \in Keys /\ fval \in Values /\ Fixed!D!Store(fkey, fval)
<1>1. PICK n, S : n = Fixed!bucket_count /\ S = FixedContents
  OBVIOUS
<1>2. /\ Hashed(fhash, n, fbuckets) /\ AllIn(n, fbuckets) = S /\ fpc = "key" /\ n # 0
      /\ fcount = Cardinality(S) /\ fval \in Values /\ fkey \in Keys
      /\ fblocks = 3 + 2 * Cardinality(S) /\ Fixed!Bucket(fkey) = fhash[fkey] % n
      /\ \A e \in S : e.key # fkey
  BY <1>1 DEF FixedKnows, FixedContents, Fixed!NewKey, Fixed!Bucket
<1>3. PICK h, bs, k, v, c :
          h = fhash /\ bs = fbuckets /\ k = fkey /\ v = fval /\ c = Fixed!Bucket(fkey)
  OBVIOUS
<1> DEFINE new == [key |-> k, value |-> v]
           T == With(S, k, v)
<1>4. /\ fhash' = h /\ fcount' = fcount + 1 /\ fblocks' = fblocks + 1
      /\ fbuckets' = Pushing(bs, c, new) /\ fpc' = "idle" /\ fanswer' = TRUE
  BY <1>3 DEF Fixed!NewKey, Fixed!Return, Pushing
<1>5. /\ Hashed(h, n, bs) /\ AllIn(n, bs) = S /\ v \in Values /\ k \in Keys
      /\ c = h[k] % n /\ c \in 0 .. n - 1
  <2>1. Hashed(h, n, bs) /\ AllIn(n, bs) = S /\ v \in Values /\ k \in Keys /\ c = h[k] % n
    BY <1>2, <1>3
  <2> QED
    BY <1>2, <2>1, BucketIs DEF Hashed
<1>6. \A j \in 1 .. Len(bs[c]) : bs[c][j].key # k
  BY <1>2, <1>3, <1>5, TableIs
<1>7. Hashed(h, n, Pushing(bs, c, new)) /\ AllIn(n, Pushing(bs, c, new)) = T
  <2>1. Hashed(h, n, Pushing(bs, c, new))
    BY <1>2, <1>5, <1>6, TablePushes
  <2>2. AllIn(n, Pushing(bs, c, new)) = T
    BY <1>2, <1>5, <1>6, TablePushes
  <2> QED
    BY <2>1, <2>2
<1>8. IsFiniteSet(S) /\ Functional(S) /\ Cardinality(S) \in Nat
  BY <1>5, ContentsAreFinite
<1>9. Cardinality(T) = Cardinality(S) + 1
  <2>1. \A e \in S : e.key # k
    BY <1>2, <1>3
  <2> QED
    BY <1>8, <2>1, SizeMore
<1>10. DictOf(T) = Stored(DictOf(S), k, v)
  BY <1>5, <1>8, DictStore
<1> HIDE DEF T
<1>11. Fixed!Lookup = DictOf(S)
  BY <1>2, FixedSees DEF FixedSeen
<1>12. Fixed!bucket_count' = n /\ FixedContents' = T /\ Fixed!Lookup' = DictOf(T)
  BY <1>2, <1>4, <1>7 DEF FixedSight, FixedSeen
<1>13. Fixed!D!Store(k, v)
  BY <1>2, <1>3, <1>4, <1>10, <1>11, <1>12 DEF Stored, Fixed!D!Store, Fixed!D!UnderWay
<1>14. FixedKnows'
  <2>1. fblocks' = 2 + 2 * Cardinality(T) /\ fcount' = Cardinality(T)
    BY <1>2, <1>4, <1>8, <1>9
  <2> QED
    BY <1>2, <1>3, <1>4, <1>7, <1>12, <2>1 DEF FixedKnows
<1> QED
  BY <1>2, <1>3, <1>13, <1>14

LEMMA FixedRefuses ==
    ASSUME FixedKnows, FixedSight', Fixed!PutFails
    PROVE  FixedKnows' /\ fkey \in Keys /\ fval \in Values /\ Fixed!D!Refuse(fkey, fval)
<1>1. PICK n, S : n = Fixed!bucket_count /\ S = FixedContents
  OBVIOUS
<1>2. fpc \in {"put", "key"} /\ (fpc = "put" => Fixed!Find(fkey) = 0)
  BY DEF Fixed!PutFails
<1>3. /\ Hashed(fhash, n, fbuckets) /\ AllIn(n, fbuckets) = S /\ n # 0
      /\ fcount = Cardinality(S) /\ fkey \in Keys /\ fval \in Values
      /\ fblocks = (IF fpc = "key" THEN 3 ELSE 2) + 2 * Cardinality(S)
  BY <1>1, <1>2 DEF FixedKnows, FixedContents
<1>4. \A e \in S : e.key # fkey
  <2>1. CASE fpc = "key"
    BY <1>1, <2>1 DEF FixedKnows
  <2>2. CASE fpc = "put"
    BY <1>1, <1>2, <2>2, FixedSearches
  <2> QED
    BY <1>2, <2>1, <2>2
<1>5. Cardinality(S) \in Nat
  BY <1>3, ContentsAreFinite
<1>6. Fixed!Cardinality(Fixed!GivenBack) = IF fpc = "key" THEN 1 ELSE 0
  BY FixedCardinality, FS_EmptySet, FS_Singleton DEF Fixed!GivenBack
<1>7. fblocks' = 2 + 2 * Cardinality(S)
  BY <1>3, <1>5, <1>6 DEF Fixed!PutFails
<1>8. /\ fpc' = "idle" /\ fanswer' = FALSE /\ fhash' = fhash /\ fbuckets' = fbuckets
      /\ fcount' = fcount
  BY DEF Fixed!PutFails, Fixed!Return
<1>9. Fixed!Lookup = DictOf(S)
  BY <1>2, <1>3, FixedSees DEF FixedSeen
<1>10. Fixed!bucket_count' = n /\ FixedContents' = S /\ Fixed!Lookup' = DictOf(S)
  BY <1>3, <1>8 DEF FixedSight, FixedSeen
<1>11. fkey \notin DOMAIN DictOf(S)
  BY <1>4 DEF DictOf
<1>12. Fixed!D!Refuse(fkey, fval)
  BY <1>2, <1>8, <1>9, <1>10, <1>11 DEF Fixed!D!Refuse, Fixed!D!UnderWay
<1>13. FixedKnows'
  BY <1>3, <1>7, <1>8, <1>10 DEF FixedKnows
<1> QED
  BY <1>3, <1>12, <1>13

LEMMA FixedForgets ==
    ASSUME FixedKnows, FixedSight', Fixed!RemoveKey \/ Fixed!RemoveNothing
    PROVE  FixedKnows' /\ fkey \in Keys /\ Fixed!D!Forget(fkey)
<1>1. PICK n, S : n = Fixed!bucket_count /\ S = FixedContents
  OBVIOUS
<1>2. /\ Hashed(fhash, n, fbuckets) /\ AllIn(n, fbuckets) = S /\ fpc = "remove" /\ n # 0
      /\ fcount = Cardinality(S) /\ fblocks = 2 + 2 * Cardinality(S) /\ fval = NoValue
  BY <1>1 DEF FixedKnows, FixedContents, Fixed!RemoveKey, Fixed!RemoveNothing
<1>3. PICK h, bs, k, c, p :
          /\ h = fhash /\ bs = fbuckets /\ k = fkey /\ c = Fixed!Bucket(fkey)
          /\ p = Fixed!Find(fkey)
  OBVIOUS
<1>4. Hashed(h, n, bs) /\ AllIn(n, bs) = S
  BY <1>2, <1>3
<1>5. /\ k \in Keys /\ c \in 0 .. n - 1
      /\ p = 0 => \A e \in S : e.key # k
      /\ p # 0 => p \in 1 .. Len(bs[c]) /\ bs[c][p] \in S /\ bs[c][p].key = k
  BY <1>1, <1>2, <1>3, FixedSearches
<1>6. IsFiniteSet(S) /\ Functional(S) /\ Cardinality(S) \in Nat
  BY <1>4, ContentsAreFinite
<1>7. DictOf(Without(S, k)) = Forgot(DictOf(S), k)
  BY <1>6, DictForget
<1>8. Fixed!Lookup = DictOf(S)
  BY <1>2, FixedSees DEF FixedSeen
<1>9. /\ fhash' = h /\ fpc' = "idle" /\ fanswer' = (p # 0)
  BY <1>3 DEF Fixed!RemoveKey, Fixed!RemoveNothing, Fixed!Return
<1>10. k \in DOMAIN DictOf(S) <=> p # 0
  <2>1. k \in DOMAIN DictOf(S) <=> \E e \in S : e.key = k
    BY DEF DictOf
  <2> QED
    BY <1>5, <2>1
<1>11. /\ Hashed(h, n, fbuckets') /\ AllIn(n, fbuckets') = Without(S, k)
       /\ fcount' = Cardinality(Without(S, k)) /\ fblocks' = 2 + 2 * Cardinality(Without(S, k))
  <2>1. CASE p = 0
    <3>1. fbuckets' = bs /\ fcount' = fcount /\ fblocks' = fblocks
      BY <1>3, <2>1 DEF Fixed!RemoveKey, Fixed!RemoveNothing
    <3>2. Without(S, k) = S
      BY <1>5, <2>1 DEF Without
    <3> QED
      BY <1>2, <1>4, <3>1, <3>2
  <2>2. CASE p # 0
    <3>1. fbuckets' = Removing(bs, c, p) /\ fcount' = fcount - 1 /\ fblocks' = fblocks - 2
      BY <1>3, <2>2 DEF Fixed!RemoveKey, Fixed!RemoveNothing, Fixed!RemoveAt, Removing, Spliced
    <3>2. p \in 1 .. Len(bs[c]) /\ bs[c][p].key = k
      BY <1>5, <2>2
    <3>3. Hashed(h, n, Removing(bs, c, p))
      BY <1>4, <1>5, <3>2, TableForgets
    <3>4. AllIn(n, Removing(bs, c, p)) = Without(AllIn(n, bs), bs[c][p].key)
      BY <1>4, <1>5, <3>2, TableForgets
    <3>5. PICK e \in S : e = bs[c][p]
      BY <1>5, <2>2
    <3>6. Without(S, k) = S \ {e}
      BY <1>6, <3>2, <3>5, SizeSame
    <3>7. Cardinality(Without(S, k)) = Cardinality(S) - 1
      BY <1>6, <3>6, SizeLess
    <3> QED
      BY <1>2, <1>4, <1>6, <3>1, <3>2, <3>3, <3>4, <3>7
  <2> QED
    BY <2>1, <2>2
<1>12. /\ Fixed!bucket_count' = n /\ FixedContents' = Without(S, k)
       /\ Fixed!Lookup' = DictOf(Without(S, k))
  BY <1>2, <1>9, <1>11 DEF FixedSight, FixedSeen
<1>13. Fixed!D!Forget(k)
  BY <1>2, <1>3, <1>7, <1>8, <1>9, <1>10, <1>12 DEF Forgot, Fixed!D!Forget, Fixed!D!UnderWay
<1>14. FixedKnows'
  BY <1>2, <1>9, <1>11, <1>12 DEF FixedKnows
<1> QED
  BY <1>3, <1>5, <1>13, <1>14

LEMMA FixedEntriesAre ==
    ASSUME Hashed(fhash, Fixed!bucket_count, fbuckets)
    PROVE  Lists(Fixed!Entries, FixedContents)
<1>1. PICK n : n = Fixed!bucket_count
  OBVIOUS
<1> DEFINE F == CHOOSE f : IsUpto(f, n, fbuckets)
<1>2. Fixed!Entries = F[n]
  BY <1>1 DEF Fixed!Entries, IsUpto
<1>3. n \in Nat /\ Hashed(fhash, n, fbuckets)
  BY <1>1 DEF Hashed
<1>4. \E f : IsUpto(f, n, fbuckets)
  BY <1>3, UptoExists
<1>5. IsUpto(F, n, fbuckets)
  <2> HIDE DEF IsUpto
  <2> QED
    BY <1>4
<1> HIDE DEF F
<1>6. Lists(F[n], AllIn(n, fbuckets))
  BY <1>3, <1>5, EntriesAre
<1> QED
  BY <1>1, <1>2, <1>6 DEF FixedContents

LEMMA FixedGoes ==
    ASSUME FixedKnows, FixedSight', Fixed!Destroy
    PROVE  FixedKnows' /\ Fixed!D!Clear
<1>1. PICK n, S, s : n = Fixed!bucket_count /\ S = FixedContents /\ s = Fixed!Entries
  OBVIOUS
<1>2. /\ Hashed(fhash, n, fbuckets) /\ fpc = "idle" /\ fblocks = 2 + 2 * Cardinality(S)
  BY <1>1 DEF FixedKnows, Fixed!Destroy
<1>3. Lists(s, S)
  BY <1>1, <1>2, FixedEntriesAre
<1>4. Cardinality(S) = Len(s) /\ Len(s) \in Nat
  <2>1. s \in Seq(Entry)
    BY <1>3 DEF Lists
  <2> QED
    BY <1>3, <2>1, ListsCount, LenProperties
<1>5. /\ fblocks' = 0 /\ fbuckets' = <<>> /\ fhash' = fhash /\ fpc' = "none" /\ fanswer' = TRUE
  BY <1>1, <1>2, <1>4 DEF Fixed!Destroy
<1>6. PICK none : none = 0
  OBVIOUS
<1>7. Hashed(fhash', none, fbuckets') /\ AllIn(none, fbuckets') = {}
  <2>1. fhash' \in [Keys -> Nat] /\ none \in Nat
    BY <1>2, <1>5, <1>6 DEF Hashed
  <2>2. fbuckets' = [b \in 0 .. none - 1 |-> <<>>]
    BY <1>5, <1>6
  <2> QED
    BY <2>1, <2>2, EmptyTable
<1>8. Fixed!bucket_count' = none /\ FixedContents' = {} /\ Fixed!Lookup' = <<>>
  BY <1>5, <1>7 DEF FixedSight, FixedSeen
<1>9. Fixed!D!Clear
  BY <1>2, <1>5, <1>8 DEF Fixed!D!Clear
<1>10. FixedKnows'
  BY <1>5, <1>6, <1>7, <1>8 DEF FixedKnows
<1> QED
  BY <1>9, <1>10

LEMMA FixedStep ==
    FixedKnows /\ [Fixed!Next]_fixedVars => FixedKnows' /\ [Fixed!D!DNext]_fixedDict
<1> SUFFICES ASSUME FixedKnows, [Fixed!Next]_fixedVars
             PROVE  FixedKnows' /\ [Fixed!D!DNext]_fixedDict
  OBVIOUS
<1>1. FixedSight'
  BY FixedSighted, PTL
<1>2. CASE Fixed!NewEntry \/ UNCHANGED fixedVars
  BY <1>1, <1>2, FixedWaits
<1>3. ASSUME NEW m \in BucketCounts, Fixed!Create(m)
      PROVE  FixedKnows' /\ [Fixed!D!DNext]_fixedDict
  BY <1>1, <1>3, FixedCreated
<1>4. ASSUME NEW k \in Keys, Fixed!Start(k, NoValue, "remove")
      PROVE  FixedKnows' /\ [Fixed!D!DNext]_fixedDict
  <2>1. FixedKnows' /\ Fixed!D!Begin(k, NoValue)
    BY <1>1, <1>4, FixedBegins
  <2> QED
    BY <2>1 DEF Fixed!D!DNext
<1>5. ASSUME NEW k \in Keys, NEW v \in Values, Fixed!Start(k, v, "put")
      PROVE  FixedKnows' /\ [Fixed!D!DNext]_fixedDict
  <2>1. FixedKnows' /\ Fixed!D!Begin(k, v)
    BY <1>1, <1>5, FixedBegins
  <2> QED
    BY <2>1 DEF Fixed!D!DNext
<1>6. CASE Fixed!Replace
  <2>1. FixedKnows' /\ fkey \in Keys /\ fval \in Values /\ Fixed!D!Store(fkey, fval)
    BY <1>1, <1>6, FixedReplaces
  <2> QED
    BY <2>1 DEF Fixed!D!DNext
<1>7. CASE Fixed!NewKey
  <2>1. FixedKnows' /\ fkey \in Keys /\ fval \in Values /\ Fixed!D!Store(fkey, fval)
    BY <1>1, <1>7, FixedAdds
  <2> QED
    BY <2>1 DEF Fixed!D!DNext
<1>8. CASE Fixed!PutFails
  <2>1. FixedKnows' /\ fkey \in Keys /\ fval \in Values /\ Fixed!D!Refuse(fkey, fval)
    BY <1>1, <1>8, FixedRefuses
  <2> QED
    BY <2>1 DEF Fixed!D!DNext
<1>9. CASE Fixed!RemoveKey \/ Fixed!RemoveNothing
  <2>1. FixedKnows' /\ fkey \in Keys /\ Fixed!D!Forget(fkey)
    BY <1>1, <1>9, FixedForgets
  <2> QED
    BY <2>1 DEF Fixed!D!DNext
<1>10. CASE Fixed!Destroy
  <2>1. FixedKnows' /\ Fixed!D!Clear
    BY <1>1, <1>10, FixedGoes
  <2> QED
    BY <2>1 DEF Fixed!D!DNext
<1> QED
  BY <1>2, <1>3, <1>4, <1>5, <1>6, <1>7, <1>8, <1>9, <1>10 DEF Fixed!Next

LEMMA FixedInit == Fixed!Init => FixedKnows /\ Fixed!D!DInit
<1> SUFFICES ASSUME Fixed!Init PROVE FixedKnows /\ Fixed!D!DInit
  OBVIOUS
<1>1. PICK none : none = 0
  OBVIOUS
<1>2. fhash \in [Keys -> Nat]
  BY MapAssumption DEF Fixed!Init
<1>3. Hashed(fhash, none, fbuckets) /\ AllIn(none, fbuckets) = {}
  <2>1. fbuckets = [b \in 0 .. none - 1 |-> <<>>] /\ none \in Nat
    BY <1>1 DEF Fixed!Init
  <2> QED
    BY <1>2, <2>1, EmptyTable
<1>4. fpc = "none" /\ fblocks = 0 /\ fanswer = TRUE
  BY DEF Fixed!Init
<1>5. Fixed!bucket_count = none /\ FixedContents = {} /\ Fixed!Lookup = <<>>
  BY <1>3, <1>4, FixedSees DEF FixedSeen
<1>6. FixedKnows
  BY <1>1, <1>3, <1>4, <1>5 DEF FixedKnows
<1> QED
  BY <1>4, <1>5, <1>6 DEF Fixed!D!DInit

LEMMA FixedFrame == [NextStructures]_structureVars => [Fixed!Next]_fixedVars
BY DEF NextStructures, structureVars

LEMMA FixedInvariance == SpecStructures => []FixedKnows
<1>1. InitStructures => FixedKnows
  BY FixedInit DEF InitStructures
<1> QED
  BY <1>1, FixedStep, FixedFrame, PTL DEF SpecStructures

\* adt.c, tests.c: to its callers each of the two maps is a dictionary, which has
\* a key exactly if it was put and not removed, with the value last put; growth and
\* an allocation that fails do not show, and every hash function will do.
THEOREM MapsImplementDictionary == SpecStructures => MapIsDictionary
<1>1. InitStructures => Fixed!D!DInit
  BY FixedInit DEF InitStructures
<1>2. FixedKnows /\ [NextStructures]_structureVars => [Fixed!D!DNext]_fixedDict
  BY FixedStep, FixedFrame
<1>3. SpecStructures => Fixed!ImplementsDictionary
  BY <1>1, <1>2, FixedInvariance, PTL
     DEF SpecStructures, Fixed!ImplementsDictionary, Fixed!D!DSpec, fixedDict, FixedCall
<1> QED
  BY <1>3, HashMapIsDictionary DEF MapIsDictionary

\* tests.c: count and blocks of the map agree with its chains.
THEOREM FixedKeepsItsShape == SpecStructures => []Fixed!FixedShape
<1>1. FixedKnows => Fixed!FixedShape
  <2> SUFFICES ASSUME FixedKnows PROVE Fixed!FixedShape
    OBVIOUS
  <2>1. PICK S, s : S = FixedContents /\ s = Fixed!Entries
    OBVIOUS
  <2>2. Lists(s, S)
    BY <2>1, FixedEntriesAre DEF FixedKnows
  <2>3. Cardinality(S) = Len(s) /\ Len(s) \in Nat
    <3>1. s \in Seq(Entry)
      BY <2>2 DEF Lists
    <3> QED
      BY <2>2, <3>1, ListsCount, LenProperties
  <2>4. Fixed!Cardinality(Fixed!GivenBack) = IF fpc = "key" THEN 1 ELSE 0
    BY FixedCardinality, FS_EmptySet, FS_Singleton DEF Fixed!GivenBack
  <2> QED
    BY <2>1, <2>3, <2>4 DEF FixedKnows, Fixed!FixedShape
<1> QED
  BY <1>1, FixedInvariance, PTL

-----------------------------------------------------------------------------
\* The search tree.  Each node is given the range of keys that belong into its
\* subtree.  All the ranges of a tree are disjoint or one is within a side of the
\* other's, so that a node is a place in the order and no walk is needed to say
\* that the tree is sorted.  A tree that is being destroyed has lost subtrees, and
\* the ranges of the others are what they were.

Sides == {"left", "right"}

\* The keys of n's range that belong on a side of it.
Below(K, R, n, s) == {k \in R[n] : IF s = "left" THEN k < K[n] ELSE K[n] < k}

Within(K, R, n, m) == \E s \in Sides : R[m] \subseteq Below(K, R, n, s)

\* The nodes A have keys K, children C and ranges R.
Sorted(A, K, C, R) ==
    /\ A \subseteq Nodes
    /\ R \in [Nodes -> SUBSET TreeKeys]
    /\ \A n \in A : K[n] \in R[n]
    /\ \A n \in A, s \in Sides :
          IF C[s][n] \in A THEN R[C[s][n]] = Below(K, R, n, s)
          ELSE \A m \in A : K[m] \notin Below(K, R, n, s)
    /\ \A n, m \in A : n # m =>
          Within(K, R, n, m) \/ Within(K, R, m, n) \/ R[n] \cap R[m] = {}

\* A key is on one side of a node at most, and on one unless it is the node's.
LEMMA BelowIs ==
    ASSUME NEW A, NEW K, NEW C, NEW R, Sorted(A, K, C, R), NEW n \in A
    PROVE  /\ n \in Nodes /\ K[n] \in TreeKeys /\ K[n] \in R[n] /\ R[n] \subseteq TreeKeys
           /\ \A s \in Sides : Below(K, R, n, s) \subseteq R[n] /\ K[n] \notin Below(K, R, n, s)
           /\ \A k \in R[n] : k # K[n] => \E s \in Sides : k \in Below(K, R, n, s)
           /\ \A k \in R[n], s, t \in Sides :
                 k \in Below(K, R, n, s) /\ k \in Below(K, R, n, t) => s = t
<1>1. n \in Nodes /\ K[n] \in R[n] /\ R[n] \subseteq TreeKeys
  BY DEF Sorted
<1>2. R[n] \subseteq Int /\ K[n] \in Int
  BY <1>1, TreeAssumption
<1> QED
  BY <1>1, <1>2 DEF Below, Sides

\* Two nodes have different keys.
LEMMA KeysDiffer ==
    ASSUME NEW A, NEW K, NEW C, NEW R, Sorted(A, K, C, R),
           NEW n \in A, NEW m \in A, n # m
    PROVE  K[n] # K[m]
<1>1. K[n] \in R[n] /\ K[m] \in R[m]
  BY DEF Sorted
<1>2. \A s \in Sides : K[n] \notin Below(K, R, n, s) /\ K[m] \notin Below(K, R, m, s)
  BY BelowIs
<1>3. Within(K, R, n, m) \/ Within(K, R, m, n) \/ R[n] \cap R[m] = {}
  BY DEF Sorted
<1> QED
  BY <1>1, <1>2, <1>3 DEF Within

\* A node that is attached where no child is takes the range of that side.
LEMMA SortedMore ==
    ASSUME NEW A, NEW K, NEW C, NEW R, Sorted(A, K, C, R),
           NEW n \in Nodes, n \notin A, NEW m \in A, NEW s \in Sides,
           NEW w \in Below(K, R, m, s), C[s][m] \notin A,
           NULL \notin Nodes, \A x \in A, t \in Sides : C[t][x] \in A \cup {NULL},
           NEW K2, K2[n] = w, \A x \in A : K2[x] = K[x],
           NEW C2, \A x \in A, t \in Sides :
                     C2[t][x] = IF x = m /\ t = s THEN n ELSE C[t][x],
           \A t \in Sides : C2[t][n] = NULL,
           NEW R2, R2 = [R EXCEPT ![n] = Below(K, R, m, s)]
    PROVE  Sorted(A \cup {n}, K2, C2, R2)
<1>1. A \subseteq Nodes /\ R \in [Nodes -> SUBSET TreeKeys] /\ m \in Nodes /\ m # n
  BY DEF Sorted
<1>2. Below(K, R, m, s) \subseteq R[m] /\ w \in R[m] /\ R[m] \subseteq TreeKeys /\ w \in Int
  <2>1. Below(K, R, m, s) \subseteq R[m] /\ R[m] \subseteq TreeKeys
    BY BelowIs
  <2>2. w \in R[m]
    BY <2>1
  <2> QED
    BY <2>1, <2>2, TreeAssumption
<1>3. R2[n] = Below(K, R, m, s) /\ \A x \in A : R2[x] = R[x]
  BY <1>1
<1>4. R2 \in [Nodes -> SUBSET TreeKeys]
  BY <1>1, <1>2
<1>5. \A x \in A, t \in Sides : Below(K2, R2, x, t) = Below(K, R, x, t)
  BY <1>3 DEF Below
<1>6. \A y \in A : K[y] \notin Below(K, R, m, s)
  BY DEF Sorted
<1>7. ASSUME NEW x \in A, NEW t \in Sides, C[t][x] \notin A, ~ (x = m /\ t = s)
      PROVE  w \notin Below(K, R, x, t)
  <2>1. CASE x = m
    BY <1>2, <1>7, <2>1, BelowIs
  <2>2. ASSUME x # m, NEW u \in Sides, R[m] \subseteq Below(K, R, x, u) PROVE w \notin Below(K, R, x, t)
    <3>1. K[m] \in Below(K, R, x, u) /\ K[m] \notin Below(K, R, x, t)
      <4>1. K[m] \in R[m]
        BY BelowIs
      <4>2. \A y \in A : K[y] \notin Below(K, R, x, t)
        BY <1>7 DEF Sorted
      <4> QED
        BY <2>2, <4>1, <4>2
    <3>2. w \in Below(K, R, x, u) /\ w \in R[x]
      BY <1>2, <2>2, BelowIs
    <3> QED
      BY <3>1, <3>2, BelowIs
  <2>3. ASSUME x # m, NEW u \in Sides, R[x] \subseteq Below(K, R, m, u) PROVE w \notin Below(K, R, x, t)
    <3>1. K[x] \in Below(K, R, m, u) /\ u # s
      <4>1. K[x] \in R[x]
        BY BelowIs
      <4> QED
        BY <1>6, <2>3, <4>1
    <3>2. w \notin Below(K, R, m, u)
      BY <1>2, <3>1, BelowIs
    <3>3. Below(K, R, x, t) \subseteq R[x]
      BY BelowIs
    <3> QED
      BY <2>3, <3>2, <3>3
  <2>4. CASE R[x] \cap R[m] = {}
    <3>1. Below(K, R, x, t) \subseteq R[x]
      BY BelowIs
    <3> QED
      BY <1>2, <2>4, <3>1
  <2> QED
    BY <2>1, <2>2, <2>3, <2>4 DEF Sorted, Within
<1>8. ASSUME NEW x \in A \cup {n}, NEW t \in Sides
      PROVE  IF C2[t][x] \in A \cup {n} THEN R2[C2[t][x]] = Below(K2, R2, x, t)
             ELSE \A y \in A \cup {n} : K2[y] \notin Below(K2, R2, x, t)
  <2>1. CASE x = n
    <3>1. C2[t][x] \notin A \cup {n}
      BY <1>1, <2>1
    <3>2. Below(K2, R2, x, t) \subseteq Below(K, R, m, s) /\ w \notin Below(K2, R2, x, t)
      BY <1>2, <1>3, <2>1 DEF Below
    <3> QED
      BY <1>6, <2>1, <3>1, <3>2
  <2>2. CASE x = m /\ t = s
    BY <1>3, <1>5, <2>2
  <2>3. CASE x \in A /\ ~ (x = m /\ t = s) /\ C[t][x] \in A
    <3>1. R[C[t][x]] = Below(K, R, x, t)
      BY <2>3 DEF Sorted
    <3>2. C2[t][x] = C[t][x]
      BY <2>3
    <3>3. R2[C2[t][x]] = R[C[t][x]]
      BY <1>3, <2>3, <3>2
    <3>4. Below(K2, R2, x, t) = Below(K, R, x, t)
      BY <1>5, <2>3
    <3> QED
      BY <2>3, <3>1, <3>2, <3>3, <3>4
  <2>4. CASE x \in A /\ ~ (x = m /\ t = s) /\ C[t][x] \notin A
    <3>1. \A y \in A : K[y] \notin Below(K, R, x, t)
      BY <2>4 DEF Sorted
    <3>2. w \notin Below(K, R, x, t)
      BY <1>7, <2>4
    <3>3. C2[t][x] = NULL /\ NULL \notin A \cup {n}
      BY <1>1, <2>4
    <3> QED
      BY <1>5, <2>4, <3>1, <3>2, <3>3
  <2> QED
    BY <2>1, <2>2, <2>3, <2>4
<1>9. ASSUME NEW x \in A
      PROVE  Within(K2, R2, x, n) \/ Within(K2, R2, n, x) \/ R2[x] \cap R2[n] = {}
  <2>1. R2[n] = Below(K, R, m, s) /\ R2[x] = R[x] /\ R2[n] \subseteq R[m]
    BY <1>2, <1>3
  <2>2. CASE x = m
    <3>1. R2[n] \subseteq Below(K2, R2, m, s)
      BY <1>5, <2>1
    <3>2. Within(K2, R2, m, n)
      BY <3>1 DEF Within
    <3> QED
      BY <2>2, <3>2
  <2>3. CASE Within(K, R, x, m)
    BY <1>5, <2>1, <2>3 DEF Within
  <2>4. ASSUME NEW u \in Sides, R[x] \subseteq Below(K, R, m, u) PROVE R2[x] \cap R2[n] = {}
    <3>1. K[x] \in R[x] /\ u # s
      <4>1. K[x] \in R[x]
        BY BelowIs
      <4> QED
        BY <1>6, <2>4, <4>1
    <3>2. \A k \in R[m] : ~ (k \in Below(K, R, m, u) /\ k \in Below(K, R, m, s))
      BY <3>1, BelowIs
    <3> QED
      BY <2>1, <2>4, <3>2
  <2>5. CASE R[x] \cap R[m] = {}
    BY <2>1, <2>5
  <2> QED
    BY <2>2, <2>3, <2>4, <2>5 DEF Sorted, Within
<1>10. ASSUME NEW x \in A, NEW y \in A, x # y
       PROVE  Within(K2, R2, x, y) \/ Within(K2, R2, y, x) \/ R2[x] \cap R2[y] = {}
  <2>1. Within(K, R, x, y) \/ Within(K, R, y, x) \/ R[x] \cap R[y] = {}
    BY <1>10 DEF Sorted
  <2> QED
    BY <1>3, <1>5, <2>1 DEF Within
<1>11. \A x \in A \cup {n} : K2[x] \in R2[x]
  BY <1>3 DEF Sorted
<1>12. \A x, y \in A \cup {n} : x # y =>
          Within(K2, R2, x, y) \/ Within(K2, R2, y, x) \/ R2[x] \cap R2[y] = {}
  <2> SUFFICES ASSUME NEW x \in A \cup {n}, NEW y \in A \cup {n}, x # y
               PROVE  Within(K2, R2, x, y) \/ Within(K2, R2, y, x) \/ R2[x] \cap R2[y] = {}
    OBVIOUS
  <2>1. CASE x \in A /\ y \in A
    BY <1>10, <2>1
  <2>2. CASE x = n /\ y \in A
    <3>1. Within(K2, R2, y, n) \/ Within(K2, R2, n, y) \/ R2[y] \cap R2[n] = {}
      BY <1>9, <2>2
    <3> QED
      BY <2>2, <3>1
  <2>3. CASE x \in A /\ y = n
    <3>1. Within(K2, R2, x, n) \/ Within(K2, R2, n, x) \/ R2[x] \cap R2[n] = {}
      BY <1>9, <2>3
    <3> QED
      BY <2>3, <3>1
  <2> QED
    BY <2>1, <2>2, <2>3
<1> QED
  BY <1>1, <1>4, <1>8, <1>11, <1>12 DEF Sorted

\* The first node has every key in its range.
LEMMA SortedOne ==
    ASSUME NEW n \in Nodes, NEW w \in TreeKeys, NULL \notin Nodes, NEW K, K[n] = w,
           NEW C, \A t \in Sides : C[t][n] = NULL,
           NEW R, R \in [Nodes -> SUBSET TreeKeys], R[n] = TreeKeys
    PROVE  Sorted({n}, K, C, R)
<1>1. \A s \in Sides : C[s][n] \notin {n} /\ K[n] \notin Below(K, R, n, s)
  BY TreeAssumption DEF Below
<1> QED
  BY <1>1 DEF Sorted

\* A node may go when no other has a key of its range.
LEMMA SortedLess ==
    ASSUME NEW A, NEW K, NEW C, NEW R, Sorted(A, K, C, R), NEW n \in A,
           \A m \in A : K[m] \in R[n] => m = n,
           NEW K2, \A x \in A : x # n => K2[x] = K[x],
           NEW C2, \A x \in A, t \in Sides : x # n => C2[t][x] = C[t][x]
    PROVE  Sorted(A \ {n}, K2, C2, R)
<1>1. \A x \in A \ {n}, t \in Sides : Below(K2, R, x, t) = Below(K, R, x, t)
  BY DEF Below
<1>2. ASSUME NEW x \in A \ {n}, NEW t \in Sides
      PROVE  IF C2[t][x] \in A \ {n} THEN R[C2[t][x]] = Below(K2, R, x, t)
             ELSE \A y \in A \ {n} : K2[y] \notin Below(K2, R, x, t)
  <2>1. C2[t][x] = C[t][x] /\ \A y \in A \ {n} : K2[y] = K[y]
    OBVIOUS
  <2>2. CASE C[t][x] = n
    <3>1. R[n] = Below(K, R, x, t)
      BY <2>2 DEF Sorted
    <3> QED
      BY <1>1, <2>1, <2>2, <3>1
  <2>3. CASE C[t][x] # n
    BY <1>1, <2>1, <2>3 DEF Sorted
  <2> QED
    BY <2>2, <2>3
<1>3. ASSUME NEW x \in A \ {n}, NEW y \in A \ {n}, x # y
      PROVE  Within(K2, R, x, y) \/ Within(K2, R, y, x) \/ R[x] \cap R[y] = {}
  <2>1. Within(K, R, x, y) \/ Within(K, R, y, x) \/ R[x] \cap R[y] = {}
    BY <1>3 DEF Sorted
  <2> QED
    BY <1>1, <2>1 DEF Within
<1>4. \A x \in A \ {n} : K2[x] \in R[x]
  BY DEF Sorted
<1> QED
  BY <1>2, <1>3, <1>4 DEF Sorted

-----------------------------------------------------------------------------
\* tree_destroy's calls: the sides of its node from which a call has returned or
\* in which one is under way, and that one side.

Returned(at) == {s \in Sides : at = "free" \/ (at = "right" /\ s = "left")}
Entered(at) == IF at = "right" THEN "left" ELSE "right"

\* The nodes that a call has to free, without the calls it has under way.
Owes(A, K, R, c) ==
    {m \in A : m = c.n \/ \E s \in Sides \ Returned(c.at) : K[m] \in Below(K, R, c.n, s)}

TreeCalls == [n : Nodes, at : {"left", "right", "free"}]

\* Each call is for a node on the side its callers have entered, and a child is
\* gone only if a call for it has returned.
Nested(A, K, C, R, st) ==
    /\ st \in Seq(TreeCalls)
    /\ \A i \in 1 .. Len(st) : st[i].n \in A
    /\ \A i, j \in 1 .. Len(st) : i < j =>
          st[i].at # "left" /\ R[st[j].n] \subseteq Below(K, R, st[i].n, Entered(st[i].at))
    /\ \A m \in A, s \in Sides :
          \/ C[s][m] \in A \cup {NULL}
          \/ \E i \in 1 .. Len(st) : st[i].n = m /\ s \in Returned(st[i].at)

\* Every node is left to some call.
Covered(A, K, R, st) == \A m \in A : \E i \in 1 .. Len(st) : m \in Owes(A, K, R, st[i])

LEMMA Enters ==
    /\ \A at \in {"right", "free"} : Entered(at) \in Returned(at) /\ Entered(at) \in Sides
    /\ Returned("left") = {} /\ Returned("free") = Sides
    /\ \A s \in Sides : /\ Tree!After(s) \in {"right", "free"} /\ Entered(Tree!After(s)) = s
                        /\ s \notin Returned(s) /\ Returned(Tree!After(s)) = Returned(s) \cup {s}
BY DEF Entered, Returned, Sides, Tree!After

\* No node has two calls.
LEMMA CallsDiffer ==
    ASSUME NEW A, NEW K, NEW C, NEW R, Sorted(A, K, C, R), NEW st, Nested(A, K, C, R, st),
           NEW i \in 1 .. Len(st), NEW j \in 1 .. Len(st), i < j
    PROVE  /\ st[i].n # st[j].n
           /\ R[st[j].n] \subseteq Below(K, R, st[i].n, Entered(st[i].at))
           /\ st[i].at \in {"right", "free"}
<1>1. st[i].n \in A /\ st[j].n \in A /\ st[i] \in TreeCalls
  BY DEF Nested
<1>2. st[i].at # "left" /\ R[st[j].n] \subseteq Below(K, R, st[i].n, Entered(st[i].at))
  BY DEF Nested
<1>3. st[i].at \in {"right", "free"}
  BY <1>1, <1>2 DEF TreeCalls
<1>4. K[st[j].n] \in R[st[j].n] /\ K[st[i].n] \notin Below(K, R, st[i].n, Entered(st[i].at))
  BY <1>1, <1>3, BelowIs, Enters
<1> QED
  BY <1>2, <1>3, <1>4

\* The last call of a stack is replaced.
LEMMA CallAdvances ==
    ASSUME NEW A, NEW K, NEW C, NEW R, NEW st, Nested(A, K, C, R, st),
           NEW d \in Nat \ {0}, d = Len(st), st[d].at \in Sides,
           NEW to, to \in Seq(TreeCalls), Len(to) = d, \A i \in 1 .. d : i # d => to[i] = st[i],
           to[d].n = st[d].n, to[d].at = Tree!After(st[d].at)
    PROVE  Nested(A, K, C, R, to)
<1>1. \A i \in 1 .. d : to[i].n = st[i].n /\ to[i].n \in A
  BY DEF Nested
<1>2. ASSUME NEW i \in 1 .. d, NEW j \in 1 .. d, i < j
      PROVE  to[i].at # "left" /\ R[to[j].n] \subseteq Below(K, R, to[i].n, Entered(to[i].at))
  <2>1. to[i] = st[i] /\ to[j].n = st[j].n
    BY <1>1, <1>2
  <2> QED
    BY <1>2, <2>1 DEF Nested
<1>3. ASSUME NEW m \in A, NEW s \in Sides, NEW i \in 1 .. d, st[i].n = m, s \in Returned(st[i].at)
      PROVE  to[i].n = m /\ s \in Returned(to[i].at)
  <2>1. CASE i = d
    BY <1>3, <2>1, Enters
  <2>2. CASE i # d
    BY <1>3, <2>2
  <2> QED
    BY <2>1, <2>2
<1>4. ASSUME NEW m \in A, NEW s \in Sides
      PROVE  \/ C[s][m] \in A \cup {NULL}
             \/ \E i \in 1 .. Len(to) : to[i].n = m /\ s \in Returned(to[i].at)
  <2>1. CASE C[s][m] \in A \cup {NULL}
    BY <2>1
  <2>2. CASE C[s][m] \notin A \cup {NULL}
    <3>1. PICK i \in 1 .. d : st[i].n = m /\ s \in Returned(st[i].at)
      BY <2>2 DEF Nested
    <3>2. to[i].n = m /\ s \in Returned(to[i].at)
      BY <1>3, <3>1
    <3> QED
      BY <3>2
  <2> QED
    BY <2>1, <2>2
<1> QED
  BY <1>1, <1>2, <1>4 DEF Nested

\* A call for the child is added.
LEMMA CallEnters ==
    ASSUME NEW A, NEW K, NEW C, NEW R, Sorted(A, K, C, R), NEW st, Nested(A, K, C, R, st),
           NEW d \in Nat \ {0}, d = Len(st), NEW s \in Sides, st[d].at = Tree!After(s),
           NEW child, child = C[s][st[d].n], child \in A,
           NEW to, to \in Seq(TreeCalls), Len(to) = d + 1, \A i \in 1 .. d : to[i] = st[i],
           to[d + 1].n = child
    PROVE  Nested(A, K, C, R, to)
<1>1. st[d].n \in A /\ st[d].at # "left" /\ Entered(st[d].at) = s
  BY Enters DEF Nested
<1>2. R[child] = Below(K, R, st[d].n, s) /\ R[child] \subseteq R[st[d].n]
  <2>1. R[child] = Below(K, R, st[d].n, s)
    BY <1>1 DEF Sorted
  <2>2. Below(K, R, st[d].n, s) \subseteq R[st[d].n]
    BY <1>1, BelowIs
  <2> QED
    BY <2>1, <2>2
<1>3. \A i \in 1 .. d + 1 : to[i].n \in A
  BY DEF Nested
<1>4. ASSUME NEW i \in 1 .. d + 1, NEW j \in 1 .. d + 1, i < j
      PROVE  to[i].at # "left" /\ R[to[j].n] \subseteq Below(K, R, to[i].n, Entered(to[i].at))
  <2>1. i \in 1 .. d /\ to[i] = st[i]
    BY <1>4
  <2>2. CASE j # d + 1
    <3>1. j \in 1 .. d /\ to[j] = st[j]
      BY <2>2
    <3> QED
      BY <1>4, <2>1, <3>1 DEF Nested
  <2>3. CASE j = d + 1 /\ i = d
    BY <1>1, <1>2, <2>1, <2>3
  <2>4. CASE j = d + 1 /\ i # d
    <3>1. st[i].at # "left" /\ R[st[d].n] \subseteq Below(K, R, st[i].n, Entered(st[i].at))
      <4>1. i < d /\ d \in 1 .. Len(st) /\ i \in 1 .. Len(st)
        BY <2>1, <2>4
      <4> QED
        BY <4>1 DEF Nested
    <3> QED
      BY <1>2, <2>1, <2>4, <3>1
  <2> QED
    BY <2>2, <2>3, <2>4
<1>5. \A m \in A, s_ \in Sides :
          \/ C[s_][m] \in A \cup {NULL}
          \/ \E i \in 1 .. Len(to) : to[i].n = m /\ s_ \in Returned(to[i].at)
  <2>1. \A i \in 1 .. d : i \in 1 .. Len(to)
    OBVIOUS
  <2> QED
    BY <2>1 DEF Nested
<1> QED
  BY <1>3, <1>4, <1>5 DEF Nested

\* What a call owes, it owes after its next step unless it is on the side of the
\* child, where only the child's call can find it.
LEMMA OwesLess ==
    ASSUME NEW A, NEW K, NEW C, NEW R, Sorted(A, K, C, R), NEW c, c.n \in A, c.at \in Sides,
           NEW to, to.n = c.n, to.at = Tree!After(c.at),
           NEW m \in Owes(A, K, R, c), m \notin Owes(A, K, R, to)
    PROVE  /\ C[c.at][c.n] \in A
           /\ \A e : e.n = C[c.at][c.n] /\ e.at = "left" => m \in Owes(A, K, R, e)
<1>1. m \in A /\ K[m] \in Below(K, R, c.n, c.at)
  BY Enters DEF Owes
<1>2. C[c.at][c.n] \in A /\ R[C[c.at][c.n]] = Below(K, R, c.n, c.at)
  BY <1>1 DEF Sorted
<1>3. ASSUME NEW e, e.n = C[c.at][c.n], e.at = "left" PROVE m \in Owes(A, K, R, e)
  <2>1. K[m] \in R[e.n] /\ e.n \in A
    BY <1>1, <1>2, <1>3
  <2>2. m = e.n \/ K[m] # K[e.n]
    BY <1>1, <2>1, KeysDiffer
  <2>3. m # e.n => \E s \in Sides : K[m] \in Below(K, R, e.n, s)
    BY <2>1, <2>2, BelowIs
  <2> QED
    BY <1>1, <1>3, <2>3, Enters DEF Owes
<1> QED
  BY <1>2, <1>3

\* When both children's calls have returned a node has nothing below it, and its
\* parent has a call that entered its side.
LEMMA LastOwes ==
    ASSUME NEW A, NEW K, NEW C, NEW R, Sorted(A, K, C, R), NEW st, Nested(A, K, C, R, st),
           Covered(A, K, R, st), NEW d \in Nat \ {0}, d = Len(st), st[d].at = "free"
    PROVE  \A m \in A : m # st[d].n =>
               \E i \in 1 .. d : i # d /\ i < d /\ m \in Owes(A, K, R, st[i])
<1> SUFFICES ASSUME NEW m \in A, m # st[d].n
             PROVE  \E i \in 1 .. d : i # d /\ i < d /\ m \in Owes(A, K, R, st[i])
  OBVIOUS
<1>1. PICK i \in 1 .. d : m \in Owes(A, K, R, st[i])
  BY DEF Covered
<1>2. i # d
  BY <1>1, Enters DEF Owes
<1> QED
  BY <1>1, <1>2

LEMMA NoneBelow ==
    ASSUME NEW A, NEW K, NEW C, NEW R, Sorted(A, K, C, R), NEW st, Nested(A, K, C, R, st),
           Covered(A, K, R, st), NEW d \in Nat \ {0}, d = Len(st), st[d].at = "free",
           NEW m \in A, K[m] \in R[st[d].n]
    PROVE  m = st[d].n
<1> SUFFICES ASSUME m # st[d].n PROVE FALSE
  OBVIOUS
<1>1. PICK i \in 1 .. d : i < d /\ m \in Owes(A, K, R, st[i])
  BY LastOwes
<1>2. /\ R[st[d].n] \subseteq Below(K, R, st[i].n, Entered(st[i].at))
      /\ st[i].at \in {"right", "free"}
  <2>1. i \in 1 .. Len(st) /\ d \in 1 .. Len(st)
    BY <1>1
  <2> QED
    BY <1>1, <2>1, CallsDiffer
<1>3. K[m] \in Below(K, R, st[i].n, Entered(st[i].at)) /\ st[i].n \in A /\ Entered(st[i].at) \in Sides
  BY <1>2, Enters DEF Nested
<1>4. K[m] \in R[st[i].n] /\ m # st[i].n
  BY <1>3, BelowIs
<1>5. PICK t \in Sides \ Returned(st[i].at) : K[m] \in Below(K, R, st[i].n, t)
  BY <1>1, <1>4 DEF Owes
<1>6. t = Entered(st[i].at)
  BY <1>3, <1>4, <1>5, BelowIs
<1> QED
  BY <1>2, <1>5, <1>6, Enters

LEMMA ParentEntered ==
    ASSUME NEW A, NEW K, NEW C, NEW R, Sorted(A, K, C, R), NEW st, Nested(A, K, C, R, st),
           Covered(A, K, R, st), NEW d \in Nat \ {0}, d = Len(st), st[d].at = "free",
           NEW m \in A, NEW s \in Sides, C[s][m] = st[d].n
    PROVE  \E i \in 1 .. d : i < d /\ st[i].n = m /\ s \in Returned(st[i].at)
<1>1. st[d].n \in A /\ R[st[d].n] = Below(K, R, m, s)
  <2>1. st[d].n \in A
    BY DEF Nested
  <2> QED
    BY <2>1 DEF Sorted
<1>2. PICK k : k = K[st[d].n]
  OBVIOUS
<1>3. k \in Below(K, R, m, s) /\ k \in R[m] /\ m # st[d].n
  <2>1. k \in R[st[d].n]
    BY <1>1, <1>2, BelowIs
  <2>2. k \in Below(K, R, m, s)
    BY <1>1, <2>1
  <2> QED
    BY <1>2, <2>2, BelowIs
<1>4. PICK i \in 1 .. d : i < d /\ m \in Owes(A, K, R, st[i])
  BY <1>3, LastOwes
<1>5. PICK p, u : p = st[i].n /\ u = Entered(st[i].at)
  OBVIOUS
<1>6. /\ R[st[d].n] \subseteq Below(K, R, p, u) /\ st[i].at \in {"right", "free"}
      /\ p \in A /\ u \in Sides /\ u \in Returned(st[i].at)
  <2>1. i \in 1 .. Len(st) /\ d \in 1 .. Len(st)
    BY <1>4
  <2>2. R[st[d].n] \subseteq Below(K, R, st[i].n, Entered(st[i].at)) /\ st[i].at \in {"right", "free"}
    BY <1>4, <2>1, CallsDiffer
  <2> QED
    BY <1>5, <2>1, <2>2, Enters DEF Nested
<1>7. k \in Below(K, R, p, u) /\ k \in R[p]
  <2>1. k \in Below(K, R, p, u)
    BY <1>1, <1>3, <1>6
  <2> QED
    BY <1>6, <2>1, BelowIs
<1>8. CASE m = p
  <2>1. s = u
    BY <1>3, <1>6, <1>7, <1>8, BelowIs
  <2> QED
    BY <1>4, <1>5, <1>6, <1>8, <2>1
<1>9. CASE m # p
  <2>1. PICK t \in Sides \ Returned(st[i].at) : K[m] \in Below(K, R, p, t)
    BY <1>4, <1>5, <1>9 DEF Owes
  <2>2. K[m] \in R[p] /\ K[m] \in R[m] /\ \A v \in Sides : K[m] \notin Below(K, R, m, v)
    BY <1>6, <2>1, BelowIs
  <2>3. PICK v \in Sides : R[m] \subseteq Below(K, R, p, v)
    BY <1>6, <1>9, <2>2 DEF Sorted, Within
  <2>4. v = t /\ v = u
    BY <1>3, <1>6, <1>7, <2>1, <2>2, <2>3, BelowIs
  <2> QED
    BY <1>6, <2>1, <2>4
<1> QED
  BY <1>8, <1>9

\* The last call frees its node and returns.
LEMMA TreeCallReturns ==
    ASSUME NEW A, NEW K, NEW C, NEW R, Sorted(A, K, C, R), NEW st, Nested(A, K, C, R, st),
           Covered(A, K, R, st), NEW d \in Nat \ {0}, d = Len(st), st[d].at = "free",
           NEW n, n = st[d].n,
           NEW K2, \A x \in A : x # n => K2[x] = K[x],
           NEW C2, \A x \in A, t \in Sides : x # n => C2[t][x] = C[t][x],
           NEW to, to \in Seq(TreeCalls), Len(to) = d - 1, \A i \in 1 .. d : i < d => to[i] = st[i]
    PROVE  Nested(A \ {n}, K2, C2, R, to) /\ Covered(A \ {n}, K2, R, to)
<1>1. ASSUME NEW i \in 1 .. Len(to)
      PROVE  /\ i \in 1 .. d /\ i < d /\ to[i] = st[i] /\ st[i].n \in A \ {n}
             /\ \A s \in Sides : Below(K2, R, st[i].n, s) = Below(K, R, st[i].n, s)
             /\ Entered(st[i].at) \in Sides /\ st[i].at # "left"
  <2>1. i \in 1 .. Len(st) /\ i < d /\ d \in 1 .. Len(st) /\ to[i] = st[i]
    BY <1>1
  <2>2. st[i].n \in A /\ st[i].n # n /\ st[i].at \in {"right", "free"}
    <3>1. st[i].n \in A
      BY <2>1 DEF Nested
    <3>2. st[i].n # st[d].n /\ st[i].at \in {"right", "free"}
      BY <2>1, CallsDiffer
    <3> QED
      BY <3>1, <3>2
  <2>3. K2[st[i].n] = K[st[i].n]
    BY <2>2
  <2> QED
    BY <2>1, <2>2, <2>3, Enters DEF Below
<1>2. ASSUME NEW i \in 1 .. Len(to), NEW j \in 1 .. Len(to), i < j
      PROVE  to[i].at # "left" /\ R[to[j].n] \subseteq Below(K2, R, to[i].n, Entered(to[i].at))
  <2>1. i \in 1 .. Len(st) /\ j \in 1 .. Len(st) /\ to[i] = st[i] /\ to[j] = st[j]
    BY <1>1
  <2>2. R[st[j].n] \subseteq Below(K, R, st[i].n, Entered(st[i].at))
    BY <1>2, <2>1 DEF Nested
  <2> QED
    BY <1>1, <2>1, <2>2
<1>3. ASSUME NEW m \in A \ {n}, NEW s \in Sides
      PROVE  \/ C2[s][m] \in (A \ {n}) \cup {NULL}
             \/ \E i \in 1 .. Len(to) : to[i].n = m /\ s \in Returned(to[i].at)
  <2>1. C2[s][m] = C[s][m]
    OBVIOUS
  <2>2. ASSUME NEW i \in 1 .. d, st[i].n = m, s \in Returned(st[i].at)
        PROVE  \E j \in 1 .. Len(to) : to[j].n = m /\ s \in Returned(to[j].at)
    <3>1. i # d
      BY <2>2
    <3>2. i \in 1 .. Len(to) /\ to[i] = st[i]
      BY <3>1
    <3> QED
      BY <2>2, <3>2
  <2>3. CASE C[s][m] = n
    <3>1. PICK i \in 1 .. d : i < d /\ st[i].n = m /\ s \in Returned(st[i].at)
      BY <2>3, ParentEntered
    <3> QED
      BY <2>2, <3>1
  <2>4. CASE C[s][m] \notin A \cup {NULL}
    <3>1. PICK i \in 1 .. d : st[i].n = m /\ s \in Returned(st[i].at)
      BY <2>4 DEF Nested
    <3> QED
      BY <2>2, <3>1
  <2> QED
    BY <2>1, <2>3, <2>4
<1>4. ASSUME NEW m \in A \ {n} PROVE \E i \in 1 .. Len(to) : m \in Owes(A \ {n}, K2, R, to[i])
  <2>1. PICK i \in 1 .. d : i < d /\ m \in Owes(A, K, R, st[i])
    BY LastOwes
  <2>2. i \in 1 .. Len(to) /\ to[i] = st[i]
    BY <2>1
  <2>3. m \in Owes(A \ {n}, K2, R, to[i])
    BY <1>1, <2>1, <2>2 DEF Owes
  <2> QED
    BY <2>2, <2>3
<1>5. \A i \in 1 .. Len(to) : to[i].n \in A \ {n}
  BY <1>1
<1> QED
  BY <1>2, <1>3, <1>4, <1>5 DEF Nested, Covered

-----------------------------------------------------------------------------
\* The inductive invariant of the tree.

Children == [s \in Sides |-> IF s = "left" THEN tleft ELSE tright]

\* All nodes are below the root.
Rooted(R) == IF troot = NULL THEN tallocated = {} ELSE troot \in tallocated /\ R[troot] = TreeKeys

\* The key to insert belongs where link points.
LinkIn(R) ==
    \/ tlink = <<>>
    \/ \E m \in tallocated, s \in Sides : tlink = <<m, s>> /\ twanted \in Below(tkey, R, m, s)

TreeTypes ==
    /\ tkey \in [Nodes -> TreeKeys \cup {Garbage}]
    /\ tleft \in [Nodes -> Nodes \cup {NULL, Garbage}]
    /\ tright \in [Nodes -> Nodes \cup {NULL, Garbage}]
    /\ tallocated \subseteq Nodes
    /\ tpc \in {"idle", "insert", "destroy"}

TreeIn(R) ==
    /\ Sorted(tallocated, tkey, Children, R)
    /\ Nested(tallocated, tkey, Children, R, tstack)
    /\ IF tpc = "destroy" THEN Covered(tallocated, tkey, R, tstack)
       ELSE tstack = <<>> /\ Rooted(R)
    /\ IF tpc = "insert" THEN twanted \in TreeKeys /\ LinkIn(R)
       ELSE tlink = <<>>

TreeKnows == TreeTypes /\ \E R : TreeIn(R)

LEMMA ChildrenAre == Children["left"] = tleft /\ Children["right"] = tright
BY DEF Children, Sides

\* Steps that leave the nodes alone.
LEMMA NodesStay ==
    ASSUME NEW R, TreeTypes, Sorted(tallocated, tkey, Children, R),
           Nested(tallocated, tkey, Children, R, tstack), UNCHANGED <<Tree!heap, tstack>>,
           tpc' \in {"idle", "insert", "destroy"}
    PROVE  /\ TreeTypes' /\ Sorted(tallocated', tkey', Children', R)
           /\ Nested(tallocated', tkey', Children', R, tstack')
<1>1. tkey' = tkey /\ tleft' = tleft /\ tright' = tright /\ tallocated' = tallocated /\ tstack' = tstack
  BY DEF Tree!heap
<1>2. Children' = Children
  BY <1>1 DEF Children
<1>3. TreeTypes'
  BY <1>1 DEF TreeTypes
<1> QED
  BY <1>1, <1>2, <1>3

LEMMA TreeRests == TreeKnows /\ UNCHANGED treeVars => TreeKnows'
<1> SUFFICES ASSUME TreeKnows, UNCHANGED treeVars PROVE TreeKnows'
  OBVIOUS
<1>1. PICK R : TreeIn(R)
  BY DEF TreeKnows
<1>2. /\ tkey' = tkey /\ tleft' = tleft /\ tright' = tright /\ tallocated' = tallocated
      /\ troot' = troot /\ tpc' = tpc /\ twanted' = twanted /\ tlink' = tlink /\ tstack' = tstack
  BY DEF treeVars
<1>3. Children' = Children
  BY <1>2 DEF Children
<1>4. Rooted(R)' = Rooted(R) /\ LinkIn(R)' = LinkIn(R)
  BY <1>2 DEF Rooted, LinkIn
<1>5. TreeIn(R)'
  BY <1>1, <1>2, <1>3, <1>4 DEF TreeIn
<1>6. TreeTypes'
  BY <1>2 DEF TreeKnows, TreeTypes
<1> QED
  BY <1>5, <1>6 DEF TreeKnows

\* What tree_insert is looking at is in the tree, and the key belongs there.
LEMMA LinkedTree ==
    ASSUME NEW R, TreeTypes, TreeIn(R), tpc = "insert"
    PROVE  /\ Tree!Linked = IF tlink = <<>> THEN troot ELSE Children[tlink[2]][tlink[1]]
           /\ Tree!Linked \in tallocated \cup {NULL}
           /\ Tree!Linked # NULL => twanted \in R[Tree!Linked]
<1>1. Tree!Linked = IF tlink = <<>> THEN troot ELSE Children[tlink[2]][tlink[1]]
  <2>1. CASE tlink = <<>>
    BY <2>1 DEF Tree!Linked
  <2>2. ASSUME NEW m \in tallocated, NEW s \in Sides, tlink = <<m, s>>
        PROVE  Tree!Linked = Children[s][m] /\ tlink # <<>>
    <3>1. tlink # <<>> /\ tlink[1] = m /\ tlink[2] = s
      BY <2>2
    <3> QED
      BY <3>1, ChildrenAre DEF Tree!Linked, Sides
  <2> QED
    BY <2>1, <2>2 DEF TreeIn, LinkIn
<1>2. CASE tlink = <<>>
  <2>1. Rooted(R) /\ twanted \in TreeKeys
    BY DEF TreeIn
  <2> QED
    BY <1>1, <1>2, <2>1 DEF Rooted
<1>3. ASSUME NEW m \in tallocated, NEW s \in Sides, tlink = <<m, s>>, twanted \in Below(tkey, R, m, s)
      PROVE  /\ Tree!Linked \in tallocated \cup {NULL}
             /\ Tree!Linked # NULL => twanted \in R[Tree!Linked]
  <2>1. Tree!Linked = Children[s][m]
    BY <1>1, <1>3
  <2>2. Children[s][m] \in tallocated \cup {NULL}
    <3>1. Nested(tallocated, tkey, Children, R, tstack) /\ tstack = <<>>
      BY DEF TreeIn
    <3>2. ~ \E i \in 1 .. Len(tstack) : tstack[i].n = m
      BY <3>1
    <3> QED
      BY <3>1, <3>2 DEF Nested
  <2>3. Children[s][m] \in tallocated => R[Children[s][m]] = Below(tkey, R, m, s)
    <3>1. Sorted(tallocated, tkey, Children, R)
      BY DEF TreeIn
    <3> QED
      BY <3>1 DEF Sorted
  <2> QED
    BY <1>3, <2>1, <2>2, <2>3
<1> QED
  BY <1>1, <1>2, <1>3 DEF TreeIn, LinkIn

LEMMA TreeSearches ==
    ASSUME TreeKnows,
           (\E k \in TreeKeys : Tree!StartInsert(k)) \/ Tree!Descend \/ Tree!InsertNothing
    PROVE  TreeKnows'
<1>1. PICK R : TreeIn(R)
  BY DEF TreeKnows
<1>2. /\ UNCHANGED <<Tree!heap, tstack>> /\ troot' = troot /\ tallocated' = tallocated
      /\ tpc \in {"idle", "insert"} /\ tpc' \in {"idle", "insert"} /\ tkey' = tkey
  BY DEF Tree!StartInsert, Tree!Descend, Tree!InsertNothing, Tree!Leave, Tree!heap
<1>3. /\ TreeTypes' /\ Sorted(tallocated', tkey', Children', R)
      /\ Nested(tallocated', tkey', Children', R, tstack')
  BY <1>1, <1>2, NodesStay DEF TreeIn, TreeKnows
<1>4. tstack' = <<>> /\ Rooted(R)'
  BY <1>1, <1>2 DEF TreeIn, Rooted
<1>5. tpc' = "insert" => twanted' \in TreeKeys /\ LinkIn(R)'
  <2>1. ASSUME NEW k \in TreeKeys, Tree!StartInsert(k) PROVE twanted' \in TreeKeys /\ LinkIn(R)'
    BY <1>1, <2>1 DEF Tree!StartInsert, LinkIn, TreeIn
  <2>2. CASE Tree!Descend
    <3>1. tpc = "insert" /\ Tree!Linked # NULL /\ tkey[Tree!Linked] # twanted
          /\ twanted' = twanted /\ tlink' = <<Tree!Linked, Tree!Side>>
      BY <2>2 DEF Tree!Descend
    <3>2. PICK m, s : m = Tree!Linked /\ s = Tree!Side
      OBVIOUS
    <3>3. m \in tallocated /\ twanted \in R[m]
      BY <1>1, <3>1, <3>2, LinkedTree DEF TreeKnows
    <3>4. s = IF twanted < tkey[m] THEN "left" ELSE "right"
      BY <3>2 DEF Tree!Side
    <3>5. R[m] \subseteq Int /\ tkey[m] \in Int
      <4>1. R[m] \subseteq TreeKeys /\ tkey[m] \in TreeKeys
        <5>1. Sorted(tallocated, tkey, Children, R)
          BY <1>1 DEF TreeIn
        <5> QED
          BY <3>3, <5>1, BelowIs
      <4> QED
        BY <4>1, TreeAssumption
    <3>6. s \in Sides /\ twanted \in Below(tkey, R, m, s)
      BY <3>1, <3>2, <3>3, <3>4, <3>5 DEF Sides, Below
    <3>7. LinkIn(R)'
      BY <1>2, <3>1, <3>2, <3>3, <3>6 DEF LinkIn
    <3> QED
      BY <1>1, <3>1, <3>7 DEF TreeIn
  <2>3. CASE Tree!InsertNothing
    BY <2>3 DEF Tree!InsertNothing, Tree!Leave
  <2> QED
    BY <2>1, <2>2, <2>3
<1>6. tpc' # "insert" => tlink' = <<>>
  BY <1>1 DEF Tree!StartInsert, Tree!Descend, Tree!InsertNothing, Tree!Leave, TreeIn
<1> QED
  BY <1>2, <1>3, <1>4, <1>5, <1>6 DEF TreeIn, TreeKnows

\* What the assignments of tree_insert do to a field, and to the children.
LEMMA FieldChanges ==
    ASSUME NEW f, NEW n \in Nodes, NEW m, NEW X, Nodes \subseteq X, NULL \in X,
           f \in [Nodes -> X], NEW b \in BOOLEAN, b => m \in Nodes /\ m # n,
           NEW g, g = IF b THEN [f EXCEPT ![n] = NULL, ![m] = n] ELSE [f EXCEPT ![n] = NULL]
    PROVE  /\ g \in [Nodes -> X] /\ g[n] = NULL
           /\ \A x \in Nodes : x # n => g[x] = IF b /\ x = m THEN n ELSE f[x]
<1>1. CASE b
  BY <1>1
<1>2. CASE ~ b
  BY <1>2
<1> QED
  BY <1>1, <1>2

PointsTo(m, s, n) == tlink = <<>> \/ (m \in Nodes /\ s \in Sides /\ n # m /\ tlink = <<m, s>>)

LinkedTo(m, s, n) ==
    \A x \in Nodes, t \in Sides : x # n =>
        Children'[t][x] = IF tlink # <<>> /\ x = m /\ t = s THEN n ELSE Children[t][x]

LEMMA Attaches ==
    ASSUME TreeTypes, NEW n \in Nodes, NEW m, NEW s,
           PointsTo(m, s, n),
           tleft' = IF tlink # <<>> /\ tlink[2] = "left"
                    THEN [tleft EXCEPT ![n] = NULL, ![tlink[1]] = n] ELSE [tleft EXCEPT ![n] = NULL],
           tright' = IF tlink # <<>> /\ tlink[2] = "right"
                     THEN [tright EXCEPT ![n] = NULL, ![tlink[1]] = n] ELSE [tright EXCEPT ![n] = NULL]
    PROVE  /\ tleft' \in [Nodes -> Nodes \cup {NULL, Garbage}]
           /\ tright' \in [Nodes -> Nodes \cup {NULL, Garbage}]
           /\ \A t \in Sides : Children'[t][n] = NULL
           /\ LinkedTo(m, s, n)
<1>1. tleft \in [Nodes -> Nodes \cup {NULL, Garbage}] /\ tright \in [Nodes -> Nodes \cup {NULL, Garbage}]
  BY DEF TreeTypes
<1>2. Children'["left"] = tleft' /\ Children'["right"] = tright'
  BY DEF Children, Sides
<1>3. PICK b, c : b = (tlink # <<>> /\ tlink[2] = "left") /\ c = (tlink # <<>> /\ tlink[2] = "right")
  OBVIOUS
<1>4. PICK l, r, l2, r2, p : l = tleft /\ r = tright /\ l2 = tleft' /\ r2 = tright' /\ p = tlink[1]
  OBVIOUS
<1>5. /\ b \in BOOLEAN /\ c \in BOOLEAN /\ b = (tlink # <<>> /\ s = "left")
      /\ c = (tlink # <<>> /\ s = "right") /\ (tlink # <<>> => p = m)
      /\ (b => p \in Nodes /\ p # n) /\ (c => p \in Nodes /\ p # n)
  <2>1. CASE tlink = <<>>
    BY <1>3, <1>4, <2>1
  <2>2. CASE tlink # <<>>
    <3>1. tlink[1] = m /\ tlink[2] = s /\ m \in Nodes /\ n # m
      BY <2>2 DEF PointsTo
    <3> QED
      BY <1>3, <1>4, <2>2, <3>1
  <2> QED
    BY <2>1, <2>2
<1>6. /\ l2 = IF b THEN [l EXCEPT ![n] = NULL, ![p] = n] ELSE [l EXCEPT ![n] = NULL]
      /\ r2 = IF c THEN [r EXCEPT ![n] = NULL, ![p] = n] ELSE [r EXCEPT ![n] = NULL]
  BY <1>3, <1>4
<1>7. PICK X : X = Nodes \cup {NULL, Garbage}
  OBVIOUS
<1>8. Nodes \subseteq X /\ NULL \in X /\ l \in [Nodes -> X] /\ r \in [Nodes -> X]
  BY <1>1, <1>4, <1>7
<1>9. /\ l2 \in [Nodes -> X] /\ l2[n] = NULL
      /\ \A x \in Nodes : x # n => l2[x] = IF b /\ x = p THEN n ELSE l[x]
  BY <1>5, <1>6, <1>8, FieldChanges
<1>10. /\ r2 \in [Nodes -> X] /\ r2[n] = NULL
       /\ \A x \in Nodes : x # n => r2[x] = IF c /\ x = p THEN n ELSE r[x]
  BY <1>5, <1>6, <1>8, FieldChanges
<1>11. ASSUME NEW x \in Nodes, x # n
       PROVE  \A t \in Sides :
                 Children'[t][x] = IF tlink # <<>> /\ x = m /\ t = s THEN n ELSE Children[t][x]
  <2>1. Children'["left"][x] = IF tlink # <<>> /\ x = m /\ "left" = s THEN n ELSE Children["left"][x]
    BY <1>2, <1>4, <1>5, <1>9, <1>11, ChildrenAre
  <2>2. Children'["right"][x] = IF tlink # <<>> /\ x = m /\ "right" = s THEN n ELSE Children["right"][x]
    BY <1>2, <1>4, <1>5, <1>10, <1>11, ChildrenAre
  <2> QED
    BY <2>1, <2>2 DEF Sides
<1>12. \A t \in Sides : Children'[t][n] = NULL
  BY <1>2, <1>4, <1>9, <1>10 DEF Sides
<1> QED
  BY <1>4, <1>7, <1>9, <1>10, <1>11, <1>12 DEF LinkedTo

LEMMA NoCalls ==
    ASSUME NEW A, NEW K, NEW C, NEW R, \A x \in A, s \in Sides : C[s][x] \in A \cup {NULL}
    PROVE  Nested(A, K, C, R, <<>>)
BY DEF Nested

LEMMA TreeAttaches == ASSUME TreeKnows, Tree!Attach PROVE TreeKnows'
<1>1. PICK R : TreeIn(R)
  BY DEF TreeKnows
<1>2. TreeTypes
  BY DEF TreeKnows
<1>3. tpc = "insert" /\ Tree!Linked = NULL /\ tpc' = "idle" /\ tlink' = <<>> /\ tstack' = tstack
  BY DEF Tree!Attach, Tree!Leave
<1>4. PICK n \in Nodes \ tallocated :
         /\ tallocated' = tallocated \cup {n}
         /\ tkey' = [tkey EXCEPT ![n] = twanted]
         /\ tleft' = IF tlink # <<>> /\ tlink[2] = "left"
                     THEN [tleft EXCEPT ![n] = NULL, ![tlink[1]] = n] ELSE [tleft EXCEPT ![n] = NULL]
         /\ tright' = IF tlink # <<>> /\ tlink[2] = "right"
                      THEN [tright EXCEPT ![n] = NULL, ![tlink[1]] = n] ELSE [tright EXCEPT ![n] = NULL]
         /\ troot' = IF tlink = <<>> THEN n ELSE troot
  BY DEF Tree!Attach
<1>5. /\ NULL \notin Nodes /\ tallocated \subseteq Nodes /\ twanted \in TreeKeys
      /\ tkey \in [Nodes -> TreeKeys \cup {Garbage}]
  BY <1>1, <1>2, <1>3, NodesAssumption DEF TreeIn, TreeTypes
<1>6. /\ tstack = <<>> /\ Rooted(R) /\ Sorted(tallocated, tkey, Children, R)
      /\ \A x \in tallocated, t \in Sides : Children[t][x] \in tallocated \cup {NULL}
  <2>1. tstack = <<>> /\ Rooted(R) /\ Nested(tallocated, tkey, Children, R, tstack)
        /\ Sorted(tallocated, tkey, Children, R)
    BY <1>1, <1>3 DEF TreeIn
  <2>2. ~ \E i \in 1 .. Len(tstack) : TRUE
    BY <2>1
  <2> QED
    BY <2>1, <2>2 DEF Nested
<1>7. /\ tkey' \in [Nodes -> TreeKeys \cup {Garbage}] /\ tkey'[n] = twanted
      /\ \A x \in tallocated : tkey'[x] = tkey[x]
  BY <1>4, <1>5
<1>8. CASE tlink = <<>>
  <2>1. troot = NULL /\ tallocated = {} /\ troot' = n
    BY <1>1, <1>2, <1>3, <1>4, <1>6, <1>8, LinkedTree DEF Rooted
  <2>2. /\ tleft' \in [Nodes -> Nodes \cup {NULL, Garbage}]
        /\ tright' \in [Nodes -> Nodes \cup {NULL, Garbage}]
        /\ \A t \in Sides : Children'[t][n] = NULL
    <3>1. PointsTo(n, n, n)
      BY <1>8 DEF PointsTo
    <3> QED
      BY <1>2, <1>4, <3>1, Attaches
  <2>3. PICK Q : Q = [x \in Nodes |-> TreeKeys]
    OBVIOUS
  <2>4. tallocated' = {n}
    BY <1>4, <2>1
  <2>5. Sorted(tallocated', tkey', Children', Q)
    <3>1. Q \in [Nodes -> SUBSET TreeKeys] /\ Q[n] = TreeKeys
      BY <2>3
    <3>2. PICK L, C2 : L = tkey' /\ C2 = Children'
      OBVIOUS
    <3>3. L[n] = twanted /\ \A t \in Sides : C2[t][n] = NULL
      BY <1>7, <2>2, <3>2
    <3>4. Sorted({n}, L, C2, Q)
      BY <1>5, <3>1, <3>3, SortedOne
    <3> QED
      BY <2>4, <3>2, <3>4
  <2>6. Nested(tallocated', tkey', Children', Q, tstack')
    <3>1. \A x \in tallocated', s \in Sides : Children'[s][x] \in tallocated' \cup {NULL}
      BY <2>2, <2>4
    <3> QED
      BY <1>3, <1>6, <3>1, NoCalls
  <2>7. Rooted(Q)'
    BY <1>5, <2>1, <2>3, <2>4 DEF Rooted
  <2>8. TreeIn(Q)'
    BY <1>3, <1>6, <2>5, <2>6, <2>7 DEF TreeIn
  <2>9. TreeTypes'
    BY <1>3, <1>5, <1>7, <2>2, <2>4 DEF TreeTypes
  <2> QED
    BY <2>8, <2>9 DEF TreeKnows
<1>9. ASSUME NEW m \in tallocated, NEW s \in Sides, tlink = <<m, s>>,
             twanted \in Below(tkey, R, m, s)
      PROVE  TreeKnows'
  <2>1. tlink # <<>> /\ tlink[1] = m /\ tlink[2] = s
    BY <1>9
  <2>2. Children[s][m] = NULL /\ troot' = troot /\ m \in Nodes /\ m # n
    BY <1>1, <1>2, <1>3, <1>4, <1>5, <2>1, LinkedTree
  <2>3. /\ tleft' \in [Nodes -> Nodes \cup {NULL, Garbage}]
        /\ tright' \in [Nodes -> Nodes \cup {NULL, Garbage}]
        /\ \A t \in Sides : Children'[t][n] = NULL
        /\ \A x \in tallocated, t \in Sides :
              Children'[t][x] = IF x = m /\ t = s THEN n ELSE Children[t][x]
    <3>1. /\ tleft' \in [Nodes -> Nodes \cup {NULL, Garbage}]
          /\ tright' \in [Nodes -> Nodes \cup {NULL, Garbage}]
          /\ \A t \in Sides : Children'[t][n] = NULL
          /\ LinkedTo(m, s, n)
      <4>1. PointsTo(m, s, n)
        BY <1>9, <2>2 DEF PointsTo
      <4> QED
        BY <1>2, <1>4, <4>1, Attaches
    <3> QED
      BY <1>4, <1>5, <2>1, <3>1 DEF LinkedTo
  <2>4. PICK Q : Q = [R EXCEPT ![n] = Below(tkey, R, m, s)]
    OBVIOUS
  <2>5. Sorted(tallocated', tkey', Children', Q)
    <3>1. PICK L, C2, B : L = tkey' /\ C2 = Children' /\ B = tallocated \cup {n}
      OBVIOUS
    <3>2. /\ L[n] = twanted /\ \A x \in tallocated : L[x] = tkey[x]
          /\ \A t \in Sides : C2[t][n] = NULL
          /\ \A x \in tallocated, t \in Sides : C2[t][x] = IF x = m /\ t = s THEN n ELSE Children[t][x]
      BY <1>7, <2>3, <3>1
    <3>3. Children[s][m] \notin tallocated /\ n \in Nodes /\ n \notin tallocated
      BY <1>5, <2>2
    <3>4. Sorted(tallocated \cup {n}, L, C2, Q)
      BY <1>5, <1>6, <1>9, <2>4, <3>2, <3>3, SortedMore
    <3> QED
      BY <1>4, <3>1, <3>4
  <2>6. Nested(tallocated', tkey', Children', Q, tstack')
    <3>1. \A x \in tallocated', t \in Sides : Children'[t][x] \in tallocated' \cup {NULL}
      BY <1>4, <1>6, <2>3
    <3> QED
      BY <1>3, <1>6, <3>1, NoCalls
  <2>7. Rooted(Q)'
    <3>1. troot \in tallocated /\ R[troot] = TreeKeys
      BY <1>6 DEF Rooted
    <3>2. Q[troot] = R[troot]
      BY <1>6, <2>4, <3>1 DEF Sorted
    <3> QED
      BY <1>4, <1>5, <2>2, <3>1, <3>2 DEF Rooted
  <2>8. TreeIn(Q)'
    BY <1>3, <1>6, <2>5, <2>6, <2>7 DEF TreeIn
  <2>9. TreeTypes'
    BY <1>3, <1>4, <1>5, <1>7, <2>3 DEF TreeTypes
  <2> QED
    BY <2>8, <2>9 DEF TreeKnows
<1> QED
  BY <1>1, <1>3, <1>8, <1>9 DEF TreeIn, LinkIn

LEMMA TreeGoes == ASSUME TreeKnows, Tree!StartDestroy PROVE TreeKnows'
<1>1. PICK R : TreeIn(R)
  BY DEF TreeKnows
<1>2. /\ tpc = "idle" /\ tpc' = "destroy" /\ tlink' = tlink
      /\ tkey' = tkey /\ tleft' = tleft /\ tright' = tright /\ tallocated' = tallocated
      /\ tstack' = IF troot = NULL THEN <<>> ELSE <<[n |-> troot, at |-> "left"]>>
  BY DEF Tree!StartDestroy, Tree!heap
<1>3. /\ Sorted(tallocated, tkey, Children, R) /\ Nested(tallocated, tkey, Children, R, <<>>)
      /\ Rooted(R) /\ tlink = <<>>
  BY <1>1, <1>2 DEF TreeIn
<1>4. Children' = Children /\ TreeTypes'
  BY <1>2 DEF Children, TreeKnows, TreeTypes
<1>5. \A x \in tallocated, s \in Sides : Children[s][x] \in tallocated \cup {NULL}
  <2>1. ~ \E i \in 1 .. Len(<<>>) : TRUE
    OBVIOUS
  <2> QED
    BY <1>3, <2>1 DEF Nested
<1>6. CASE troot = NULL
  <2>1. Covered(tallocated, tkey, R, <<>>) /\ tstack' = <<>>
    BY <1>2, <1>3, <1>6 DEF Rooted, Covered
  <2>2. TreeIn(R)'
    BY <1>2, <1>3, <1>4, <2>1 DEF TreeIn
  <2> QED
    BY <1>4, <2>2 DEF TreeKnows
<1>7. CASE troot # NULL
  <2>1. troot \in tallocated /\ troot \in Nodes /\ R[troot] = TreeKeys
    BY <1>3, <1>7 DEF Rooted, Sorted
  <2>2. PICK call, st : call = [n |-> troot, at |-> "left"] /\ st = <<call>>
    OBVIOUS
  <2>3. /\ call \in TreeCalls /\ call.n = troot /\ call.at = "left"
        /\ st \in Seq(TreeCalls) /\ Len(st) = 1 /\ st[1] = call
    BY <2>1, <2>2 DEF TreeCalls
  <2>4. Nested(tallocated, tkey, Children, R, st)
    BY <1>5, <2>1, <2>3 DEF Nested
  <2>5. ASSUME NEW m \in tallocated PROVE m \in Owes(tallocated, tkey, R, st[1])
    <3>1. tkey[m] \in R[troot]
      BY <1>3, <2>1, BelowIs
    <3>2. m # troot => \E s \in Sides : tkey[m] \in Below(tkey, R, troot, s)
      BY <1>3, <2>1, <3>1, BelowIs, KeysDiffer
    <3> QED
      BY <2>3, <3>2, Enters DEF Owes
  <2>6. Covered(tallocated, tkey, R, st)
    BY <2>3, <2>5 DEF Covered
  <2>7. tstack' = st
    BY <1>2, <1>7, <2>2
  <2>8. TreeIn(R)'
    BY <1>2, <1>3, <1>4, <2>4, <2>6, <2>7 DEF TreeIn
  <2> QED
    BY <1>4, <2>8 DEF TreeKnows
<1> QED
  BY <1>6, <1>7

\* The stack when its last call has changed, and with one more.
LEMMA StackChanges ==
    ASSUME NEW st, st \in Seq(TreeCalls), st # <<>>, NEW c, c \in TreeCalls
    PROVE  /\ Len(st) \in Nat \ {0} /\ Tree!Last(st) = st[Len(st)] /\ st[Len(st)] \in TreeCalls
           /\ Tree!Front(st) \in Seq(TreeCalls) /\ Len(Tree!Front(st)) = Len(st) - 1
           /\ \A i \in 1 .. Len(st) : i < Len(st) => Tree!Front(st)[i] = st[i]
           /\ Append(Tree!Front(st), c) \in Seq(TreeCalls)
           /\ Len(Append(Tree!Front(st), c)) = Len(st)
           /\ Append(Tree!Front(st), c)[Len(st)] = c
           /\ \A i \in 1 .. Len(st) : i # Len(st) => Append(Tree!Front(st), c)[i] = st[i]
<1>1. PICK d : d = Len(st)
  OBVIOUS
<1>2. d \in Nat \ {0} /\ st[d] \in TreeCalls
  <2>1. d \in Nat /\ (d = 0 <=> st = <<>>)
    BY <1>1, EmptySeq, LenProperties
  <2> QED
    BY <1>1, <2>1
<1>3. PICK f : f = Tree!Front(st)
  OBVIOUS
<1>4. f \in Seq(TreeCalls) /\ Len(f) = d - 1 /\ \A i \in 1 .. d : i < d => f[i] = st[i]
  <2>1. f = SubSeq(st, 1, d - 1)
    BY <1>1, <1>3 DEF Tree!Front
  <2> QED
    BY <1>1, <1>2, <2>1, SubSeqProperties
<1>5. PICK t : t = Append(f, c)
  OBVIOUS
<1>6. t \in Seq(TreeCalls) /\ Len(t) = d /\ t[d] = c /\ \A i \in 1 .. d : i # d => t[i] = st[i]
  BY <1>2, <1>4, <1>5, AppendProperties
<1>7. Tree!Last(st) = st[d]
  BY <1>1 DEF Tree!Last
<1> QED
  BY <1>1, <1>2, <1>3, <1>4, <1>5, <1>6, <1>7

LEMMA TreeDescends == ASSUME TreeKnows, Tree!DestroyChild PROVE TreeKnows'
<1>1. PICK R : TreeIn(R)
  BY DEF TreeKnows
<1>2. PICK st, d, c : st = tstack /\ d = Len(st) /\ c = st[d]
  OBVIOUS
<1>3. PICK A, K, C : A = tallocated /\ K = tkey /\ C = Children
  OBVIOUS
<1>4. /\ tpc = "destroy" /\ tpc' = tpc /\ st # <<>> /\ Tree!Last(st).at # "free" /\ tlink' = tlink
      /\ tkey' = tkey /\ tleft' = tleft /\ tright' = tright /\ tallocated' = tallocated
  BY <1>2 DEF Tree!DestroyChild, Tree!heap
<1>5. /\ Sorted(A, K, C, R) /\ Nested(A, K, C, R, st) /\ Covered(A, K, R, st)
      /\ tlink = <<>> /\ st \in Seq(TreeCalls)
  BY <1>1, <1>2, <1>3, <1>4 DEF TreeIn, Nested
<1>6. /\ d \in Nat \ {0} /\ Tree!Last(st) = c /\ c \in TreeCalls
  <2>1. PICK e : e \in TreeCalls
    <3>1. Len(st) \in Nat /\ (Len(st) = 0 <=> st = <<>>)
      BY <1>5, EmptySeq, LenProperties
    <3> QED
      BY <1>4, <1>5, <3>1
  <2> QED
    BY <1>2, <1>4, <1>5, <2>1, StackChanges
<1>7. c.at \in Sides /\ c.n \in A /\ c.n \in Nodes
  <2>1. c.at \in {"left", "right", "free"} /\ c.n \in Nodes
    BY <1>6 DEF TreeCalls
  <2> QED
    BY <1>2, <1>4, <1>5, <1>6, <2>1 DEF Nested, Sides
<1>8. PICK s, child, after : s = c.at /\ child = C[s][c.n] /\ after = [n |-> c.n, at |-> Tree!After(s)]
  OBVIOUS
<1>9. /\ after.n = c.n /\ after.at = Tree!After(s) /\ after \in TreeCalls /\ s \in Sides
  BY <1>7, <1>8, Enters DEF TreeCalls
<1>10. PICK here : here = Append(Tree!Front(st), after)
  OBVIOUS
<1>11. /\ here \in Seq(TreeCalls) /\ Len(here) = d /\ here[d] = after
       /\ \A i \in 1 .. d : i # d => here[i] = st[i]
  BY <1>2, <1>4, <1>5, <1>9, <1>10, StackChanges
<1>12. tstack' = IF child = NULL THEN here ELSE Append(here, [n |-> child, at |-> "left"])
  <2>1. child = IF c.at = "left" THEN tleft[c.n] ELSE tright[c.n]
    BY <1>3, <1>7, <1>8, ChildrenAre DEF Sides
  <2> QED
    BY <1>2, <1>6, <1>8, <1>10, <2>1 DEF Tree!DestroyChild
<1>13. Nested(A, K, C, R, here)
  <2>1. st[d].at \in Sides /\ here[d].n = st[d].n /\ here[d].at = Tree!After(st[d].at)
    BY <1>2, <1>7, <1>8, <1>9, <1>11
  <2> QED
    BY <1>2, <1>5, <1>6, <1>11, <2>1, CallAdvances
<1>14. child \in A \cup {NULL}
  <2>1. SUFFICES ASSUME child \notin A \cup {NULL} PROVE FALSE
    OBVIOUS
  <2>2. PICK i \in 1 .. d : st[i].n = c.n /\ s \in Returned(st[i].at)
    BY <1>2, <1>5, <1>7, <1>8, <2>1 DEF Nested
  <2>3. i = d
    <3>1. SUFFICES ASSUME i < d PROVE FALSE
      BY <1>6
    <3>2. i \in 1 .. Len(st) /\ d \in 1 .. Len(st)
      BY <1>2, <1>6
    <3> QED
      BY <1>2, <1>5, <2>2, <3>1, <3>2, CallsDiffer
  <2> QED
    BY <1>2, <1>7, <1>8, <2>2, <2>3, Enters
<1>15. ASSUME NEW m \in A, \A i \in 1 .. d : m \notin Owes(A, K, R, here[i])
       PROVE  /\ child \in A
              /\ \A e : e.n = child /\ e.at = "left" => m \in Owes(A, K, R, e)
  <2>1. m \in Owes(A, K, R, c)
    <3>1. PICK i \in 1 .. d : m \in Owes(A, K, R, st[i])
      BY <1>2, <1>5 DEF Covered
    <3> QED
      BY <1>2, <1>11, <1>15, <3>1
  <2>2. m \notin Owes(A, K, R, after)
    BY <1>6, <1>11, <1>15
  <2> QED
    BY <1>5, <1>7, <1>8, <1>9, <2>1, <2>2, OwesLess
<1>16. PICK to : to = tstack'
  OBVIOUS
<1>17. Nested(A, K, C, R, to) /\ Covered(A, K, R, to)
  <2>1. CASE child = NULL
    <3>1. to = here /\ child \notin A
      BY <1>5, <1>12, <1>16, <2>1, NodesAssumption DEF Sorted
    <3>2. Covered(A, K, R, here)
      BY <1>11, <1>15, <3>1 DEF Covered
    <3> QED
      BY <1>13, <3>1, <3>2
  <2>2. CASE child # NULL
    <3>1. child \in A /\ child \in Nodes
      BY <1>5, <1>14, <2>2 DEF Sorted
    <3>2. PICK e : e = [n |-> child, at |-> "left"]
      OBVIOUS
    <3>3. e \in TreeCalls /\ e.n = child /\ e.at = "left"
      BY <3>1, <3>2 DEF TreeCalls
    <3>4. to = Append(here, e)
      BY <1>12, <1>16, <2>2, <3>2
    <3>5. /\ to \in Seq(TreeCalls) /\ Len(to) = d + 1 /\ to[d + 1] = e
          /\ \A i \in 1 .. d : to[i] = here[i]
      BY <1>6, <1>11, <3>3, <3>4, AppendProperties
    <3>6. Nested(A, K, C, R, to)
      <4>1. here[d].at = Tree!After(s) /\ child = C[s][here[d].n] /\ d = Len(here) /\ to[d + 1].n = child
        BY <1>8, <1>9, <1>11, <3>3, <3>5
      <4> QED
        BY <1>5, <1>6, <1>9, <1>13, <3>1, <3>5, <4>1, CallEnters
    <3>7. ASSUME NEW m \in A PROVE \E i \in 1 .. d + 1 : m \in Owes(A, K, R, to[i])
      <4>1. CASE \E i \in 1 .. d : m \in Owes(A, K, R, here[i])
        BY <1>6, <3>5, <4>1
      <4>2. CASE ~ \E i \in 1 .. d : m \in Owes(A, K, R, here[i])
        <5>1. m \in Owes(A, K, R, to[d + 1]) /\ d + 1 \in 1 .. d + 1
          BY <1>6, <1>15, <3>3, <3>5, <4>2
        <5> QED
          BY <5>1
      <4> QED
        BY <4>1, <4>2
    <3> QED
      BY <3>5, <3>6, <3>7 DEF Covered
  <2> QED
    BY <2>1, <2>2
<1>18. Children' = Children /\ TreeTypes'
  BY <1>4 DEF Children, TreeKnows, TreeTypes
<1>19. TreeIn(R)'
  BY <1>3, <1>4, <1>5, <1>16, <1>17, <1>18 DEF TreeIn
<1> QED
  BY <1>18, <1>19 DEF TreeKnows

LEMMA TreeFrees == ASSUME TreeKnows, Tree!DestroyNode PROVE TreeKnows'
<1>1. PICK R : TreeIn(R)
  BY DEF TreeKnows
<1>2. PICK st, d, n : st = tstack /\ d = Len(st) /\ n = Tree!Last(st).n
  OBVIOUS
<1>3. PICK A, K, C : A = tallocated /\ K = tkey /\ C = Children
  OBVIOUS
<1>4. /\ tpc = "destroy" /\ tpc' = tpc /\ st # <<>> /\ Tree!Last(st).at = "free" /\ tlink' = tlink
      /\ tkey' = [tkey EXCEPT ![n] = Garbage] /\ tleft' = [tleft EXCEPT ![n] = Garbage]
      /\ tright' = [tright EXCEPT ![n] = Garbage]
      /\ tallocated' = A \ {n} /\ tstack' = Tree!Front(st)
  BY <1>2, <1>3 DEF Tree!DestroyNode
<1>5. /\ Sorted(A, K, C, R) /\ Nested(A, K, C, R, st) /\ Covered(A, K, R, st)
      /\ tlink = <<>> /\ st \in Seq(TreeCalls)
  BY <1>1, <1>2, <1>3, <1>4 DEF TreeIn, Nested
<1>6. PICK e : e \in TreeCalls
  <2>1. Len(st) \in Nat /\ (Len(st) = 0 <=> st = <<>>)
    BY <1>5, EmptySeq, LenProperties
  <2> QED
    BY <1>4, <1>5, <2>1
<1>7. PICK to : to = Tree!Front(st)
  OBVIOUS
<1>8. /\ d \in Nat \ {0} /\ Tree!Last(st) = st[d] /\ to \in Seq(TreeCalls) /\ Len(to) = d - 1
      /\ \A i \in 1 .. d : i < d => to[i] = st[i]
  BY <1>2, <1>4, <1>5, <1>6, <1>7, StackChanges
<1>9. st[d].at = "free" /\ n = st[d].n /\ n \in A /\ A \subseteq Nodes
  BY <1>2, <1>4, <1>5, <1>8 DEF Nested, Sorted
<1>10. TreeTypes /\ TreeTypes'
  <2>1. TreeTypes
    BY DEF TreeKnows
  <2> QED
    BY <1>3, <1>4, <1>9, <2>1 DEF TreeTypes
<1>11. PICK K2, C2 : K2 = tkey' /\ C2 = Children'
  OBVIOUS
<1>12. /\ \A x \in A : x # n => K2[x] = K[x]
       /\ \A x \in A, t \in Sides : x # n => C2[t][x] = C[t][x]
  <2>1. \A x \in A : x # n => tkey'[x] = tkey[x] /\ tleft'[x] = tleft[x] /\ tright'[x] = tright[x]
    BY <1>4, <1>9, <1>10 DEF TreeTypes
  <2>2. C2["left"] = tleft' /\ C2["right"] = tright' /\ C["left"] = tleft /\ C["right"] = tright
    BY <1>3, <1>11 DEF Children, Sides
  <2> QED
    BY <1>3, <1>11, <2>1, <2>2 DEF Sides
<1>13. \A m \in A : K[m] \in R[n] => m = n
  BY <1>2, <1>5, <1>8, <1>9, NoneBelow
<1>14. Sorted(A \ {n}, K2, C2, R)
  BY <1>5, <1>9, <1>12, <1>13, SortedLess
<1>15. Nested(A \ {n}, K2, C2, R, to) /\ Covered(A \ {n}, K2, R, to)
  BY <1>2, <1>5, <1>8, <1>9, <1>12, TreeCallReturns
<1>16. TreeIn(R)'
  BY <1>4, <1>5, <1>7, <1>11, <1>14, <1>15 DEF TreeIn
<1> QED
  BY <1>10, <1>16 DEF TreeKnows

LEMMA TreeIsGone == ASSUME TreeKnows, Tree!DestroyDone PROVE TreeKnows'
<1>1. PICK R : TreeIn(R)
  BY DEF TreeKnows
<1>2. /\ tpc = "destroy" /\ tstack = <<>> /\ tpc' = "idle" /\ troot' = NULL /\ tlink' = tlink
      /\ UNCHANGED <<Tree!heap, tstack>> /\ tallocated' = tallocated
  BY DEF Tree!DestroyDone, Tree!heap
<1>3. /\ TreeTypes' /\ Sorted(tallocated', tkey', Children', R)
      /\ Nested(tallocated', tkey', Children', R, tstack')
  BY <1>1, <1>2, NodesStay DEF TreeIn, TreeKnows
<1>4. tallocated = {}
  <2>1. Covered(tallocated, tkey, R, tstack) /\ ~ \E i \in 1 .. Len(tstack) : TRUE
    BY <1>1, <1>2 DEF TreeIn
  <2> QED
    BY <2>1 DEF Covered
<1>5. Rooted(R)' /\ tlink' = <<>> /\ tstack' = <<>>
  BY <1>1, <1>2, <1>4 DEF Rooted, TreeIn
<1> QED
  BY <1>2, <1>3, <1>5 DEF TreeIn, TreeKnows

LEMMA TreeStep == TreeKnows /\ [Tree!Next]_treeVars => TreeKnows'
BY TreeRests, TreeSearches, TreeAttaches, TreeGoes, TreeDescends, TreeFrees, TreeIsGone DEF Tree!Next

LEMMA TreeInit == Tree!Init => TreeKnows
<1> SUFFICES ASSUME Tree!Init PROVE TreeKnows
  OBVIOUS
<1>1. PICK R : R = [n \in Nodes |-> TreeKeys]
  OBVIOUS
<1>2. /\ tallocated = {} /\ tstack = <<>> /\ troot = NULL /\ tpc = "idle" /\ tlink = <<>> /\ TreeTypes
  BY DEF Tree!Init, TreeTypes
<1>3. Sorted(tallocated, tkey, Children, R) /\ Rooted(R)
  BY <1>1, <1>2 DEF Sorted, Rooted
<1>4. Nested(tallocated, tkey, Children, R, tstack)
  BY <1>2, NoCalls
<1> QED
  BY <1>2, <1>3, <1>4 DEF TreeIn, TreeKnows

LEMMA TreeFrame == [NextStructures]_structureVars => [Tree!Next]_treeVars
BY DEF NextStructures, structureVars

LEMMA TreeInvariance == SpecStructures => []TreeKnows
<1>1. InitStructures => TreeKnows
  BY TreeInit DEF InitStructures
<1> QED
  BY <1>1, TreeStep, TreeFrame, PTL DEF SpecStructures

-----------------------------------------------------------------------------
\* What tree_inorder visits and what tree_destroy has still to free, as sequences.

\* s has the nodes of S once each, and in the order of their keys.
Visits(s, S) ==
    /\ s \in Seq(Nodes) /\ {s[j] : j \in 1 .. Len(s)} = S
    /\ \A j, k \in 1 .. Len(s) : s[j] = s[k] => j = k
Climbs(s, K) == \A j, k \in 1 .. Len(s) : j < k => K[s[j]] < K[s[k]]

Appended(s, t) == s \o t

\* Two such sequences one after the other.
LEMMA VisitsBoth ==
    ASSUME NEW s, NEW S, Visits(s, S), NEW t, NEW T, Visits(t, T), S \cap T = {}
    PROVE  /\ Visits(Appended(s, t), S \cup T)
           /\ \A K : Climbs(s, K) /\ Climbs(t, K) /\ (\A x \in S, y \in T : K[x] < K[y])
                         => Climbs(Appended(s, t), K)
<1>1. s \in Seq(Nodes) /\ Len(s) \in Nat /\ t \in Seq(Nodes) /\ Len(t) \in Nat
  <2>1. s \in Seq(Nodes) /\ t \in Seq(Nodes)
    BY DEF Visits
  <2> QED
    BY <2>1, LenProperties
<1>2. PICK u \in Seq(Nodes) : u = s \o t
  <2>1. s \o t \in Seq(Nodes)
    BY <1>1, ConcatProperties
  <2> QED
    BY <2>1
<1>3. /\ Len(u) = Len(s) + Len(t)
      /\ \A k \in 1 .. Len(s) + Len(t) : u[k] = IF k <= Len(s) THEN s[k] ELSE t[k - Len(s)]
  BY <1>1, <1>2, ConcatProperties
<1>4. \A k \in 1 .. Len(s) : k \in 1 .. Len(u) /\ u[k] = s[k] /\ u[k] \in S
  BY <1>1, <1>3 DEF Visits
<1>5. \A k \in 1 .. Len(t) : \E m \in 1 .. Len(u) : u[m] = t[k]
  <2> SUFFICES ASSUME NEW k \in 1 .. Len(t) PROVE \E m \in 1 .. Len(u) : u[m] = t[k]
    OBVIOUS
  <2>1. PICK m : m = k + Len(s)
    OBVIOUS
  <2>2. m \in 1 .. Len(s) + Len(t) /\ ~ (m <= Len(s)) /\ m - Len(s) = k
    BY <1>1, <2>1
  <2>3. m \in 1 .. Len(u) /\ u[m] = t[k]
    BY <1>3, <2>2
  <2> QED
    BY <2>3
<1>6. \A k \in 1 .. Len(u) : k \in 1 .. Len(s)
          \/ (k - Len(s) \in 1 .. Len(t) /\ u[k] = t[k - Len(s)] /\ u[k] \in T)
  <2> SUFFICES ASSUME NEW k \in 1 .. Len(u), k \notin 1 .. Len(s)
               PROVE  k - Len(s) \in 1 .. Len(t) /\ u[k] = t[k - Len(s)] /\ u[k] \in T
    OBVIOUS
  <2>1. k - Len(s) \in 1 .. Len(t) /\ u[k] = t[k - Len(s)]
    BY <1>1, <1>3
  <2> QED
    BY <2>1 DEF Visits
<1>7. ASSUME NEW j \in 1 .. Len(u), NEW k \in 1 .. Len(u), u[j] = u[k] PROVE j = k
  <2>1. CASE j \in 1 .. Len(s) /\ k \in 1 .. Len(s)
    BY <1>4, <1>7, <2>1 DEF Visits
  <2>2. CASE j \notin 1 .. Len(s) /\ k \notin 1 .. Len(s)
    <3>1. j - Len(s) = k - Len(s)
      BY <1>6, <1>7, <2>2 DEF Visits
    <3> QED
      BY <1>1, <3>1
  <2>3. ~ (j \in 1 .. Len(s) /\ k \notin 1 .. Len(s)) /\ ~ (j \notin 1 .. Len(s) /\ k \in 1 .. Len(s))
    BY <1>4, <1>6, <1>7
  <2> QED
    BY <2>1, <2>2, <2>3
<1>8. {u[j] : j \in 1 .. Len(u)} = S \cup T
  <2>1. \A x \in S : \E k \in 1 .. Len(s) : x = s[k]
    BY DEF Visits
  <2>2. \A x \in T : \E k \in 1 .. Len(t) : x = t[k]
    BY DEF Visits
  <2>3. S \subseteq {u[j] : j \in 1 .. Len(u)}
    BY <1>4, <2>1
  <2>4. T \subseteq {u[j] : j \in 1 .. Len(u)}
    BY <1>5, <2>2
  <2>5. {u[j] : j \in 1 .. Len(u)} \subseteq S \cup T
    BY <1>4, <1>6
  <2> QED
    BY <2>3, <2>4, <2>5
<1>9. ASSUME NEW K, Climbs(s, K), Climbs(t, K), \A x \in S, y \in T : K[x] < K[y],
             NEW j \in 1 .. Len(u), NEW k \in 1 .. Len(u), j < k
      PROVE  K[u[j]] < K[u[k]]
  <2>1. CASE k \in 1 .. Len(s)
    <3>1. j \in 1 .. Len(s)
      BY <1>1, <1>9, <2>1
    <3> QED
      BY <1>4, <1>9, <2>1, <3>1 DEF Climbs
  <2>2. CASE j \notin 1 .. Len(s)
    <3>1. k \notin 1 .. Len(s)
      BY <1>1, <1>9, <2>2
    <3>2. j - Len(s) \in 1 .. Len(t) /\ k - Len(s) \in 1 .. Len(t) /\ j - Len(s) < k - Len(s)
      BY <1>1, <1>6, <1>9, <2>2, <3>1
    <3> QED
      BY <1>6, <1>9, <2>2, <3>1, <3>2 DEF Climbs
  <2>3. CASE j \in 1 .. Len(s) /\ k \notin 1 .. Len(s)
    <3>1. u[j] \in S /\ u[k] \in T
      BY <1>4, <1>6, <2>3
    <3> QED
      BY <1>9, <3>1
  <2> QED
    BY <2>1, <2>2, <2>3
<1>10. \A K : Climbs(s, K) /\ Climbs(t, K) /\ (\A x \in S, y \in T : K[x] < K[y]) => Climbs(u, K)
  BY <1>9 DEF Climbs
<1>11. Visits(u, S \cup T)
  BY <1>7, <1>8 DEF Visits
<1> QED
  BY <1>2, <1>10, <1>11 DEF Appended

LEMMA VisitsOne ==
    /\ Visits(<<>>, {}) /\ \A K : Climbs(<<>>, K)
    /\ \A n \in Nodes : Visits(<<n>>, {n}) /\ \A K : Climbs(<<n>>, K)
<1>1. Visits(<<>>, {}) /\ \A K : Climbs(<<>>, K)
  BY DEF Visits, Climbs
<1>2. ASSUME NEW n \in Nodes PROVE Visits(<<n>>, {n}) /\ \A K : Climbs(<<n>>, K)
  <2>1. PICK s : s = <<n>>
    OBVIOUS
  <2>2. s \in Seq(Nodes) /\ Len(s) = 1 /\ s[1] = n
    BY <2>1
  <2> QED
    BY <2>1, <2>2 DEF Visits, Climbs
<1> QED
  BY <1>1, <1>2

LEMMA VisitsCount ==
    ASSUME NEW s, NEW S, Visits(s, S)
    PROVE  IsFiniteSet(S) /\ Cardinality(S) = Len(s)
<1>1. s \in Seq(Nodes) /\ Len(s) \in Nat
  <2>1. s \in Seq(Nodes)
    BY DEF Visits
  <2> QED
    BY <2>1, LenProperties
<1>2. IsFiniteSet(1 .. Len(s)) /\ Cardinality(1 .. Len(s)) = Len(s)
  BY <1>1, FS_Interval
<1> DEFINE f == [j \in 1 .. Len(s) |-> s[j]]
<1>3. f \in Surjection(1 .. Len(s), S) /\ f \in Injection(1 .. Len(s), S)
  BY DEF Surjection, Injection, IsInjective, Visits
<1>4. f \in Bijection(1 .. Len(s), S)
  <2> HIDE DEF f
  <2> QED
    BY <1>3 DEF Bijection
<1> HIDE DEF f
<1> QED
  BY <1>2, <1>4, FS_Bijection DEF ExistsBijection

-----------------------------------------------------------------------------
\* tree_inorder's recursion, as InOrder has it: a walk.

Pointers == Nodes \cup {NULL, Garbage}

Turn(f, A, C, n) ==
    IF n \notin A THEN <<>> ELSE f[C["left"][n]] \o <<n>> \o f[C["right"][n]]
Walks(f, A, C) == f = [n \in Pointers |-> Turn(f, A, C, n)]

\* The nodes of a subtree, and those on a side of its root.
Subtree(A, K, R, n) == {m \in A : K[m] \in R[n]}
Part(A, K, R, n, s) == {m \in A : K[m] \in Below(K, R, n, s)}

LEMMA PartsAre ==
    ASSUME NEW A, NEW K, NEW C, NEW R, Sorted(A, K, C, R), NEW n \in A
    PROVE  /\ Subtree(A, K, R, n) = Part(A, K, R, n, "left") \cup {n} \cup Part(A, K, R, n, "right")
           /\ Part(A, K, R, n, "left") \cap {n} = {}
           /\ (Part(A, K, R, n, "left") \cup {n}) \cap Part(A, K, R, n, "right") = {}
           /\ \A x \in Part(A, K, R, n, "left") : K[x] < K[n]
           /\ \A x \in Part(A, K, R, n, "right") : K[n] < K[x]
           /\ \A s \in Sides :
                 Part(A, K, R, n, s) =
                     IF C[s][n] \in A THEN Subtree(A, K, R, C[s][n]) ELSE {}
<1>1. \A m \in A : K[m] = K[n] => m = n
  BY KeysDiffer
<1>2. \A s \in Sides : \A k \in Below(K, R, n, s) : k \in R[n] /\ k # K[n]
  BY BelowIs
<1>3. \A k \in R[n] : k # K[n] => k \in Below(K, R, n, "left") \/ k \in Below(K, R, n, "right")
  BY BelowIs DEF Sides
<1>4. K[n] \in R[n]
  BY BelowIs
<1>5. Subtree(A, K, R, n) = Part(A, K, R, n, "left") \cup {n} \cup Part(A, K, R, n, "right")
  BY <1>1, <1>2, <1>3, <1>4 DEF Subtree, Part, Sides
<1>6. \A k \in R[n] : ~ (k \in Below(K, R, n, "left") /\ k \in Below(K, R, n, "right"))
  BY BelowIs DEF Sides
<1>7. /\ Part(A, K, R, n, "left") \cap {n} = {}
      /\ (Part(A, K, R, n, "left") \cup {n}) \cap Part(A, K, R, n, "right") = {}
  BY <1>2, <1>6 DEF Part, Sides
<1>8. /\ \A x \in Part(A, K, R, n, "left") : K[x] < K[n]
      /\ \A x \in Part(A, K, R, n, "right") : K[n] < K[x]
  BY DEF Part, Below
<1>9. ASSUME NEW s \in Sides
      PROVE  Part(A, K, R, n, s) = IF C[s][n] \in A THEN Subtree(A, K, R, C[s][n]) ELSE {}
  BY DEF Part, Subtree, Sorted
<1> QED
  BY <1>5, <1>7, <1>8, <1>9

\* A subtree is smaller than its parent's.
LEMMA SubtreeIsSmaller ==
    ASSUME NEW A, NEW K, NEW C, NEW R, Sorted(A, K, C, R), NEW n \in A,
           NEW s \in Sides, C[s][n] \in A
    PROVE  /\ Cardinality(Subtree(A, K, R, n)) \in Nat
           /\ Cardinality(Subtree(A, K, R, C[s][n])) \in Nat
           /\ Cardinality(Subtree(A, K, R, C[s][n])) < Cardinality(Subtree(A, K, R, n))
<1>1. PICK S, T : S = Subtree(A, K, R, n) /\ T = Subtree(A, K, R, C[s][n])
  OBVIOUS
<1>2. T = Part(A, K, R, n, s) /\ T \subseteq S /\ n \in S /\ n \notin T
  <2>1. T = Part(A, K, R, n, s)
    BY <1>1, PartsAre
  <2>2. s = "left" \/ s = "right"
    BY DEF Sides
  <2>3. Part(A, K, R, n, s) \subseteq S /\ n \in S
    BY <1>1, <2>2, PartsAre
  <2>4. n \notin Part(A, K, R, n, s)
    BY <2>2, PartsAre
  <2> QED
    BY <2>1, <2>3, <2>4
<1>3. S \subseteq Nodes
  BY <1>1 DEF Subtree, Sorted
<1>4. IsFiniteSet(S) /\ IsFiniteSet(T)
  BY <1>2, <1>3, NodesAssumption, FS_Subset
<1>5. Cardinality(T) \in Nat /\ Cardinality(S) \in Nat
  BY <1>4, FS_CardinalityType
<1>6. Cardinality(T) <= Cardinality(S) /\ Cardinality(T) # Cardinality(S)
  BY <1>2, <1>4, FS_Subset
<1> QED
  BY <1>1, <1>5, <1>6

\* A tree has a walk: for the subtrees of at most k nodes, by induction over k.
WalksTo(f, A, K, C, R, k) ==
    /\ f = [n \in Pointers |-> f[n]]
    /\ \A n \in Pointers :
          (n \in A => Cardinality(Subtree(A, K, R, n)) <= k) => f[n] = Turn(f, A, C, n)

LEMMA WalkExists ==
    ASSUME NEW A, NEW K, NEW C, NEW R, Sorted(A, K, C, R),
           \A n \in A, s \in Sides : C[s][n] \in Pointers
    PROVE  \E f : Walks(f, A, C)
<1>1. A \subseteq Nodes /\ IsFiniteSet(A) /\ Cardinality(A) \in Nat
  <2>1. A \subseteq Nodes
    BY DEF Sorted
  <2>2. IsFiniteSet(A)
    BY <2>1, NodesAssumption, FS_Subset
  <2> QED
    BY <2>1, <2>2, FS_CardinalityType
<1>2. ASSUME NEW n \in A
      PROVE  /\ Cardinality(Subtree(A, K, R, n)) \in Nat \ {0}
             /\ Cardinality(Subtree(A, K, R, n)) <= Cardinality(A)
  <2>1. PICK S : S = Subtree(A, K, R, n)
    OBVIOUS
  <2>2. S \subseteq A /\ n \in S
    BY <2>1, BelowIs DEF Subtree
  <2>3. IsFiniteSet(S) /\ Cardinality(S) <= Cardinality(A)
    BY <1>1, <2>2, FS_Subset
  <2>4. Cardinality(S) \in Nat /\ Cardinality(S) # 0
    BY <2>2, <2>3, FS_CardinalityType, FS_EmptySet
  <2> QED
    BY <2>1, <2>3, <2>4
<1> DEFINE T == {k \in Nat : \E f : WalksTo(f, A, K, C, R, k)}
<1>3. 0 \in T
  <2>1. PICK f : f = [n \in Pointers |-> <<>>]
    OBVIOUS
  <2>2. \A n \in A : ~ (Cardinality(Subtree(A, K, R, n)) <= 0)
    BY <1>2
  <2>3. WalksTo(f, A, K, C, R, 0)
    BY <2>1, <2>2 DEF WalksTo, Turn
  <2> QED
    BY <2>3
<1>4. ASSUME NEW k \in Nat, k \in T PROVE k + 1 \in T
  <2>1. PICK f : WalksTo(f, A, K, C, R, k)
    BY <1>4
  <2>2. PICK g : g = [n \in Pointers |-> Turn(f, A, C, n)]
    OBVIOUS
  <2>3. ASSUME NEW n \in Pointers, n \in A => Cardinality(Subtree(A, K, R, n)) <= k + 1
        PROVE  g[n] = Turn(g, A, C, n)
    <3>1. ASSUME NEW s \in Sides, n \in A PROVE g[C[s][n]] = f[C[s][n]]
      <4>1. PICK c : c = C[s][n]
        OBVIOUS
      <4>2. c \in Pointers /\ g[c] = Turn(f, A, C, c)
        BY <2>2, <3>1, <4>1
      <4>3. c \in A => Cardinality(Subtree(A, K, R, c)) <= k
        <5>1. SUFFICES ASSUME c \in A PROVE Cardinality(Subtree(A, K, R, c)) <= k
          OBVIOUS
        <5>2. PICK x, y : x = Cardinality(Subtree(A, K, R, c)) /\ y = Cardinality(Subtree(A, K, R, n))
          OBVIOUS
        <5>3. x \in Nat /\ y \in Nat /\ x < y
          BY <3>1, <4>1, <5>1, <5>2, SubtreeIsSmaller
        <5>4. y <= k + 1
          BY <2>3, <3>1, <5>2
        <5> QED
          BY <5>2, <5>3, <5>4
      <4>4. f[c] = Turn(f, A, C, c)
        BY <2>1, <4>2, <4>3 DEF WalksTo
      <4> QED
        BY <4>1, <4>2, <4>4
    <3>2. n \in A => g[C["left"][n]] = f[C["left"][n]] /\ g[C["right"][n]] = f[C["right"][n]]
      BY <3>1 DEF Sides
    <3>3. g[n] = Turn(f, A, C, n)
      BY <2>2
    <3> QED
      BY <3>2, <3>3 DEF Turn
  <2>4. g = [n \in Pointers |-> g[n]]
    BY <2>2
  <2>5. WalksTo(g, A, K, C, R, k + 1)
    BY <2>3, <2>4 DEF WalksTo
  <2> QED
    BY <2>5
<1>5. Nat \subseteq T
  <2> HIDE DEF T
  <2> QED
    BY <1>3, <1>4, NatSet
<1>6. PICK f : WalksTo(f, A, K, C, R, Cardinality(A))
  BY <1>1, <1>5
<1>7. \A n \in Pointers : f[n] = Turn(f, A, C, n)
  BY <1>2, <1>6 DEF WalksTo
<1>8. f = [n \in Pointers |-> Turn(f, A, C, n)]
  BY <1>6, <1>7 DEF WalksTo
<1> QED
  BY <1>8 DEF Walks

\* The walk from a node visits its subtree in the order of the keys.
LEMMA WalkIs ==
    ASSUME NEW A, NEW K, NEW C, NEW R, Sorted(A, K, C, R),
           \A n \in A, s \in Sides : C[s][n] \in Pointers, NEW f, Walks(f, A, C)
    PROVE  /\ \A n \in Pointers : n \notin A => f[n] = <<>>
           /\ \A n \in A : Visits(f[n], Subtree(A, K, R, n)) /\ Climbs(f[n], K)
<1>1. A \subseteq Nodes /\ IsFiniteSet(A)
  <2>1. A \subseteq Nodes
    BY DEF Sorted
  <2> QED
    BY <2>1, NodesAssumption, FS_Subset
<1>2. \A n \in Pointers : f[n] = Turn(f, A, C, n)
  BY DEF Walks
<1>3. \A n \in Pointers : n \notin A => f[n] = <<>>
  BY <1>2 DEF Turn
<1> DEFINE T == {k \in Nat : \A n \in A : Cardinality(Subtree(A, K, R, n)) <= k =>
                                Visits(f[n], Subtree(A, K, R, n)) /\ Climbs(f[n], K)}
<1>4. ASSUME NEW n \in A PROVE Cardinality(Subtree(A, K, R, n)) \in Nat \ {0}
  <2>1. PICK S : S = Subtree(A, K, R, n)
    OBVIOUS
  <2>2. S \subseteq A /\ n \in S
    BY <2>1, BelowIs DEF Subtree
  <2>3. IsFiniteSet(S)
    BY <1>1, <2>2, FS_Subset
  <2> QED
    BY <2>1, <2>2, <2>3, FS_CardinalityType, FS_EmptySet
<1>5. 0 \in T
  <2>1. \A n \in A : ~ (Cardinality(Subtree(A, K, R, n)) <= 0)
    BY <1>4
  <2> QED
    BY <2>1
<1>6. ASSUME NEW k \in Nat, k \in T PROVE k + 1 \in T
  <2>1. ASSUME NEW n \in A, Cardinality(Subtree(A, K, R, n)) <= k + 1
        PROVE  Visits(f[n], Subtree(A, K, R, n)) /\ Climbs(f[n], K)
    <3>1. ASSUME NEW s \in Sides
          PROVE  Visits(f[C[s][n]], Part(A, K, R, n, s)) /\ Climbs(f[C[s][n]], K)
      <4>1. PICK c : c = C[s][n]
        OBVIOUS
      <4>2. CASE c \notin A
        <5>1. f[c] = <<>> /\ Part(A, K, R, n, s) = {}
          BY <1>3, <4>1, <4>2, PartsAre
        <5> QED
          BY <4>1, <5>1, VisitsOne
      <4>3. CASE c \in A
        <5>1. PICK x, y : x = Cardinality(Subtree(A, K, R, c)) /\ y = Cardinality(Subtree(A, K, R, n))
          OBVIOUS
        <5>2. x \in Nat /\ y \in Nat /\ x < y
          BY <4>1, <4>3, <5>1, SubtreeIsSmaller
        <5>3. x <= k
          BY <2>1, <5>1, <5>2
        <5>4. Visits(f[c], Subtree(A, K, R, c)) /\ Climbs(f[c], K)
          BY <1>6, <4>3, <5>1, <5>3
        <5>5. Part(A, K, R, n, s) = Subtree(A, K, R, c)
          BY <4>1, <4>3, PartsAre
        <5> QED
          BY <4>1, <5>4, <5>5
      <4> QED
        BY <4>2, <4>3
    <3>2. PICK l, r, L, U : /\ l = f[C["left"][n]] /\ r = f[C["right"][n]]
                            /\ L = Part(A, K, R, n, "left") /\ U = Part(A, K, R, n, "right")
      OBVIOUS
    <3>3. /\ Visits(l, L) /\ Climbs(l, K) /\ Visits(r, U) /\ Climbs(r, K)
          /\ Visits(<<n>>, {n}) /\ Climbs(<<n>>, K)
      BY <1>1, <3>1, <3>2, VisitsOne DEF Sides
    <3>4. /\ Subtree(A, K, R, n) = L \cup {n} \cup U /\ L \cap {n} = {} /\ (L \cup {n}) \cap U = {}
          /\ \A x \in L : K[x] < K[n]
          /\ \A x \in U : K[n] < K[x]
      BY <3>2, PartsAre
    <3>5. \A x \in L \cup {n}, y \in U : K[x] < K[y]
      <4>1. \A x \in L \cup {n} \cup U : K[x] \in Int
        <5>1. \A x \in A : K[x] \in TreeKeys
          BY BelowIs
        <5>2. L \subseteq A /\ U \subseteq A
          BY <3>2 DEF Part
        <5> QED
          BY <5>1, <5>2, TreeAssumption
      <4> QED
        BY <3>4, <4>1
    <3>6. PICK u : u = Appended(l, <<n>>)
      OBVIOUS
    <3>7. Visits(u, L \cup {n}) /\ Climbs(u, K)
      <4>1. \A x \in L, y \in {n} : K[x] < K[y]
        BY <3>4
      <4> QED
        BY <3>3, <3>4, <3>6, <4>1, VisitsBoth
    <3>8. PICK v : v = Appended(u, r)
      OBVIOUS
    <3>9. Visits(v, L \cup {n} \cup U) /\ Climbs(v, K)
      BY <3>3, <3>4, <3>5, <3>7, <3>8, VisitsBoth
    <3>10. f[n] = v
      <4>1. f[n] = l \o <<n>> \o r
        BY <1>1, <1>2, <3>2 DEF Turn, Pointers
      <4> QED
        BY <3>6, <3>8, <4>1 DEF Appended
    <3> QED
      BY <3>4, <3>9, <3>10
  <2> QED
    BY <2>1
<1>7. Nat \subseteq T
  <2> HIDE DEF T
  <2> QED
    BY <1>5, <1>6, NatSet
<1>8. ASSUME NEW n \in A PROVE Visits(f[n], Subtree(A, K, R, n)) /\ Climbs(f[n], K)
  BY <1>4, <1>7
<1> QED
  BY <1>3, <1>8

LEMMA InOrderIs ==
    ASSUME NEW R, TreeTypes, Sorted(tallocated, tkey, Children, R)
    PROVE  /\ \A n \in Pointers : n \notin tallocated => Tree!InOrder(n) = <<>>
           /\ \A n \in tallocated :
                 /\ Visits(Tree!InOrder(n), Subtree(tallocated, tkey, R, n))
                 /\ Climbs(Tree!InOrder(n), tkey)
<1>1. PICK A, K, C : A = tallocated /\ K = tkey /\ C = Children
  OBVIOUS
<1>2. Sorted(A, K, C, R) /\ A \subseteq Pointers
  BY <1>1 DEF Sorted, Pointers
<1>3. \A n \in A, s \in Sides : C[s][n] \in Pointers
  <2>1. A \subseteq Nodes
    BY <1>2 DEF Sorted
  <2> QED
    BY <1>1, <2>1, ChildrenAre DEF TreeTypes, Pointers, Sides
<1>4. PICK f : f = CHOOSE g : Walks(g, A, C)
  OBVIOUS
<1>5. Walks(f, A, C)
  BY <1>2, <1>3, <1>4, WalkExists
<1>6. \A n : Tree!InOrder(n) = f[n]
  BY <1>1, <1>4, ChildrenAre DEF Tree!InOrder, Walks, Turn, Pointers
<1>7. /\ \A n \in Pointers : n \notin A => f[n] = <<>>
      /\ \A n \in A : Visits(f[n], Subtree(A, K, R, n)) /\ Climbs(f[n], K)
  BY <1>2, <1>3, <1>5, WalkIs
<1> QED
  BY <1>1, <1>6, <1>7

\* What a call of tree_destroy has still to free.
LEMMA OwedIs ==
    ASSUME NEW R, TreeTypes, Sorted(tallocated, tkey, Children, R),
           NEW c, c \in TreeCalls, c.n \in tallocated
    PROVE  Visits(Tree!Owed(c), Owes(tallocated, tkey, R, c))
<1>1. PICK A, K, C, n : A = tallocated /\ K = tkey /\ C = Children /\ n = c.n
  OBVIOUS
<1>2. Sorted(A, K, C, R) /\ n \in A /\ n \in Nodes
  BY <1>1 DEF Sorted
<1>3. PICK L, U : L = Part(A, K, R, n, "left") /\ U = Part(A, K, R, n, "right")
  OBVIOUS
<1>4. /\ Subtree(A, K, R, n) = L \cup {n} \cup U /\ (L \cup {n}) \cap U = {}
      /\ U = IF C["right"][n] \in A THEN Subtree(A, K, R, C["right"][n]) ELSE {}
  BY <1>2, <1>3, PartsAre DEF Sides
<1>5. Visits(Tree!InOrder(n), L \cup {n} \cup U)
  <2>1. Visits(Tree!InOrder(n), Subtree(A, K, R, n))
    BY <1>1, <1>2, InOrderIs
  <2> QED
    BY <1>4, <2>1
<1>6. Visits(Tree!InOrder(tright[n]), U)
  <2>1. C["right"][n] = tright[n] /\ tright[n] \in Pointers
    BY <1>1, <1>2, ChildrenAre DEF TreeTypes, Pointers
  <2>2. CASE tright[n] \in A
    BY <1>1, <1>2, <1>4, <2>1, <2>2, InOrderIs
  <2>3. CASE tright[n] \notin A
    <3>1. Tree!InOrder(tright[n]) = <<>> /\ U = {}
      BY <1>1, <1>2, <1>4, <2>1, <2>3, InOrderIs
    <3> QED
      BY <3>1, VisitsOne
  <2> QED
    BY <2>2, <2>3
<1>7. Visits(<<n>>, {n}) /\ Visits(<<n>> \o Tree!InOrder(tright[n]), {n} \cup U)
  <2>1. Visits(<<n>>, {n}) /\ {n} \cap U = {}
    BY <1>2, <1>4, VisitsOne
  <2> QED
    BY <1>6, <2>1, VisitsBoth DEF Appended
<1>8. Owes(A, K, R, c) = {n} \cup (IF c.at = "left" THEN L \cup U ELSE IF c.at = "right" THEN U ELSE {})
  <2>1. c.at \in {"left", "right", "free"}
    BY DEF TreeCalls
  <2> QED
    BY <1>1, <1>2, <1>3, <2>1 DEF Owes, Returned, Part, Sides
<1>9. c.at \in {"left", "right", "free"}
  BY DEF TreeCalls
<1>10. CASE c.at = "left"
  <2>1. Tree!Owed(c) = Tree!InOrder(n) /\ Owes(A, K, R, c) = L \cup {n} \cup U
    BY <1>1, <1>8, <1>10 DEF Tree!Owed
  <2> QED
    BY <1>1, <1>5, <2>1
<1>11. CASE c.at = "right"
  <2>1. Tree!Owed(c) = <<n>> \o Tree!InOrder(tright[n]) /\ Owes(A, K, R, c) = {n} \cup U
    BY <1>1, <1>8, <1>11 DEF Tree!Owed
  <2> QED
    BY <1>1, <1>7, <2>1
<1>12. CASE c.at = "free"
  <2>1. Tree!Owed(c) = <<n>> /\ Owes(A, K, R, c) = {n}
    BY <1>1, <1>8, <1>12 DEF Tree!Owed
  <2> QED
    BY <1>1, <1>7, <2>1
<1> QED
  BY <1>9, <1>10, <1>11, <1>12

\* Two calls have nothing in common to free.
LEMMA OwesDiffer ==
    ASSUME NEW A, NEW K, NEW C, NEW R, Sorted(A, K, C, R), NEW st, Nested(A, K, C, R, st),
           NEW i \in 1 .. Len(st), NEW j \in 1 .. Len(st), i < j
    PROVE  Owes(A, K, R, st[i]) \cap Owes(A, K, R, st[j]) = {}
<1>1. PICK p, q, u : p = st[i].n /\ q = st[j].n /\ u = Entered(st[i].at)
  OBVIOUS
<1>2. p \in A /\ q \in A
  BY <1>1 DEF Nested
<1>3. R[q] \subseteq Below(K, R, p, u) /\ st[i].at \in {"right", "free"}
  BY <1>1, CallsDiffer
<1>4. u \in Sides /\ u \in Returned(st[i].at)
  BY <1>1, <1>3, Enters
<1>5. ASSUME NEW m \in Owes(A, K, R, st[j]) PROVE K[m] \in Below(K, R, p, u)
  <2>1. K[q] \in R[q] /\ \A s \in Sides : Below(K, R, q, s) \subseteq R[q]
    BY <1>2, BelowIs
  <2>2. m = q \/ \E s \in Sides : K[m] \in Below(K, R, q, s)
    BY <1>1, <1>5 DEF Owes
  <2> QED
    BY <1>3, <2>1, <2>2
<1>6. ASSUME NEW m \in Owes(A, K, R, st[i]) PROVE K[m] \notin Below(K, R, p, u)
  <2>1. CASE m = p
    BY <1>2, <1>4, <2>1, BelowIs
  <2>2. CASE m # p
    <3>1. PICK s \in Sides \ Returned(st[i].at) : K[m] \in Below(K, R, p, s)
      BY <1>1, <1>6, <2>2 DEF Owes
    <3>2. s # u /\ K[m] \in R[p]
      BY <1>2, <1>4, <3>1, BelowIs
    <3> QED
      BY <1>2, <1>4, <3>1, <3>2, BelowIs
  <2> QED
    BY <2>1, <2>2
<1> QED
  BY <1>5, <1>6

\* A function that flattens q as FlattenSeq does, to its i-th element.
IsFlat(f, q) == f = [i \in 1 .. Len(q) |-> IF i = 1 THEN q[i] ELSE f[i - 1] \o q[i]]

FlatTo(f, q, n, k) ==
    /\ f = [i \in 1 .. n |-> f[i]]
    /\ \A i \in 1 .. n : i <= k => f[i] = IF i = 1 THEN q[i] ELSE f[i - 1] \o q[i]

LEMMA FlatExists ==
    ASSUME NEW q, NEW n \in Nat, n = Len(q)
    PROVE  \E f : IsFlat(f, q)
<1> DEFINE T == {k \in Nat : \E f : FlatTo(f, q, n, k)}
<1>1. 0 \in T
  <2>1. PICK f : f = [i \in 1 .. n |-> <<>>]
    OBVIOUS
  <2>2. f = [i \in 1 .. n |-> f[i]] /\ \A i \in 1 .. n : ~ (i <= 0)
    BY <2>1
  <2>3. FlatTo(f, q, n, 0)
    BY <2>2 DEF FlatTo
  <2> QED
    BY <2>3
<1>2. ASSUME NEW k \in Nat, k \in T PROVE k + 1 \in T
  <2>1. PICK f : FlatTo(f, q, n, k)
    BY <1>2
  <2>2. PICK g : g = [i \in 1 .. n |-> IF i = 1 THEN q[i] ELSE f[i - 1] \o q[i]]
    OBVIOUS
  <2>3. ASSUME NEW i \in 1 .. n, i <= k + 1
        PROVE  g[i] = IF i = 1 THEN q[i] ELSE g[i - 1] \o q[i]
    <3>1. CASE i = 1
      BY <2>2, <3>1
    <3>2. CASE i # 1
      <4>1. i - 1 \in 1 .. n /\ i - 1 <= k
        BY <2>3, <3>2
      <4>2. g[i - 1] = f[i - 1]
        BY <2>1, <2>2, <4>1 DEF FlatTo
      <4>3. g[i] = f[i - 1] \o q[i]
        BY <2>2, <3>2
      <4> QED
        BY <3>2, <4>2, <4>3
    <3> QED
      BY <3>1, <3>2
  <2>4. g = [i \in 1 .. n |-> g[i]]
    BY <2>2
  <2>5. FlatTo(g, q, n, k + 1)
    BY <2>3, <2>4 DEF FlatTo
  <2> QED
    BY <2>5
<1>3. Nat \subseteq T
  <2> HIDE DEF T
  <2> QED
    BY <1>1, <1>2, NatSet
<1>4. PICK f : FlatTo(f, q, n, n)
  BY <1>3
<1>5. \A i \in 1 .. n : f[i] = IF i = 1 THEN q[i] ELSE f[i - 1] \o q[i]
  <2>1. \A i \in 1 .. n : i <= n
    OBVIOUS
  <2>2. \A i \in 1 .. n : i <= n => f[i] = IF i = 1 THEN q[i] ELSE f[i - 1] \o q[i]
    BY <1>4 DEF FlatTo
  <2> QED
    BY <2>1, <2>2
<1>6. IsFlat(f, q)
  BY <1>4, <1>5 DEF IsFlat, FlatTo
<1> QED
  BY <1>6

\* Sequences that visit disjoint sets visit together their union.
LEMMA FlatVisits ==
    ASSUME NEW q, NEW n \in Nat, n = Len(q), NEW S,
           \A i \in 1 .. n : Visits(q[i], S[i]),
           \A i, j \in 1 .. n : i < j => S[i] \cap S[j] = {},
           n = 0 => q = <<>>
    PROVE  Visits(Tree!FlattenSeq(q), UNION {S[i] : i \in 1 .. n})
<1> DEFINE upto(k) == UNION {S[i] : i \in 1 .. k}
<1>1. CASE n = 0
  <2>1. Tree!FlattenSeq(q) = <<>>
    BY <1>1 DEF Tree!FlattenSeq
  <2>2. upto(n) = {}
    BY <1>1
  <2> QED
    BY <2>1, <2>2, VisitsOne
<1>2. CASE n # 0
  <2>1. PICK f : f = CHOOSE g : IsFlat(g, q)
    OBVIOUS
  <2>2. IsFlat(f, q)
    BY <2>1, FlatExists
  <2>3. Tree!FlattenSeq(q) = f[n]
    BY <1>2, <2>1 DEF Tree!FlattenSeq, IsFlat
  <2>4. \A i \in 1 .. n : f[i] = IF i = 1 THEN q[i] ELSE f[i - 1] \o q[i]
    BY <2>2 DEF IsFlat
  <2> DEFINE T == {k \in Nat : k \in 1 .. n => Visits(f[k], upto(k))}
  <2>5. 0 \in T
    OBVIOUS
  <2>6. ASSUME NEW k \in Nat, k \in T PROVE k + 1 \in T
    <3>1. SUFFICES ASSUME k + 1 \in 1 .. n PROVE Visits(f[k + 1], upto(k + 1))
      OBVIOUS
    <3>2. PICK m : m = k + 1
      OBVIOUS
    <3>3. upto(m) = upto(k) \cup S[m]
      <4>1. \A i : i \in 1 .. m <=> i \in 1 .. k \/ i = m
        BY <3>2
      <4> QED
        BY <4>1
    <3>4. Visits(q[m], S[m])
      BY <3>1, <3>2
    <3>5. CASE k = 0
      <4>1. f[m] = q[m] /\ upto(k) = {}
        BY <2>4, <3>1, <3>2, <3>5
      <4> QED
        BY <3>2, <3>3, <3>4, <4>1
    <3>6. CASE k # 0
      <4>1. k \in 1 .. n /\ m - 1 = k /\ m # 1 /\ m \in 1 .. n
        BY <3>1, <3>2, <3>6
      <4>2. Visits(f[k], upto(k)) /\ f[m] = f[k] \o q[m]
        BY <2>4, <2>6, <4>1
      <4>3. upto(k) \cap S[m] = {}
        <5>1. \A i \in 1 .. k : i \in 1 .. n /\ i < m
          BY <3>2, <4>1
        <5> QED
          BY <4>1, <5>1
      <4> HIDE DEF upto
      <4>4. Visits(Appended(f[k], q[m]), upto(k) \cup S[m])
        BY <3>4, <4>2, <4>3, VisitsBoth
      <4> QED
        BY <3>2, <3>3, <4>2, <4>4 DEF Appended
    <3> QED
      BY <3>5, <3>6
  <2>7. Nat \subseteq T
    <3> HIDE DEF T
    <3> QED
      BY <2>5, <2>6, NatSet
  <2>8. Visits(f[n], upto(n))
    <3>1. n \in T
      <4> HIDE DEF T
      <4> QED
        BY <2>7
    <3>2. n \in 1 .. n
      BY <1>2
    <3> HIDE DEF upto
    <3> QED
      BY <3>1, <3>2
  <2> QED
    BY <2>3, <2>8
<1> QED
  BY <1>1, <1>2

LEMMA TreeCardinality == \A S : Tree!Cardinality(S) = Cardinality(S)
BY DEF Tree!Cardinality, Cardinality

\* adt.c: tree_inorder visits every node ever attached, once, in increasing order of
\* the keys, whatever is inserted and whatever allocation fails; and tree_destroy's
\* calls have between them every node that is left, once.
THEOREM TreeKeepsItsShape == SpecStructures => []Tree!TreeShape
<1>1. TreeKnows => Tree!TreeShape
  <2> SUFFICES ASSUME TreeKnows PROVE Tree!TreeShape
    OBVIOUS
  <2>1. PICK R : TreeIn(R)
    BY DEF TreeKnows
  <2>2. TreeTypes /\ Sorted(tallocated, tkey, Children, R) /\ Nested(tallocated, tkey, Children, R, tstack)
    BY <2>1 DEF TreeKnows, TreeIn
  <2>3. ASSUME tpc # "destroy"
        PROVE  LET nodes == Tree!InOrder(troot)
               IN  /\ Tree!ToSet(nodes) = tallocated
                   /\ \A j \in 1 .. Len(nodes) - 1 : tkey[nodes[j]] < tkey[nodes[j + 1]]
    <3>1. PICK nodes : nodes = Tree!InOrder(troot)
      OBVIOUS
    <3>2. Visits(nodes, tallocated) /\ Climbs(nodes, tkey)
      <4>1. Rooted(R)
        BY <2>1, <2>3 DEF TreeIn
      <4>2. CASE troot = NULL
        <5>1. tallocated = {} /\ troot \in Pointers
          BY <4>1, <4>2 DEF Rooted, Pointers
        <5>2. nodes = <<>>
          BY <2>2, <3>1, <5>1, InOrderIs
        <5> QED
          BY <5>1, <5>2, VisitsOne
      <4>3. CASE troot # NULL
        <5>1. troot \in tallocated /\ R[troot] = TreeKeys
          BY <4>1, <4>3 DEF Rooted
        <5>2. Subtree(tallocated, tkey, R, troot) = tallocated
          BY <2>2, <5>1, BelowIs DEF Subtree
        <5> QED
          BY <2>2, <3>1, <5>1, <5>2, InOrderIs
      <4> QED
        BY <4>2, <4>3
    <3>3. nodes \in Seq(Nodes) /\ Len(nodes) \in Nat /\ DOMAIN nodes = 1 .. Len(nodes)
      <4>1. nodes \in Seq(Nodes)
        BY <3>2 DEF Visits
      <4> QED
        BY <4>1, LenProperties
    <3>4. Tree!ToSet(nodes) = tallocated
      BY <3>2, <3>3 DEF Tree!ToSet, Visits
    <3>5. \A j \in 1 .. Len(nodes) - 1 : tkey[nodes[j]] < tkey[nodes[j + 1]]
      <4>1. \A j \in 1 .. Len(nodes) - 1 :
               j \in 1 .. Len(nodes) /\ j + 1 \in 1 .. Len(nodes) /\ j < j + 1
        BY <3>3
      <4> QED
        BY <3>2, <4>1 DEF Climbs
    <3> QED
      BY <3>1, <3>4, <3>5
  <2>4. ASSUME tpc = "destroy"
        PROVE  LET nodes == Tree!FlattenSeq([c \in DOMAIN tstack |-> Tree!Owed(tstack[c])])
               IN  Tree!ToSet(nodes) = tallocated /\ Len(nodes) = Tree!Cardinality(tallocated)
    <3>1. PICK n : n = Len(tstack)
      OBVIOUS
    <3>2. tstack \in Seq(TreeCalls) /\ n \in Nat /\ DOMAIN tstack = 1 .. n
      <4>1. tstack \in Seq(TreeCalls)
        BY <2>2 DEF Nested
      <4> QED
        BY <3>1, <4>1, LenProperties
    <3>3. PICK q, S : /\ q = [c \in 1 .. n |-> Tree!Owed(tstack[c])]
                      /\ S = [c \in 1 .. n |-> Owes(tallocated, tkey, R, tstack[c])]
      OBVIOUS
    <3>4. PICK nodes : nodes = Tree!FlattenSeq(q)
      OBVIOUS
    <3>5. n = Len(q) /\ (n = 0 => q = <<>>)
      BY <3>2, <3>3
    <3>6. ASSUME NEW i \in 1 .. n PROVE Visits(q[i], S[i])
      <4>1. tstack[i] \in TreeCalls /\ tstack[i].n \in tallocated
        BY <2>2, <3>1, <3>2 DEF Nested
      <4>2. Visits(Tree!Owed(tstack[i]), Owes(tallocated, tkey, R, tstack[i]))
        BY <2>2, <4>1, OwedIs
      <4> QED
        BY <3>3, <4>2
    <3>7. ASSUME NEW i \in 1 .. n, NEW j \in 1 .. n, i < j PROVE S[i] \cap S[j] = {}
      BY <2>2, <3>1, <3>3, <3>7, OwesDiffer
    <3>8. Visits(nodes, UNION {S[i] : i \in 1 .. n})
      <4>1. \A i \in 1 .. n : Visits(q[i], S[i])
        BY <3>6
      <4>2. \A i, j \in 1 .. n : i < j => S[i] \cap S[j] = {}
        BY <3>7
      <4>3. n \in Nat
        BY <3>2
      <4>4. Visits(Tree!FlattenSeq(q), UNION {S[i] : i \in 1 .. n})
        BY <3>5, <4>1, <4>2, <4>3, FlatVisits
      <4> QED
        BY <3>4, <4>4
    <3>9. UNION {S[i] : i \in 1 .. n} = tallocated
      <4>1. Covered(tallocated, tkey, R, tstack)
        BY <2>1, <2>4 DEF TreeIn
      <4>2. \A i \in 1 .. n : S[i] \subseteq tallocated
        BY <3>3 DEF Owes
      <4>3. \A m \in tallocated : \E i \in 1 .. n : m \in S[i]
        BY <3>1, <3>3, <4>1 DEF Covered
      <4> QED
        BY <4>2, <4>3
    <3>10. Len(nodes) = Cardinality(tallocated)
      BY <3>8, <3>9, VisitsCount
    <3>11. Tree!ToSet(nodes) = tallocated
      <4>1. nodes \in Seq(Nodes)
        BY <3>8 DEF Visits
      <4>2. DOMAIN nodes = 1 .. Len(nodes)
        BY <4>1, LenProperties
      <4> QED
        BY <3>8, <3>9, <4>2 DEF Tree!ToSet, Visits
    <3> QED
      BY <3>2, <3>3, <3>4, <3>10, <3>11, TreeCardinality
  <2> QED
    BY <2>3, <2>4 DEF Tree!TreeShape
<1> QED
  BY <1>1, TreeInvariance, PTL

-----------------------------------------------------------------------------
\* adt.c, tests.c: after every step of every operation the counts, the blocks and
\* the chains of both maps agree, and the tree is sorted and whole.
THEOREM TablesAlwaysHold == SpecStructures => []TablesHold
BY HashMapKeepsItsShape, FixedKeepsItsShape, TreeKeepsItsShape, PTL DEF TablesHold
================================================================================
