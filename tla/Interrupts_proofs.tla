-------------------------- MODULE Interrupts_proofs --------------------------
(***************************************************************************)
(* Proofs about the receiver of week 51, for every size of the ring and of  *)
(* the FIFO and wherever interrupts fall: the inductive invariant, that the *)
(* protected read of micros is whole, that acknowledged interrupts do not   *)
(* come back, that drops are counted exactly, and that the ring implements  *)
(* the abstract FIFO queue without a critical section.                      *)
(***************************************************************************)
EXTENDS Interrupts, SequenceTheorems, TLAPS

Item == Bytes \cup {NoByte}

\* The modulus of the code is one conditional subtraction.
LEMMA NextIndexIsSlot ==
    ASSUME NEW s \in Slots
    PROVE  /\ NextIndex(s) = IF s + 1 = RX_SIZE THEN 0 ELSE s + 1
           /\ NextIndex(s) \in Slots
BY RingAssumption DEF Slots, NextIndex

\* The slots between tail and head are distinct slots, and head is not one of
\* them.
LEMMA UsedSlots ==
    ASSUME rx_head \in Slots, rx_tail \in Slots
    PROVE  /\ Used \in 0 .. RX_SIZE - 1
           /\ Used = 0 <=> rx_tail = rx_head
           /\ \A k \in 1 .. Used : SlotAt(k - 1) \in Slots /\ SlotAt(k - 1) # rx_head
           /\ SlotAt(Used) = rx_head
           /\ SlotAt(0) = rx_tail
BY RingAssumption DEF Slots, Used, SlotAt

\* The new head of the ring.
LEMMA UsedAfterStore ==
    ASSUME rx_head \in Slots, rx_tail \in Slots, ~ RingFull,
           rx_head' = NextIndex(rx_head), rx_tail' = rx_tail
    PROVE  Used' = Used + 1
<1>1. rx_head' = IF rx_head + 1 = RX_SIZE THEN 0 ELSE rx_head + 1
  BY NextIndexIsSlot
<1>2. rx_head' # rx_tail
  BY DEF RingFull
<1> QED
  BY <1>1, <1>2, RingAssumption DEF Slots, Used

\* The new tail of the ring.
LEMMA UsedAfterGet ==
    ASSUME rx_head \in Slots, rx_tail \in Slots, rx_tail # rx_head,
           rx_tail' = NextIndex(rx_tail), rx_head' = rx_head
    PROVE  /\ Used' = Used - 1
           /\ \A k \in 1 .. Used - 1 : SlotAt(k - 1)' = SlotAt(k)
<1>1. rx_tail' = IF rx_tail + 1 = RX_SIZE THEN 0 ELSE rx_tail + 1
  BY NextIndexIsSlot
<1> QED
  BY <1>1, RingAssumption DEF Slots, Used, SlotAt

\* A full ring, by the code's test, holds RX_SIZE - 1 bytes.
LEMMA FullMeansUsed ==
    ASSUME rx_head \in Slots, rx_tail \in Slots
    PROVE  RingFull <=> Used = RX_SIZE - 1
<1>1. NextIndex(rx_head) = IF rx_head + 1 = RX_SIZE THEN 0 ELSE rx_head + 1
  BY NextIndexIsSlot
<1> QED
  BY <1>1, RingAssumption DEF Slots, Used, RingFull

-----------------------------------------------------------------------------
\* The inductive invariant.

LEMMA InitIInv == Init => IInv
<1> SUFFICES ASSUME Init PROVE IInv
  OBVIOUS
<1>1. TypeOK
  <2>1. /\ fifo \in Seq(Bytes) /\ Len(fifo) <= FifoSize
        /\ received \in Seq(Bytes)
    BY EmptySeq, SizeAssumption DEF Init
  <2>2. \E some \in SUBSET Halves : copy \in [some -> 0 .. WordSize - 1]
    <3>1. copy \in [{} -> 0 .. WordSize - 1]
      BY DEF Init, NothingCopied
    <3> QED
      BY <3>1
  <2>3. /\ rx_buf \in [Slots -> Bytes \cup {NoByte}]
        /\ rx_head \in Slots /\ rx_tail \in Slots
        /\ rx_dropped \in Nat /\ isr_entries \in Nat
        /\ tick_count \in 0 .. TickWrap - 1
        /\ micros \in [Halves -> 0 .. WordSize - 1]
        /\ typed \in 0 .. MaxTyped
    BY SizeAssumption, RingAssumption DEF Init, Slots
  <2>4. /\ rxRaised \in BOOLEAN /\ tickRaised \in BOOLEAN
        /\ rxEnabled \in BOOLEAN /\ tickEnabled \in BOOLEAN /\ masked \in BOOLEAN
        /\ isr \in {"none", "drain", "acknowledge"}
        /\ pc \in Labels /\ byte \in Bytes \cup {NoByte}
    BY DEF Init, Labels
  <2> QED
    BY <2>1, <2>2, <2>3, <2>4 DEF TypeOK
<1>2. Filled
  BY DEF Init, Filled, Used
<1>3. GetInv
  BY DEF Init, GetInv
<1>4. LoadInv
  BY DEF Init, LoadInv, NothingCopied
<1> QED
  BY <1>1, <1>2, <1>3, <1>4 DEF IInv

\* The steps that touch neither the ring nor what main knows of it.
LEMMA RingUntouched ==
    ASSUME Filled, GetInv,
           UNCHANGED <<rx_buf, rx_head, rx_tail>>,
           UNCHANGED <<pc, byte>> \/ pc' \notin {"get_copy", "get_advance"}
    PROVE  Filled' /\ GetInv'
BY DEF Filled, GetInv, Used, SlotAt

\* A tick: the words of micros stay words.
LEMMA TickKeepsWords ==
    ASSUME NEW m \in [Halves -> 0 .. WordSize - 1]
    PROVE  PlusOneTick(m) \in [Halves -> 0 .. WordSize - 1]
<1>1. /\ m["lo"] \in 0 .. WordSize - 1
      /\ m["hi"] \in 0 .. WordSize - 1
  BY DEF Halves
<1>2. /\ (m["lo"] + 1) % WordSize \in 0 .. WordSize - 1
      /\ (m["hi"] + 1) % WordSize \in 0 .. WordSize - 1
  BY <1>1, SizeAssumption
<1> QED
  BY <1>1, <1>2 DEF PlusOneTick, Halves

LEMMA NextTypeOK == IInv /\ [Next]_vars => TypeOK'
<1> SUFFICES ASSUME IInv, [Next]_vars PROVE TypeOK'
  OBVIOUS
<1> USE DEF IInv, TypeOK, uart, ring, clock, local, Goto, At, MainUnchanged
<1>1. ASSUME NEW b \in Bytes, TypeByte(b) PROVE TypeOK'
  <2>1. fifo' \in Seq(Bytes) /\ Len(fifo') = Len(fifo) + 1
    BY <1>1, AppendProperties DEF TypeByte
  <2>2. Len(fifo') <= FifoSize
    BY <1>1, <2>1, LenProperties, SizeAssumption DEF TypeByte
  <2>3. typed' \in 0 .. MaxTyped
    BY <1>1, SizeAssumption DEF TypeByte
  <2> QED
    BY <1>1, <2>1, <2>2, <2>3 DEF TypeByte
<1>2. ASSUME TickElapses PROVE TypeOK'
  BY <1>2 DEF TickElapses
<1>3. ASSUME SystickHandler PROVE TypeOK'
  <2>1. micros' \in [Halves -> 0 .. WordSize - 1]
    BY <1>3, TickKeepsWords DEF SystickHandler
  <2>2. tick_count' \in 0 .. TickWrap - 1
    BY <1>3, SizeAssumption DEF SystickHandler
  <2> QED
    BY <1>3, <2>1, <2>2 DEF SystickHandler
<1>4. ASSUME UartEntry \/ UartDrained \/ UartAcknowledge PROVE TypeOK'
  <2>1. CASE UartEntry
    BY <2>1 DEF UartEntry
  <2>2. CASE UartDrained
    BY <2>2 DEF UartDrained
  <2>3. CASE UartAcknowledge
    BY <2>3 DEF UartAcknowledge, Acknowledged
  <2> QED
    BY <1>4, <2>1, <2>2, <2>3
<1>5. ASSUME UartDrain PROVE TypeOK'
  <2>1. /\ fifo' \in Seq(Bytes) /\ Len(fifo') <= FifoSize
        /\ Head(fifo) \in Bytes
    BY <1>5, HeadTailProperties, LenProperties, SizeAssumption DEF UartDrain
  <2>2. /\ rx_buf' \in [Slots -> Bytes \cup {NoByte}]
        /\ rx_head' \in Slots /\ rx_dropped' \in Nat
    BY <1>5, <2>1, NextIndexIsSlot DEF UartDrain
  <2> QED
    BY <1>5, <2>1, <2>2 DEF UartDrain
<1>6. ASSUME Poll PROVE TypeOK'
  <2>1. fifo' \in Seq(Bytes) /\ Len(fifo') <= FifoSize
    BY <1>6, HeadTailProperties, LenProperties, SizeAssumption DEF Poll
  <2> QED
    BY <1>6, <2>1 DEF Poll, Labels
<1>7. ASSUME SystickInit \/ UartIrqInit PROVE TypeOK'
  BY <1>7 DEF SystickInit, UartIrqInit, Labels
<1>8. ASSUME GetTest \/ GetCopy \/ ReportTest \/ ReportTest2 \/ ReportDone
      PROVE  TypeOK'
  BY <1>8 DEF GetTest, GetCopy, ReportTest, ReportTest2, ReportDone, NextTurn,
     Labels
<1>9. ASSUME GetAdvance PROVE TypeOK'
  <2>1. byte \in Bytes
    <3>1. /\ rx_tail # rx_head /\ byte = rx_buf[rx_tail]
      BY <1>9 DEF GetAdvance, GetInv
    <3>2. 1 \in 1 .. Used /\ SlotAt(1 - 1) = rx_tail
      BY <3>1, UsedSlots, RingAssumption
    <3> QED
      BY <3>1, <3>2 DEF Filled
  <2>2. received' \in Seq(Bytes)
    BY <1>9, <2>1, AppendProperties DEF GetAdvance
  <2> QED
    BY <1>9, <2>2, NextIndexIsSlot DEF GetAdvance, Labels
<1>10. ASSUME \/ Load("load_unsafe", "enter_critical")
              \/ Load("load_safe", "exit_critical")
       PROVE  TypeOK'
  <2>1. PICK h \in Halves \ DOMAIN copy :
          copy' = [g \in DOMAIN copy \cup {h} |->
                       IF g = h THEN micros[h] ELSE copy[g]]
    BY <1>10 DEF Load
  <2>2. PICK some \in SUBSET Halves : copy \in [some -> 0 .. WordSize - 1]
    OBVIOUS
  <2>3. copy' \in [some \cup {h} -> 0 .. WordSize - 1]
    BY <2>1, <2>2
  <2>4. some \cup {h} \in SUBSET Halves
    BY <2>1
  <2>5. \E s \in SUBSET Halves : copy' \in [s -> 0 .. WordSize - 1]
    BY <2>3, <2>4
  <2>6. pc' \in Labels
    BY <1>10 DEF Load, Labels
  <2> QED
    BY <1>10, <2>5, <2>6 DEF Load
<1>11. ASSUME EnterCritical \/ ExitCritical PROVE TypeOK'
  <2>1. NothingCopied \in [{} -> 0 .. WordSize - 1]
    BY DEF NothingCopied
  <2>2. \E s \in SUBSET Halves : copy' \in [s -> 0 .. WordSize - 1]
    BY <1>11, <2>1 DEF EnterCritical, ExitCritical
  <2> QED
    BY <1>11, <2>2 DEF EnterCritical, ExitCritical, MaskedInside, RestoredMask,
       Labels
<1>12. ASSUME UNCHANGED vars PROVE TypeOK'
  BY <1>12 DEF vars
<1> QED
  BY <1>1, <1>2, <1>3, <1>4, <1>5, <1>6, <1>7, <1>8, <1>9, <1>10, <1>11, <1>12
     DEF Next, Main, UartHandler, Stay

LEMMA NextFilled == IInv /\ [Next]_vars => Filled' /\ GetInv'
<1> SUFFICES ASSUME IInv, [Next]_vars PROVE Filled' /\ GetInv'
  OBVIOUS
<1> USE DEF IInv, TypeOK, uart, ring, clock, local, Goto, At, MainUnchanged
<1>1. ASSUME \/ \E b \in Bytes : TypeByte(b)
             \/ TickElapses \/ SystickHandler
             \/ UartEntry \/ UartDrained \/ UartAcknowledge
             \/ UNCHANGED vars
      PROVE  Filled' /\ GetInv'
  BY <1>1, RingUntouched DEF TypeByte, TickElapses, SystickHandler, UartEntry,
     UartDrained, UartAcknowledge, vars
<1>2. ASSUME \/ Poll \/ SystickInit \/ UartIrqInit
             \/ ReportTest \/ ReportTest2 \/ ReportDone
             \/ EnterCritical \/ ExitCritical
      PROVE  Filled' /\ GetInv'
  BY <1>2, RingUntouched DEF Poll, SystickInit, UartIrqInit, ReportTest,
     ReportTest2, ReportDone, NextTurn, EnterCritical, ExitCritical
<1>3. ASSUME \/ Load("load_unsafe", "enter_critical")
             \/ Load("load_safe", "exit_critical")
      PROVE  Filled' /\ GetInv'
  BY <1>3, RingUntouched DEF Load
<1>4. ASSUME GetTest PROVE Filled' /\ GetInv'
  BY <1>4 DEF GetTest, Filled, GetInv, Used, SlotAt
<1>5. ASSUME GetCopy PROVE Filled' /\ GetInv'
  BY <1>5 DEF GetCopy, Filled, GetInv, Used, SlotAt
<1>6. ASSUME GetAdvance PROVE Filled' /\ GetInv'
  <2>1. /\ rx_tail # rx_head /\ rx_tail' = NextIndex(rx_tail)
        /\ rx_head' = rx_head /\ rx_buf' = rx_buf
    BY <1>6 DEF GetAdvance, GetInv
  <2>2. /\ Used' = Used - 1
        /\ \A k \in 1 .. Used - 1 : SlotAt(k - 1)' = SlotAt(k)
    BY <2>1, UsedAfterGet
  <2>3. Filled'
    <3>1. SUFFICES ASSUME NEW k \in 1 .. Used - 1
                   PROVE  rx_buf[SlotAt(k - 1)'] \in Bytes
      BY <2>1, <2>2 DEF Filled
    <3>2. k + 1 \in 1 .. Used /\ k + 1 - 1 = k
      BY UsedSlots, RingAssumption
    <3> QED
      BY <2>2, <3>2 DEF Filled
  <2> QED
    BY <1>6, <2>3 DEF GetAdvance, GetInv
<1>7. ASSUME UartDrain PROVE Filled' /\ GetInv'
  <2>1. CASE RingFull
    BY <1>7, <2>1, RingUntouched DEF UartDrain
  <2>2. CASE ~ RingFull
    <3>1. /\ fifo # <<>> /\ rx_head' = NextIndex(rx_head) /\ rx_tail' = rx_tail
          /\ rx_buf' = [rx_buf EXCEPT ![rx_head] = Head(fifo)]
          /\ pc' = pc /\ byte' = byte
      BY <1>7, <2>2 DEF UartDrain
    <3>2. Used' = Used + 1
      BY <2>2, <3>1, UsedAfterStore
    <3>3. \A k : SlotAt(k)' = SlotAt(k)
      BY <3>1 DEF SlotAt
    <3>4. Head(fifo) \in Bytes
      BY <3>1, HeadTailProperties
    <3>5. Filled'
      <4>1. SUFFICES ASSUME NEW k \in 1 .. Used + 1
                     PROVE  rx_buf'[SlotAt(k - 1)] \in Bytes
        BY <3>2, <3>3 DEF Filled
      <4>2. CASE k = Used + 1
        <5>1. SlotAt(k - 1) = rx_head
          BY <4>2, UsedSlots, RingAssumption
        <5> QED
          BY <3>1, <3>4, <5>1
      <4>3. CASE k \in 1 .. Used
        BY <3>1, <4>3, UsedSlots DEF Filled
      <4> QED
        BY <4>2, <4>3, UsedSlots, RingAssumption
    <3>6. GetInv'
      <4>1. rx_head' # rx_tail
        BY <2>2, <3>1 DEF RingFull
      <4>2. rx_tail # rx_head => rx_buf'[rx_tail] = rx_buf[rx_tail]
        BY <3>1
      <4> QED
        BY <3>1, <4>1, <4>2 DEF GetInv
    <3> QED
      BY <3>5, <3>6
  <2> QED
    BY <2>1, <2>2
<1> QED
  BY <1>1, <1>2, <1>3, <1>4, <1>5, <1>6, <1>7 DEF Next, Main, UartHandler, Stay

LEMMA NextLoadInv == IInv /\ [Next]_vars => LoadInv'
<1> SUFFICES ASSUME IInv, [Next]_vars PROVE LoadInv'
  OBVIOUS
<1> USE DEF IInv, LoadInv, uart, ring, clock, local, Goto, At, MainUnchanged
<1>1. ASSUME \/ \E b \in Bytes : TypeByte(b)
             \/ TickElapses \/ UartDrain \/ UartDrained \/ UartAcknowledge
             \/ UNCHANGED vars
      PROVE  LoadInv'
  BY <1>1 DEF TypeByte, TickElapses, UartDrain, UartDrained, UartAcknowledge,
     vars
<1>2. ASSUME SystickHandler \/ UartEntry PROVE LoadInv'
  BY <1>2 DEF SystickHandler, UartEntry
<1>3. ASSUME \/ Poll \/ SystickInit \/ UartIrqInit \/ GetTest \/ GetCopy
             \/ ReportTest \/ ReportTest2 \/ ReportDone \/ ExitCritical
      PROVE  LoadInv'
  BY <1>3 DEF Poll, SystickInit, UartIrqInit, GetTest, GetCopy, ReportTest,
     ReportTest2, ReportDone, NextTurn, Halves, ExitCritical
<1>4. ASSUME GetAdvance PROVE LoadInv'
  BY <1>4 DEF GetAdvance, Halves
<1>5. ASSUME EnterCritical PROVE LoadInv'
  BY <1>5 DEF EnterCritical, NothingCopied, MaskedInside, Halves
<1>6. ASSUME NEW label, NEW next, Load(label, next),
             <<label, next>> \in {<<"load_unsafe", "enter_critical">>,
                                  <<"load_safe", "exit_critical">>}
      PROVE  LoadInv'
  <2>1. PICK h \in Halves \ DOMAIN copy :
          copy' = [g \in DOMAIN copy \cup {h} |->
                       IF g = h THEN micros[h] ELSE copy[g]]
    BY <1>6 DEF Load
  <2>2. PICK some \in SUBSET Halves : copy \in [some -> 0 .. WordSize - 1]
    BY DEF TypeOK
  <2>3. DOMAIN copy = some /\ DOMAIN copy' = some \cup {h}
    BY <2>1, <2>2
  <2>4. IF some = {} THEN DOMAIN copy' # Halves ELSE DOMAIN copy' = Halves
    <3>1. CASE some = {}
      BY <2>1, <2>3, <3>1 DEF Halves
    <3>2. CASE some # {}
      <4>1. PICK g \in some : g # h
        BY <2>1, <2>3, <3>2
      <4>2. Halves = {g, h}
        BY <2>1, <2>2, <4>1 DEF Halves
      <4> QED
        BY <2>2, <2>3, <3>2, <4>1, <4>2
    <3> QED
      BY <3>1, <3>2
  <2> QED
    BY <1>6, <2>1, <2>3, <2>4 DEF Load
<1> QED
  BY <1>1, <1>2, <1>3, <1>4, <1>5, <1>6 DEF Next, Main, UartHandler, Stay

\* In every reachable state, for every ring and FIFO size.
THEOREM Invariance == Spec => []IInv
<1>1. IInv /\ [Next]_vars => IInv'
  BY NextTypeOK, NextFilled, NextLoadInv DEF IInv
<1> QED
  BY InitIInv, <1>1, PTL DEF Spec

\* The read of micros in the critical section is never torn, whatever the
\* words it is made of.
THEOREM ProtectedRead == Spec => []SafeRead
<1>1. IInv => SafeRead
  <2> SUFFICES ASSUME IInv, pc = "exit_critical" PROVE copy = micros
    BY DEF SafeRead
  <2>1. DOMAIN copy = Halves /\ \A h \in Halves : copy[h] = micros[h]
    BY DEF IInv, LoadInv
  <2>2. micros \in [Halves -> 0 .. WordSize - 1]
    BY DEF IInv, TypeOK
  <2>3. copy \in [Halves -> 0 .. WordSize - 1]
    BY <2>1 DEF IInv, TypeOK
  <2> QED
    BY <2>1, <2>2, <2>3
<1> QED
  BY <1>1, Invariance, PTL

\* Each entry of uart0_handler is for a byte of its own.
THEOREM Acknowledgement == Spec => []NoReentry
<1>1. Init => NoReentry
  BY DEF Init, NoReentry
<1>2. IInv /\ NoReentry /\ [Next]_vars => NoReentry'
  <2> SUFFICES ASSUME IInv, NoReentry, [Next]_vars PROVE NoReentry'
    OBVIOUS
  <2>1. isr_entries \in Nat /\ typed \in Nat
    BY SizeAssumption DEF IInv, TypeOK
  <2> USE DEF NoReentry, uart, ring, clock, local, Goto, At, MainUnchanged
  <2>2. CASE \E b \in Bytes : TypeByte(b)
    BY <2>1, <2>2 DEF TypeByte
  <2>3. CASE UartHandler
    BY <2>1, <2>3 DEF UartHandler, UartEntry, UartDrain, UartDrained,
       UartAcknowledge, Acknowledged
  <2>4. CASE UartIrqInit
    BY <2>1, <2>4 DEF UartIrqInit
  <2>5. CASE \/ TickElapses \/ SystickHandler \/ UNCHANGED vars
             \/ Poll \/ SystickInit \/ GetTest \/ GetCopy \/ GetAdvance
             \/ ReportTest \/ ReportTest2 \/ ReportDone
             \/ EnterCritical \/ ExitCritical
             \/ Load("load_unsafe", "enter_critical")
             \/ Load("load_safe", "exit_critical")
    BY <2>5 DEF TickElapses, SystickHandler, vars, Poll, SystickInit, GetTest,
       GetCopy, GetAdvance, ReportTest, ReportTest2, ReportDone, EnterCritical,
       ExitCritical, Load
  <2> QED
    BY <2>2, <2>3, <2>4, <2>5 DEF Next, Main, Stay
<1> QED
  BY <1>1, <1>2, Invariance, PTL DEF Spec

-----------------------------------------------------------------------------
\* The refinement of ClosableQueue.

\* Contents is a sequence of bytes that were stored.
ContentsShape ==
    /\ Contents \in Seq(Bytes)
    /\ Len(Contents) = Used
    /\ \A k \in 1 .. Used : Contents[k] = rx_buf[SlotAt(k - 1)]

LEMMA ContentsSeq == IInv => ContentsShape
<1> SUFFICES ASSUME IInv PROVE ContentsShape
  OBVIOUS
<1>1. Used \in Nat
  BY UsedSlots, RingAssumption DEF IInv, TypeOK
<1>2. Contents \in [1 .. Used -> Bytes]
  BY DEF Contents, IInv, Filled
<1>3. Contents \in Seq(Bytes)
  BY <1>1, <1>2, SeqDef
<1>4. Len(Contents) = Used
  BY <1>1, <1>2, <1>3, LenProperties
<1> QED
  BY <1>3, <1>4 DEF Contents, ContentsShape

\* The ring starts as the empty queue.
LEMMA InitRefines == Init => Queue!CQInit
<1> SUFFICES ASSUME Init PROVE Queue!CQInit
  OBVIOUS
<1>1. Contents \in Seq(Bytes) /\ Len(Contents) = 0
  BY InitIInv, ContentsSeq DEF Init, ContentsShape, Used
<1>2. Contents = <<>>
  BY <1>1, EmptySeq
<1> QED
  BY <1>2 DEF Init, Queue!CQInit

\* A turn of the drain loop with room in the ring puts its byte at the back.
LEMMA StoreAppends ==
    ASSUME IInv, IInv', UartDrain, ~ RingFull
    PROVE  /\ Contents' = Append(Contents, Head(fifo))
           /\ Head(fifo) \in Bytes
           /\ Len(Contents) < RX_SIZE - 1
<1> DEFINE b == Head(fifo)
<1>1. /\ fifo # <<>> /\ rx_head' = NextIndex(rx_head) /\ rx_tail' = rx_tail
      /\ rx_buf' = [rx_buf EXCEPT ![rx_head] = b]
  BY DEF UartDrain, ring, local
<1>2. /\ rx_head \in Slots /\ rx_tail \in Slots
      /\ rx_buf \in [Slots -> Item]
      /\ fifo \in Seq(Bytes)
  BY DEF IInv, TypeOK, Item
<1>3. b \in Bytes
  BY <1>1, <1>2, HeadTailProperties
<1>4. Used' = Used + 1 /\ Used \in Nat
  BY <1>1, <1>2, UsedAfterStore, UsedSlots, RingAssumption
<1>5. /\ Contents \in Seq(Bytes) /\ Len(Contents) = Used
      /\ \A k \in 1 .. Used : Contents[k] = rx_buf[SlotAt(k - 1)]
  BY ContentsSeq DEF ContentsShape
<1>6. /\ Contents' \in Seq(Bytes) /\ Len(Contents') = Used + 1
      /\ \A k \in 1 .. Used + 1 : Contents'[k] = rx_buf'[SlotAt(k - 1)]
  <2>1. ContentsShape'
    BY ContentsSeq, PTL
  <2>2. \A k : SlotAt(k)' = SlotAt(k)
    BY <1>1 DEF SlotAt
  <2> QED
    BY <1>4, <2>1, <2>2 DEF ContentsShape
<1>7. /\ Append(Contents, b) \in Seq(Bytes)
      /\ Len(Append(Contents, b)) = Used + 1
      /\ \A k \in 1 .. Used : Append(Contents, b)[k] = Contents[k]
      /\ Append(Contents, b)[Used + 1] = b
  BY <1>3, <1>5, AppendProperties
<1>8. ASSUME NEW k \in 1 .. Used + 1
      PROVE  Contents'[k] = Append(Contents, b)[k]
  <2>1. Contents'[k] = rx_buf'[SlotAt(k - 1)]
    BY <1>6
  <2>2. CASE k = Used + 1
    <3>1. SlotAt(k - 1) = rx_head
      BY <1>2, <1>4, <2>2, UsedSlots
    <3> QED
      BY <1>1, <1>2, <1>7, <2>1, <2>2, <3>1
  <2>3. CASE k \in 1 .. Used
    <3>1. SlotAt(k - 1) \in Slots /\ SlotAt(k - 1) # rx_head
      BY <1>2, <2>3, UsedSlots
    <3>2. rx_buf'[SlotAt(k - 1)] = rx_buf[SlotAt(k - 1)]
      BY <1>1, <1>2, <3>1
    <3> QED
      BY <1>5, <1>7, <2>1, <2>3, <3>2
  <2>4. k = Used + 1 \/ k \in 1 .. Used
    BY <1>4
  <2> QED
    BY <2>2, <2>3, <2>4
<1>9. Contents' = Append(Contents, b)
  BY <1>4, <1>6, <1>7, <1>8, SeqEqual
<1> QED
  <2>1. Used \in 0 .. RX_SIZE - 1 /\ Used # RX_SIZE - 1
    BY <1>2, UsedSlots, FullMeansUsed
  <2> QED
    BY <1>3, <1>5, <1>9, <2>1, RingAssumption

\* rx_get takes the front of the queue.
LEMMA GetTakes ==
    ASSUME IInv, IInv', GetAdvance
    PROVE  Queue!Take
<1>1. /\ rx_tail # rx_head /\ byte = rx_buf[rx_tail]
      /\ rx_tail' = NextIndex(rx_tail)
      /\ rx_head' = rx_head /\ rx_buf' = rx_buf
      /\ received' = Append(received, byte)
  BY DEF GetAdvance, IInv, GetInv, At, MainUnchanged
<1>2. rx_head \in Slots /\ rx_tail \in Slots
  BY DEF IInv, TypeOK
<1>3. /\ Used \in Nat \ {0} /\ Used' = Used - 1 /\ SlotAt(0) = rx_tail
      /\ \A k \in 1 .. Used - 1 : SlotAt(k - 1)' = SlotAt(k)
  BY <1>1, <1>2, UsedAfterGet, UsedSlots, RingAssumption
<1>4. /\ Contents \in Seq(Bytes) /\ Len(Contents) = Used
      /\ \A k \in 1 .. Used : Contents[k] = rx_buf[SlotAt(k - 1)]
  BY ContentsSeq DEF ContentsShape
<1>5. /\ Contents' \in Seq(Bytes) /\ Len(Contents') = Used - 1
      /\ \A k \in 1 .. Used - 1 : Contents'[k] = rx_buf[SlotAt(k)]
  <2>1. ContentsShape'
    BY ContentsSeq, PTL
  <2> QED
    BY <1>1, <1>3, <2>1 DEF ContentsShape
<1>6. Contents # <<>>
  BY <1>3, <1>4, EmptySeq
<1>7. Head(Contents) = byte
  <2>1. Contents[1] = rx_buf[SlotAt(1 - 1)]
    BY <1>3, <1>4
  <2> QED
    BY <1>1, <1>3, <1>4, <1>6, <2>1
<1>8. Contents' = Tail(Contents)
  <2>1. /\ Tail(Contents) \in Seq(Bytes)
        /\ Len(Tail(Contents)) = Used - 1
        /\ \A k \in 1 .. Used - 1 : Tail(Contents)[k] = Contents[k + 1]
    BY <1>4, <1>6, HeadTailProperties
  <2>2. ASSUME NEW k \in 1 .. Used - 1
        PROVE  Contents'[k] = Tail(Contents)[k]
    <3>1. k + 1 \in 1 .. Used /\ k + 1 - 1 = k
      BY <1>3
    <3>2. Contents[k + 1] = rx_buf[SlotAt(k)]
      BY <1>4, <3>1
    <3> QED
      BY <1>5, <2>1, <3>2
  <2> QED
    BY <1>3, <1>5, <2>1, <2>2, SeqEqual
<1> QED
  BY <1>1, <1>6, <1>7, <1>8 DEF Queue!Take

\* The steps other than these two do not change the queue.
LEMMA OthersLeaveQueue ==
    ASSUME IInv, [Next]_vars, ~ UartDrain, ~ GetAdvance
    PROVE  UNCHANGED <<Contents, received>>
<1>1. UNCHANGED <<rx_buf, rx_head, rx_tail, received>>
  <2> USE DEF uart, ring, clock, local, Goto, At, MainUnchanged
  <2>1. CASE \/ \E b \in Bytes : TypeByte(b)
             \/ TickElapses \/ SystickHandler
             \/ UartEntry \/ UartDrained \/ UartAcknowledge \/ UNCHANGED vars
    BY <2>1 DEF TypeByte, TickElapses, SystickHandler, UartEntry, UartDrained,
       UartAcknowledge, vars
  <2>2. CASE \/ Poll \/ SystickInit \/ UartIrqInit \/ GetTest \/ GetCopy
             \/ ReportTest \/ ReportTest2 \/ ReportDone
             \/ EnterCritical \/ ExitCritical
             \/ Load("load_unsafe", "enter_critical")
             \/ Load("load_safe", "exit_critical")
    BY <2>2 DEF Poll, SystickInit, UartIrqInit, GetTest, GetCopy, ReportTest,
       ReportTest2, ReportDone, EnterCritical, ExitCritical, Load
  <2> QED
    BY <2>1, <2>2 DEF Next, Main, UartHandler, Stay
<1> QED
  BY <1>1 DEF Contents, Used, SlotAt

LEMMA DrainFull ==
    ASSUME UartDrain, RingFull
    PROVE  UNCHANGED <<Contents, received>> /\ rx_dropped' = rx_dropped + 1
BY DEF UartDrain, Contents, Used, SlotAt, local

\* The ring of interrupts.c implements the abstract FIFO queue of RX_SIZE - 1
\* bytes, with the handler interrupting rx_get anywhere.
THEOREM Refinement == Spec => ImplementsQueue
<1>1. IInv /\ IInv' /\ [Next]_vars => [Queue!CQNext]_(Queue!cqVars)
  <2> SUFFICES ASSUME IInv, IInv', [Next]_vars
               PROVE  [Queue!CQNext]_(Queue!cqVars)
    OBVIOUS
  <2> USE DEF Queue!CQNext, Queue!cqVars
  <2>1. CASE UartDrain /\ RingFull
    BY <2>1, DrainFull
  <2>2. CASE UartDrain /\ ~ RingFull
    <3>1. received' = received
      BY <2>2 DEF UartDrain, local
    <3> QED
      BY <2>2, <3>1, StoreAppends DEF Queue!Put
  <2>3. CASE GetAdvance
    BY <2>3, GetTakes
  <2>4. CASE ~ UartDrain /\ ~ GetAdvance
    BY <2>4, OthersLeaveQueue
  <2> QED
    BY <2>1, <2>2, <2>3, <2>4
<1> QED
  BY InitRefines, <1>1, Invariance, PTL
     DEF Spec, ImplementsQueue, Queue!CQSpec

\* Every byte the handler reads is stored or counted, the latter exactly when
\* the ring is full.
THEOREM Accounting == Spec => EveryByteCounted
<1>1. IInv /\ IInv' /\ [Next]_vars =>
        (isr = "drain" /\ fifo' # fifo /\ typed' = typed =>
           IF Used = RX_SIZE - 1
           THEN rx_dropped' = rx_dropped + 1
           ELSE rx_dropped' = rx_dropped /\ Contents' = Append(Contents, Head(fifo)))
  <2> SUFFICES ASSUME IInv, IInv', [Next]_vars,
                      isr = "drain", fifo' # fifo, typed' = typed
               PROVE  IF Used = RX_SIZE - 1
                      THEN rx_dropped' = rx_dropped + 1
                      ELSE /\ rx_dropped' = rx_dropped
                           /\ Contents' = Append(Contents, Head(fifo))
    OBVIOUS
  <2>1. UartDrain
    <3>1. typed \in Nat
      BY SizeAssumption DEF IInv, TypeOK
    <3> USE DEF uart, ring, clock, local, Goto, At, MainUnchanged
    <3>2. ~ \E b \in Bytes : TypeByte(b)
      BY <3>1 DEF TypeByte
    <3>3. ~ Main
      BY DEF Main, Poll, SystickInit, UartIrqInit, GetTest, GetCopy,
         GetAdvance, ReportTest, ReportTest2, ReportDone, EnterCritical,
         ExitCritical, Load, Stay
    <3> QED
      BY <3>2, <3>3 DEF Next, UartHandler, TickElapses, SystickHandler,
         UartEntry, UartDrained, UartAcknowledge, vars
  <2>2. RingFull <=> Used = RX_SIZE - 1
    BY FullMeansUsed DEF IInv, TypeOK
  <2>3. CASE RingFull
    BY <2>1, <2>2, <2>3, DrainFull
  <2>4. CASE ~ RingFull
    BY <2>1, <2>2, <2>4, StoreAppends DEF UartDrain
  <2> QED
    BY <2>3, <2>4
<1> QED
  BY <1>1, Invariance, PTL DEF Spec, EveryByteCounted
=============================================================================
