------------------------------ MODULE Interrupts ------------------------------
(***************************************************************************)
(* The interrupt-driven receiver of week 51 (interrupts.c): main, the two   *)
(* handlers, and the UART and SysTick hardware they share.                  *)
(*                                                                          *)
(* Both interrupts have the same priority, so a handler is never preempted  *)
(* by the other: systick_handler is one step, and uart0_handler is several  *)
(* because bytes keep arriving while it runs.  main may be interrupted      *)
(* between any two of its accesses to shared memory, so each such access is *)
(* a step of its own.                                                       *)
(*                                                                          *)
(* The receive interrupt is what the code takes it for: raised "when a byte *)
(* arrives" and pending until ICR is written.  A byte that finds the UART's *)
(* own FIFO full is lost there, and leaves no trace.  micros is counted in  *)
(* units of 1000, in words of WordSize.  tick_count and the high word of    *)
(* micros wrap early, so that ticks can go on for ever in a finite model.   *)
(***************************************************************************)
EXTENDS Integers, Sequences, FiniteSets

CONSTANTS
    Chars, Quit,       \* what may be typed: other bytes, and 'q'
    NoByte,            \* the content of a slot never written
    RX_SIZE,           \* the slots of rx_buf
    FifoSize,          \* the UART's receive FIFO
    ReportTicks,       \* the 5000 of main's report
    TickWrap,          \* tick_count is modulo this, 2^32 in the code
    WordSize,          \* the words of micros are modulo this, 2^32 too
    MaxTyped           \* bound: bytes typed in one behaviour

Bytes == Chars \cup {Quit}
Slots == 0 .. RX_SIZE - 1

ASSUME ByteAssumption == NoByte \notin Bytes
\* An index is kept in a uint8_t and one slot always stays empty.
ASSUME RingAssumption == RX_SIZE \in 2 .. 256
ASSUME SizeAssumption ==
    /\ FifoSize \in Nat \ {0} /\ ReportTicks \in Nat \ {0, 1}
    /\ TickWrap \in Nat \ {0} /\ WordSize \in Nat \ {0}
    /\ MaxTyped \in Nat

VARIABLES
    fifo,                        \* the UART's FIFO
    rxRaised, tickRaised,        \* the pending interrupts
    rxEnabled, tickEnabled,      \* set up by main
    masked,                      \* PRIMASK
    isr,                         \* where uart0_handler is, or "none"
    rx_buf, rx_head, rx_tail,    \* the ring
    rx_dropped, isr_entries,
    tick_count, micros,
    pc, byte,                    \* main, and the byte rx_get copied out
    copy,                        \* the words of micros main has loaded
    typed, received              \* history: bytes typed, bytes rx_get returned

uart == <<fifo, rxRaised, rxEnabled, isr, isr_entries>>
ring == <<rx_buf, rx_head, rx_tail, rx_dropped>>
clock == <<tickRaised, tickEnabled, tick_count, micros>>
local == <<pc, byte, copy, received, masked>>
vars == <<fifo, rxRaised, tickRaised, rxEnabled, tickEnabled, masked, isr,
          rx_buf, rx_head, rx_tail, rx_dropped, isr_entries, tick_count,
          micros, pc, byte, copy, typed, received>>

Halves == {"lo", "hi"}
NothingCopied == [h \in {} |-> 0]

Init ==
    /\ fifo = <<>>
    /\ rxRaised = FALSE /\ tickRaised = FALSE
    /\ rxEnabled = FALSE /\ tickEnabled = FALSE
    /\ masked = FALSE /\ isr = "none"
    /\ rx_buf = [s \in Slots |-> NoByte]
    /\ rx_head = 0 /\ rx_tail = 0
    /\ rx_dropped = 0 /\ isr_entries = 0
    /\ tick_count = 0
    /\ micros = [h \in Halves |-> 0]
    /\ pc = "poll" /\ byte = NoByte /\ copy = NothingCopied
    /\ typed = 0 /\ received = <<>>

-----------------------------------------------------------------------------
\* The hardware.

TypeByte(b) ==
    /\ typed < MaxTyped
    /\ typed' = typed + 1
    /\ Len(fifo) < FifoSize
    /\ fifo' = Append(fifo, b)
    /\ rxRaised' = TRUE
    /\ UNCHANGED <<rxEnabled, isr, isr_entries, ring, clock, local>>

TickElapses ==
    /\ tickEnabled /\ ~ tickRaised
    /\ tickRaised' = TRUE
    /\ UNCHANGED <<tickEnabled, tick_count, micros, uart, ring, local, typed>>

-----------------------------------------------------------------------------
\* The handlers.  A definition whose name starts with "Bug" is a mistake the
\* definition after it could have had; no action uses it.

\* The 64-bit addition: a carry moves into the high word.
PlusOneTick(m) ==
    [lo |-> (m["lo"] + 1) % WordSize,
     hi |-> IF m["lo"] + 1 = WordSize THEN (m["hi"] + 1) % WordSize ELSE m["hi"]]

SystickHandler ==
    /\ isr = "none" /\ ~ masked /\ tickRaised
    /\ tickRaised' = FALSE
    /\ tick_count' = (tick_count + 1) % TickWrap
    /\ micros' = PlusOneTick(micros)
    /\ UNCHANGED <<tickEnabled, uart, ring, local, typed>>

UartEntry ==
    /\ isr = "none" /\ ~ masked /\ rxRaised /\ rxEnabled
    /\ isr_entries' = isr_entries + 1
    /\ isr' = "drain"
    /\ UNCHANGED <<fifo, rxRaised, rxEnabled, ring, clock, local, typed>>

BugNextIndex(s) == s + 1
NextIndex(s) == (s + 1) % RX_SIZE
BugRingFull == rx_head + 1 = rx_tail            \* does not wrap
BugRingFullEarly == NextIndex(NextIndex(rx_head)) = rx_tail
RingFull == NextIndex(rx_head) = rx_tail

\* One turn of the drain loop: the byte goes into the ring or is counted as
\* dropped.
UartDrain ==
    /\ isr = "drain" /\ fifo # <<>>
    /\ fifo' = Tail(fifo)
    /\ IF RingFull
       THEN /\ rx_dropped' = rx_dropped + 1
            /\ UNCHANGED <<rx_buf, rx_head>>
       ELSE /\ rx_buf' = [rx_buf EXCEPT ![rx_head] = Head(fifo)]
            /\ rx_head' = NextIndex(rx_head)
            /\ UNCHANGED rx_dropped
    /\ UNCHANGED <<rxRaised, rxEnabled, isr, isr_entries, rx_tail, clock,
                   local, typed>>

UartDrained ==
    /\ isr = "drain" /\ fifo = <<>>
    /\ isr' = "acknowledge"
    /\ UNCHANGED <<fifo, rxRaised, rxEnabled, isr_entries, ring, clock, local,
                   typed>>

BugAcknowledged(raised) == raised
Acknowledged(raised) == FALSE

UartAcknowledge ==
    /\ isr = "acknowledge"
    /\ rxRaised' = Acknowledged(rxRaised)
    /\ isr' = "none"
    /\ UNCHANGED <<fifo, rxEnabled, isr_entries, ring, clock, local, typed>>

-----------------------------------------------------------------------------
\* main.  It runs when no handler does.

At(label) == isr = "none" /\ pc = label
Goto(label) == pc' = label

\* Spinning for the first byte, which goes to nobody else.
Poll ==
    /\ At("poll") /\ fifo # <<>>
    /\ fifo' = Tail(fifo)
    /\ Goto("systick_init")
    /\ UNCHANGED <<rxRaised, rxEnabled, isr, isr_entries, ring, clock, byte,
                   copy, received, masked, typed>>

SystickInit ==
    /\ At("systick_init")
    /\ tickEnabled' = TRUE
    /\ Goto("uart_irq_init")
    /\ UNCHANGED <<tickRaised, tick_count, micros, uart, ring, byte, copy,
                   received, masked, typed>>

\* Enabling the interrupt also clears what arrived before.
UartIrqInit ==
    /\ At("uart_irq_init")
    /\ rxRaised' = FALSE
    /\ rxEnabled' = TRUE
    /\ Goto("loop")
    /\ UNCHANGED <<fifo, isr, isr_entries, ring, clock, byte, copy, received,
                   masked, typed>>

MainUnchanged == UNCHANGED <<uart, rx_buf, rx_head, rx_dropped, clock, typed>>

\* The local done: the last byte main got was 'q'.
done == byte = Quit
NextTurn == IF done THEN "load_unsafe" ELSE "loop"

\* rx_get: the test for empty, the copy, and the new tail.
GetTest ==
    /\ At("loop")
    /\ Goto(IF rx_tail = rx_head THEN "report_test" ELSE "get_copy")
    /\ UNCHANGED <<byte, copy, received, masked, rx_tail>>
    /\ MainUnchanged

GetCopy ==
    /\ At("get_copy")
    /\ byte' = rx_buf[rx_tail]
    /\ Goto("get_advance")
    /\ UNCHANGED <<copy, received, masked, rx_tail>>
    /\ MainUnchanged

\* After the new tail the byte is main's: 'q' ends the loop, after a last look
\* at tick_count.
GetAdvance ==
    /\ At("get_advance")
    /\ rx_tail' = NextIndex(rx_tail)
    /\ received' = Append(received, byte)
    /\ Goto(IF done THEN "report_test" ELSE "loop")
    /\ UNCHANGED <<byte, copy, masked>>
    /\ MainUnchanged

\* tick_count % 5000 == 0 and tick_count > 0 are two reads of tick_count.
ReportTest ==
    /\ At("report_test")
    /\ Goto(IF tick_count % ReportTicks = 0 THEN "report_test_2" ELSE NextTurn)
    /\ UNCHANGED <<byte, copy, received, masked, rx_tail>>
    /\ MainUnchanged

ReportTest2 ==
    /\ At("report_test_2")
    /\ Goto(IF tick_count > 0 THEN "report" ELSE NextTurn)
    /\ UNCHANGED <<byte, copy, received, masked, rx_tail>>
    /\ MainUnchanged

\* The report is out; main spins until the tick has passed.
ReportDone ==
    /\ At("report") /\ tick_count % ReportTicks # 0
    /\ Goto(NextTurn)
    /\ UNCHANGED <<byte, copy, received, masked, rx_tail>>
    /\ MainUnchanged

\* Reading micros is two loads, in the order the compiler likes: first with
\* interrupts on, then in a critical section.
Load(label, next) ==
    /\ At(label)
    /\ \E h \in Halves \ DOMAIN copy :
          copy' = [g \in DOMAIN copy \cup {h} |->
                       IF g = h THEN micros[h] ELSE copy[g]]
    /\ Goto(IF DOMAIN copy = {} THEN label ELSE next)
    /\ UNCHANGED <<byte, received, masked, rx_tail>>
    /\ MainUnchanged

BugMaskedInside == FALSE
MaskedInside == TRUE

EnterCritical ==
    /\ At("enter_critical")
    /\ copy' = NothingCopied
    /\ masked' = MaskedInside
    /\ Goto("load_safe")
    /\ UNCHANGED <<byte, received, rx_tail>>
    /\ MainUnchanged

\* main entered with interrupts on, so exit_critical turns them on.
BugRestoredMask == masked
RestoredMask == FALSE

ExitCritical ==
    /\ At("exit_critical")
    /\ masked' = RestoredMask
    /\ Goto("end")
    /\ UNCHANGED <<byte, copy, received, rx_tail>>
    /\ MainUnchanged

\* for (;;) { }, with the handlers still at work
Stay == At("end") /\ UNCHANGED vars

Main ==
    \/ Poll \/ SystickInit \/ UartIrqInit
    \/ GetTest \/ GetCopy \/ GetAdvance
    \/ ReportTest \/ ReportTest2 \/ ReportDone
    \/ Load("load_unsafe", "enter_critical")
    \/ EnterCritical \/ Load("load_safe", "exit_critical") \/ ExitCritical
    \/ Stay

UartHandler == UartEntry \/ UartDrain \/ UartDrained \/ UartAcknowledge

Next ==
    \/ \E b \in Bytes : TypeByte(b)
    \/ TickElapses
    \/ SystickHandler \/ UartHandler
    \/ Main

Spec == Init /\ [][Next]_vars

\* The timer never stops and a pending interrupt is taken.  main runs whenever
\* no handler does, and executes thousands of instructions in a tick, so it
\* cannot look at tick_count only at the moments when it reports.
FairSpec ==
    /\ Spec
    /\ WF_vars(TickElapses)
    /\ WF_vars(SystickHandler)
    /\ SF_vars(UartHandler)
    /\ SF_vars(Main /\ ~ Stay)
    /\ SF_vars(ReportDone)

-----------------------------------------------------------------------------
\* What the ring holds, oldest first.
Used == IF rx_tail <= rx_head THEN rx_head - rx_tail
        ELSE rx_head + RX_SIZE - rx_tail
SlotAt(k) == IF rx_tail + k < RX_SIZE THEN rx_tail + k ELSE rx_tail + k - RX_SIZE
Contents == [k \in 1 .. Used |-> rx_buf[SlotAt(k - 1)]]

Labels == {"poll", "systick_init", "uart_irq_init", "loop", "get_copy",
           "get_advance", "report_test", "report_test_2", "report",
           "load_unsafe", "enter_critical", "load_safe", "exit_critical", "end"}

\* Every variable stays in its range: main only gets bytes that were typed.
TypeOK ==
    /\ fifo \in Seq(Bytes) /\ Len(fifo) <= FifoSize
    /\ rxRaised \in BOOLEAN /\ tickRaised \in BOOLEAN
    /\ rxEnabled \in BOOLEAN /\ tickEnabled \in BOOLEAN /\ masked \in BOOLEAN
    /\ isr \in {"none", "drain", "acknowledge"}
    /\ rx_buf \in [Slots -> Bytes \cup {NoByte}]
    /\ rx_head \in Slots /\ rx_tail \in Slots
    /\ rx_dropped \in Nat /\ isr_entries \in Nat
    /\ tick_count \in 0 .. TickWrap - 1
    /\ micros \in [Halves -> 0 .. WordSize - 1]
    /\ pc \in Labels /\ byte \in Bytes \cup {NoByte}
    /\ \E some \in SUBSET Halves : copy \in [some -> 0 .. WordSize - 1]
    /\ typed \in 0 .. MaxTyped
    /\ received \in Seq(Bytes)

\* Every slot between tail and head has been written.
Filled == \A k \in 1 .. Used : rx_buf[SlotAt(k - 1)] \in Bytes

\* What rx_get has seen stays true while the handler interrupts it.
GetInv ==
    /\ pc \in {"get_copy", "get_advance"} => rx_tail # rx_head
    /\ pc = "get_advance" => byte = rx_buf[rx_tail]

\* In the critical section no handler runs, and what main has loaded of micros
\* agrees with it; nothing is loaded twice.
LoadInv ==
    /\ \/ DOMAIN copy = {}
       \/ pc \in {"load_unsafe", "enter_critical", "load_safe",
                  "exit_critical", "end"}
    /\ pc \in {"load_unsafe", "load_safe"} => DOMAIN copy # Halves
    /\ pc \in {"load_safe", "exit_critical"} =>
           /\ masked /\ isr = "none"
           /\ \A h \in DOMAIN copy : copy[h] = micros[h]
    /\ pc = "exit_critical" => DOMAIN copy = Halves

\* The inductive invariant.
IInv == TypeOK /\ Filled /\ GetInv /\ LoadInv

\* Without any critical section the ring is a FIFO queue of RX_SIZE - 1 bytes:
\* main gets every byte the handler stored, once, in order and as it was
\* stored, wherever the handler interrupts rx_get.
Queue == INSTANCE ClosableQueue WITH Value <- Bytes, Bound <- RX_SIZE - 1,
            buffer <- Contents, isClosed <- FALSE, taken <- received
ImplementsQueue == Queue!CQSpec

\* A byte is counted as dropped only when the ring really holds RX_SIZE - 1
\* bytes, and every byte the handler reads is either stored or counted.
EveryByteCounted ==
    [][isr = "drain" /\ fifo' # fifo /\ typed' = typed =>
         IF Used = RX_SIZE - 1
         THEN rx_dropped' = rx_dropped + 1
         ELSE rx_dropped' = rx_dropped /\ Contents' = Append(Contents, Head(fifo))]_vars

\* No byte, no interrupt: acknowledging keeps uart0_handler from being entered
\* again for bytes it has already handled ("or we re-enter forever").
NoReentry == isr_entries + (IF rxRaised /\ isr = "none" THEN 1 ELSE 0) <= typed

\* In the critical section main reads a value that micros has, and not one half
\* of a value before a tick and the other half of a value after it.
SafeRead == pc = "exit_critical" => copy = micros

\* A pending receive interrupt is served, also after main has left its critical
\* section, and main takes what is in the ring until it has seen 'q'.  Bytes
\* that come between the last look at the FIFO and the acknowledgement are
\* excepted: see QuitEnds.
Served ==
    /\ rxRaised /\ rxEnabled /\ isr # "acknowledge" ~> fifo = <<>>
    /\ Contents # <<>> ~> Contents = <<>> \/ pc = "end"

\* "type freely, 'q' ends" (line 169): once a 'q' is in the UART with its
\* interrupt enabled and pending, main ends, unless the ring was full.
QuitEnds ==
    rxRaised /\ rxEnabled /\ (\E k \in 1 .. Len(fifo) : fifo[k] = Quit)
        ~> pc = "end" \/ rx_dropped > 0
=============================================================================
