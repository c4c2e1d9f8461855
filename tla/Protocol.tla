------------------------------- MODULE Protocol -------------------------------
(***************************************************************************)
(* protocol_poll of week 55 (protocol.c), called again and again, over a    *)
(* UART whose receive FIFO it empties.                                      *)
(*                                                                          *)
(* A step is a read of the ticks or of a byte with what follows it; bytes   *)
(* arrive and ticks pass between any two, and within a poll too: replying   *)
(* waits for the transmit FIFO.  ticks() counts up and wraps.               *)
(***************************************************************************)
EXTENDS Integers, SequencesExt

CONSTANTS
    PROTO_MAX_LINE,    \* 64
    TIMEOUT_TICKS,     \* 1000
    TickWidth,         \* 32
    FifoSize,          \* 16, the receive FIFO
    PollTicks,         \* bound: how long a poll lasts
    IdleTicks,         \* bound: how long it is until the next one
    MaxLines           \* bound: lines_handled

Wrap == 2 ^ TickWidth
Old == TIMEOUT_TICKS + PollTicks + IdleTicks + 1       \* ages stop here

VARIABLES
    tick, fifo,
    line, last_byte_tick, lines_handled, last_status,  \* the Protocol
    polling, now,                                      \* the poll under way
    status,            \* what the last poll returned
    spent,             \* ticks since the last poll began or ended
    age, kept          \* history: since the last byte arrived, and was taken

proto == <<line, last_byte_tick, lines_handled, last_status>>
vars == <<tick, fifo, proto, polling, now, status, spent, age, kept>>

Init ==
    /\ tick \in {0, Wrap - 1} /\ fifo = <<>>
    /\ line = <<>> /\ last_byte_tick = 0 /\ lines_handled = 0
    /\ last_status = "OK" /\ status = "OK"
    /\ polling = FALSE /\ now = 0 /\ spent = 0 /\ age = 0 /\ kept = 0

-----------------------------------------------------------------------------
\* A definition whose name starts with "Bug" is a mistake the definition after
\* it could have had; no action uses it.

Older(n) == Min({n + 1, Old})

TickPasses ==
    /\ spent < (IF polling THEN PollTicks ELSE IdleTicks)
    /\ tick' = (tick + 1) % Wrap
    /\ spent' = spent + 1
    /\ fifo' = [k \in DOMAIN fifo |-> [fifo[k] EXCEPT !.age = Older(@)]]
    /\ age' = Older(age) /\ kept' = Older(kept)
    /\ UNCHANGED <<proto, polling, now, status>>

Arrive(b) ==
    /\ Len(fifo) < FifoSize
    /\ fifo' = Append(fifo, [byte |-> b, age |-> 0])
    /\ UNCHANGED <<tick, proto, polling, now, status, spent, age, kept>>

Poll ==
    /\ ~ polling
    /\ polling' = TRUE /\ now' = tick /\ spent' = 0
    /\ UNCHANGED <<tick, fifo, proto, status, age, kept>>

\* uart_read gives a byte: what every case has in common.
Read ==
    /\ polling /\ fifo # <<>>
    /\ fifo' = Tail(fifo) /\ age' = Head(fifo).age /\ kept' = 0
    /\ last_byte_tick' = now
    /\ UNCHANGED <<tick, now>>

\* last_status keeps an error when the next poll is without one.
Ended(s) ==
    /\ polling' = FALSE /\ spent' = 0 /\ status' = s
    /\ last_status' = IF s = "OK" THEN last_status ELSE s

ReadNewline ==
    /\ Read /\ Head(fifo).byte = "newline" /\ lines_handled < MaxLines
    /\ lines_handled' = lines_handled + 1
    /\ line' = <<>>
    /\ UNCHANGED <<last_status, status, polling, spent>>

Full == Len(line) >= PROTO_MAX_LINE - 1              \* "the bound that matters"

ReadByte ==
    /\ Read /\ Head(fifo).byte # "newline" /\ ~ Full
    /\ line' = Append(line, Head(fifo).byte)
    /\ UNCHANGED <<lines_handled, last_status, status, polling, spent>>

\* The byte is dropped, and the rest of its line becomes a line.
Overflow ==
    /\ Read /\ Head(fifo).byte # "newline" /\ Full
    /\ line' = <<>> /\ Ended("OVERFLOW")
    /\ UNCHANGED lines_handled

BugSilent == now > (last_byte_tick + TIMEOUT_TICKS) % Wrap
Silent == (now + Wrap - last_byte_tick) % Wrap > TIMEOUT_TICKS

Timeout ==
    /\ polling /\ fifo = <<>> /\ line # <<>> /\ Silent
    /\ line' = <<>> /\ Ended("TIMEOUT")
    /\ UNCHANGED <<tick, fifo, last_byte_tick, lines_handled, now, age, kept>>

Return ==
    /\ polling /\ fifo = <<>> /\ ~ (line # <<>> /\ Silent)
    /\ Ended("OK")
    /\ UNCHANGED <<tick, fifo, line, last_byte_tick, lines_handled, now, age, kept>>

Next ==
    \/ TickPasses \/ \E b \in {"a", "newline"} : Arrive(b)
    \/ Poll \/ ReadNewline \/ ReadByte \/ Overflow \/ Timeout \/ Return

-----------------------------------------------------------------------------
TypeOK ==
    /\ tick \in 0 .. Wrap - 1 /\ now \in 0 .. Wrap - 1 /\ last_byte_tick \in 0 .. Wrap - 1
    /\ fifo \in Seq([byte : {"a", "newline"}, age : 0 .. Old]) /\ Len(fifo) <= FifoSize
    /\ line \in Seq({"a"}) /\ lines_handled \in 0 .. MaxLines
    /\ {last_status, status} \subseteq {"OK", "OVERFLOW", "TIMEOUT"}
    /\ polling \in BOOLEAN
    /\ spent \in 0 .. (IF polling THEN PollTicks ELSE IdleTicks)
    /\ age \in 0 .. Old /\ kept \in 0 .. Old

\* The ticks from the poll that took the last byte: to the beginning of this poll,
\* and to now.  The counter may wrap in between, once.
Since(t) == (t + Wrap - last_byte_tick) % Wrap
Elapsed == IF polling THEN Since(now) + spent ELSE Since(tick)

\* While there is a line, its last byte came after the poll that took it began,
\* and before it was taken; and no poll leaves a line for which it was silent.
SilenceInv ==
    /\ polling => tick = (now + spent) % Wrap
    /\ line # <<>> =>
         /\ age + PollTicks >= Elapsed /\ kept <= Elapsed
         /\ polling => Since(now) <= TIMEOUT_TICKS + PollTicks + IdleTicks
         /\ ~ polling => Since(tick) <= TIMEOUT_TICKS + PollTicks + spent

\* The line and the NUL after it fit; a line is given up only after a silence of
\* the timeout, less the poll in which its last byte came (the tick was read
\* before the bytes); and a poll leaves no line that has been silent for longer
\* than the timeout and the poll, wherever the tick counter wraps; the last
\* error stays on record.
TimeoutIsSilence ==
    /\ Len(line) < PROTO_MAX_LINE
    /\ status \in {"OK", last_status}
    /\ ~ polling /\ status = "TIMEOUT" /\ spent = 0 => age > TIMEOUT_TICKS - PollTicks
    /\ ~ polling /\ status = "OK" /\ spent = 0 /\ line # <<>> =>
         kept <= TIMEOUT_TICKS + PollTicks

\* The inductive invariant.
IInv == TypeOK /\ SilenceInv /\ TimeoutIsSilence
=============================================================================
