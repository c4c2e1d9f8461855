--------------------------------- MODULE Uart ---------------------------------
(***************************************************************************)
(* The polled driver of week 50 (uart.c) and the program that echoes what   *)
(* is typed (main.c), with the UART between them and the line: a receive    *)
(* FIFO, which loses a byte that finds it full, a transmit FIFO, which      *)
(* loses a byte written when it is full, and a shift register.  The         *)
(* hardware moves between any two accesses of the program.                  *)
(***************************************************************************)
EXTENDS Naturals, SequencesExt

CONSTANTS
    TxSize, RxSize,    \* 16: the FIFOs
    MaxTyped           \* bound: the bytes typed

VARIABLES
    at,                \* where main is
    wlen, fen,         \* LCRH's word length and FIFO enable
    enabled,           \* CTL
    rx, tx, shift,     \* the FIFOs and the shift register
    todo,              \* what uart_puts and uart_putc still have to write
    line,              \* what was sent
    typed, taken       \* history: received, and given by uart_getc

program == <<at, wlen, fen, enabled>>
vars == <<program, rx, tx, shift, todo, line, typed, taken>>

Keys == {"a", "LF", "q"}

\* uart_puts: a CR before each LF.
uart_puts(s) == FlattenSeq([k \in DOMAIN s |-> IF s[k] = "LF" THEN <<"CR", "LF">> ELSE <<s[k]>>])
Banner == uart_puts(<<"LF", "characters are echoed", "LF">>)
\* uart_putc writes the character itself.
Reply(c) ==
    IF c = "q" THEN uart_puts(<<"LF", "bye", "LF">>)
    ELSE uart_puts(<<"got '">>) \o <<c>> \o uart_puts(<<"' = ", "LF">>)

\* After reset, or with what ran before.
Init ==
    /\ at = "disable" /\ wlen \in {5, 8} /\ fen \in BOOLEAN /\ enabled \in BOOLEAN
    /\ rx = <<>> /\ tx = <<>> /\ shift = <<>> /\ todo = <<>> /\ line = <<>>
    /\ typed = <<>> /\ taken = <<>>

-----------------------------------------------------------------------------
\* The hardware.

Type(c) ==
    /\ Len(typed) < MaxTyped
    /\ IF enabled /\ Len(rx) < RxSize
       THEN rx' = Append(rx, c) /\ typed' = Append(typed, c)
       ELSE UNCHANGED <<rx, typed>>
    /\ UNCHANGED <<program, tx, shift, todo, line, taken>>

Shift ==
    /\ enabled /\ tx # <<>> /\ shift = <<>>
    /\ shift' = <<Head(tx)>> /\ tx' = Tail(tx)
    /\ UNCHANGED <<program, rx, todo, line, typed, taken>>

Sent ==
    /\ shift # <<>>
    /\ line' = line \o shift /\ shift' = <<>>
    /\ UNCHANGED <<program, rx, tx, todo, typed, taken>>

-----------------------------------------------------------------------------
\* The program.

Disable ==
    /\ at = "disable"
    /\ at' = "configure" /\ enabled' = FALSE
    /\ UNCHANGED <<wlen, fen, rx, tx, shift, todo, line, typed, taken>>

Configure ==
    /\ at = "configure"
    /\ at' = "enable" /\ wlen' = 8 /\ fen' = TRUE
    /\ UNCHANGED <<enabled, rx, tx, shift, todo, line, typed, taken>>

\* What came while an earlier program had the UART enabled is still there.
Enable ==
    /\ at = "enable"
    /\ at' = "poll" /\ enabled' = TRUE /\ todo' = Banner
    /\ UNCHANGED <<wlen, fen, rx, tx, shift, line, typed, taken>>

Full == Len(tx) >= TxSize                                        \* FR_TXFF
Busy == tx # <<>> \/ shift # <<>>                                \* FR_BUSY

\* uart_putc: it polls while the FIFO is full, when a write to DR loses the byte.
Put ==
    /\ todo # <<>> /\ ~ Full
    /\ tx' = IF Len(tx) < TxSize THEN Append(tx, Head(todo)) ELSE tx
    /\ todo' = Tail(todo)
    /\ UNCHANGED <<program, rx, shift, line, typed, taken>>

\* uart_getc gives a byte, and main replies to it.
Get ==
    /\ at = "poll" /\ todo = <<>> /\ rx # <<>>
    /\ rx' = Tail(rx) /\ taken' = Append(taken, Head(rx))
    /\ todo' = Reply(Head(rx))
    /\ at' = IF Head(rx) = "q" THEN "flush" ELSE "poll"
    /\ UNCHANGED <<wlen, fen, enabled, tx, shift, line, typed>>

Flush ==
    /\ at = "flush" /\ todo = <<>> /\ ~ Busy
    /\ at' = "stopped"
    /\ UNCHANGED <<wlen, fen, enabled, rx, tx, shift, todo, line, typed, taken>>

Next ==
    \/ \E c \in Keys : Type(c)
    \/ Shift \/ Sent
    \/ Disable \/ Configure \/ Enable \/ Put \/ Get \/ Flush

-----------------------------------------------------------------------------
\* What is written to the UART: a word counts as one character.
Chars == Keys \cup {"CR", "characters are echoed", "got '", "' = ", "bye"}

TypeOK ==
    /\ at \in {"disable", "configure", "enable", "poll", "flush", "stopped"}
    /\ wlen \in Nat /\ fen \in BOOLEAN /\ enabled \in BOOLEAN
    /\ {rx, typed, taken} \subseteq Seq(Keys)
    /\ {tx, shift, todo, line} \subseteq Seq(Chars)

\* main says nothing and takes nothing before it has set the registers, takes
\* nothing after the q, and has nothing left to say when it stops.
MainInv ==
    /\ at \in {"disable", "configure", "enable"} =>
         \A s \in {tx, shift, todo, line, taken} : s = <<>>
    /\ at \in {"flush", "stopped"} => taken # <<>> /\ Last(taken) = "q"
    /\ at = "enable" => fen /\ wlen = 8

\* However fast the line and the typist are, what main has to say is sent once
\* and in order, each byte that entered the receive FIFO is answered in its turn
\* until the q, nothing is sent or received with the registers half set, and main
\* stops only when its last word has left the shift register.
EchoIsComplete ==
    /\ taken \o rx = typed
    /\ line \o shift \o tx \o todo =
         (IF at \in {"disable", "configure", "enable"} THEN <<>>
          ELSE Banner \o FlattenSeq([k \in DOMAIN taken |-> Reply(taken[k])]))
    /\ at \in {"poll", "flush", "stopped"} => enabled /\ fen /\ wlen = 8
    /\ at \in {"flush", "stopped"} <=> "q" \in ToSet(taken)
    /\ at = "stopped" => ~ Busy /\ todo = <<>> /\ Last(line) = "LF"

\* The inductive invariant.
IInv == TypeOK /\ MainInv /\ EchoIsComplete
=============================================================================
