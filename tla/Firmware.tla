------------------------------- MODULE Firmware -------------------------------
(***************************************************************************)
(* The firmware that keeps time: the FreeRTOS program of week 54 (Rtos),    *)
(* the superloop it replaces (Superloop), the polled line protocol of week  *)
(* 55 (Protocol), and the polled echo of week 50 (Uart).  They are          *)
(* different images: a behaviour is one of the one that which names, and    *)
(* the others stay as they began.                                           *)
(***************************************************************************)
EXTENDS Rtos

CONSTANTS
    LOG_COST_TICKS, Duration,
    PROTO_MAX_LINE, TIMEOUT_TICKS, TickWidth, FifoSize, PollTicks, IdleTicks, MaxLines,
    TxSize, RxSize, MaxTyped

ASSUME LoopAssumption == {LOG_COST_TICKS, Duration} \subseteq Nat
\* protocol_poll is called often enough for the difference of two ticks to tell
\* how long a line has been silent, wherever the counter wraps.
ASSUME ProtocolAssumption ==
    /\ PROTO_MAX_LINE \in Nat \ {0}
    /\ {TIMEOUT_TICKS, PollTicks, IdleTicks, FifoSize, MaxLines} \subseteq Nat
    /\ 2 ^ TickWidth \in Nat /\ TIMEOUT_TICKS + PollTicks + IdleTicks < 2 ^ TickWidth
ASSUME UartAssumption == {TxSize, RxSize, MaxTyped} \subseteq Nat

VARIABLES
    which,
    ltick, lcalm, ljob, lstage, lstart, llast, lworst, lruns, lgap,
    ptick, pfifo, pline, plast, phandled, plaststatus, pstatus, ppolling, pnow, pspent, page, pkept,
    uat, uwlen, ufen, uenabled, urx, utx, ushift, utodo, uline, utyped, utaken

loopVars == <<ltick, lcalm, ljob, lstage, lstart, llast, lworst, lruns, lgap>>
protocolVars == <<ptick, pfifo, pline, plast, phandled, plaststatus, pstatus, ppolling, pnow, pspent, page, pkept>>
uartVars == <<uat, uwlen, ufen, uenabled, urx, utx, ushift, utodo, uline, utyped, utaken>>
allVars == <<which, vars, loopVars, protocolVars, uartVars>>

Loop == INSTANCE Superloop WITH
    tick_count <- ltick, calm <- lcalm, job <- ljob, stage <- lstage, start <- lstart,
    last_sensor_tick <- llast, sensor_worst_gap <- lworst, sensor_runs <- lruns, gap <- lgap
Proto == INSTANCE Protocol WITH
    tick <- ptick, fifo <- pfifo, line <- pline, last_byte_tick <- plast,
    lines_handled <- phandled, last_status <- plaststatus, status <- pstatus, polling <- ppolling, now <- pnow,
    spent <- pspent, age <- page, kept <- pkept
Serial == INSTANCE Uart WITH
    at <- uat, wlen <- uwlen, fen <- ufen, enabled <- uenabled, rx <- urx, tx <- utx,
    shift <- ushift, todo <- utodo, line <- uline, typed <- utyped, taken <- utaken

InitAll ==
    /\ which \in {"rtos", "loop", "protocol", "uart"}
    /\ Init /\ Loop!Init /\ Proto!Init /\ Serial!Init
    /\ which # "protocol" => ptick = 0
    /\ which # "uart" => uwlen = 8 /\ ufen /\ uenabled

NextAll ==
    \/ which = "rtos" /\ Next /\ UNCHANGED <<which, loopVars, protocolVars, uartVars>>
    \/ which = "loop" /\ Loop!Next /\ UNCHANGED <<which, vars, protocolVars, uartVars>>
    \/ which = "protocol" /\ Proto!Next /\ UNCHANGED <<which, vars, loopVars, uartVars>>
    \/ which = "uart" /\ Serial!Next /\ UNCHANGED <<which, vars, loopVars, protocolVars>>

SpecAll == InitAll /\ [][NextAll]_allVars

-----------------------------------------------------------------------------
\* rtos.c and superloop.c: the sensor's gap is its period with the kernel, and
\* without one the sum of what the loop calls; see GapBounded in Rtos and
\* GapIsSum in Superloop.
GapsBounded == GapBounded /\ Loop!GapIsSum

\* protocol.c: a line is given up exactly when it has gone silent; see
\* TimeoutIsSilence in Protocol.  uart.c: nothing said is lost; see
\* EchoIsComplete in Uart.
SerialLineIsRight == Proto!TimeoutIsSilence /\ Serial!EchoIsComplete
=============================================================================
