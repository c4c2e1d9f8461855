------------------------------- MODULE Superloop -------------------------------
(***************************************************************************)
(* The superloop of week 54 (superloop.c): the jobs of Rtos run in turn,    *)
(* without a kernel.  Time is as in Rtos: busy_wait lasts ticks, the rest   *)
(* of the code far less than one, though a tick may fall there.             *)
(***************************************************************************)
EXTENDS Integers, Sequences

CONSTANTS
    LOG_COST_TICKS,    \* 50
    Duration           \* 2000

Costs == <<2, 1, LOG_COST_TICKS, 1>>       \* read_sensors ... handle_ui
Round == 4 + LOG_COST_TICKS

VARIABLES
    tick_count, calm,  \* as tick and calm of Rtos
    job, stage,        \* which of the four, and how far it is
    start,             \* busy_wait's
    last_sensor_tick, sensor_worst_gap, sensor_runs,
    gap                \* history: the last gap

statics == <<last_sensor_tick, sensor_worst_gap, sensor_runs, gap>>
vars == <<tick_count, calm, job, stage, start, statics>>

Init ==
    /\ tick_count = 0 /\ calm = FALSE
    /\ job = 1 /\ stage = "call" /\ start = 0
    /\ last_sensor_tick = 0 /\ sensor_worst_gap = 0 /\ sensor_runs = 0 /\ gap = 0

-----------------------------------------------------------------------------
Busy == stage = "busy" /\ tick_count - start < Costs[job]

\* systick_handler of tick.c, between any two steps.
TickElapses ==
    /\ calm \/ Busy
    /\ tick_count' = tick_count + 1
    /\ calm' = Busy
    /\ UNCHANGED <<job, stage, start, statics>>

\* The loop looks at the time only before the first job.
StartJob ==
    /\ stage = "call" /\ (job = 1 => tick_count < Duration)
    /\ stage' = "wait"
    /\ IF job = 1
       THEN /\ gap' = tick_count - last_sensor_tick
            /\ sensor_worst_gap' = IF gap' > sensor_worst_gap THEN gap' ELSE sensor_worst_gap
            /\ last_sensor_tick' = tick_count
            /\ sensor_runs' = sensor_runs + 1
       ELSE UNCHANGED statics
    /\ UNCHANGED <<tick_count, calm, job, start>>

BusyWait ==
    /\ stage = "wait"
    /\ start' = tick_count /\ stage' = "busy"
    /\ UNCHANGED <<tick_count, calm, job, statics>>

EndJob ==
    /\ stage = "busy" /\ ~ Busy
    /\ job' = (job % Len(Costs)) + 1 /\ stage' = "call"
    /\ UNCHANGED <<tick_count, calm, start, statics>>

Next == TickElapses \/ StartJob \/ BusyWait \/ EndJob

-----------------------------------------------------------------------------
TypeOK ==
    /\ tick_count \in Nat /\ calm \in BOOLEAN
    /\ job \in 1 .. 4 /\ stage \in {"call", "wait", "busy"}
    /\ {start, last_sensor_tick, sensor_worst_gap, sensor_runs, gap} \subseteq Nat

\* What the jobs before this one cost, since the last sensor read.
Before ==
    CASE job = 1 /\ (stage # "call" \/ sensor_runs = 0) -> 0
      [] job = 2 -> Costs[1]
      [] job = 3 -> Costs[1] + Costs[2]
      [] job = 4 -> Costs[1] + Costs[2] + Costs[3]
      [] OTHER -> Round

\* The jobs begun since then, of which each may have cost one tick more.
Begun == IF job = 1 /\ stage = "call" /\ sensor_runs > 0 THEN 5
         ELSE IF sensor_runs = 0 THEN 0 ELSE job

\* The tick that may still fall between two steps.
Spare == IF calm THEN 1 ELSE 0

\* Where the time since the last sensor read went: each job before this one took
\* what it costs, and at most a tick more; this one is in its wait, or before it.
TimeInv ==
    /\ stage # "busy" =>
         /\ Before <= tick_count - last_sensor_tick
         /\ tick_count + Spare - last_sensor_tick <= Before + Begun
    /\ stage = "busy" =>
         /\ Before <= start - last_sensor_tick
         /\ start - last_sensor_tick <= Before + Begun
         /\ start <= tick_count /\ tick_count + Spare - start <= Costs[job] + 1
    /\ sensor_runs = 0 => job = 1 /\ stage = "call" /\ tick_count = 0 /\ last_sensor_tick = 0

\* "the log's 50 ticks are in front of every sensor read": from the second on,
\* each gap is the sum of the four costs, with one tick more for each job at most
\* and one that was left over from the job before: no wait is longer than it says.
GapIsSum ==
    /\ sensor_runs > 1 => gap \in Round .. Round + Len(Costs) + 1
    /\ sensor_worst_gap <= Round + Len(Costs) + 1

\* The inductive invariant.
IInv == TypeOK /\ TimeInv /\ GapIsSum
=============================================================================
