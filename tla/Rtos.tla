--------------------------------- MODULE Rtos ---------------------------------
(***************************************************************************)
(* The FreeRTOS program of week 54 (rtos.c): a periodic sensor task, a      *)
(* control task and a log task connected by two queues, a report task, and  *)
(* one mutex for the statistics.                                            *)
(*                                                                          *)
(* The kernel is external: of the tasks that can run, one of the highest    *)
(* priority does, preempting whatever ran; and the task that holds a mutex  *)
(* has at least the priority of the tasks that wait for it.                 *)
(*                                                                          *)
(* Time is what the code takes it for: busy_wait, printing and idling last  *)
(* ticks, and the rest of the code takes far less than a tick.  A tick can  *)
(* still fall between any two steps of it (TickElapses), but after such a   *)
(* tick the next one finds a task that waits in a loop, or no task at all.  *)
(*                                                                          *)
(* tick_count starts at 0 when the scheduler starts.  Wrapping is left out. *)
(***************************************************************************)
EXTENDS Integers, Sequences, FiniteSets

CONSTANTS
    Period,            \* pdMS_TO_TICKS(10)
    SensorTicks, ControlTicks, LogTicks,   \* the busy_waits: 2, 1 and 50
    TakeTimeout,       \* pdMS_TO_TICKS(5)
    ReportAt,          \* pdMS_TO_TICKS(2000)
    PrintTicks,        \* bound: how long printing may take
    QueueLength,       \* 8
    MaxTicks           \* bound: the length of a behaviour

Tasks == {"sensor", "control", "log", "report"}
Nobody == "nobody"

\* How long the sensor and the control task may be at a period's work: what they
\* wait for, a tick more with each wait, and a tick before the first.
Work == SensorTicks + ControlTicks + 3

ASSUME TimeAssumption ==
    /\ {Period, SensorTicks, ControlTicks, LogTicks, TakeTimeout, ReportAt,
        PrintTicks, QueueLength, MaxTicks} \subseteq Nat \ {0}
    /\ Work < Period /\ TakeTimeout > 1

VARIABLES
    tick,
    calm,              \* the last tick fell where time was being spent
    pc, start,         \* per task: where it is, and the start of its wait
    holder,            \* who holds stats_mutex
    readings, log_queue,
    last_wake, now,    \* the sensor task's locals
    control_r,         \* the reading control_task works on
    sensor_runs, control_runs, log_runs, sensor_worst_gap, last_sensor_tick,
    lost, timeouts     \* history: readings dropped, and takes timed out

time == <<tick, calm>>
stats == <<sensor_runs, control_runs, log_runs, sensor_worst_gap,
           last_sensor_tick>>
sensorLocals == <<last_wake, now>>
queues == <<readings, log_queue, control_r, lost>>
vars == <<tick, calm, pc, start, holder, readings, log_queue, last_wake, now,
          control_r, sensor_runs, control_runs, log_runs, sensor_worst_gap,
          last_sensor_tick, lost, timeouts>>

Init ==
    /\ tick = 0 /\ calm = FALSE
    /\ pc = [t \in Tasks |-> CASE t = "sensor" -> "first"
                               [] t = "report" -> "delay"
                               [] OTHER -> "receive"]
    /\ start = [t \in Tasks |-> 0]
    /\ holder = Nobody
    /\ readings = <<>> /\ log_queue = <<>>
    /\ last_wake = 0 /\ now = 0 /\ control_r = 0
    /\ sensor_runs = 0 /\ control_runs = 0 /\ log_runs = 0
    /\ sensor_worst_gap = 0 /\ last_sensor_tick = 0
    /\ lost = 0 /\ timeouts = 0

-----------------------------------------------------------------------------
\* The kernel.  A definition whose name starts with "Bug" is a mistake the
\* definition after it could have had; no action uses it.

Priority == [sensor |-> 4, control |-> 3, report |-> 2, log |-> 1]

BugMutexWaiters == {}                          \* a semaphore, not a mutex
MutexWaiters == {t \in Tasks \ {holder} : pc[t] = "take" /\ holder # Nobody}

Current(t) ==
    LET heard == IF t = holder THEN MutexWaiters \cup {t} ELSE {t}
    IN  CHOOSE p \in {Priority[u] : u \in heard} :
            \A u \in heard : Priority[u] <= p

\* When vTaskDelayUntil lets the sensor go on: an exact period.
BugNextWake == tick + Period                   \* vTaskDelay: it drifts
NextWake == last_wake + Period

TimedOut(t) == t = "sensor" /\ tick - start[t] >= TakeTimeout

Blocked(t) ==
    \/ pc[t] = "delay" /\ t = "sensor" /\ tick < last_wake
    \/ pc[t] = "delay" /\ t = "report" /\ tick < ReportAt
    \/ pc[t] = "take" /\ holder # Nobody /\ ~ TimedOut(t)
    \/ pc[t] = "receive" /\ (IF t = "control" THEN readings ELSE log_queue) = <<>>
    \/ pc[t] = "suspended"

Runs(t) ==
    /\ ~ Blocked(t)
    /\ \A u \in Tasks : Blocked(u) \/ Current(u) <= Current(t)

Cost == [sensor |-> SensorTicks, control |-> ControlTicks, log |-> LogTicks]

\* Nothing but the passing of time is going on.
Waiting ==
    \A t \in Tasks : Runs(t) =>
        \/ pc[t] = "busy" /\ tick - start[t] < Cost[t]
        \/ pc[t] = "print" /\ tick - start[t] < PrintTicks

TickElapses ==
    /\ tick < MaxTicks
    /\ Waiting \/ calm
    /\ tick' = tick + 1
    /\ calm' = Waiting
    /\ UNCHANGED <<pc, start, holder, queues, sensorLocals, stats, timeouts>>

-----------------------------------------------------------------------------
\* What the tasks have in common.

Goto(t, label) == pc' = [pc EXCEPT ![t] = label]
At(t, label) == pc[t] = label /\ Runs(t)

\* Entering a take or a busy_wait notes the time.
StartAt(t, label) == Goto(t, label) /\ start' = [start EXCEPT ![t] = tick]

BusyOver(t) == At(t, "busy") /\ tick - start[t] >= Cost[t]

Take(t) ==
    /\ At(t, "take") /\ holder = Nobody
    /\ holder' = t
    /\ Goto(t, "count")
    /\ UNCHANGED <<time, start, queues, sensorLocals, stats, timeouts>>

\* xQueueSend(queue, &r, 0): a full queue drops the reading.
Sent(queue, r) == IF Len(queue) < QueueLength THEN Append(queue, r) ELSE queue

-----------------------------------------------------------------------------
\* sensor_task

SensorFirst ==
    /\ At("sensor", "first")
    /\ last_wake' = tick
    /\ Goto("sensor", "now")
    /\ UNCHANGED <<time, start, holder, queues, now, stats, timeouts>>

SensorNow ==
    /\ At("sensor", "now")
    /\ now' = tick
    /\ StartAt("sensor", "take")
    /\ UNCHANGED <<time, holder, queues, last_wake, stats, timeouts>>

SensorCount ==
    LET gap == now - last_sensor_tick IN
    /\ At("sensor", "count")
    /\ sensor_worst_gap' = IF last_sensor_tick # 0 /\ gap > sensor_worst_gap
                           THEN gap ELSE sensor_worst_gap
    /\ sensor_runs' = sensor_runs + 1
    /\ holder' = Nobody
    /\ Goto("sensor", "send")
    /\ UNCHANGED <<time, start, queues, sensorLocals, control_runs, log_runs,
                   last_sensor_tick, timeouts>>

\* After counting, or after a take that timed out.
SensorSend ==
    /\ Runs("sensor")
    /\ pc["sensor"] = "send" \/ (pc["sensor"] = "take" /\ holder # Nobody)
    /\ timeouts' = IF pc["sensor"] = "take" THEN timeouts + 1 ELSE timeouts
    /\ last_sensor_tick' = now
    /\ readings' = Sent(readings, now)
    /\ lost' = IF Len(readings) < QueueLength THEN lost ELSE lost + 1
    /\ StartAt("sensor", "busy")
    /\ UNCHANGED <<time, holder, log_queue, control_r, sensorLocals,
                   sensor_runs, control_runs, log_runs, sensor_worst_gap>>

SensorDelay ==
    /\ BusyOver("sensor")
    /\ last_wake' = NextWake
    /\ Goto("sensor", "delay")
    /\ UNCHANGED <<time, start, holder, queues, now, stats, timeouts>>

SensorWake ==
    /\ At("sensor", "delay")
    /\ Goto("sensor", "now")
    /\ UNCHANGED <<time, start, holder, queues, sensorLocals, stats, timeouts>>

-----------------------------------------------------------------------------
\* control_task

ControlReceive ==
    /\ At("control", "receive")
    /\ control_r' = Head(readings)
    /\ readings' = Tail(readings)
    /\ StartAt("control", "take")
    /\ UNCHANGED <<time, holder, log_queue, lost, sensorLocals, stats, timeouts>>

ControlCount ==
    /\ At("control", "count")
    /\ control_runs' = control_runs + 1
    /\ holder' = Nobody
    /\ StartAt("control", "busy")
    /\ UNCHANGED <<time, queues, sensorLocals, sensor_runs, log_runs,
                   sensor_worst_gap, last_sensor_tick, timeouts>>

ControlSend ==
    /\ BusyOver("control")
    /\ log_queue' = Sent(log_queue, control_r)
    /\ Goto("control", "receive")
    /\ UNCHANGED <<time, start, holder, readings, control_r, lost,
                   sensorLocals, stats, timeouts>>

-----------------------------------------------------------------------------
\* log_task: it uses nothing of what it receives.

LogReceive ==
    /\ At("log", "receive")
    /\ log_queue' = Tail(log_queue)
    /\ StartAt("log", "take")
    /\ UNCHANGED <<time, holder, readings, control_r, lost, sensorLocals, stats,
                   timeouts>>

LogCount ==
    /\ At("log", "count")
    /\ log_runs' = log_runs + 1
    /\ holder' = Nobody
    /\ StartAt("log", "busy")
    /\ UNCHANGED <<time, queues, sensorLocals, sensor_runs, control_runs,
                   sensor_worst_gap, last_sensor_tick, timeouts>>

LogDone ==
    /\ BusyOver("log")
    /\ Goto("log", "receive")
    /\ UNCHANGED <<time, start, holder, queues, sensorLocals, stats, timeouts>>

-----------------------------------------------------------------------------
\* report_task: it prints the statistics without the mutex and is suspended.

ReportPrint ==
    /\ At("report", "delay")
    /\ StartAt("report", "print")
    /\ UNCHANGED <<time, holder, queues, sensorLocals, stats, timeouts>>

BugAfterReport == "delay"                      \* as a loop, like the others
AfterReport == "suspended"

ReportDone ==
    /\ At("report", "print")
    /\ Goto("report", AfterReport)
    /\ UNCHANGED <<time, start, holder, queues, sensorLocals, stats, timeouts>>

\* The behaviours considered end at MaxTicks.
Horizon == tick = MaxTicks /\ UNCHANGED vars

Sensor ==
    \/ SensorFirst \/ SensorNow \/ SensorCount
    \/ SensorSend \/ SensorDelay \/ SensorWake
Control == ControlReceive \/ ControlCount \/ ControlSend
Log == LogReceive \/ LogCount \/ LogDone
Report == ReportPrint \/ ReportDone

Next ==
    \/ TickElapses
    \/ \E t \in Tasks \ {"report"} : Take(t)
    \/ Sensor \/ Control \/ Log \/ Report
    \/ Horizon

Spec == Init /\ [][Next]_vars

-----------------------------------------------------------------------------
TypeOK ==
    /\ tick \in 0 .. MaxTicks /\ calm \in BOOLEAN
    /\ pc \in [Tasks -> {"first", "now", "take", "count", "send", "busy",
                         "delay", "receive", "print", "suspended"}]
    /\ start \in [Tasks -> 0 .. MaxTicks]
    /\ holder \in Tasks \cup {Nobody}
    /\ \A q \in {readings, log_queue} : q \in Seq(Nat) /\ Len(q) <= QueueLength
    /\ {last_wake, now, control_r, lost, timeouts, sensor_runs, control_runs,
        log_runs, sensor_worst_gap, last_sensor_tick} \subseteq Nat

\* "a hard 10 ms period": whatever the other tasks do, with one of them holding
\* the mutex or not, the sensor task has finished with a period before the next
\* one begins.
Deadline ==
    pc["sensor"] \notin {"first", "delay"} => tick < last_wake + Period

\* Priority inheritance keeps the take with its timeout of 5 ms from ever
\* failing, though the report task, between the sensor and the log task, prints
\* for longer than that: every run of the sensor is counted.
NoTimeout == timeouts = 0

\* "never block the sensor" costs nothing: the control task takes each reading
\* before the next one is sent, so no reading is dropped.
ReadingsKept == TypeOK /\ lost = 0 /\ Len(readings) <= 1

\* In every period the sensor task takes the mutex, counts its run and hands its
\* reading on, and it has finished before the next period begins.
EveryPeriodServed == Deadline /\ NoTimeout /\ ReadingsKept

\* "exact period": no period drifts, so no gap exceeds the period by more than
\* the one tick that may pass while the task wakes up.
GapBounded ==
    /\ sensor_worst_gap <= Period + 1
    /\ last_wake % Period = 0

\* "preempted constantly, and that is correct": the tasks above the log task hold
\* up the end of its wait by one report, and the work of the period before it and
\* of the period after.
LogNotStarved ==
    pc["log"] = "busy" => tick - start["log"] <= LogTicks + PrintTicks + 2 * Period

-----------------------------------------------------------------------------
\* A tick that may fall though nobody waits.
Spare == IF calm THEN 1 ELSE 0

\* The sensor task between two periods, and in one until it waits.
Asleep == pc["sensor"] = "delay" /\ tick < last_wake
Starting == pc["sensor"] # "busy" /\ ~ Asleep
\* When the period under way began.
Woken == IF Asleep THEN last_wake - Period ELSE last_wake

\* The control task has nothing to do.
Quiet == pc["control"] = "receive" /\ readings = <<>>

PlaceInv ==
    /\ pc["sensor"] \in {"first", "now", "take", "count", "send", "busy", "delay"}
    /\ \A t \in {"control", "log"} : pc[t] \in {"receive", "take", "count", "busy"}
    /\ pc["report"] \in {"delay", "print", "suspended"}
    /\ \A t \in Tasks : holder = t <=> pc[t] = "count"
    /\ Starting => Quiet
    /\ pc["sensor"] = "busy" => pc["control"] = "receive" /\ readings # <<>>
    /\ pc["control"] # "receive" => readings = <<>>

\* The sensor begins within a tick of the period, and the control task has done
\* its work before the period ends.
TimeInv ==
    /\ pc["sensor"] = "first" => tick = 0 /\ ~ calm
    /\ Woken <= tick /\ \A t \in Tasks : start[t] <= tick
    /\ Starting => tick + Spare <= last_wake + 1
    /\ pc["sensor"] = "take" => last_wake <= start["sensor"]
    /\ pc["sensor"] \in {"take", "count", "send"} =>
         last_wake <= now /\ now <= last_wake + 1
    /\ pc["sensor"] = "busy" =>
         /\ last_wake <= start["sensor"] /\ start["sensor"] <= last_wake + 1
         /\ tick + Spare <= start["sensor"] + SensorTicks + 1
    /\ Asleep /\ ~ Quiet =>
         IF pc["control"] = "busy"
         THEN /\ start["control"] <= Woken + SensorTicks + 2
              /\ tick + Spare <= start["control"] + ControlTicks + 1
         ELSE tick + Spare <= Woken + SensorTicks + 2
    /\ last_wake <= last_sensor_tick + (IF pc["sensor"] = "busy" THEN 0 ELSE Period)

\* When the log task's wait is over, and a print that began before it was.
Due ==
    LET own == start["log"] + LogTicks
        print == start["report"] + PrintTicks
    IN  IF pc["report"] = "delay" \/ print < own THEN own ELSE print

\* From then on ticks pass in one period's work only.
LogInv ==
    pc["log"] = "busy" =>
    /\ Due <= start["log"] + LogTicks + PrintTicks + Work + 1
    /\ tick > Due =>
         /\ Woken <= Due + 1
         /\ Asleep /\ Quiet => tick + Spare <= Due + 1 \/ tick + Spare <= Woken + Work

\* The inductive invariant: Deadline and LogNotStarved follow from it.
IInv == NoTimeout /\ ReadingsKept /\ GapBounded /\ PlaceInv /\ TimeInv /\ LogInv
=============================================================================
