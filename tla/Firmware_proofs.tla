--------------------------- MODULE Firmware_proofs ---------------------------
(***************************************************************************)
(* Proofs about the firmware that keeps time, for any periods, costs and    *)
(* sizes.  With the kernel of rtos.c, its priorities and its inheritance,   *)
(* every period is served in time and without a drift, and the tasks above  *)
(* the log task hold it up for a bounded time.  In the superloop the gap is *)
(* the sum of the jobs.  The polled line protocol gives up a line exactly   *)
(* when it went silent, wherever the counter wraps; and the polled echo     *)
(* says all it has to, in order.                                            *)
(***************************************************************************)
EXTENDS Firmware, SequenceTheorems, WellFoundedInduction, TLAPS

-----------------------------------------------------------------------------
\* rtos.c.  The kernel: who runs.

LEMMA ConstantsAre ==
    /\ Period \in Nat /\ SensorTicks \in Nat /\ ControlTicks \in Nat /\ LogTicks \in Nat
    /\ TakeTimeout \in Nat /\ ReportAt \in Nat /\ PrintTicks \in Nat
    /\ QueueLength \in Nat /\ MaxTicks \in Nat
    /\ Period > 0 /\ SensorTicks > 0 /\ ControlTicks > 0 /\ LogTicks > 0 /\ PrintTicks > 0
    /\ QueueLength > 0 /\ TakeTimeout > 1
    /\ Work = SensorTicks + ControlTicks + 3 /\ Work < Period
BY TimeAssumption DEF Work

\* The priority a task runs with is its own or that of a task that waits for it.
LEMMA CurrentIs ==
    ASSUME NEW t \in Tasks
    PROVE  /\ Priority[t] <= Current(t) /\ Current(t) \in 1 .. 4
           /\ t = holder => \A u \in MutexWaiters : Priority[u] <= Current(t)
           /\ \/ Current(t) = Priority[t]
              \/ t = holder /\ \E u \in MutexWaiters : Current(t) = Priority[u]
<1> DEFINE heard == IF t = holder THEN MutexWaiters \cup {t} ELSE {t}
           Top(p) == \A u \in heard : Priority[u] <= p
<1>1. /\ Priority["sensor"] = 4 /\ Priority["control"] = 3 /\ Priority["report"] = 2
      /\ Priority["log"] = 1
  BY DEF Priority
<1>2. heard \subseteq Tasks /\ t \in heard
  BY DEF MutexWaiters
<1>3. \A u \in Tasks : u = "sensor" \/ u = "control" \/ u = "log" \/ u = "report"
  BY DEF Tasks
<1>4. \E p \in {Priority[u] : u \in heard} : Top(p)
  <2> HIDE DEF heard
  <2>1. CASE "sensor" \in heard
    BY <1>1, <1>2, <1>3, <2>1
  <2>2. CASE "sensor" \notin heard /\ "control" \in heard
    BY <1>1, <1>2, <1>3, <2>2
  <2>3. CASE "sensor" \notin heard /\ "control" \notin heard /\ "report" \in heard
    BY <1>1, <1>2, <1>3, <2>3
  <2>4. CASE "sensor" \notin heard /\ "control" \notin heard /\ "report" \notin heard
    <3>1. heard = {"log"}
      BY <1>2, <1>3, <2>4
    <3> QED
      BY <1>1, <3>1
  <2> QED
    BY <2>1, <2>2, <2>3, <2>4
<1>5. Current(t) \in {Priority[u] : u \in heard} /\ Top(Current(t))
  <2>1. Current(t) = CHOOSE p \in {Priority[u] : u \in heard} : Top(p)
    BY DEF Current
  <2> HIDE DEF heard, Top
  <2> QED
    BY <1>4, <2>1
<1>6. PICK u \in heard : Current(t) = Priority[u]
  BY <1>5
<1>7. Current(t) \in 1 .. 4
  <2> HIDE DEF heard
  <2> QED
    BY <1>1, <1>2, <1>3, <1>6
<1> QED
  BY <1>2, <1>5, <1>6, <1>7

\* The sensor task waits for the next period, or for the mutex: a take that it has
\* waited for too long it has never.
LEMMA SensorBlocked ==
    IInv => (Blocked("sensor") <=> Asleep \/ (pc["sensor"] = "take" /\ holder # Nobody))
<1>1. SUFFICES ASSUME IInv
               PROVE  Blocked("sensor") <=>
                        Asleep \/ (pc["sensor"] = "take" /\ holder # Nobody)
  OBVIOUS
<1>2. PlaceInv /\ TimeInv /\ TypeOK
  BY <1>1 DEF IInv, ReadingsKept
<1>3. pc["sensor"] \notin {"receive", "suspended"}
  BY <1>2 DEF PlaceInv
<1>4. pc["sensor"] = "take" => ~ TimedOut("sensor")
  <2>1. SUFFICES ASSUME pc["sensor"] = "take" PROVE ~ TimedOut("sensor")
    OBVIOUS
  <2>2. Starting
    BY <2>1 DEF Starting, Asleep
  <2>3. tick + Spare <= last_wake + 1 /\ last_wake <= start["sensor"]
    BY <1>2, <2>1, <2>2 DEF TimeInv
  <2>4. tick \in Nat /\ last_wake \in Nat /\ start["sensor"] \in Nat /\ Spare \in Nat
    BY <1>2, ConstantsAre DEF TypeOK, Tasks, Spare
  <2>5. ~ (tick - start["sensor"] >= TakeTimeout)
    BY <2>3, <2>4, ConstantsAre
  <2> QED
    BY <2>5 DEF TimedOut
<1> QED
  BY <1>3, <1>4 DEF Blocked, Asleep

\* Another task runs only when the sensor task waits, and for what.
LEMMA OthersRun ==
    ASSUME NEW t \in Tasks \ {"sensor"}
    PROVE  IInv /\ Runs(t) => Asleep \/ (pc["sensor"] = "take" /\ holder = t)
<1>1. SUFFICES ASSUME IInv, Runs(t)
               PROVE  Asleep \/ (pc["sensor"] = "take" /\ holder = t)
  OBVIOUS
<1>2. CASE Blocked("sensor")
  <2>1. SUFFICES ASSUME pc["sensor"] = "take", holder # Nobody, holder # t PROVE FALSE
    BY <1>1, <1>2, SensorBlocked
  <2>2. PlaceInv /\ TypeOK
    BY <1>1 DEF IInv, ReadingsKept
  <2>3. holder \in Tasks /\ pc[holder] = "count"
    BY <2>1, <2>2 DEF PlaceInv, TypeOK
  <2>4. ~ Blocked(holder)
    BY <2>3 DEF Blocked
  <2>5. "sensor" \in MutexWaiters
    BY <2>1, <2>3 DEF MutexWaiters, Tasks
  <2>6. Priority["sensor"] <= Current(holder) /\ Current(holder) <= Current(t)
    BY <1>1, <2>3, <2>4, <2>5, CurrentIs DEF Runs
  <2>7. Current(t) = Priority[t]
    BY <2>1, CurrentIs
  <2>8. Priority["sensor"] = 4 /\ Priority[t] <= 3 /\ Priority[t] \in Nat
    BY DEF Priority, Tasks
  <2>9. Current(holder) \in 1 .. 4
    BY <2>3, CurrentIs
  <2> QED
    BY <2>6, <2>7, <2>8, <2>9
<1>3. CASE ~ Blocked("sensor")
  <2>1. "sensor" \in Tasks
    BY DEF Tasks
  <2>2. Current("sensor") <= Current(t)
    BY <1>1, <1>3, <2>1 DEF Runs
  <2>3. Priority["sensor"] <= Current("sensor") /\ Current("sensor") \in 1 .. 4
    BY <2>1, CurrentIs
  <2>4. /\ Priority["sensor"] = 4 /\ \A u \in Tasks \ {"sensor"} : Priority[u] \in 1 .. 3
    BY DEF Priority, Tasks
  <2>5. Current(t) = 4
    BY <2>2, <2>3, <2>4, CurrentIs
  <2>6. PICK u \in MutexWaiters : t = holder /\ Priority[u] = 4
    BY <2>4, <2>5, CurrentIs
  <2>7. u = "sensor"
    BY <2>4, <2>6 DEF MutexWaiters
  <2> QED
    BY <2>6, <2>7 DEF MutexWaiters
<1> QED
  BY <1>2, <1>3

\* An awake sensor task runs, or the task that has its mutex does.
LEMMA SensorRuns ==
    IInv /\ ~ Asleep =>
    \/ Runs("sensor")
    \/ pc["sensor"] = "take" /\ \E t \in Tasks : Runs(t) /\ pc[t] = "count"
<1>1. SUFFICES ASSUME IInv, ~ Asleep
               PROVE  \/ Runs("sensor")
                      \/ pc["sensor"] = "take" /\ \E t \in Tasks : Runs(t) /\ pc[t] = "count"
  OBVIOUS
<1>2. "sensor" \in Tasks /\ Priority["sensor"] = 4
  BY DEF Tasks, Priority
<1>3. CASE ~ Blocked("sensor")
  <2>1. Current("sensor") = 4
    BY <1>2, CurrentIs
  <2>2. \A u \in Tasks : Current(u) \in 1 .. 4
    BY CurrentIs
  <2>3. \A u \in Tasks : Current(u) <= Current("sensor")
    BY <2>1, <2>2
  <2> QED
    BY <1>3, <2>3 DEF Runs
<1>4. CASE Blocked("sensor")
  <2>1. pc["sensor"] = "take" /\ holder # Nobody
    BY <1>1, <1>4, SensorBlocked
  <2>2. PlaceInv /\ TypeOK
    BY <1>1 DEF IInv, ReadingsKept
  <2>3. holder \in Tasks /\ pc[holder] = "count"
    BY <2>1, <2>2 DEF PlaceInv, TypeOK
  <2>4. ~ Blocked(holder)
    BY <2>3 DEF Blocked
  <2>5. "sensor" \in MutexWaiters
    BY <2>1, <2>3 DEF MutexWaiters, Tasks
  <2>6. Current(holder) = 4
    BY <1>2, <2>3, <2>5, CurrentIs
  <2>7. \A u \in Tasks : Current(u) \in 1 .. 4
    BY CurrentIs
  <2>8. \A u \in Tasks : Current(u) <= Current(holder)
    BY <2>6, <2>7
  <2>9. Runs(holder)
    BY <2>4, <2>8 DEF Runs
  <2> QED
    BY <2>1, <2>3, <2>9
<1> QED
  BY <1>3, <1>4

\* While the sensor task begins with a period, nobody waits for time.
LEMMA StartingBusy == IInv /\ Starting => ~ Waiting
<1>1. SUFFICES ASSUME IInv, Starting, Waiting PROVE FALSE
  OBVIOUS
<1>2. PlaceInv
  BY <1>1 DEF IInv
<1>3. ~ Asleep /\ pc["sensor"] \notin {"busy", "print"}
  BY <1>1, <1>2 DEF Starting, PlaceInv
<1>4. \A t \in Tasks : Runs(t) => pc[t] \in {"busy", "print"}
  BY <1>1 DEF Waiting
<1>5. "sensor" \in Tasks
  BY DEF Tasks
<1> QED
  BY <1>1, <1>3, <1>4, <1>5, SensorRuns

LEMMA SensorWaits ==
    IInv /\ pc["sensor"] = "busy" /\ Waiting => tick - start["sensor"] < SensorTicks
<1>1. SUFFICES ASSUME IInv, pc["sensor"] = "busy", Waiting
               PROVE  tick - start["sensor"] < SensorTicks
  OBVIOUS
<1>2. Runs("sensor")
  BY <1>1, SensorRuns DEF Asleep
<1>3. Cost["sensor"] = SensorTicks /\ "sensor" \in Tasks
  BY DEF Cost, Tasks
<1> QED
  BY <1>1, <1>2, <1>3 DEF Waiting

\* While the sensor task sleeps no waiter lifts a priority above the control task's.
LEMMA AsleepCurrent ==
    IInv /\ Asleep =>
    /\ Blocked("sensor")
    /\ Current("control") = 3
    /\ \A t \in Tasks \ {"sensor"} : Current(t) <= 3
    /\ \A t \in {"log", "report"} :
         Current(t) = 3 => pc["control"] = "take" /\ holder = t
<1>1. SUFFICES ASSUME IInv, Asleep
               PROVE  /\ Blocked("sensor")
                      /\ Current("control") = 3
                      /\ \A t \in Tasks \ {"sensor"} : Current(t) <= 3
                      /\ \A t \in {"log", "report"} :
                           Current(t) = 3 => pc["control"] = "take" /\ holder = t
  OBVIOUS
<1>2. "sensor" \notin MutexWaiters
  BY <1>1 DEF Asleep, MutexWaiters
<1>3. /\ Priority["control"] = 3 /\ Priority["report"] = 2 /\ Priority["log"] = 1
      /\ Tasks = {"sensor", "control", "log", "report"}
  BY DEF Priority, Tasks
<1>4. \A u \in MutexWaiters : u \in {"control", "log", "report"} /\ pc[u] = "take"
  BY <1>2, <1>3 DEF MutexWaiters
<1>5. ASSUME NEW t \in Tasks \ {"sensor"}
      PROVE  /\ Current(t) <= 3 /\ Current(t) \in 1 .. 4
             /\ t # "control" /\ Current(t) = 3 => pc["control"] = "take" /\ holder = t
  <2>1. CASE Current(t) = Priority[t]
    <3>1. t = "control" \/ t = "log" \/ t = "report"
      BY <1>3
    <3> QED
      BY <1>3, <2>1, <3>1
  <2>2. CASE t = holder /\ \E u \in MutexWaiters : Current(t) = Priority[u]
    <3>1. PICK u \in MutexWaiters : Current(t) = Priority[u]
      BY <2>2
    <3>2. u = "control" \/ u = "log" \/ u = "report"
      BY <1>4, <3>1
    <3>3. pc[u] = "take"
      BY <1>4, <3>1
    <3> QED
      BY <1>3, <2>2, <3>1, <3>2, <3>3
  <2> QED
    BY <2>1, <2>2, CurrentIs
<1>6. Current("control") = 3
  <2>1. "control" \in Tasks \ {"sensor"}
    BY <1>3
  <2> QED
    BY <1>3, <1>5, <2>1, CurrentIs
<1> QED
  BY <1>1, <1>3, <1>5, <1>6, SensorBlocked

\* Then the control task runs if it has something to do, or the task that has its mutex.
LEMMA ControlRuns ==
    IInv /\ Asleep /\ ~ Quiet =>
    \/ Runs("control")
    \/ pc["control"] = "take" /\ \E t \in Tasks : Runs(t) /\ pc[t] = "count"
<1>1. SUFFICES ASSUME IInv, Asleep, ~ Quiet
               PROVE  \/ Runs("control")
                      \/ pc["control"] = "take" /\ \E t \in Tasks : Runs(t) /\ pc[t] = "count"
  OBVIOUS
<1>2. PlaceInv /\ TypeOK
  BY <1>1 DEF IInv, ReadingsKept
<1>3. Tasks = {"sensor", "control", "log", "report"}
  BY DEF Tasks
<1>4. CASE ~ Blocked("control")
  <2>1. \A u \in Tasks : Blocked(u) \/ Current(u) <= Current("control")
    BY <1>1, AsleepCurrent
  <2> QED
    BY <1>4, <2>1 DEF Runs
<1>5. CASE Blocked("control")
  <2>1. pc["control"] = "take" /\ holder # Nobody
    BY <1>1, <1>2, <1>5 DEF Blocked, Quiet, PlaceInv
  <2>2. holder \in Tasks /\ pc[holder] = "count"
    BY <1>2, <2>1 DEF PlaceInv, TypeOK
  <2>3. ~ Blocked(holder) /\ holder # "sensor"
    BY <1>1, <2>2 DEF Blocked, Asleep
  <2>4. "control" \in MutexWaiters
    BY <1>3, <2>1, <2>2 DEF MutexWaiters
  <2>5. Current(holder) >= 3
    <3>1. Priority["control"] = 3
      BY DEF Priority
    <3> QED
      BY <2>2, <2>4, <3>1, CurrentIs
  <2>6. \A u \in Tasks : Blocked(u) \/ Current(u) <= Current(holder)
    <3>1. \A u \in Tasks : Current(u) \in 1 .. 4
      BY CurrentIs
    <3> QED
      BY <1>1, <2>2, <2>5, <3>1, AsleepCurrent
  <2> QED
    BY <2>1, <2>2, <2>3, <2>6 DEF Runs
<1> QED
  BY <1>4, <1>5

LEMMA ControlWaits ==
    IInv /\ Asleep /\ ~ Quiet /\ Waiting =>
    pc["control"] = "busy" /\ tick - start["control"] < ControlTicks
<1>1. SUFFICES ASSUME IInv, Asleep, ~ Quiet, Waiting
               PROVE  pc["control"] = "busy" /\ tick - start["control"] < ControlTicks
  OBVIOUS
<1>2. PlaceInv
  BY <1>1 DEF IInv
<1>3. \A t \in Tasks : Runs(t) => pc[t] \in {"busy", "print"}
  BY <1>1 DEF Waiting
<1>4. Runs("control")
  BY <1>1, <1>3, ControlRuns
<1>5. "control" \in Tasks /\ Cost["control"] = ControlTicks
  BY DEF Tasks, Cost
<1> QED
  BY <1>1, <1>2, <1>4, <1>5 DEF Waiting, PlaceInv

\* The tasks below run when there is nothing to do for the two above, or when they
\* hold the mutex that one of these waits for.
LEMMA LowRun ==
    ASSUME NEW t \in {"log", "report"}
    PROVE  IInv /\ Runs(t) /\ holder # t => Asleep /\ Quiet
<1>1. SUFFICES ASSUME IInv, Runs(t), holder # t PROVE Asleep /\ Quiet
  OBVIOUS
<1>2. Tasks = {"sensor", "control", "log", "report"}
  BY DEF Tasks
<1>3. Asleep
  BY <1>1, <1>2, OthersRun
<1>4. Current(t) # 3 /\ Current("control") = 3 /\ Current(t) <= 3
  BY <1>1, <1>2, <1>3, AsleepCurrent
<1>5. SUFFICES ASSUME ~ Quiet PROVE FALSE
  BY <1>3
<1>6. PlaceInv /\ TypeOK
  BY <1>1 DEF IInv, ReadingsKept
<1>7. Blocked("control")
  <2>1. Current(t) \in 1 .. 4
    BY <1>2, CurrentIs
  <2> QED
    BY <1>1, <1>2, <1>4, <2>1 DEF Runs
<1>8. pc["control"] = "take" /\ holder # Nobody
  BY <1>5, <1>6, <1>7 DEF Blocked, Quiet, PlaceInv
<1>9. holder \in Tasks /\ pc[holder] = "count"
  BY <1>6, <1>8 DEF PlaceInv, TypeOK
<1>10. ~ Blocked(holder)
  BY <1>9 DEF Blocked
<1>11. "control" \in MutexWaiters
  BY <1>2, <1>8, <1>9 DEF MutexWaiters
<1>12. Current(holder) >= 3
  <2>1. Priority["control"] = 3
    BY DEF Priority
  <2> QED
    BY <1>9, <1>11, <2>1, CurrentIs
<1>13. Current(holder) <= Current(t)
  BY <1>1, <1>9, <1>10 DEF Runs
<1>14. Current(holder) \in 1 .. 4 /\ Current(t) \in 1 .. 4
  BY <1>2, <1>9, CurrentIs
<1> QED
  BY <1>4, <1>12, <1>13, <1>14

\* When the log task's wait is over and a print is too, the log task runs when there
\* is nothing to do for those above it.
LEMMA NobodyWaits ==
    IInv /\ Asleep /\ Quiet /\ pc["log"] = "busy" /\ tick >= Due => ~ Waiting
<1>1. SUFFICES ASSUME IInv, Asleep, Quiet, pc["log"] = "busy", tick >= Due, Waiting
               PROVE  FALSE
  OBVIOUS
<1>2. PlaceInv /\ TypeOK
  BY <1>1 DEF IInv, ReadingsKept
<1>3. Tasks = {"sensor", "control", "log", "report"}
  BY DEF Tasks
<1>4. /\ tick \in Nat /\ start["log"] \in Nat /\ start["report"] \in Nat
      /\ Due \in Nat /\ Due >= start["log"] + LogTicks
      /\ pc["report"] # "delay" => Due >= start["report"] + PrintTicks
  <2>1. tick \in Nat /\ start["log"] \in Nat /\ start["report"] \in Nat
    BY <1>2, <1>3, ConstantsAre DEF TypeOK
  <2> QED
    BY <2>1, ConstantsAre DEF Due
<1>5. Blocked("sensor") /\ Blocked("control")
  BY <1>1, AsleepCurrent DEF Blocked, Quiet
<1>6. CASE Blocked("report")
  <2>1. ~ Blocked("log")
    BY <1>1 DEF Blocked
  <2>2. \A u \in Tasks : Blocked(u) \/ Current(u) <= Current("log")
    <3>1. Current("log") \in 1 .. 4
      BY <1>3, CurrentIs
    <3> QED
      BY <1>3, <1>5, <1>6, <3>1
  <2>3. Runs("log")
    BY <2>1, <2>2 DEF Runs
  <2>4. tick - start["log"] < Cost["log"]
    BY <1>1, <1>3, <2>3 DEF Waiting
  <2>5. Cost["log"] = LogTicks
    BY DEF Cost
  <2> QED
    BY <1>1, <1>4, <2>4, <2>5, ConstantsAre
<1>7. CASE ~ Blocked("report")
  <2>1. Current("report") >= 2 /\ Current("log") <= 2
    <3>1. Priority["report"] = 2 /\ Priority["log"] = 1
      BY DEF Priority
    <3>2. holder # "log"
      BY <1>1, <1>2, <1>3 DEF PlaceInv
    <3> QED
      BY <1>3, <3>1, <3>2, CurrentIs
  <2>2. \A u \in Tasks : Blocked(u) \/ Current(u) <= Current("report")
    <3>1. Current("log") \in 1 .. 4 /\ Current("report") \in 1 .. 4
      BY <1>3, CurrentIs
    <3> QED
      BY <1>3, <1>5, <2>1, <3>1
  <2>3. Runs("report")
    BY <1>7, <2>2 DEF Runs
  <2>4. pc["report"] = "print" /\ tick - start["report"] < PrintTicks
    BY <1>1, <1>2, <1>3, <2>3 DEF Waiting, PlaceInv
  <2> QED
    BY <1>1, <1>4, <2>4, ConstantsAre
<1> QED
  BY <1>6, <1>7

-----------------------------------------------------------------------------
\* What the invariant says, and what keeps its parts.

LEMMA NumbersAre ==
    TypeOK =>
    /\ tick \in Nat /\ tick <= MaxTicks /\ calm \in BOOLEAN
    /\ last_wake \in Nat /\ now \in Nat /\ last_sensor_tick \in Nat /\ sensor_worst_gap \in Nat
    /\ \A t \in Tasks : start[t] \in Nat
    /\ Spare \in {0, 1} /\ Woken \in Int /\ Due \in Nat
    /\ {"sensor", "control", "log", "report"} \subseteq Tasks
    /\ start["sensor"] \in Nat /\ start["control"] \in Nat /\ start["log"] \in Nat
    /\ start["report"] \in Nat
<1>1. SUFFICES ASSUME TypeOK
               PROVE  /\ tick \in Nat /\ tick <= MaxTicks /\ calm \in BOOLEAN
                      /\ last_wake \in Nat /\ now \in Nat /\ last_sensor_tick \in Nat
                      /\ sensor_worst_gap \in Nat
                      /\ \A t \in Tasks : start[t] \in Nat
                      /\ Spare \in {0, 1} /\ Woken \in Int /\ Due \in Nat
                      /\ {"sensor", "control", "log", "report"} \subseteq Tasks
                      /\ start["sensor"] \in Nat /\ start["control"] \in Nat
                      /\ start["log"] \in Nat /\ start["report"] \in Nat
  OBVIOUS
<1>2. tick \in Nat /\ tick <= MaxTicks /\ calm \in BOOLEAN
  BY <1>1, ConstantsAre DEF TypeOK
<1>3. /\ last_wake \in Nat /\ now \in Nat /\ last_sensor_tick \in Nat
      /\ sensor_worst_gap \in Nat
  BY <1>1 DEF TypeOK
<1>4. \A t \in Tasks : start[t] \in Nat
  BY <1>1, ConstantsAre DEF TypeOK
<1>5. /\ start["sensor"] \in Nat /\ start["control"] \in Nat
      /\ start["log"] \in Nat /\ start["report"] \in Nat
      /\ {"sensor", "control", "log", "report"} \subseteq Tasks
  BY <1>4 DEF Tasks
<1> QED
  BY <1>2, <1>3, <1>4, <1>5, ConstantsAre DEF Spare, Woken, Due

Labels == {"first", "now", "take", "count", "send", "busy", "delay", "receive", "print",
           "suspended"}

\* A task that goes on, with the others where they are.
LEMMA GotoIs ==
    ASSUME NEW t \in Tasks, NEW l \in Labels
    PROVE  TypeOK /\ Goto(t, l) =>
           /\ pc' \in [Tasks -> Labels]
           /\ pc'[t] = l /\ \A u \in Tasks : u # t => pc'[u] = pc[u]
BY DEF TypeOK, Goto, Labels

LEMMA StartAtIs ==
    ASSUME NEW t \in Tasks, NEW l \in Labels
    PROVE  TypeOK /\ StartAt(t, l) =>
           /\ Goto(t, l)
           /\ start' \in [Tasks -> 0 .. MaxTicks]
           /\ start'[t] = tick /\ \A u \in Tasks : u # t => start'[u] = start[u]
BY DEF TypeOK, StartAt

\* The sensor and the control task, and what they work with, stay as they are.
AboveStay ==
    /\ pc'["sensor"] = pc["sensor"] /\ pc'["control"] = pc["control"]
    /\ start'["sensor"] = start["sensor"] /\ start'["control"] = start["control"]
    /\ UNCHANGED <<tick, calm, readings, last_wake, now, last_sensor_tick, sensor_worst_gap>>

LEMMA AboveStayIs ==
    AboveStay =>
    /\ Asleep' = Asleep /\ Starting' = Starting /\ Quiet' = Quiet /\ Spare' = Spare
    /\ Woken' = Woken
BY DEF AboveStay, Asleep, Starting, Quiet, Spare, Woken

LEMMA TimeStays ==
    TimeInv /\ GapBounded /\ AboveStay /\ (\A t \in Tasks : start'[t] <= tick) =>
    TimeInv' /\ GapBounded'
<1>1. SUFFICES ASSUME TimeInv, GapBounded, AboveStay, \A t \in Tasks : start'[t] <= tick
               PROVE  TimeInv' /\ GapBounded'
  OBVIOUS
<1>2. GapBounded'
  BY <1>1 DEF GapBounded, AboveStay
<1>3. TimeInv'
  BY <1>1, AboveStayIs DEF TimeInv, AboveStay
<1> QED
  BY <1>2, <1>3

\* The log and the report task, and where the period stands, stay as they are.
BelowStay ==
    /\ pc'["log"] = pc["log"] /\ pc'["report"] = pc["report"]
    /\ start'["log"] = start["log"] /\ start'["report"] = start["report"]
    /\ UNCHANGED <<tick, calm>>

LEMMA LogStays ==
    /\ LogInv /\ BelowStay /\ Woken' = Woken
    /\ (Asleep /\ Quiet)' => (Asleep /\ Quiet) \/ tick + Spare <= Woken + Work
    => LogInv'
<1>1. SUFFICES ASSUME LogInv, BelowStay, Woken' = Woken,
                      (Asleep /\ Quiet)' => (Asleep /\ Quiet) \/ tick + Spare <= Woken + Work
               PROVE  LogInv'
  OBVIOUS
<1>2. Due' = Due /\ Spare' = Spare
  BY <1>1 DEF BelowStay, Due, Spare
<1> QED
  BY <1>1, <1>2 DEF LogInv, BelowStay

\* The holder of the mutex counts, and no other.
HolderCounts == \A t \in Tasks : holder = t <=> pc[t] = "count"

LEMMA PlaceStays ==
    /\ PlaceInv /\ AboveStay /\ HolderCounts'
    /\ pc'["log"] \in {"receive", "take", "count", "busy"}
    /\ pc'["report"] \in {"delay", "print", "suspended"}
    => PlaceInv'
BY AboveStayIs DEF PlaceInv, AboveStay, HolderCounts

\* A task takes the mutex that nobody holds, the holder gives it back, or the others go on.
LEMMA HolderTakes ==
    ASSUME NEW t \in Tasks
    PROVE  /\ HolderCounts /\ holder = Nobody /\ holder' = t /\ pc'[t] = "count"
           /\ \A u \in Tasks : u # t => pc'[u] = pc[u]
           => HolderCounts'
<1>1. Nobody \notin Tasks
  BY DEF Nobody, Tasks
<1> QED
  BY <1>1 DEF HolderCounts

LEMMA HolderGives ==
    ASSUME NEW t \in Tasks
    PROVE  /\ HolderCounts /\ pc[t] = "count" /\ holder' = Nobody /\ pc'[t] # "count"
           /\ \A u \in Tasks : u # t => pc'[u] = pc[u]
           => HolderCounts'
<1>1. Nobody \notin Tasks
  BY DEF Nobody, Tasks
<1> QED
  BY <1>1 DEF HolderCounts

LEMMA HolderStays ==
    ASSUME NEW t \in Tasks
    PROVE  /\ HolderCounts /\ holder' = holder /\ pc[t] # "count" /\ pc'[t] # "count"
           /\ \A u \in Tasks : u # t => pc'[u] = pc[u]
           => HolderCounts'
BY DEF HolderCounts

-----------------------------------------------------------------------------
\* log_task and report_task

LEMMA LogTakes == IInv /\ Take("log") => IInv'
<1>1. SUFFICES ASSUME IInv, Take("log") PROVE IInv'
  OBVIOUS
<1>2. /\ TypeOK /\ NoTimeout /\ lost = 0 /\ Len(readings) <= 1
      /\ GapBounded /\ PlaceInv /\ TimeInv /\ LogInv
  BY <1>1 DEF IInv, ReadingsKept
<1>3. /\ pc["log"] = "take" /\ holder = Nobody /\ holder' = "log" /\ Goto("log", "count")
      /\ UNCHANGED <<tick, calm, start, queues, sensorLocals, stats, timeouts>>
  BY <1>1 DEF Take, At, time
<1>4. /\ pc' \in [Tasks -> Labels]
      /\ pc'["log"] = "count" /\ \A u \in Tasks : u # "log" => pc'[u] = pc[u]
  BY <1>2, <1>3, GotoIs DEF Tasks, Labels
<1>5. Tasks = {"sensor", "control", "log", "report"}
  BY DEF Tasks
<1>6. holder' \in Tasks
  BY <1>3, <1>5
<1>7. TypeOK'
  BY <1>2, <1>3, <1>4, <1>6 DEF TypeOK, Labels, Nobody, queues, sensorLocals, stats
<1>8. NoTimeout' /\ lost' = 0 /\ Len(readings') <= 1
  BY <1>2, <1>3 DEF NoTimeout, queues
<1>9. AboveStay
  BY <1>3, <1>4, <1>5 DEF AboveStay, queues, sensorLocals, stats
<1>10. TimeInv' /\ GapBounded'
  <2>1. \A u \in Tasks : start'[u] <= tick
    <3>1. tick <= tick
      BY <1>2, NumbersAre
    <3> QED
      BY <1>2, <1>3, <1>4, <3>1 DEF TimeInv
  <2> QED
    BY <1>2, <1>9, <2>1, TimeStays
<1>11. PlaceInv'
  <2>1. HolderCounts'
    BY <1>2, <1>3, <1>4, <1>5, HolderTakes DEF PlaceInv, HolderCounts
  <2> QED
    BY <1>2, <1>4, <1>5, <1>9, <2>1, PlaceStays DEF PlaceInv
<1>12. LogInv'
  BY <1>4 DEF LogInv
<1> QED
  BY <1>7, <1>8, <1>10, <1>11, <1>12 DEF IInv, ReadingsKept

LEMMA LogReceives == IInv /\ LogReceive => IInv'
<1>1. SUFFICES ASSUME IInv, LogReceive PROVE IInv'
  OBVIOUS
<1>2. /\ TypeOK /\ NoTimeout /\ lost = 0 /\ Len(readings) <= 1
      /\ GapBounded /\ PlaceInv /\ TimeInv /\ LogInv
  BY <1>1 DEF IInv, ReadingsKept
<1>3. /\ pc["log"] = "receive" /\ Runs("log") /\ log_queue' = Tail(log_queue)
      /\ StartAt("log", "take")
      /\ UNCHANGED <<tick, calm, holder, readings, control_r, lost, sensorLocals, stats,
                     timeouts>>
  BY <1>1 DEF LogReceive, At, time
<1>4. /\ pc' \in [Tasks -> Labels]
      /\ pc'["log"] = "take" /\ \A u \in Tasks : u # "log" => pc'[u] = pc[u]
      /\ start' \in [Tasks -> 0 .. MaxTicks]
      /\ start'["log"] = tick /\ \A u \in Tasks : u # "log" => start'[u] = start[u]
  BY <1>2, <1>3, GotoIs, StartAtIs DEF Tasks, Labels
<1>5. Tasks = {"sensor", "control", "log", "report"}
  BY DEF Tasks
<1>6. log_queue' \in Seq(Nat) /\ Len(log_queue') <= QueueLength
  <2>1. log_queue # <<>>
    BY <1>3, <1>5 DEF Runs, Blocked
  <2>2. log_queue \in Seq(Nat) /\ Len(log_queue) <= QueueLength /\ Len(log_queue) \in Nat
    BY <1>2 DEF TypeOK
  <2>3. Tail(log_queue) \in Seq(Nat) /\ Len(Tail(log_queue)) = Len(log_queue) - 1
    BY <2>1, <2>2, HeadTailProperties
  <2> QED
    BY <1>3, <2>2, <2>3, ConstantsAre
<1>7. TypeOK'
  BY <1>2, <1>3, <1>4, <1>6 DEF TypeOK, Labels, Nobody, queues, sensorLocals, stats
<1>8. NoTimeout' /\ lost' = 0 /\ Len(readings') <= 1
  BY <1>2, <1>3 DEF NoTimeout, queues
<1>9. AboveStay
  BY <1>3, <1>4, <1>5 DEF AboveStay, queues, sensorLocals, stats
<1>10. TimeInv' /\ GapBounded'
  <2>1. \A u \in Tasks : start'[u] <= tick
    <3>1. tick <= tick
      BY <1>2, NumbersAre
    <3> QED
      BY <1>2, <1>3, <1>4, <3>1 DEF TimeInv
  <2> QED
    BY <1>2, <1>9, <2>1, TimeStays
<1>11. PlaceInv'
  <2>1. HolderCounts'
    BY <1>2, <1>3, <1>4, <1>5, HolderStays DEF PlaceInv, HolderCounts
  <2> QED
    BY <1>2, <1>4, <1>5, <1>9, <2>1, PlaceStays DEF PlaceInv
<1>12. LogInv'
  BY <1>4 DEF LogInv
<1> QED
  BY <1>7, <1>8, <1>10, <1>11, <1>12 DEF IInv, ReadingsKept

LEMMA LogCounts == IInv /\ LogCount => IInv'
<1>1. SUFFICES ASSUME IInv, LogCount PROVE IInv'
  OBVIOUS
<1>2. /\ TypeOK /\ NoTimeout /\ lost = 0 /\ Len(readings) <= 1
      /\ GapBounded /\ PlaceInv /\ TimeInv /\ LogInv
  BY <1>1 DEF IInv, ReadingsKept
<1>3. /\ pc["log"] = "count" /\ log_runs' = log_runs + 1 /\ holder' = Nobody
      /\ StartAt("log", "busy")
      /\ UNCHANGED <<tick, calm, queues, sensorLocals, sensor_runs, control_runs,
                     sensor_worst_gap, last_sensor_tick, timeouts>>
  BY <1>1 DEF LogCount, At, time
<1>4. /\ pc' \in [Tasks -> Labels]
      /\ pc'["log"] = "busy" /\ \A u \in Tasks : u # "log" => pc'[u] = pc[u]
      /\ start' \in [Tasks -> 0 .. MaxTicks]
      /\ start'["log"] = tick /\ \A u \in Tasks : u # "log" => start'[u] = start[u]
  BY <1>2, <1>3, GotoIs, StartAtIs DEF Tasks, Labels
<1>5. Tasks = {"sensor", "control", "log", "report"}
  BY DEF Tasks
<1>6. log_runs' \in Nat
  BY <1>2, <1>3 DEF TypeOK
<1>7. TypeOK'
  BY <1>2, <1>3, <1>4, <1>6 DEF TypeOK, Labels, Nobody, queues, sensorLocals, stats
<1>8. NoTimeout' /\ lost' = 0 /\ Len(readings') <= 1
  BY <1>2, <1>3 DEF NoTimeout, queues
<1>9. AboveStay
  BY <1>3, <1>4, <1>5 DEF AboveStay, queues, sensorLocals, stats
<1>10. TimeInv' /\ GapBounded'
  <2>1. \A u \in Tasks : start'[u] <= tick
    <3>1. tick <= tick
      BY <1>2, NumbersAre
    <3> QED
      BY <1>2, <1>3, <1>4, <3>1 DEF TimeInv
  <2> QED
    BY <1>2, <1>9, <2>1, TimeStays
<1>11. PlaceInv'
  <2>1. HolderCounts'
    BY <1>2, <1>3, <1>4, <1>5, HolderGives DEF PlaceInv, HolderCounts
  <2> QED
    BY <1>2, <1>4, <1>5, <1>9, <2>1, PlaceStays DEF PlaceInv
<1>12. LogInv'
  <2>1. /\ tick \in Nat /\ start["report"] \in Nat /\ start["report"] <= tick
        /\ pc'["report"] = pc["report"] /\ start'["report"] = start["report"]
        /\ start'["log"] = tick /\ tick' = tick
    BY <1>2, <1>3, <1>4, <1>5, NumbersAre DEF TimeInv
  <2>2. /\ Due' >= tick + LogTicks /\ Due' \in Nat
        /\ Due' <= tick + LogTicks + PrintTicks + Work + 1
    BY <2>1, ConstantsAre DEF Due
  <2>3. ~ (tick' > Due')
    BY <2>1, <2>2, ConstantsAre
  <2> QED
    BY <2>1, <2>2, <2>3 DEF LogInv
<1> QED
  BY <1>7, <1>8, <1>10, <1>11, <1>12 DEF IInv, ReadingsKept

LEMMA LogEnds == IInv /\ LogDone => IInv'
<1>1. SUFFICES ASSUME IInv, LogDone PROVE IInv'
  OBVIOUS
<1>2. /\ TypeOK /\ NoTimeout /\ lost = 0 /\ Len(readings) <= 1
      /\ GapBounded /\ PlaceInv /\ TimeInv /\ LogInv
  BY <1>1 DEF IInv, ReadingsKept
<1>3. /\ pc["log"] = "busy" /\ Goto("log", "receive")
      /\ UNCHANGED <<tick, calm, start, holder, queues, sensorLocals, stats, timeouts>>
  BY <1>1 DEF LogDone, BusyOver, At, time
<1>4. /\ pc' \in [Tasks -> Labels]
      /\ pc'["log"] = "receive" /\ \A u \in Tasks : u # "log" => pc'[u] = pc[u]
  BY <1>2, <1>3, GotoIs DEF Tasks, Labels
<1>5. Tasks = {"sensor", "control", "log", "report"}
  BY DEF Tasks
<1>6. TypeOK'
  BY <1>2, <1>3, <1>4 DEF TypeOK, Labels, Nobody, queues, sensorLocals, stats
<1>7. NoTimeout' /\ lost' = 0 /\ Len(readings') <= 1
  BY <1>2, <1>3 DEF NoTimeout, queues
<1>8. AboveStay
  BY <1>3, <1>4, <1>5 DEF AboveStay, queues, sensorLocals, stats
<1>9. TimeInv' /\ GapBounded'
  <2>1. \A u \in Tasks : start'[u] <= tick
    <3>1. tick <= tick
      BY <1>2, NumbersAre
    <3> QED
      BY <1>2, <1>3, <1>4, <3>1 DEF TimeInv
  <2> QED
    BY <1>2, <1>8, <2>1, TimeStays
<1>10. PlaceInv'
  <2>1. HolderCounts'
    BY <1>2, <1>3, <1>4, <1>5, HolderStays DEF PlaceInv, HolderCounts
  <2> QED
    BY <1>2, <1>4, <1>5, <1>8, <2>1, PlaceStays DEF PlaceInv
<1>11. LogInv'
  BY <1>4 DEF LogInv
<1> QED
  BY <1>6, <1>7, <1>9, <1>10, <1>11 DEF IInv, ReadingsKept

LEMMA ReportPrints == IInv /\ ReportPrint => IInv'
<1>1. SUFFICES ASSUME IInv, ReportPrint PROVE IInv'
  OBVIOUS
<1>2. /\ TypeOK /\ NoTimeout /\ lost = 0 /\ Len(readings) <= 1
      /\ GapBounded /\ PlaceInv /\ TimeInv /\ LogInv
  BY <1>1 DEF IInv, ReadingsKept
<1>3. /\ pc["report"] = "delay" /\ Runs("report") /\ StartAt("report", "print")
      /\ UNCHANGED <<tick, calm, holder, queues, sensorLocals, stats, timeouts>>
  BY <1>1 DEF ReportPrint, At, time
<1>4. /\ pc' \in [Tasks -> Labels]
      /\ pc'["report"] = "print" /\ \A u \in Tasks : u # "report" => pc'[u] = pc[u]
      /\ start' \in [Tasks -> 0 .. MaxTicks]
      /\ start'["report"] = tick /\ \A u \in Tasks : u # "report" => start'[u] = start[u]
  BY <1>2, <1>3, GotoIs, StartAtIs DEF Tasks, Labels
<1>5. Tasks = {"sensor", "control", "log", "report"}
  BY DEF Tasks
<1>6. TypeOK'
  BY <1>2, <1>3, <1>4 DEF TypeOK, Labels, Nobody, queues, sensorLocals, stats
<1>7. NoTimeout' /\ lost' = 0 /\ Len(readings') <= 1
  BY <1>2, <1>3 DEF NoTimeout, queues
<1>8. AboveStay
  BY <1>3, <1>4, <1>5 DEF AboveStay, queues, sensorLocals, stats
<1>9. TimeInv' /\ GapBounded'
  <2>1. \A u \in Tasks : start'[u] <= tick
    <3>1. tick <= tick
      BY <1>2, NumbersAre
    <3> QED
      BY <1>2, <1>3, <1>4, <3>1 DEF TimeInv
  <2> QED
    BY <1>2, <1>8, <2>1, TimeStays
<1>10. PlaceInv'
  <2>1. HolderCounts'
    BY <1>2, <1>3, <1>4, <1>5, HolderStays DEF PlaceInv, HolderCounts
  <2> QED
    BY <1>2, <1>4, <1>5, <1>8, <2>1, PlaceStays DEF PlaceInv
<1>11. LogInv'
  <2>1. SUFFICES ASSUME pc["log"] = "busy" PROVE LogInv'
    BY <1>4, <1>5 DEF LogInv
  <2>2. Asleep /\ Quiet
    <3>1. holder # "report"
      BY <1>2, <1>3, <1>5 DEF PlaceInv
    <3> QED
      BY <1>1, <1>3, <3>1, LowRun
  <2>3. /\ tick \in Nat /\ start["log"] \in Nat /\ start["log"] <= tick
        /\ pc'["log"] = "busy" /\ pc'["report"] = "print"
        /\ start'["report"] = tick /\ start'["log"] = start["log"] /\ tick' = tick
        /\ Spare \in {0, 1} /\ Woken \in Int
    BY <1>2, <1>3, <1>4, <1>5, <2>1, NumbersAre DEF TimeInv
  <2>4. Due = start["log"] + LogTicks
    BY <1>3 DEF Due
  <2>5. tick <= start["log"] + LogTicks + Work + 1
    <3>1. tick > Due => Woken <= Due + 1 /\ (tick <= Due + 1 \/ tick <= Woken + Work)
      BY <1>2, <2>1, <2>2, <2>3, <2>4, ConstantsAre DEF LogInv
    <3> QED
      BY <2>3, <2>4, <3>1, ConstantsAre
  <2>6. /\ Due' >= tick + PrintTicks /\ Due' \in Nat
        /\ Due' <= start["log"] + LogTicks + PrintTicks + Work + 1
    BY <2>3, <2>5, ConstantsAre DEF Due
  <2>7. ~ (tick' > Due')
    BY <2>3, <2>6, ConstantsAre
  <2> QED
    BY <2>3, <2>6, <2>7 DEF LogInv
<1> QED
  BY <1>6, <1>7, <1>9, <1>10, <1>11 DEF IInv, ReadingsKept

LEMMA ReportEnds == IInv /\ ReportDone => IInv'
<1>1. SUFFICES ASSUME IInv, ReportDone PROVE IInv'
  OBVIOUS
<1>2. /\ TypeOK /\ NoTimeout /\ lost = 0 /\ Len(readings) <= 1
      /\ GapBounded /\ PlaceInv /\ TimeInv /\ LogInv
  BY <1>1 DEF IInv, ReadingsKept
<1>3. /\ pc["report"] = "print" /\ Goto("report", "suspended")
      /\ UNCHANGED <<tick, calm, start, holder, queues, sensorLocals, stats, timeouts>>
  BY <1>1 DEF ReportDone, AfterReport, At, time
<1>4. /\ pc' \in [Tasks -> Labels]
      /\ pc'["report"] = "suspended" /\ \A u \in Tasks : u # "report" => pc'[u] = pc[u]
  BY <1>2, <1>3, GotoIs DEF Tasks, Labels
<1>5. Tasks = {"sensor", "control", "log", "report"}
  BY DEF Tasks
<1>6. TypeOK'
  BY <1>2, <1>3, <1>4 DEF TypeOK, Labels, Nobody, queues, sensorLocals, stats
<1>7. NoTimeout' /\ lost' = 0 /\ Len(readings') <= 1
  BY <1>2, <1>3 DEF NoTimeout, queues
<1>8. AboveStay
  BY <1>3, <1>4, <1>5 DEF AboveStay, queues, sensorLocals, stats
<1>9. TimeInv' /\ GapBounded'
  <2>1. \A u \in Tasks : start'[u] <= tick
    <3>1. tick <= tick
      BY <1>2, NumbersAre
    <3> QED
      BY <1>2, <1>3, <1>4, <3>1 DEF TimeInv
  <2> QED
    BY <1>2, <1>8, <2>1, TimeStays
<1>10. PlaceInv'
  <2>1. HolderCounts'
    BY <1>2, <1>3, <1>4, <1>5, HolderStays DEF PlaceInv, HolderCounts
  <2> QED
    BY <1>2, <1>4, <1>5, <1>8, <2>1, PlaceStays DEF PlaceInv
<1>11. LogInv'
  <2>1. Due' = Due
    BY <1>3, <1>4, <1>5 DEF Due
  <2>2. pc'["log"] = pc["log"] /\ tick' = tick /\ start' = start
    BY <1>3, <1>4, <1>5
  <2> QED
    BY <1>2, <1>8, <2>1, <2>2, AboveStayIs DEF LogInv
<1> QED
  BY <1>6, <1>7, <1>9, <1>10, <1>11 DEF IInv, ReadingsKept

-----------------------------------------------------------------------------
\* sensor_task

LEMMA SensorTakes == IInv /\ Take("sensor") => IInv'
<1>1. SUFFICES ASSUME IInv, Take("sensor") PROVE IInv'
  OBVIOUS
<1>2. /\ TypeOK /\ NoTimeout /\ lost = 0 /\ Len(readings) <= 1
      /\ GapBounded /\ PlaceInv /\ TimeInv /\ LogInv
  BY <1>1 DEF IInv, ReadingsKept
<1>3. /\ pc["sensor"] = "take" /\ holder = Nobody /\ holder' = "sensor"
      /\ Goto("sensor", "count")
      /\ UNCHANGED <<tick, calm, start, queues, sensorLocals, stats, timeouts>>
  BY <1>1 DEF Take, At, time
<1>4. /\ pc' \in [Tasks -> Labels]
      /\ pc'["sensor"] = "count" /\ \A u \in Tasks : u # "sensor" => pc'[u] = pc[u]
  BY <1>2, <1>3, GotoIs DEF Tasks, Labels
<1>5. Tasks = {"sensor", "control", "log", "report"}
  BY DEF Tasks
<1>6. /\ tick \in Nat /\ last_wake \in Nat /\ now \in Nat /\ last_sensor_tick \in Nat
      /\ start["sensor"] \in Nat /\ start["control"] \in Nat /\ Spare \in {0, 1}
      /\ Woken \in Int /\ sensor_worst_gap \in Nat
  BY <1>2, NumbersAre
<1>7. Spare' = Spare /\ BelowStay
  BY <1>3, <1>4, <1>5 DEF Spare, BelowStay
<1>8. HolderCounts'
  BY <1>2, <1>3, <1>4, <1>5, HolderTakes DEF PlaceInv, HolderCounts
<1>9. TypeOK'
  BY <1>2, <1>3, <1>4, <1>5 DEF TypeOK, Labels, Nobody, queues, sensorLocals, stats
<1>10. NoTimeout' /\ lost' = 0 /\ Len(readings') <= 1
  BY <1>2, <1>3 DEF NoTimeout, queues
<1>11. GapBounded'
  BY <1>2, <1>3 DEF GapBounded, stats, sensorLocals
<1>12. pc["sensor"] = "take" /\ Starting /\ Quiet /\ ~ Asleep
  BY <1>2, <1>3 DEF Starting, Asleep, PlaceInv
<1>13. /\ ~ Asleep' /\ Starting' /\ Quiet'
       /\ Woken' = Woken /\ Woken = last_wake
  BY <1>3, <1>4, <1>5, <1>12 DEF Starting, Asleep, Quiet, Woken, queues, sensorLocals
<1>14. PlaceInv'
  BY <1>2, <1>4, <1>5, <1>8, <1>12, <1>13 DEF PlaceInv, HolderCounts, Quiet
<1>15. TimeInv'
  <2>1. \A t \in Tasks : start'[t] <= tick'
    BY <1>2, <1>3, <1>4, <1>6 DEF TimeInv
  <2>2. last_wake <= tick /\ tick + Spare <= last_wake + 1
    BY <1>2, <1>12, <1>13 DEF TimeInv
  <2> QED
    BY <1>2, <1>3, <1>4, <1>5, <1>6, <1>7, <1>12, <1>13, <2>1, <2>2, ConstantsAre
       DEF TimeInv, queues, sensorLocals, stats
<1>16. LogInv'
  BY <1>2, <1>7, <1>13, LogStays
<1> QED
  BY <1>9, <1>10, <1>11, <1>14, <1>15, <1>16 DEF IInv, ReadingsKept

LEMMA SensorNows == IInv /\ SensorNow => IInv'
<1>1. SUFFICES ASSUME IInv, SensorNow PROVE IInv'
  OBVIOUS
<1>2. /\ TypeOK /\ NoTimeout /\ lost = 0 /\ Len(readings) <= 1
      /\ GapBounded /\ PlaceInv /\ TimeInv /\ LogInv
  BY <1>1 DEF IInv, ReadingsKept
<1>3. /\ pc["sensor"] = "now" /\ now' = tick /\ StartAt("sensor", "take")
      /\ UNCHANGED <<tick, calm, holder, queues, last_wake, stats, timeouts>>
  BY <1>1 DEF SensorNow, At, time
<1>4. /\ pc' \in [Tasks -> Labels]
      /\ pc'["sensor"] = "take" /\ \A u \in Tasks : u # "sensor" => pc'[u] = pc[u]
      /\ start' \in [Tasks -> 0 .. MaxTicks]
      /\ start'["sensor"] = tick /\ \A u \in Tasks : u # "sensor" => start'[u] = start[u]
  BY <1>2, <1>3, GotoIs, StartAtIs DEF Tasks, Labels
<1>5. Tasks = {"sensor", "control", "log", "report"}
  BY DEF Tasks
<1>6. /\ tick \in Nat /\ last_wake \in Nat /\ now \in Nat /\ last_sensor_tick \in Nat
      /\ start["sensor"] \in Nat /\ start["control"] \in Nat /\ Spare \in {0, 1}
      /\ Woken \in Int /\ sensor_worst_gap \in Nat
  BY <1>2, NumbersAre
<1>7. Spare' = Spare /\ BelowStay
  BY <1>3, <1>4, <1>5 DEF Spare, BelowStay
<1>8. HolderCounts'
  BY <1>2, <1>3, <1>4, <1>5, HolderStays DEF PlaceInv, HolderCounts
<1>9. TypeOK'
  BY <1>2, <1>3, <1>4, <1>5, <1>6 DEF TypeOK, Labels, Nobody, queues, sensorLocals, stats
<1>10. NoTimeout' /\ lost' = 0 /\ Len(readings') <= 1
  BY <1>2, <1>3 DEF NoTimeout, queues
<1>11. GapBounded'
  BY <1>2, <1>3 DEF GapBounded, stats, queues
<1>12. pc["sensor"] = "now" /\ Starting /\ Quiet /\ ~ Asleep
  BY <1>2, <1>3 DEF Starting, Asleep, PlaceInv
<1>13. /\ ~ Asleep' /\ Starting' /\ Quiet'
       /\ Woken' = Woken /\ Woken = last_wake
  BY <1>3, <1>4, <1>5, <1>12 DEF Starting, Asleep, Quiet, Woken, queues, sensorLocals
<1>14. PlaceInv'
  BY <1>2, <1>4, <1>5, <1>8, <1>12, <1>13 DEF PlaceInv, HolderCounts, Quiet
<1>15. TimeInv'
  <2>1. \A t \in Tasks : start'[t] <= tick'
    BY <1>2, <1>3, <1>4, <1>6 DEF TimeInv
  <2>2. last_wake <= tick /\ tick + Spare <= last_wake + 1
    BY <1>2, <1>12, <1>13 DEF TimeInv
  <2> QED
    BY <1>2, <1>3, <1>4, <1>5, <1>6, <1>7, <1>12, <1>13, <2>1, <2>2, ConstantsAre
       DEF TimeInv, queues, sensorLocals, stats
<1>16. LogInv'
  BY <1>2, <1>7, <1>13, LogStays
<1> QED
  BY <1>9, <1>10, <1>11, <1>14, <1>15, <1>16 DEF IInv, ReadingsKept

LEMMA SensorCounts == IInv /\ SensorCount => IInv'
<1>1. SUFFICES ASSUME IInv, SensorCount PROVE IInv'
  OBVIOUS
<1>2. /\ TypeOK /\ NoTimeout /\ lost = 0 /\ Len(readings) <= 1
      /\ GapBounded /\ PlaceInv /\ TimeInv /\ LogInv
  BY <1>1 DEF IInv, ReadingsKept
<1>3. /\ pc["sensor"] = "count"
      /\ sensor_worst_gap' = (IF last_sensor_tick # 0 /\ now - last_sensor_tick > sensor_worst_gap
                              THEN now - last_sensor_tick ELSE sensor_worst_gap)
      /\ sensor_runs' = sensor_runs + 1 /\ holder' = Nobody /\ Goto("sensor", "send")
      /\ UNCHANGED <<tick, calm, start, queues, sensorLocals, control_runs, log_runs,
                     last_sensor_tick, timeouts>>
  BY <1>1 DEF SensorCount, At, time
<1>4. /\ pc' \in [Tasks -> Labels]
      /\ pc'["sensor"] = "send" /\ \A u \in Tasks : u # "sensor" => pc'[u] = pc[u]
  BY <1>2, <1>3, GotoIs DEF Tasks, Labels
<1>5. Tasks = {"sensor", "control", "log", "report"}
  BY DEF Tasks
<1>6. /\ tick \in Nat /\ last_wake \in Nat /\ now \in Nat /\ last_sensor_tick \in Nat
      /\ start["sensor"] \in Nat /\ start["control"] \in Nat /\ Spare \in {0, 1}
      /\ Woken \in Int /\ sensor_worst_gap \in Nat
  BY <1>2, NumbersAre
<1>7. Spare' = Spare /\ BelowStay
  BY <1>3, <1>4, <1>5 DEF Spare, BelowStay
<1>8. HolderCounts'
  BY <1>2, <1>3, <1>4, <1>5, HolderGives DEF PlaceInv, HolderCounts
<1>9. sensor_worst_gap' \in Nat /\ sensor_worst_gap' <= Period + 1
  <2>1. now <= last_wake + 1 /\ last_wake <= last_sensor_tick + Period
    BY <1>2, <1>3 DEF TimeInv
  <2>2. sensor_worst_gap <= Period + 1
    BY <1>2 DEF GapBounded
  <2> QED
    BY <1>3, <1>6, <2>1, <2>2, ConstantsAre
<1>10. sensor_runs' \in Nat
  BY <1>2, <1>3 DEF TypeOK
<1>11. TypeOK'
  BY <1>2, <1>3, <1>4, <1>5, <1>9, <1>10 DEF TypeOK, Labels, Nobody, queues, sensorLocals
<1>12. NoTimeout' /\ lost' = 0 /\ Len(readings') <= 1
  BY <1>2, <1>3 DEF NoTimeout, queues
<1>13. GapBounded'
  BY <1>2, <1>3, <1>9 DEF GapBounded, sensorLocals
<1>14. pc["sensor"] = "count" /\ Starting /\ Quiet /\ ~ Asleep
  BY <1>2, <1>3 DEF Starting, Asleep, PlaceInv
<1>15. /\ ~ Asleep' /\ Starting' /\ Quiet'
       /\ Woken' = Woken /\ Woken = last_wake
  BY <1>3, <1>4, <1>5, <1>14 DEF Starting, Asleep, Quiet, Woken, queues, sensorLocals
<1>16. PlaceInv'
  BY <1>2, <1>4, <1>5, <1>8, <1>14, <1>15 DEF PlaceInv, HolderCounts, Quiet
<1>17. TimeInv'
  <2>1. \A t \in Tasks : start'[t] <= tick'
    BY <1>2, <1>3, <1>4, <1>6 DEF TimeInv
  <2>2. last_wake <= tick /\ tick + Spare <= last_wake + 1
    BY <1>2, <1>14, <1>15 DEF TimeInv
  <2> QED
    BY <1>2, <1>3, <1>4, <1>5, <1>6, <1>7, <1>14, <1>15, <2>1, <2>2, ConstantsAre
       DEF TimeInv, queues, sensorLocals
<1>18. LogInv'
  BY <1>2, <1>7, <1>15, LogStays
<1> QED
  BY <1>11, <1>12, <1>13, <1>16, <1>17, <1>18 DEF IInv, ReadingsKept

LEMMA SensorFirsts == IInv /\ SensorFirst => IInv'
<1>1. SUFFICES ASSUME IInv, SensorFirst PROVE IInv'
  OBVIOUS
<1>2. /\ TypeOK /\ NoTimeout /\ lost = 0 /\ Len(readings) <= 1
      /\ GapBounded /\ PlaceInv /\ TimeInv /\ LogInv
  BY <1>1 DEF IInv, ReadingsKept
<1>3. /\ pc["sensor"] = "first" /\ last_wake' = tick /\ Goto("sensor", "now")
      /\ UNCHANGED <<tick, calm, start, holder, queues, now, stats, timeouts>>
  BY <1>1 DEF SensorFirst, At, time
<1>4. /\ pc' \in [Tasks -> Labels]
      /\ pc'["sensor"] = "now" /\ \A u \in Tasks : u # "sensor" => pc'[u] = pc[u]
  BY <1>2, <1>3, GotoIs DEF Tasks, Labels
<1>5. Tasks = {"sensor", "control", "log", "report"}
  BY DEF Tasks
<1>6. /\ tick \in Nat /\ last_wake \in Nat /\ now \in Nat /\ last_sensor_tick \in Nat
      /\ start["sensor"] \in Nat /\ start["control"] \in Nat /\ Spare \in {0, 1}
      /\ Woken \in Int /\ sensor_worst_gap \in Nat
  BY <1>2, NumbersAre
<1>7. Spare' = Spare /\ BelowStay
  BY <1>3, <1>4, <1>5 DEF Spare, BelowStay
<1>8. HolderCounts'
  BY <1>2, <1>3, <1>4, <1>5, HolderStays DEF PlaceInv, HolderCounts
<1>9. tick = 0 /\ last_wake = 0 /\ last_wake' = 0 /\ Spare = 0
  <2>1. tick = 0 /\ ~ calm
    BY <1>2, <1>3 DEF TimeInv
  <2>2. Woken = last_wake /\ Woken <= tick
    BY <1>2, <1>3 DEF TimeInv, Woken, Asleep
  <2> QED
    BY <1>3, <1>6, <2>1, <2>2 DEF Spare
<1>10. TypeOK'
  BY <1>2, <1>3, <1>4, <1>5, <1>9 DEF TypeOK, Labels, Nobody, queues, stats
<1>11. NoTimeout' /\ lost' = 0 /\ Len(readings') <= 1
  BY <1>2, <1>3 DEF NoTimeout, queues
<1>12. GapBounded'
  BY <1>2, <1>3, <1>9 DEF GapBounded, stats
<1>13. pc["sensor"] = "first" /\ Starting /\ Quiet /\ ~ Asleep
  BY <1>2, <1>3 DEF Starting, Asleep, PlaceInv
<1>14. /\ ~ Asleep' /\ Starting' /\ Quiet'
       /\ Woken' = Woken /\ Woken = last_wake
  BY <1>3, <1>4, <1>5, <1>13, <1>9 DEF Starting, Asleep, Quiet, Woken, queues
<1>15. PlaceInv'
  BY <1>2, <1>4, <1>5, <1>8, <1>13, <1>14 DEF PlaceInv, HolderCounts, Quiet
<1>16. TimeInv'
  <2>1. \A t \in Tasks : start'[t] <= tick'
    BY <1>2, <1>3, <1>4, <1>6 DEF TimeInv
  <2>2. last_wake <= tick /\ tick + Spare <= last_wake + 1
    BY <1>2, <1>13, <1>14 DEF TimeInv
  <2> QED
    BY <1>2, <1>3, <1>4, <1>5, <1>6, <1>7, <1>13, <1>14, <2>1, <2>2, <1>9, ConstantsAre
       DEF TimeInv, queues, stats
<1>17. LogInv'
  BY <1>2, <1>7, <1>14, LogStays
<1> QED
  BY <1>10, <1>11, <1>12, <1>15, <1>16, <1>17 DEF IInv, ReadingsKept

LEMMA SensorWakes == IInv /\ SensorWake => IInv'
<1>1. SUFFICES ASSUME IInv, SensorWake PROVE IInv'
  OBVIOUS
<1>2. /\ TypeOK /\ NoTimeout /\ lost = 0 /\ Len(readings) <= 1
      /\ GapBounded /\ PlaceInv /\ TimeInv /\ LogInv
  BY <1>1 DEF IInv, ReadingsKept
<1>3. /\ pc["sensor"] = "delay" /\ Runs("sensor") /\ Goto("sensor", "now")
      /\ UNCHANGED <<tick, calm, start, holder, queues, sensorLocals, stats, timeouts>>
  BY <1>1 DEF SensorWake, At, time
<1>4. /\ pc' \in [Tasks -> Labels]
      /\ pc'["sensor"] = "now" /\ \A u \in Tasks : u # "sensor" => pc'[u] = pc[u]
  BY <1>2, <1>3, GotoIs DEF Tasks, Labels
<1>5. Tasks = {"sensor", "control", "log", "report"}
  BY DEF Tasks
<1>6. /\ tick \in Nat /\ last_wake \in Nat /\ now \in Nat /\ last_sensor_tick \in Nat
      /\ start["sensor"] \in Nat /\ start["control"] \in Nat /\ Spare \in {0, 1}
      /\ Woken \in Int /\ sensor_worst_gap \in Nat
  BY <1>2, NumbersAre
<1>7. Spare' = Spare /\ BelowStay
  BY <1>3, <1>4, <1>5 DEF Spare, BelowStay
<1>8. HolderCounts'
  BY <1>2, <1>3, <1>4, <1>5, HolderStays DEF PlaceInv, HolderCounts
<1>9. TypeOK'
  BY <1>2, <1>3, <1>4, <1>5 DEF TypeOK, Labels, Nobody, queues, sensorLocals, stats
<1>10. NoTimeout' /\ lost' = 0 /\ Len(readings') <= 1
  BY <1>2, <1>3 DEF NoTimeout, queues
<1>11. GapBounded'
  BY <1>2, <1>3 DEF GapBounded, stats, sensorLocals
<1>12. pc["sensor"] = "delay" /\ Starting /\ Quiet /\ ~ Asleep
  BY <1>2, <1>3 DEF Runs, Blocked, Starting, Asleep, PlaceInv
<1>13. /\ ~ Asleep' /\ Starting' /\ Quiet'
       /\ Woken' = Woken /\ Woken = last_wake
  BY <1>3, <1>4, <1>5, <1>12 DEF Starting, Asleep, Quiet, Woken, queues, sensorLocals
<1>14. PlaceInv'
  BY <1>2, <1>4, <1>5, <1>8, <1>12, <1>13 DEF PlaceInv, HolderCounts, Quiet
<1>15. TimeInv'
  <2>1. \A t \in Tasks : start'[t] <= tick'
    BY <1>2, <1>3, <1>4, <1>6 DEF TimeInv
  <2>2. last_wake <= tick /\ tick + Spare <= last_wake + 1
    BY <1>2, <1>12, <1>13 DEF TimeInv
  <2> QED
    BY <1>2, <1>3, <1>4, <1>5, <1>6, <1>7, <1>12, <1>13, <2>1, <2>2, ConstantsAre
       DEF TimeInv, queues, sensorLocals, stats
<1>16. LogInv'
  BY <1>2, <1>7, <1>13, LogStays
<1> QED
  BY <1>9, <1>10, <1>11, <1>14, <1>15, <1>16 DEF IInv, ReadingsKept

\* A period later is as far into a period.
LEMMA NextPeriod == ASSUME NEW n \in Nat PROVE (n + Period) % Period = n % Period
<1>1. PICK p \in Nat : p = Period /\ p > 0
  BY ConstantsAre
<1>2. PICK r \in Int : r = n % p
  BY <1>1
<1>3. PICK q \in Int : q = n \div p
  BY <1>1
<1>4. n = p * q + r /\ r \in 0 .. p - 1
  BY <1>1, <1>2, <1>3
<1>5. PICK k \in Int : k = q + 1
  OBVIOUS
<1>6. p * k = p * q + p
  BY <1>5
<1>7. PICK m \in Nat : m = n + p
  BY <1>1
<1>8. m = p * k + r
  BY <1>4, <1>6, <1>7
<1>9. m % p = r
  BY <1>1, <1>4, <1>8
<1> QED
  BY <1>1, <1>2, <1>7, <1>9

LEMMA SensorSends == IInv /\ SensorSend => IInv'
<1>1. SUFFICES ASSUME IInv, SensorSend PROVE IInv'
  OBVIOUS
<1>2. /\ TypeOK /\ NoTimeout /\ lost = 0 /\ Len(readings) <= 1
      /\ GapBounded /\ PlaceInv /\ TimeInv /\ LogInv
  BY <1>1 DEF IInv, ReadingsKept
<1>3. /\ Runs("sensor")
      /\ pc["sensor"] = "send" \/ (pc["sensor"] = "take" /\ holder # Nobody)
      /\ timeouts' = (IF pc["sensor"] = "take" THEN timeouts + 1 ELSE timeouts)
      /\ last_sensor_tick' = now /\ readings' = Sent(readings, now)
      /\ lost' = (IF Len(readings) < QueueLength THEN lost ELSE lost + 1)
      /\ StartAt("sensor", "busy")
      /\ UNCHANGED <<tick, calm, holder, log_queue, control_r, sensorLocals, sensor_runs,
                     control_runs, log_runs, sensor_worst_gap>>
  BY <1>1 DEF SensorSend, time
<1>4. pc["sensor"] = "send" /\ Starting /\ Quiet /\ ~ Asleep
  <2>1. ~ Blocked("sensor")
    BY <1>3 DEF Runs
  <2>2. pc["sensor"] = "send"
    BY <1>1, <1>3, <2>1, SensorBlocked
  <2> QED
    BY <1>2, <2>2 DEF Starting, Asleep, PlaceInv
<1>5. /\ pc' \in [Tasks -> Labels]
      /\ pc'["sensor"] = "busy" /\ \A u \in Tasks : u # "sensor" => pc'[u] = pc[u]
      /\ start' \in [Tasks -> 0 .. MaxTicks]
      /\ start'["sensor"] = tick /\ \A u \in Tasks : u # "sensor" => start'[u] = start[u]
  BY <1>2, <1>3, GotoIs, StartAtIs DEF Tasks, Labels
<1>6. Tasks = {"sensor", "control", "log", "report"}
  BY DEF Tasks
<1>7. /\ tick \in Nat /\ last_wake \in Nat /\ now \in Nat /\ last_sensor_tick \in Nat
      /\ start["sensor"] \in Nat /\ start["control"] \in Nat /\ Spare \in {0, 1}
      /\ Woken \in Int /\ sensor_worst_gap \in Nat
  BY <1>2, NumbersAre
<1>8. Spare' = Spare /\ BelowStay
  BY <1>3, <1>5, <1>6 DEF Spare, BelowStay
<1>9. HolderCounts'
  BY <1>2, <1>3, <1>5, <1>6, <1>4, HolderStays DEF PlaceInv, HolderCounts
<1>10. readings = <<>> /\ readings' = <<now>> /\ lost' = 0
  <2>1. readings = <<>>
    BY <1>4 DEF Quiet
  <2>2. Len(readings) = 0
    BY <2>1
  <2>3. Sent(readings, now) = <<now>>
    BY <2>1, <2>2, ConstantsAre DEF Sent
  <2> QED
    BY <1>2, <1>3, <2>1, <2>2, <2>3, ConstantsAre
<1>11. TypeOK'
  <2>1. readings' \in Seq(Nat) /\ Len(readings') <= QueueLength
    BY <1>7, <1>10, ConstantsAre
  <2>2. log_queue' \in Seq(Nat) /\ Len(log_queue') <= QueueLength
    BY <1>2, <1>3 DEF TypeOK
  <2>3. {last_wake', now', control_r', lost', timeouts', sensor_runs', control_runs', log_runs',
         sensor_worst_gap', last_sensor_tick'} \subseteq Nat
    BY <1>2, <1>3, <1>7, <1>4, <1>10 DEF TypeOK, sensorLocals
  <2> QED
    BY <1>2, <1>3, <1>5, <1>6, <2>1, <2>2, <2>3 DEF TypeOK, Labels
<1>12. NoTimeout' /\ lost' = 0 /\ Len(readings') <= 1
  <2>1. Len(readings') = 1
    BY <1>10
  <2>2. NoTimeout'
    BY <1>2, <1>3, <1>4 DEF NoTimeout
  <2> QED
    BY <1>10, <2>1, <2>2
<1>13. GapBounded'
  BY <1>2, <1>3 DEF GapBounded, sensorLocals
<1>14. /\ ~ Asleep' /\ ~ Starting' /\ ~ Quiet'
       /\ Woken' = Woken /\ Woken = last_wake
  <2>1. <<now>> # <<>>
    OBVIOUS
  <2> QED
    BY <1>3, <1>5, <1>4, <1>10, <2>1 DEF Starting, Asleep, Quiet, Woken, sensorLocals
<1>15. PlaceInv'
  <2>1. pc'["control"] = "receive" /\ readings' # <<>>
    BY <1>5, <1>6, <1>4, <1>14 DEF Quiet
  <2> QED
    BY <1>2, <1>5, <1>6, <1>9, <1>14, <2>1 DEF PlaceInv, HolderCounts
<1>16. TimeInv'
  <2>1. \A t \in Tasks : start'[t] <= tick'
    BY <1>2, <1>3, <1>5, <1>7 DEF TimeInv
  <2>2. last_wake <= tick /\ tick + Spare <= last_wake + 1 /\ last_wake <= now
    BY <1>2, <1>4, <1>14 DEF TimeInv
  <2> QED
    BY <1>3, <1>5, <1>7, <1>8, <1>14, <2>1, <2>2, ConstantsAre DEF TimeInv, sensorLocals
<1>17. LogInv'
  BY <1>2, <1>8, <1>14, LogStays
<1> QED
  BY <1>11, <1>12, <1>13, <1>15, <1>16, <1>17 DEF IInv, ReadingsKept

LEMMA SensorDelays == IInv /\ SensorDelay => IInv'
<1>1. SUFFICES ASSUME IInv, SensorDelay PROVE IInv'
  OBVIOUS
<1>2. /\ TypeOK /\ NoTimeout /\ lost = 0 /\ Len(readings) <= 1
      /\ GapBounded /\ PlaceInv /\ TimeInv /\ LogInv
  BY <1>1 DEF IInv, ReadingsKept
<1>3. /\ pc["sensor"] = "busy" /\ last_wake' = last_wake + Period /\ Goto("sensor", "delay")
      /\ UNCHANGED <<tick, calm, start, holder, queues, now, stats, timeouts>>
  BY <1>1 DEF SensorDelay, BusyOver, NextWake, At, time
<1>4. /\ pc' \in [Tasks -> Labels]
      /\ pc'["sensor"] = "delay" /\ \A u \in Tasks : u # "sensor" => pc'[u] = pc[u]
  BY <1>2, <1>3, GotoIs DEF Tasks, Labels
<1>5. Tasks = {"sensor", "control", "log", "report"}
  BY DEF Tasks
<1>6. /\ tick \in Nat /\ last_wake \in Nat /\ now \in Nat /\ last_sensor_tick \in Nat
      /\ start["sensor"] \in Nat /\ start["control"] \in Nat /\ Spare \in {0, 1}
      /\ Woken \in Int /\ sensor_worst_gap \in Nat
  BY <1>2, NumbersAre
<1>7. Spare' = Spare /\ BelowStay
  BY <1>3, <1>4, <1>5 DEF Spare, BelowStay
<1>8. HolderCounts'
  BY <1>2, <1>3, <1>4, <1>5, HolderStays DEF PlaceInv, HolderCounts
<1>9. /\ pc["control"] = "receive" /\ readings # <<>>
       /\ last_wake <= tick /\ tick + Spare <= last_wake + SensorTicks + 2
       /\ last_wake <= last_sensor_tick /\ ~ Asleep
  <2>1. Woken = last_wake /\ ~ Asleep
    BY <1>3 DEF Woken, Asleep
  <2>2. /\ start["sensor"] <= last_wake + 1 /\ Woken <= tick
        /\ tick + Spare <= start["sensor"] + SensorTicks + 1
        /\ last_wake <= last_sensor_tick + 0
    BY <1>2, <1>3 DEF TimeInv
  <2> QED
    BY <1>2, <1>3, <1>6, <2>1, <2>2, ConstantsAre DEF PlaceInv
<1>10. /\ Asleep' /\ ~ Starting' /\ ~ Quiet'
       /\ Woken' = Woken /\ Woken = last_wake
  <2>1. tick < last_wake + Period /\ (last_wake + Period) - Period = last_wake
    BY <1>6, <1>9, ConstantsAre
  <2> QED
    BY <1>3, <1>4, <1>5, <1>9, <2>1 DEF Starting, Asleep, Quiet, Woken, queues
<1>11. TypeOK'
  <2>1. last_wake' \in Nat
    BY <1>3, <1>6, ConstantsAre
  <2> QED
    BY <1>2, <1>3, <1>4, <1>5, <2>1 DEF TypeOK, Labels, Nobody, queues, stats
<1>12. NoTimeout' /\ lost' = 0 /\ Len(readings') <= 1
  BY <1>2, <1>3 DEF NoTimeout, queues
<1>13. GapBounded'
  <2>1. (last_wake + Period) % Period = last_wake % Period
    BY <1>6, NextPeriod
  <2> QED
    BY <1>2, <1>3, <2>1 DEF GapBounded, stats
<1>14. PlaceInv'
  BY <1>2, <1>3, <1>4, <1>5, <1>8, <1>9, <1>10 DEF PlaceInv, HolderCounts, queues
<1>15. TimeInv'
  <2>1. \A t \in Tasks : start'[t] <= tick'
    BY <1>2, <1>3 DEF TimeInv
  <2> QED
    BY <1>3, <1>4, <1>5, <1>6, <1>7, <1>9, <1>10, <2>1, ConstantsAre DEF TimeInv, stats
<1>16. LogInv'
  BY <1>2, <1>7, <1>10, LogStays
<1> QED
  BY <1>11, <1>12, <1>13, <1>14, <1>15, <1>16 DEF IInv, ReadingsKept

-----------------------------------------------------------------------------
\* control_task

LEMMA ControlTakes == IInv /\ Take("control") => IInv'
<1>1. SUFFICES ASSUME IInv, Take("control") PROVE IInv'
  OBVIOUS
<1>2. /\ TypeOK /\ NoTimeout /\ lost = 0 /\ Len(readings) <= 1
      /\ GapBounded /\ PlaceInv /\ TimeInv /\ LogInv
  BY <1>1 DEF IInv, ReadingsKept
<1>3. /\ pc["control"] = "take" /\ Runs("control") /\ holder = Nobody
      /\ holder' = "control" /\ Goto("control", "count")
      /\ UNCHANGED <<tick, calm, start, queues, sensorLocals, stats, timeouts>>
  BY <1>1 DEF Take, At, time
<1>4. /\ pc' \in [Tasks -> Labels]
      /\ pc'["control"] = "count" /\ \A u \in Tasks : u # "control" => pc'[u] = pc[u]
  BY <1>2, <1>3, GotoIs DEF Tasks, Labels
<1>5. Tasks = {"sensor", "control", "log", "report"}
  BY DEF Tasks
<1>6. /\ tick \in Nat /\ last_wake \in Nat /\ now \in Nat /\ last_sensor_tick \in Nat
      /\ start["sensor"] \in Nat /\ start["control"] \in Nat /\ Spare \in {0, 1}
      /\ Woken \in Int /\ sensor_worst_gap \in Nat
  BY <1>2, NumbersAre
<1>7. Spare' = Spare /\ BelowStay
  BY <1>3, <1>4, <1>5 DEF Spare, BelowStay
<1>8. HolderCounts'
  BY <1>2, <1>3, <1>4, <1>5, HolderTakes DEF PlaceInv, HolderCounts
<1>9. /\ Asleep /\ ~ Quiet /\ readings = <<>>
       /\ tick + Spare <= Woken + SensorTicks + 2
  <2>1. Asleep
    BY <1>1, <1>3, <1>5, OthersRun DEF Nobody
  <2>2. ~ Quiet /\ readings = <<>>
    BY <1>2, <1>3 DEF Quiet, PlaceInv
  <2> QED
    BY <1>2, <1>3, <2>1, <2>2 DEF TimeInv
<1>10. /\ Asleep /\ Asleep' /\ ~ Starting' /\ readings' = <<>>
       /\ Woken' = Woken
  BY <1>3, <1>4, <1>5, <1>9 DEF Starting, Asleep, Quiet, Woken, queues, sensorLocals
<1>11. TypeOK'
  BY <1>2, <1>3, <1>4, <1>5 DEF TypeOK, Labels, Nobody, queues, sensorLocals, stats
<1>12. NoTimeout' /\ lost' = 0 /\ Len(readings') <= 1
  BY <1>2, <1>3 DEF NoTimeout, queues
<1>13. GapBounded'
  BY <1>2, <1>3 DEF GapBounded, stats, sensorLocals
<1>14. PlaceInv'
  BY <1>2, <1>3, <1>4, <1>5, <1>8, <1>9, <1>10 DEF PlaceInv, HolderCounts, queues, Asleep
<1>15. TimeInv'
  <2>1. \A t \in Tasks : start'[t] <= tick'
    BY <1>2, <1>3, <1>4, <1>6 DEF TimeInv
  <2>2. /\ Woken <= tick /\ last_wake <= last_sensor_tick + Period
        /\ pc["sensor"] = "delay" /\ pc'["sensor"] = "delay"
    BY <1>2, <1>4, <1>5, <1>9 DEF TimeInv, Asleep
  <2> QED
    BY <1>3, <1>4, <1>5, <1>6, <1>7, <1>9, <1>10, <2>1, <2>2, ConstantsAre
       DEF TimeInv, stats, sensorLocals, time
<1>16. LogInv'
  <2>1. ~ Quiet'
    BY <1>4 DEF Quiet
  <2> QED
    BY <1>2, <1>7, <1>10, <2>1, LogStays
<1> QED
  BY <1>11, <1>12, <1>13, <1>14, <1>15, <1>16 DEF IInv, ReadingsKept

LEMMA ControlReceives == IInv /\ ControlReceive => IInv'
<1>1. SUFFICES ASSUME IInv, ControlReceive PROVE IInv'
  OBVIOUS
<1>2. /\ TypeOK /\ NoTimeout /\ lost = 0 /\ Len(readings) <= 1
      /\ GapBounded /\ PlaceInv /\ TimeInv /\ LogInv
  BY <1>1 DEF IInv, ReadingsKept
<1>3. /\ pc["control"] = "receive" /\ Runs("control")
      /\ control_r' = Head(readings) /\ readings' = Tail(readings)
      /\ StartAt("control", "take")
      /\ UNCHANGED <<tick, calm, holder, log_queue, lost, sensorLocals, stats, timeouts>>
  BY <1>1 DEF ControlReceive, At, time
<1>4. /\ pc' \in [Tasks -> Labels]
      /\ pc'["control"] = "take" /\ \A u \in Tasks : u # "control" => pc'[u] = pc[u]
      /\ start' \in [Tasks -> 0 .. MaxTicks]
      /\ start'["control"] = tick /\ \A u \in Tasks : u # "control" => start'[u] = start[u]
  BY <1>2, <1>3, GotoIs, StartAtIs DEF Tasks, Labels
<1>5. Tasks = {"sensor", "control", "log", "report"}
  BY DEF Tasks
<1>6. /\ tick \in Nat /\ last_wake \in Nat /\ now \in Nat /\ last_sensor_tick \in Nat
      /\ start["sensor"] \in Nat /\ start["control"] \in Nat /\ Spare \in {0, 1}
      /\ Woken \in Int /\ sensor_worst_gap \in Nat
  BY <1>2, NumbersAre
<1>7. Spare' = Spare /\ BelowStay
  BY <1>3, <1>4, <1>5 DEF Spare, BelowStay
<1>8. HolderCounts'
  BY <1>2, <1>3, <1>4, <1>5, HolderStays DEF PlaceInv, HolderCounts
<1>9. /\ Asleep /\ ~ Quiet /\ readings # <<>>
       /\ tick + Spare <= Woken + SensorTicks + 2
  <2>1. Asleep
    <3>1. holder # "control"
      BY <1>2, <1>3, <1>5 DEF PlaceInv
    <3> QED
      BY <1>1, <1>3, <1>5, <3>1, OthersRun
  <2>2. ~ Quiet /\ readings # <<>>
    BY <1>2, <1>3 DEF Quiet, PlaceInv, Runs, Blocked
  <2> QED
    BY <1>2, <1>3, <2>1, <2>2 DEF TimeInv
<1>10. /\ readings' = <<>> /\ control_r' \in Nat
  <2>1. readings \in Seq(Nat) /\ Len(readings) \in Nat
    BY <1>2 DEF TypeOK
  <2>2. /\ Head(readings) \in Nat /\ Tail(readings) \in Seq(Nat)
        /\ Len(Tail(readings)) = Len(readings) - 1
    BY <1>9, <2>1, HeadTailProperties
  <2>3. Len(Tail(readings)) = 0
    BY <1>2, <2>1, <2>2, LenProperties
  <2>4. Tail(readings) = <<>>
    BY <2>2, <2>3, EmptySeq
  <2> QED
    BY <1>3, <2>2, <2>4
<1>11. /\ Asleep /\ Asleep' /\ ~ Starting' /\ readings' = <<>>
       /\ Woken' = Woken
  BY <1>3, <1>4, <1>5, <1>9, <1>10 DEF Starting, Asleep, Quiet, Woken, sensorLocals
<1>12. TypeOK'
  <2>1. readings' \in Seq(Nat) /\ Len(readings') <= QueueLength
    BY <1>10, ConstantsAre
  <2> QED
    BY <1>2, <1>3, <1>4, <1>5, <1>10, <2>1 DEF TypeOK, Labels, Nobody, sensorLocals, stats
<1>13. NoTimeout' /\ lost' = 0 /\ Len(readings') <= 1
  BY <1>2, <1>3, <1>10 DEF NoTimeout
<1>14. GapBounded'
  BY <1>2, <1>3 DEF GapBounded, stats, sensorLocals
<1>15. PlaceInv'
  BY <1>2, <1>3, <1>4, <1>5, <1>8, <1>9, <1>11 DEF PlaceInv, HolderCounts, queues, Asleep
<1>16. TimeInv'
  <2>1. \A t \in Tasks : start'[t] <= tick'
    BY <1>2, <1>3, <1>4, <1>6 DEF TimeInv
  <2>2. /\ Woken <= tick /\ last_wake <= last_sensor_tick + Period
        /\ pc["sensor"] = "delay" /\ pc'["sensor"] = "delay"
    BY <1>2, <1>4, <1>5, <1>9 DEF TimeInv, Asleep
  <2> QED
    BY <1>3, <1>4, <1>5, <1>6, <1>7, <1>9, <1>11, <2>1, <2>2, ConstantsAre
       DEF TimeInv, stats, sensorLocals, time
<1>17. LogInv'
  <2>1. ~ Quiet'
    BY <1>4 DEF Quiet
  <2> QED
    BY <1>2, <1>7, <1>11, <2>1, LogStays
<1> QED
  BY <1>12, <1>13, <1>14, <1>15, <1>16, <1>17 DEF IInv, ReadingsKept

LEMMA ControlCounts == IInv /\ ControlCount => IInv'
<1>1. SUFFICES ASSUME IInv, ControlCount PROVE IInv'
  OBVIOUS
<1>2. /\ TypeOK /\ NoTimeout /\ lost = 0 /\ Len(readings) <= 1
      /\ GapBounded /\ PlaceInv /\ TimeInv /\ LogInv
  BY <1>1 DEF IInv, ReadingsKept
<1>3. /\ pc["control"] = "count" /\ control_runs' = control_runs + 1 /\ holder' = Nobody
      /\ StartAt("control", "busy")
      /\ UNCHANGED <<tick, calm, queues, sensorLocals, sensor_runs, log_runs,
                     sensor_worst_gap, last_sensor_tick, timeouts>>
  BY <1>1 DEF ControlCount, At, time
<1>4. /\ pc' \in [Tasks -> Labels]
      /\ pc'["control"] = "busy" /\ \A u \in Tasks : u # "control" => pc'[u] = pc[u]
      /\ start' \in [Tasks -> 0 .. MaxTicks]
      /\ start'["control"] = tick /\ \A u \in Tasks : u # "control" => start'[u] = start[u]
  BY <1>2, <1>3, GotoIs, StartAtIs DEF Tasks, Labels
<1>5. Tasks = {"sensor", "control", "log", "report"}
  BY DEF Tasks
<1>6. /\ tick \in Nat /\ last_wake \in Nat /\ now \in Nat /\ last_sensor_tick \in Nat
      /\ start["sensor"] \in Nat /\ start["control"] \in Nat /\ Spare \in {0, 1}
      /\ Woken \in Int /\ sensor_worst_gap \in Nat
  BY <1>2, NumbersAre
<1>7. Spare' = Spare /\ BelowStay
  BY <1>3, <1>4, <1>5 DEF Spare, BelowStay
<1>8. HolderCounts'
  BY <1>2, <1>3, <1>4, <1>5, HolderGives DEF PlaceInv, HolderCounts
<1>9. /\ Asleep /\ ~ Quiet /\ readings = <<>>
       /\ tick + Spare <= Woken + SensorTicks + 2
  <2>1. Asleep
    <3>1. ~ Starting /\ pc["sensor"] # "busy"
      BY <1>2, <1>3 DEF PlaceInv, Quiet
    <3> QED
      BY <3>1 DEF Starting
  <2>2. ~ Quiet /\ readings = <<>>
    BY <1>2, <1>3 DEF Quiet, PlaceInv
  <2> QED
    BY <1>2, <1>3, <2>1, <2>2 DEF TimeInv
<1>10. /\ Asleep /\ Asleep' /\ ~ Starting' /\ readings' = <<>>
       /\ Woken' = Woken
  BY <1>3, <1>4, <1>5, <1>9 DEF Starting, Asleep, Quiet, Woken, queues, sensorLocals
<1>11. TypeOK'
  BY <1>2, <1>3, <1>4, <1>5 DEF TypeOK, Labels, Nobody, queues, sensorLocals
<1>12. NoTimeout' /\ lost' = 0 /\ Len(readings') <= 1
  BY <1>2, <1>3 DEF NoTimeout, queues
<1>13. GapBounded'
  BY <1>2, <1>3 DEF GapBounded, sensorLocals
<1>14. PlaceInv'
  BY <1>2, <1>3, <1>4, <1>5, <1>8, <1>9, <1>10 DEF PlaceInv, HolderCounts, queues, Asleep
<1>15. TimeInv'
  <2>1. \A t \in Tasks : start'[t] <= tick'
    BY <1>2, <1>3, <1>4, <1>6 DEF TimeInv
  <2>2. /\ Woken <= tick /\ last_wake <= last_sensor_tick + Period
        /\ pc["sensor"] = "delay" /\ pc'["sensor"] = "delay"
    BY <1>2, <1>4, <1>5, <1>9 DEF TimeInv, Asleep
  <2> QED
    BY <1>3, <1>4, <1>5, <1>6, <1>7, <1>9, <1>10, <2>1, <2>2, ConstantsAre
       DEF TimeInv, sensorLocals, time
<1>16. LogInv'
  <2>1. ~ Quiet'
    BY <1>4 DEF Quiet
  <2> QED
    BY <1>2, <1>7, <1>10, <2>1, LogStays
<1> QED
  BY <1>11, <1>12, <1>13, <1>14, <1>15, <1>16 DEF IInv, ReadingsKept

LEMMA ControlSends == IInv /\ ControlSend => IInv'
<1>1. SUFFICES ASSUME IInv, ControlSend PROVE IInv'
  OBVIOUS
<1>2. /\ TypeOK /\ NoTimeout /\ lost = 0 /\ Len(readings) <= 1
      /\ GapBounded /\ PlaceInv /\ TimeInv /\ LogInv
  BY <1>1 DEF IInv, ReadingsKept
<1>3. /\ pc["control"] = "busy" /\ log_queue' = Sent(log_queue, control_r)
      /\ Goto("control", "receive")
      /\ UNCHANGED <<tick, calm, start, holder, readings, control_r, lost, sensorLocals,
                     stats, timeouts>>
  BY <1>1 DEF ControlSend, BusyOver, At, time
<1>4. /\ pc' \in [Tasks -> Labels]
      /\ pc'["control"] = "receive" /\ \A u \in Tasks : u # "control" => pc'[u] = pc[u]
  BY <1>2, <1>3, GotoIs DEF Tasks, Labels
<1>5. Tasks = {"sensor", "control", "log", "report"}
  BY DEF Tasks
<1>6. /\ tick \in Nat /\ last_wake \in Nat /\ now \in Nat /\ last_sensor_tick \in Nat
      /\ start["sensor"] \in Nat /\ start["control"] \in Nat /\ Spare \in {0, 1}
      /\ Woken \in Int /\ sensor_worst_gap \in Nat
  BY <1>2, NumbersAre
<1>7. Spare' = Spare /\ BelowStay
  BY <1>3, <1>4, <1>5 DEF Spare, BelowStay
<1>8. HolderCounts'
  BY <1>2, <1>3, <1>4, <1>5, HolderStays DEF PlaceInv, HolderCounts
<1>9. /\ Asleep /\ ~ Quiet /\ readings = <<>>
       /\ tick + Spare <= Woken + Work
  <2>1. Asleep
    <3>1. ~ Starting /\ pc["sensor"] # "busy"
      BY <1>2, <1>3 DEF PlaceInv, Quiet
    <3> QED
      BY <3>1 DEF Starting
  <2>2. ~ Quiet /\ readings = <<>>
    BY <1>2, <1>3 DEF Quiet, PlaceInv
  <2>3. /\ start["control"] <= Woken + SensorTicks + 2
        /\ tick + Spare <= start["control"] + ControlTicks + 1
    BY <1>2, <1>3, <2>1, <2>2 DEF TimeInv
  <2> QED
    BY <1>6, <2>1, <2>2, <2>3, ConstantsAre
<1>10. /\ Asleep /\ Asleep' /\ ~ Starting' /\ readings' = <<>>
       /\ Woken' = Woken
  BY <1>3, <1>4, <1>5, <1>9 DEF Starting, Asleep, Quiet, Woken, sensorLocals
<1>11. TypeOK'
  <2>1. log_queue' \in Seq(Nat) /\ Len(log_queue') <= QueueLength
    <3>1. /\ log_queue \in Seq(Nat) /\ Len(log_queue) <= QueueLength /\ control_r \in Nat
          /\ Len(log_queue) \in Nat
      BY <1>2 DEF TypeOK
    <3>2. /\ Append(log_queue, control_r) \in Seq(Nat)
          /\ Len(Append(log_queue, control_r)) = Len(log_queue) + 1
      BY <3>1, AppendProperties
    <3>3. CASE Len(log_queue) < QueueLength
      BY <1>3, <3>1, <3>2, <3>3, ConstantsAre DEF Sent
    <3>4. CASE ~ (Len(log_queue) < QueueLength)
      BY <1>3, <3>1, <3>4 DEF Sent
    <3> QED
      BY <3>3, <3>4
  <2> QED
    BY <1>2, <1>3, <1>4, <1>5, <2>1 DEF TypeOK, Labels, Nobody, sensorLocals, stats
<1>12. NoTimeout' /\ lost' = 0 /\ Len(readings') <= 1
  BY <1>2, <1>3 DEF NoTimeout
<1>13. GapBounded'
  BY <1>2, <1>3 DEF GapBounded, stats, sensorLocals
<1>14. PlaceInv'
  BY <1>2, <1>3, <1>4, <1>5, <1>8, <1>9, <1>10 DEF PlaceInv, HolderCounts, queues, Asleep
<1>15. Quiet'
  BY <1>4, <1>10 DEF Quiet
<1>16. TimeInv'
  <2>1. \A t \in Tasks : start'[t] <= tick'
    BY <1>2, <1>3, <1>4, <1>6 DEF TimeInv
  <2>2. /\ Woken <= tick /\ last_wake <= last_sensor_tick + Period
        /\ pc["sensor"] = "delay" /\ pc'["sensor"] = "delay"
    BY <1>2, <1>4, <1>5, <1>9 DEF TimeInv, Asleep
  <2> QED
    BY <1>3, <1>4, <1>5, <1>6, <1>7, <1>9, <1>10, <1>15, <2>1, <2>2, ConstantsAre
       DEF TimeInv, stats, sensorLocals, time
<1>17. LogInv'
  BY <1>2, <1>7, <1>9, <1>10, LogStays
<1> QED
  BY <1>11, <1>12, <1>13, <1>14, <1>16, <1>17 DEF IInv, ReadingsKept

-----------------------------------------------------------------------------
\* The passing of time.

\* A tick begins nothing and ends nothing but the sensor task's sleep.
LEMMA TickIs ==
    IInv /\ TickElapses =>
    /\ tick' = tick + 1 /\ tick < MaxTicks
    /\ \/ Waiting /\ Spare' = 1
       \/ ~ Waiting /\ Spare = 1 /\ calm /\ Spare' = 0
    /\ Due' = Due /\ Quiet' = Quiet
    /\ UNCHANGED <<pc, start, holder, queues, sensorLocals, stats, timeouts>>
<1>1. SUFFICES ASSUME IInv, TickElapses
               PROVE  /\ tick' = tick + 1 /\ tick < MaxTicks
                      /\ \/ Waiting /\ Spare' = 1
                         \/ ~ Waiting /\ Spare = 1 /\ calm /\ Spare' = 0
                      /\ Due' = Due /\ Quiet' = Quiet
                      /\ UNCHANGED <<pc, start, holder, queues, sensorLocals, stats, timeouts>>
  OBVIOUS
<1>2. /\ tick' = tick + 1 /\ tick < MaxTicks /\ (Waiting \/ calm) /\ calm' = Waiting
      /\ UNCHANGED <<pc, start, holder, queues, sensorLocals, stats, timeouts>>
  BY <1>1 DEF TickElapses
<1>3. \/ Waiting /\ Spare' = 1
      \/ ~ Waiting /\ Spare = 1 /\ calm /\ Spare' = 0
  <2>1. CASE Waiting
    BY <1>2, <2>1 DEF Spare
  <2>2. CASE ~ Waiting
    BY <1>2, <2>2 DEF Spare
  <2> QED
    BY <2>1, <2>2
<1>4. Due' = Due /\ Quiet' = Quiet
  BY <1>2 DEF Due, Quiet, queues
<1> QED
  BY <1>2, <1>3, <1>4

LEMMA RtosTick == IInv /\ TickElapses => IInv'
<1>1. SUFFICES ASSUME IInv, TickElapses PROVE IInv'
  OBVIOUS
<1>2. /\ TypeOK /\ NoTimeout /\ lost = 0 /\ Len(readings) <= 1
      /\ GapBounded /\ PlaceInv /\ TimeInv /\ LogInv
  BY <1>1 DEF IInv, ReadingsKept
<1>3. /\ tick' = tick + 1 /\ tick < MaxTicks
      /\ \/ Waiting /\ Spare' = 1
         \/ ~ Waiting /\ Spare = 1 /\ calm /\ Spare' = 0
      /\ Due' = Due /\ Quiet' = Quiet
      /\ UNCHANGED <<pc, start, holder, queues, sensorLocals, stats, timeouts>>
  BY <1>1, TickIs
<1>4. /\ tick \in Nat /\ last_wake \in Nat /\ now \in Nat /\ last_sensor_tick \in Nat
      /\ start["sensor"] \in Nat /\ start["control"] \in Nat /\ Spare \in {0, 1}
      /\ Woken \in Int /\ Due \in Nat /\ \A t \in Tasks : start[t] \in Nat
  BY <1>2, NumbersAre
<1>5. TypeOK'
  <2>1. tick' \in 0 .. MaxTicks /\ calm' \in BOOLEAN
    BY <1>1, <1>3, <1>4, ConstantsAre DEF TickElapses, Waiting
  <2> QED
    BY <1>2, <1>3, <2>1 DEF TypeOK, queues, sensorLocals, stats
<1>6. NoTimeout' /\ lost' = 0 /\ Len(readings') <= 1 /\ GapBounded'
  BY <1>2, <1>3 DEF NoTimeout, GapBounded, queues, sensorLocals, stats
<1>7. \A t \in Tasks : start'[t] <= tick'
  BY <1>2, <1>3, <1>4 DEF TimeInv
<1>8. Woken <= tick /\ (pc["sensor"] = "first" => ~ calm)
  BY <1>2 DEF TimeInv
<1>9. SUFFICES PlaceInv' /\ TimeInv' /\ LogInv'
  BY <1>5, <1>6 DEF IInv, ReadingsKept
<1>10. ASSUME Woken' = Woken, (Asleep /\ Quiet)' => Asleep /\ Quiet
       PROVE  LogInv'
  <2>1. SUFFICES ASSUME pc["log"] = "busy"
                 PROVE  /\ Due <= start["log"] + LogTicks + PrintTicks + Work + 1
                        /\ tick' > Due =>
                             /\ Woken <= Due + 1
                             /\ Asleep /\ Quiet => \/ tick' + Spare' <= Due + 1
                                                   \/ tick' + Spare' <= Woken + Work
    BY <1>3, <1>10 DEF LogInv
  <2>2. /\ Due <= start["log"] + LogTicks + PrintTicks + Work + 1
        /\ tick > Due =>
             /\ Woken <= Due + 1
             /\ Asleep /\ Quiet => tick + Spare <= Due + 1 \/ tick + Spare <= Woken + Work
    BY <1>2, <2>1 DEF LogInv
  <2>3. ASSUME tick' > Due PROVE Woken <= Due + 1
    BY <1>3, <1>4, <1>8, <2>2, <2>3
  <2>4. ASSUME tick' > Due, Asleep, Quiet
        PROVE  tick' + Spare' <= Due + 1 \/ tick' + Spare' <= Woken + Work
    <3>1. tick >= Due
      BY <1>3, <1>4, <2>4
    <3>2. ~ Waiting
      BY <1>1, <2>1, <2>4, <3>1, NobodyWaits
    <3>3. tick' + Spare' = tick + 1 /\ Spare = 1
      BY <1>3, <1>4, <3>2
    <3> QED
      BY <1>4, <2>2, <2>4, <3>1, <3>3
  <2> QED
    BY <2>2, <2>3, <2>4
<1>11. CASE Starting
  <2>1. ~ Waiting
    BY <1>1, <1>11, StartingBusy
  <2>2. ~ Asleep /\ Quiet /\ tick + Spare <= last_wake + 1
    BY <1>2, <1>11 DEF Starting, PlaceInv, TimeInv
  <2>3. Starting' /\ ~ Asleep' /\ Woken' = Woken
    BY <1>3, <1>4, <1>11, <2>2 DEF Starting, Asleep, Woken, sensorLocals
  <2>4. PlaceInv'
    BY <1>2, <1>3, <2>2, <2>3 DEF PlaceInv, queues
  <2>5. TimeInv'
    <3>1. pc["sensor"] \notin {"first", "busy"} /\ tick' + Spare' = tick + Spare
      BY <1>3, <1>4, <1>8, <1>11, <2>1 DEF Starting
    <3>2. Woken <= tick'
      BY <1>3, <1>4, <1>8
    <3> QED
      BY <1>2, <1>3, <1>7, <1>11, <2>2, <2>3, <3>1, <3>2 DEF TimeInv, sensorLocals, stats
  <2> QED
    BY <1>10, <2>3, <2>4, <2>5
<1>12. CASE pc["sensor"] = "busy"
  <2>1. ~ Asleep /\ ~ Starting /\ ~ Asleep' /\ ~ Starting' /\ Woken' = Woken
    BY <1>3, <1>12 DEF Asleep, Starting, Woken, sensorLocals
  <2>2. PlaceInv'
    BY <1>2, <1>3, <2>1 DEF PlaceInv, queues
  <2>3. TimeInv'
    <3>1. tick + Spare <= start["sensor"] + SensorTicks + 1
      BY <1>2, <1>12 DEF TimeInv
    <3>2. tick' + Spare' <= start["sensor"] + SensorTicks + 1
      <4>1. Waiting => tick - start["sensor"] < SensorTicks
        BY <1>1, <1>12, SensorWaits
      <4> QED
        BY <1>3, <1>4, <3>1, <4>1, ConstantsAre
    <3>3. Woken <= tick'
      BY <1>3, <1>4, <1>8
    <3> QED
      BY <1>2, <1>3, <1>7, <1>12, <2>1, <3>2, <3>3 DEF TimeInv, sensorLocals, stats
  <2> QED
    BY <1>10, <2>1, <2>2, <2>3
<1>13. CASE Asleep /\ ~ Quiet
  <2>1. pc["sensor"] = "delay" /\ tick < last_wake /\ Woken = last_wake - Period
    BY <1>13 DEF Asleep, Woken
  <2>2. IF pc["control"] = "busy"
        THEN /\ start["control"] <= Woken + SensorTicks + 2
             /\ tick' + Spare' <= start["control"] + ControlTicks + 1
        ELSE tick' + Spare' <= Woken + SensorTicks + 2
    <3>1. IF pc["control"] = "busy"
          THEN /\ start["control"] <= Woken + SensorTicks + 2
               /\ tick + Spare <= start["control"] + ControlTicks + 1
          ELSE tick + Spare <= Woken + SensorTicks + 2
      BY <1>2, <1>13 DEF TimeInv
    <3>2. Waiting => pc["control"] = "busy" /\ tick - start["control"] < ControlTicks
      BY <1>1, <1>13, ControlWaits
    <3> QED
      BY <1>3, <1>4, <3>1, <3>2, ConstantsAre
  <2>3. tick' < last_wake
    <3>1. PICK s \in {0, 1} : s = Spare'
      BY <1>3
    <3>2. s \in Int /\ s >= 0
      BY <3>1
    <3>3. /\ tick' = tick + 1 /\ tick \in Int /\ Woken \in Int
          /\ start["control"] \in Int /\ last_wake \in Int
      BY <1>3, <1>4
    <3>4. tick' + s <= Woken + Work
      <4>1. CASE pc["control"] = "busy"
        <5>1. /\ start["control"] <= Woken + SensorTicks + 2
              /\ tick' + s <= start["control"] + ControlTicks + 1
          BY <2>2, <3>1, <4>1
        <5> QED
          BY <3>3, <3>2, <5>1, ConstantsAre
      <4>2. CASE pc["control"] # "busy"
        <5>1. tick' + s <= Woken + SensorTicks + 2
          BY <2>2, <3>1, <4>2
        <5> QED
          BY <3>3, <3>2, <5>1, ConstantsAre
      <4> QED
        BY <4>1, <4>2
    <3>5. Woken = last_wake - Period
      BY <2>1
    <3> QED
      BY <3>3, <3>4, <3>2, <3>5, ConstantsAre
  <2>4. Asleep' /\ ~ Quiet' /\ ~ Starting' /\ Woken' = Woken
    BY <1>3, <1>13, <2>1, <2>3 DEF Asleep, Starting, Woken, sensorLocals
  <2>5. PlaceInv'
    BY <1>2, <1>3, <2>1, <2>4 DEF PlaceInv, queues
  <2>6. TimeInv'
    <3>1. Woken <= tick'
      BY <1>3, <1>4, <1>8
    <3> QED
      BY <1>2, <1>3, <1>7, <1>13, <2>1, <2>2, <2>4, <3>1 DEF TimeInv, sensorLocals, stats
  <2> QED
    BY <1>10, <2>4, <2>5, <2>6
<1>14. CASE Asleep /\ Quiet
  <2>1. /\ pc["sensor"] = "delay" /\ tick < last_wake /\ Woken = last_wake - Period
        /\ Spare' \in {0, 1} /\ Quiet'
    BY <1>3, <1>14 DEF Asleep, Woken
  <2>2. CASE tick' < last_wake
    <3>1. Asleep' /\ ~ Starting' /\ Woken' = Woken
      BY <1>3, <1>14, <2>1, <2>2 DEF Asleep, Starting, Woken, sensorLocals
    <3>2. PlaceInv'
      BY <1>2, <1>3, <2>1, <3>1 DEF PlaceInv, queues
    <3>3. TimeInv'
      <4>1. Woken <= tick'
        BY <1>3, <1>4, <1>8
      <4> QED
        BY <1>2, <1>3, <1>7, <2>1, <3>1, <4>1 DEF TimeInv, sensorLocals, stats
    <3> QED
      BY <1>10, <1>14, <3>1, <3>2, <3>3
  <2>3. CASE ~ (tick' < last_wake)
    <3>1. tick' = last_wake
      BY <1>3, <1>4, <2>1, <2>3
    <3>2. ~ Asleep' /\ Starting' /\ Woken' = last_wake
      BY <1>3, <2>1, <2>3 DEF Asleep, Starting, Woken, sensorLocals
    <3>3. PlaceInv'
      BY <1>2, <1>3, <2>1, <3>2 DEF PlaceInv, queues
    <3>4. TimeInv'
      <4>1. tick' + Spare' <= last_wake + 1
        BY <1>3, <1>4, <3>1
      <4>2. last_wake <= tick'
        BY <1>4, <3>1
      <4> QED
        BY <1>2, <1>3, <1>7, <2>1, <3>2, <4>1, <4>2 DEF TimeInv, sensorLocals, stats
    <3>5. LogInv'
      <4>1. SUFFICES ASSUME pc["log"] = "busy", tick' > Due PROVE last_wake <= Due + 1
        BY <1>2, <1>3, <3>2 DEF LogInv
      <4>2. SUFFICES ASSUME tick > Due PROVE FALSE
        BY <1>3, <1>4, <3>1, <4>1
      <4>3. tick + Spare <= Due + 1 \/ tick + Spare <= Woken + Work
        BY <1>2, <1>14, <4>1, <4>2 DEF LogInv
      <4>4. ~ Waiting
        <5>1. tick >= Due
          BY <1>4, <4>2
        <5> QED
          BY <1>1, <1>14, <4>1, <5>1, NobodyWaits
      <4>5. Spare = 1
        BY <1>3, <4>4
      <4> QED
        BY <1>3, <1>4, <2>1, <3>1, <4>2, <4>3, <4>5, ConstantsAre
    <3> QED
      BY <3>3, <3>4, <3>5
  <2> QED
    BY <2>2, <2>3
<1> QED
  BY <1>11, <1>12, <1>13, <1>14 DEF Starting

-----------------------------------------------------------------------------
\* The invariant.

LEMMA RtosInit == Init => IInv
<1>1. SUFFICES ASSUME Init PROVE IInv
  OBVIOUS
<1>2. Tasks = {"sensor", "control", "log", "report"}
  BY DEF Tasks
<1>3. /\ pc \in [Tasks -> Labels] /\ pc["sensor"] = "first" /\ pc["control"] = "receive"
      /\ pc["log"] = "receive" /\ pc["report"] = "delay"
  BY <1>1, <1>2 DEF Init, Labels
<1>4. TypeOK
  <2>1. <<>> \in Seq(Nat) /\ Len(<<>>) = 0
    BY EmptySeq
  <2>2. tick \in 0 .. MaxTicks /\ start \in [Tasks -> 0 .. MaxTicks]
    BY <1>1, ConstantsAre DEF Init
  <2>3. readings \in Seq(Nat) /\ Len(readings) <= QueueLength
    BY <1>1, <2>1, ConstantsAre DEF Init
  <2>4. log_queue \in Seq(Nat) /\ Len(log_queue) <= QueueLength
    BY <1>1, <2>1, ConstantsAre DEF Init
  <2>5. {last_wake, now, control_r, lost, timeouts, sensor_runs, control_runs, log_runs,
         sensor_worst_gap, last_sensor_tick} \subseteq Nat
    BY <1>1 DEF Init
  <2>6. calm \in BOOLEAN /\ holder \in Tasks \cup {Nobody}
    BY <1>1 DEF Init
  <2> QED
    BY <1>3, <2>2, <2>3, <2>4, <2>5, <2>6 DEF TypeOK, Labels
<1>5. NoTimeout /\ lost = 0 /\ Len(readings) <= 1
  <2>1. Len(<<>>) = 0
    BY EmptySeq
  <2> QED
    BY <1>1, <2>1 DEF Init, NoTimeout
<1>6. GapBounded
  <2>1. 0 % Period = 0 /\ 0 <= Period + 1
    BY ConstantsAre
  <2> QED
    BY <1>1, <2>1 DEF Init, GapBounded
<1>7. ~ Asleep /\ Starting /\ Quiet /\ Spare = 0 /\ Woken = 0
  BY <1>1, <1>3 DEF Init, Asleep, Starting, Quiet, Spare, Woken
<1>8. PlaceInv
  <2>1. \A t \in Tasks : holder = t <=> pc[t] = "count"
    BY <1>1, <1>2, <1>3 DEF Init, Nobody
  <2> QED
    BY <1>1, <1>3, <1>7, <2>1 DEF Init, PlaceInv
<1>9. TimeInv
  <2>1. \A t \in Tasks : start[t] <= tick
    BY <1>1 DEF Init
  <2> QED
    BY <1>1, <1>3, <1>7, <2>1, ConstantsAre DEF Init, TimeInv
<1>10. LogInv
  BY <1>3 DEF LogInv
<1> QED
  BY <1>4, <1>5, <1>6, <1>8, <1>9, <1>10 DEF IInv, ReadingsKept

LEMMA RtosStutter == IInv /\ UNCHANGED vars => IInv'
<1>1. SUFFICES ASSUME IInv, UNCHANGED vars PROVE IInv'
  OBVIOUS
<1>2. /\ TypeOK /\ NoTimeout /\ lost = 0 /\ Len(readings) <= 1
      /\ GapBounded /\ PlaceInv /\ TimeInv /\ LogInv
  BY <1>1 DEF IInv, ReadingsKept
<1>3. AboveStay /\ BelowStay /\ pc' = pc /\ start' = start /\ holder' = holder
  BY <1>1 DEF vars, AboveStay, BelowStay
<1>4. Asleep' = Asleep /\ Starting' = Starting /\ Quiet' = Quiet /\ Woken' = Woken
  BY <1>3, AboveStayIs
<1>5. TypeOK' /\ NoTimeout' /\ lost' = 0 /\ Len(readings') <= 1
  BY <1>1, <1>2 DEF vars, TypeOK, NoTimeout
<1>6. PlaceInv'
  BY <1>1, <1>2, <1>3, <1>4 DEF vars, PlaceInv
<1>7. TimeInv' /\ GapBounded'
  BY <1>2, <1>3, TimeStays DEF TimeInv
<1>8. LogInv'
  BY <1>2, <1>3, <1>4, LogStays
<1> QED
  BY <1>5, <1>6, <1>7, <1>8 DEF IInv, ReadingsKept

LEMMA RtosNext == IInv /\ [Next]_vars => IInv'
<1>1. SUFFICES ASSUME IInv, [Next]_vars PROVE IInv'
  OBVIOUS
<1>2. CASE TickElapses
  BY <1>1, <1>2, RtosTick
<1>3. CASE \E t \in Tasks \ {"report"} : Take(t)
  <2>1. PICK t \in Tasks \ {"report"} : Take(t)
    BY <1>3
  <2>2. t = "sensor" \/ t = "control" \/ t = "log"
    BY DEF Tasks
  <2> QED
    BY <1>1, <2>1, <2>2, SensorTakes, ControlTakes, LogTakes
<1>4. CASE Sensor
  BY <1>1, <1>4, SensorFirsts, SensorNows, SensorCounts, SensorSends, SensorDelays,
     SensorWakes DEF Sensor
<1>5. CASE Control
  BY <1>1, <1>5, ControlReceives, ControlCounts, ControlSends DEF Control
<1>6. CASE Log
  BY <1>1, <1>6, LogReceives, LogCounts, LogEnds DEF Log
<1>7. CASE Report
  BY <1>1, <1>7, ReportPrints, ReportEnds DEF Report
<1>8. CASE UNCHANGED vars
  BY <1>1, <1>8, RtosStutter
<1>9. CASE Horizon
  BY <1>1, <1>9, RtosStutter DEF Horizon
<1> QED
  BY <1>1, <1>2, <1>3, <1>4, <1>5, <1>6, <1>7, <1>8, <1>9 DEF Next

\* Where every task is, what the sensor and the control task have in hand, and how
\* long each may have been at it: all of it holds in every state of every behaviour.
THEOREM RtosInvariance == Spec => []IInv
<1>1. Init => IInv
  BY RtosInit
<1>2. IInv /\ [Next]_vars => IInv'
  BY RtosNext
<1> QED
  BY <1>1, <1>2, PTL DEF Spec

\* The work of a period takes at most Work ticks, and a period is longer.
LEMMA PeriodIsServed == IInv => EveryPeriodServed
<1>1. SUFFICES ASSUME IInv PROVE Deadline
  BY DEF IInv, EveryPeriodServed
<1>2. TypeOK /\ PlaceInv /\ TimeInv
  BY <1>1 DEF IInv, ReadingsKept
<1>3. SUFFICES ASSUME pc["sensor"] \notin {"first", "delay"} PROVE tick < last_wake + Period
  BY DEF Deadline
<1>4. /\ tick \in Nat /\ last_wake \in Nat /\ start["sensor"] \in Nat /\ Spare \in {0, 1}
  BY <1>2, NumbersAre
<1>5. CASE pc["sensor"] = "busy"
  <2>1. /\ start["sensor"] <= last_wake + 1
        /\ tick + Spare <= start["sensor"] + SensorTicks + 1
    BY <1>2, <1>5 DEF TimeInv
  <2> QED
    BY <1>4, <2>1, ConstantsAre
<1>6. CASE pc["sensor"] # "busy"
  <2>1. tick + Spare <= last_wake + 1
    BY <1>2, <1>3, <1>6 DEF TimeInv, Starting, Asleep
  <2> QED
    BY <1>4, <2>1, ConstantsAre
<1> QED
  BY <1>5, <1>6

\* The sensor task finishes with every period before the next one begins: its take
\* does not time out behind the log task, whatever the report task prints, and the
\* control task takes every reading.
THEOREM EveryPeriodIsServed == Spec => []EveryPeriodServed
<1>1. Spec => []IInv
  BY RtosInvariance
<1>2. IInv => EveryPeriodServed
  BY PeriodIsServed
<1> QED
  BY <1>1, <1>2, PTL

\* After the log task's wait and a print are over, ticks pass only in the work of the
\* period under way and in that of the next one, at whose end nothing is left to do.
LEMMA LogIsNotStarved == IInv => LogNotStarved
<1>1. SUFFICES ASSUME IInv, pc["log"] = "busy"
               PROVE  tick - start["log"] <= LogTicks + PrintTicks + 2 * Period
  BY DEF LogNotStarved
<1>2. TypeOK /\ PlaceInv /\ TimeInv /\ LogInv
  BY <1>1 DEF IInv, ReadingsKept
<1>3. /\ tick \in Nat /\ last_wake \in Nat /\ start["log"] \in Nat /\ Spare \in {0, 1}
      /\ start["sensor"] \in Nat /\ start["control"] \in Nat /\ Woken \in Int /\ Due \in Nat
  BY <1>2, NumbersAre
<1>4. Due <= start["log"] + LogTicks + PrintTicks + Work + 1
  BY <1>1, <1>2 DEF LogInv
<1>5. CASE tick <= Due
  BY <1>3, <1>4, <1>5, ConstantsAre
<1>6. CASE tick > Due
  <2>1. /\ Woken <= Due + 1
        /\ Asleep /\ Quiet => tick + Spare <= Due + 1 \/ tick + Spare <= Woken + Work
    BY <1>1, <1>2, <1>6 DEF LogInv
  <2>2. tick <= Due + 1 + Work
    <3>1. CASE Starting
      <4>1. tick + Spare <= Woken + 1
        BY <1>2, <3>1 DEF Starting, Woken, TimeInv
      <4> QED
        BY <1>3, <2>1, <4>1, ConstantsAre
    <3>2. CASE pc["sensor"] = "busy"
      <4>1. Woken = last_wake
        BY <3>2 DEF Woken, Asleep
      <4>2. /\ start["sensor"] <= last_wake + 1
            /\ tick + Spare <= start["sensor"] + SensorTicks + 1
        BY <1>2, <3>2 DEF TimeInv
      <4> QED
        BY <1>3, <2>1, <4>1, <4>2, ConstantsAre
    <3>3. CASE Asleep /\ ~ Quiet
      <4>1. IF pc["control"] = "busy"
            THEN /\ start["control"] <= Woken + SensorTicks + 2
                 /\ tick + Spare <= start["control"] + ControlTicks + 1
            ELSE tick + Spare <= Woken + SensorTicks + 2
        BY <1>2, <3>3 DEF TimeInv
      <4> QED
        BY <1>3, <2>1, <4>1, ConstantsAre
    <3>4. CASE Asleep /\ Quiet
      BY <1>3, <2>1, <3>4, ConstantsAre
    <3> QED
      BY <3>1, <3>2, <3>3, <3>4 DEF Starting
  <2> QED
    BY <1>3, <1>4, <2>2, ConstantsAre
<1> QED
  BY <1>3, <1>5, <1>6

\* However often it is preempted, the log task ends its wait a bounded time late.
THEOREM LogIsServed == Spec => []LogNotStarved
<1>1. Spec => []IInv
  BY RtosInvariance
<1>2. IInv => LogNotStarved
  BY LogIsNotStarved
<1> QED
  BY <1>1, <1>2, PTL

-----------------------------------------------------------------------------
\* superloop.c

LEMMA CostsAre ==
    /\ Loop!Costs[1] = 2 /\ Loop!Costs[2] = 1 /\ Loop!Costs[3] = LOG_COST_TICKS
    /\ Loop!Costs[4] = 1 /\ Len(Loop!Costs) = 4 /\ Loop!Round = 4 + LOG_COST_TICKS
    /\ LOG_COST_TICKS \in Nat
    /\ \A j \in 1 .. 4 : Loop!Costs[j] \in Nat
<1>1. /\ Loop!Costs[1] = 2 /\ Loop!Costs[2] = 1 /\ Loop!Costs[3] = LOG_COST_TICKS
      /\ Loop!Costs[4] = 1 /\ Len(Loop!Costs) = 4 /\ Loop!Round = 4 + LOG_COST_TICKS
      /\ LOG_COST_TICKS \in Nat
  BY LoopAssumption DEF Loop!Costs, Loop!Round
<1>2. \A j \in 1 .. 4 : j = 1 \/ j = 2 \/ j = 3 \/ j = 4
  OBVIOUS
<1> QED
  BY <1>1, <1>2

\* Before, case by case, so that no CASE is left.
LEMMA BeforeIs ==
    Loop!TypeOK =>
    /\ ljob = 1 /\ (lstage # "call" \/ lruns = 0) => Loop!Before = 0
    /\ ljob = 1 /\ lstage = "call" /\ lruns # 0 => Loop!Before = Loop!Round
    /\ ljob = 2 => Loop!Before = 2
    /\ ljob = 3 => Loop!Before = 3
    /\ ljob = 4 => Loop!Before = 3 + LOG_COST_TICKS
    /\ Loop!Before \in Nat
<1>1. SUFFICES ASSUME Loop!TypeOK
               PROVE  /\ ljob = 1 /\ (lstage # "call" \/ lruns = 0) => Loop!Before = 0
                      /\ ljob = 1 /\ lstage = "call" /\ lruns # 0 => Loop!Before = Loop!Round
                      /\ ljob = 2 => Loop!Before = 2
                      /\ ljob = 3 => Loop!Before = 3
                      /\ ljob = 4 => Loop!Before = 3 + LOG_COST_TICKS
                      /\ Loop!Before \in Nat
  OBVIOUS
<1>2. ljob = 1 \/ ljob = 2 \/ ljob = 3 \/ ljob = 4
  BY <1>1 DEF Loop!TypeOK
<1>3. CASE ljob = 1
  BY <1>3, CostsAre DEF Loop!Before
<1>4. CASE ljob = 2
  BY <1>4, CostsAre DEF Loop!Before
<1>5. CASE ljob = 3
  BY <1>5, CostsAre DEF Loop!Before
<1>6. CASE ljob = 4
  BY <1>6, CostsAre DEF Loop!Before
<1> QED
  BY <1>2, <1>3, <1>4, <1>5, <1>6

LEMMA LoopInit == Loop!Init => Loop!IInv
<1>1. SUFFICES ASSUME Loop!Init PROVE Loop!IInv
  OBVIOUS
<1>2. Loop!TypeOK /\ Loop!GapIsSum
  <2>1. 0 <= Loop!Round + Len(Loop!Costs) + 1 /\ ~ (0 > 1)
    BY CostsAre
  <2>2. Loop!GapIsSum
    BY <1>1, <2>1 DEF Loop!Init, Loop!GapIsSum
  <2>3. Loop!TypeOK
    <3>1. /\ ltick = 0 /\ lcalm = FALSE /\ ljob = 1 /\ lstage = "call" /\ lstart = 0
          /\ llast = 0 /\ lworst = 0 /\ lruns = 0 /\ lgap = 0
      BY <1>1 DEF Loop!Init
    <3>2. {lstart, llast, lworst, lruns, lgap} \subseteq Nat
      BY <3>1
    <3>3. ltick \in Nat /\ ljob \in 1 .. 4 /\ lstage \in {"call", "wait", "busy"}
      BY <3>1
    <3>4. lcalm \in BOOLEAN
      BY <3>1
    <3> QED
      BY <3>2, <3>3, <3>4 DEF Loop!TypeOK
  <2> QED
    BY <2>2, <2>3
<1>3. Loop!Before = 0 /\ Loop!Begun = 0 /\ Loop!Spare = 0
  BY <1>1, <1>2, BeforeIs DEF Loop!Init, Loop!Begun, Loop!Spare
<1>4. Loop!TimeInv
  BY <1>1, <1>3 DEF Loop!Init, Loop!TimeInv
<1> QED
  BY <1>2, <1>4 DEF Loop!IInv

LEMMA LoopTick == Loop!IInv /\ Loop!TickElapses => Loop!IInv'
<1>1. SUFFICES ASSUME Loop!IInv, Loop!TickElapses PROVE Loop!IInv'
  OBVIOUS
<1>2. Loop!TypeOK /\ Loop!TimeInv /\ Loop!GapIsSum
  BY <1>1 DEF Loop!IInv
<1>3. /\ lcalm \/ Loop!Busy
      /\ ltick' = ltick + 1 /\ lcalm' = Loop!Busy
      /\ UNCHANGED <<ljob, lstage, lstart, llast, lworst, lruns, lgap>>
  BY <1>1 DEF Loop!TickElapses, Loop!statics
<1>4. Loop!TypeOK'
  BY <1>2, <1>3 DEF Loop!TypeOK, Loop!Busy
<1>5. Loop!GapIsSum'
  BY <1>2, <1>3 DEF Loop!GapIsSum
<1>6. Loop!Before' = Loop!Before /\ Loop!Begun' = Loop!Begun
  BY <1>3 DEF Loop!Before, Loop!Begun
<1>7. Loop!Before \in Nat /\ Loop!Costs[ljob] \in Nat /\ Loop!Begun \in Nat
  BY <1>2, BeforeIs, CostsAre DEF Loop!TypeOK, Loop!Begun
<1>8. Loop!TimeInv'
  <2>1. CASE lstage = "busy"
    <3>1. /\ Loop!Before <= lstart - llast /\ lstart - llast <= Loop!Before + Loop!Begun
          /\ lstart <= ltick /\ ltick + Loop!Spare - lstart <= Loop!Costs[ljob] + 1
          /\ lruns # 0
      BY <1>2, <2>1 DEF Loop!TimeInv
    <3>2. ltick + 1 + (IF lcalm' THEN 1 ELSE 0) - lstart <= Loop!Costs[ljob] + 1
      <4>1. CASE Loop!Busy
        <5>1. ltick - lstart < Loop!Costs[ljob] /\ lcalm' = TRUE
          BY <1>2, <1>3, <4>1 DEF Loop!Busy, Loop!TypeOK
        <5> QED
          BY <1>2, <1>7, <5>1 DEF Loop!TypeOK
      <4>2. CASE ~ Loop!Busy
        <5>1. lcalm = TRUE /\ lcalm' = FALSE
          BY <1>2, <1>3, <4>2 DEF Loop!Busy, Loop!TypeOK
        <5> QED
          BY <1>2, <1>7, <3>1, <5>1 DEF Loop!Spare, Loop!TypeOK
      <4> QED
        BY <4>1, <4>2
    <3> QED
      BY <1>2, <1>3, <1>6, <2>1, <3>1, <3>2 DEF Loop!TimeInv, Loop!Spare, Loop!TypeOK
  <2>2. CASE lstage # "busy"
    <3>1. lcalm = TRUE /\ lcalm' = FALSE
      BY <1>2, <1>3, <2>2 DEF Loop!Busy, Loop!TypeOK
    <3>2. lruns # 0
      BY <1>2, <3>1, <2>2 DEF Loop!TimeInv, Loop!Begun, Loop!Spare, Loop!Before, Loop!TypeOK
    <3> QED
      BY <1>2, <1>3, <1>6, <1>7, <2>2, <3>1, <3>2 DEF Loop!TimeInv, Loop!Spare, Loop!TypeOK
  <2> QED
    BY <2>1, <2>2
<1> QED
  BY <1>4, <1>5, <1>8 DEF Loop!IInv

LEMMA LoopStartJob == Loop!IInv /\ Loop!StartJob => Loop!IInv'
<1>1. SUFFICES ASSUME Loop!IInv, Loop!StartJob PROVE Loop!IInv'
  OBVIOUS
<1>2. Loop!TypeOK /\ Loop!TimeInv /\ Loop!GapIsSum
  BY <1>1 DEF Loop!IInv
<1>3. /\ lstage = "call" /\ lstage' = "wait"
      /\ UNCHANGED <<ltick, lcalm, ljob, lstart>>
      /\ IF ljob = 1
         THEN /\ lgap' = ltick - llast
              /\ lworst' = (IF lgap' > lworst THEN lgap' ELSE lworst)
              /\ llast' = ltick /\ lruns' = lruns + 1
         ELSE UNCHANGED <<llast, lworst, lruns, lgap>>
  BY <1>1 DEF Loop!StartJob, Loop!statics
<1>4. /\ Loop!Before \in Nat
      /\ Loop!Before <= ltick - llast
      /\ ltick + Loop!Spare - llast <= Loop!Before + Loop!Begun
      /\ lruns = 0 => ltick = 0 /\ llast = 0 /\ ljob = 1
  BY <1>2, <1>3, BeforeIs DEF Loop!TimeInv
<1>5. CASE ljob = 1
  <2>1. lruns # 0 => ltick - llast >= Loop!Round /\ ltick - llast <= Loop!Round + 5
    BY <1>2, <1>3, <1>4, <1>5, BeforeIs, CostsAre DEF Loop!Begun, Loop!Spare, Loop!TypeOK
  <2>2. ltick - llast \in Nat /\ ltick - llast <= Loop!Round + 5
    BY <1>2, <1>4, <2>1, CostsAre DEF Loop!TypeOK
  <2>3. Loop!TypeOK'
    BY <1>2, <1>3, <1>5, <2>2 DEF Loop!TypeOK
  <2>4. Loop!GapIsSum'
    <3>1. lruns' > 1 => lgap' >= Loop!Round /\ lgap' <= Loop!Round + 5
      BY <1>2, <1>3, <1>5, <2>1 DEF Loop!TypeOK
    <3>2. lworst' <= Loop!Round + 5
      BY <1>2, <1>3, <1>5, <2>2, CostsAre DEF Loop!GapIsSum, Loop!TypeOK
    <3>3. lgap' \in Nat /\ Loop!Round \in Nat
      BY <2>3, CostsAre DEF Loop!TypeOK
    <3> QED
      BY <3>1, <3>2, <3>3, CostsAre DEF Loop!GapIsSum
  <2>5. Loop!Before' = 0 /\ Loop!Begun' = 1 /\ lruns' # 0
    BY <1>2, <1>3, <1>5 DEF Loop!Before, Loop!Begun, Loop!TypeOK
  <2>6. Loop!TimeInv'
    BY <1>2, <1>3, <1>5, <2>5 DEF Loop!TimeInv, Loop!Spare, Loop!TypeOK
  <2> QED
    BY <2>3, <2>4, <2>6 DEF Loop!IInv
<1>6. CASE ljob # 1
  <2>1. Loop!TypeOK'
    BY <1>2, <1>3, <1>6 DEF Loop!TypeOK
  <2>2. Loop!GapIsSum'
    BY <1>2, <1>3, <1>6 DEF Loop!GapIsSum
  <2>3. Loop!Before' = Loop!Before /\ Loop!Begun' = Loop!Begun /\ Loop!Spare' = Loop!Spare
    <3>1. /\ ljob = 2 => Loop!Before' = 2 /\ Loop!Before = 2
          /\ ljob = 3 => Loop!Before' = 3 /\ Loop!Before = 3
          /\ ljob = 4 => Loop!Before' = 3 + LOG_COST_TICKS /\ Loop!Before = 3 + LOG_COST_TICKS
      BY <1>2, <1>3, <2>1, BeforeIs, CostsAre DEF Loop!Before
    <3>2. ljob = 2 \/ ljob = 3 \/ ljob = 4
      BY <1>2, <1>6 DEF Loop!TypeOK
    <3> QED
      BY <1>3, <1>6, <3>1, <3>2 DEF Loop!Begun, Loop!Spare
  <2>4. Loop!TimeInv'
    BY <1>2, <1>3, <1>4, <1>6, <2>3 DEF Loop!TimeInv
  <2> QED
    BY <2>1, <2>2, <2>4 DEF Loop!IInv
<1> QED
  BY <1>5, <1>6

LEMMA LoopBusyWait == Loop!IInv /\ Loop!BusyWait => Loop!IInv'
<1>1. SUFFICES ASSUME Loop!IInv, Loop!BusyWait PROVE Loop!IInv'
  OBVIOUS
<1>2. Loop!TypeOK /\ Loop!TimeInv /\ Loop!GapIsSum
  BY <1>1 DEF Loop!IInv
<1>3. /\ lstage = "wait" /\ lstage' = "busy" /\ lstart' = ltick
      /\ UNCHANGED <<ltick, lcalm, ljob, llast, lworst, lruns, lgap>>
  BY <1>1 DEF Loop!BusyWait, Loop!statics
<1>4. Loop!TypeOK' /\ Loop!GapIsSum'
  BY <1>2, <1>3 DEF Loop!TypeOK, Loop!GapIsSum
<1>5. Loop!Before' = Loop!Before /\ Loop!Begun' = Loop!Begun /\ Loop!Spare' = Loop!Spare
  BY <1>3 DEF Loop!Before, Loop!Begun, Loop!Spare
<1>6. Loop!Before \in Nat /\ Loop!Costs[ljob] \in Nat /\ Loop!Begun \in Nat
  BY <1>2, BeforeIs, CostsAre DEF Loop!TypeOK, Loop!Begun
<1>7. /\ Loop!Before <= ltick - llast /\ ltick + Loop!Spare - llast <= Loop!Before + Loop!Begun
      /\ lruns # 0 /\ Loop!Spare \in {0, 1}
  BY <1>2, <1>3 DEF Loop!TimeInv, Loop!Spare
<1>8. Loop!TimeInv'
  <2>1. ltick - llast <= Loop!Before + Loop!Begun
    BY <1>2, <1>6, <1>7 DEF Loop!TypeOK
  <2>2. ltick + Loop!Spare - ltick <= Loop!Costs[ljob] + 1 /\ ltick <= ltick
    BY <1>2, <1>6, <1>7 DEF Loop!TypeOK
  <2> QED
    BY <1>3, <1>5, <1>7, <2>1, <2>2 DEF Loop!TimeInv
<1> QED
  BY <1>4, <1>8 DEF Loop!IInv

LEMMA LoopEndJob == Loop!IInv /\ Loop!EndJob => Loop!IInv'
<1>1. SUFFICES ASSUME Loop!IInv, Loop!EndJob PROVE Loop!IInv'
  OBVIOUS
<1>2. Loop!TypeOK /\ Loop!TimeInv /\ Loop!GapIsSum
  BY <1>1 DEF Loop!IInv
<1>3. /\ lstage = "busy" /\ lstage' = "call" /\ ~ Loop!Busy
      /\ ljob' = (ljob % 4) + 1
      /\ UNCHANGED <<ltick, lcalm, lstart, llast, lworst, lruns, lgap>>
  BY <1>1, CostsAre DEF Loop!EndJob, Loop!statics
<1>4. ljob' = (IF ljob = 4 THEN 1 ELSE ljob + 1)
  BY <1>2, <1>3 DEF Loop!TypeOK
<1>5. Loop!TypeOK' /\ Loop!GapIsSum'
  BY <1>2, <1>3, <1>4 DEF Loop!TypeOK, Loop!GapIsSum
<1>6. Loop!Before \in Nat /\ Loop!Costs[ljob] \in Nat /\ Loop!Begun \in Nat
  BY <1>2, BeforeIs, CostsAre DEF Loop!TypeOK, Loop!Begun
<1>7. /\ Loop!Before <= lstart - llast /\ lstart - llast <= Loop!Before + Loop!Begun
      /\ lstart <= ltick /\ ltick + Loop!Spare - lstart <= Loop!Costs[ljob] + 1
      /\ lruns # 0 /\ Loop!Spare \in {0, 1} /\ Loop!Spare' = Loop!Spare
      /\ ltick - lstart >= Loop!Costs[ljob]
  BY <1>2, <1>3, <1>6 DEF Loop!TimeInv, Loop!Spare, Loop!Busy, Loop!TypeOK
<1>8. Loop!Before' = Loop!Before + Loop!Costs[ljob] /\ Loop!Begun' = Loop!Begun + 1
  <2>1. /\ ljob' = 1 => Loop!Before' = Loop!Round
        /\ ljob' = 2 => Loop!Before' = 2
        /\ ljob' = 3 => Loop!Before' = 3
        /\ ljob' = 4 => Loop!Before' = 3 + LOG_COST_TICKS
    BY <1>3, <1>7, CostsAre DEF Loop!Before
  <2>2. ljob = 1 \/ ljob = 2 \/ ljob = 3 \/ ljob = 4
    BY <1>2 DEF Loop!TypeOK
  <2>3. Loop!Before' = Loop!Before + Loop!Costs[ljob]
    BY <1>2, <1>3, <1>4, <1>7, <2>1, <2>2, BeforeIs, CostsAre
  <2>4. Loop!Begun' = Loop!Begun + 1
    BY <1>2, <1>3, <1>4, <1>7, <2>2 DEF Loop!Begun, Loop!TypeOK
  <2> QED
    BY <2>3, <2>4
<1>9. Loop!TimeInv'
  <2>1. Loop!Before' <= ltick - llast /\ ltick + Loop!Spare - llast <= Loop!Before' + Loop!Begun'
    BY <1>2, <1>6, <1>7, <1>8 DEF Loop!TypeOK
  <2> QED
    BY <1>3, <1>7, <2>1 DEF Loop!TimeInv
<1> QED
  BY <1>5, <1>9 DEF Loop!IInv

LEMMA LoopStutter ==
    Loop!IInv /\ UNCHANGED <<ltick, lcalm, ljob, lstage, lstart, llast, lworst, lruns, lgap>>
    => Loop!IInv'
<1>1. SUFFICES ASSUME Loop!IInv,
                      UNCHANGED <<ltick, lcalm, ljob, lstage, lstart, llast, lworst, lruns, lgap>>
               PROVE  Loop!IInv'
  OBVIOUS
<1>2. Loop!Before' = Loop!Before /\ Loop!Begun' = Loop!Begun /\ Loop!Spare' = Loop!Spare
  BY <1>1 DEF Loop!Before, Loop!Begun, Loop!Spare
<1> QED
  BY <1>1, <1>2 DEF Loop!IInv, Loop!TypeOK, Loop!TimeInv, Loop!GapIsSum

\* superloop.c: the invariant of the loop holds whichever program runs.
THEOREM LoopInvariance == SpecAll => []Loop!IInv
<1>1. InitAll => Loop!IInv
  BY LoopInit DEF InitAll
<1>2. Loop!IInv /\ [NextAll]_allVars => Loop!IInv'
  <2> SUFFICES ASSUME Loop!IInv, [NextAll]_allVars PROVE Loop!IInv'
    OBVIOUS
  <2>1. CASE Loop!Next
    BY <2>1, LoopTick, LoopStartJob, LoopBusyWait, LoopEndJob DEF Loop!Next
  <2>2. CASE UNCHANGED loopVars
    BY <2>2, LoopStutter DEF loopVars
  <2> QED
    BY <2>1, <2>2 DEF NextAll, allVars
<1> QED
  BY <1>1, <1>2, PTL DEF SpecAll

-----------------------------------------------------------------------------
\* protocol.c

\* A counter that wraps: one more, some more, and the difference of two values.
LEMMA OneMore ==
    ASSUME NEW w \in Nat \ {0}, NEW a \in 0 .. w - 1
    PROVE  (a + 1) % w = IF a + 1 = w THEN 0 ELSE a + 1
OBVIOUS

LEMMA SomeMore ==
    ASSUME NEW w \in Nat \ {0}, NEW a \in 0 .. w - 1, NEW n \in 0 .. w - 1
    PROVE  (a + n) % w = IF a + n >= w THEN a + n - w ELSE a + n
OBVIOUS

LEMMA Difference ==
    ASSUME NEW w \in Nat \ {0}, NEW a \in 0 .. w - 1, NEW b \in 0 .. w - 1
    PROVE  (a + w - b) % w = IF a >= b THEN a - b ELSE a + w - b
<1>1. CASE a >= b
  <2>1. a + w - b = (a - b) + w /\ a - b \in 0 .. w - 1
    BY <1>1
  <2>2. \A x \in 0 .. w - 1 : (x + w) % w = x
    OBVIOUS
  <2> QED
    BY <1>1, <2>1, <2>2
<1>2. CASE a < b
  <2>1. a + w - b \in 0 .. w - 1
    BY <1>2
  <2>2. \A x \in 0 .. w - 1 : x % w = x
    OBVIOUS
  <2> QED
    BY <1>2, <2>1, <2>2
<1> QED
  BY <1>1, <1>2

LEMMA ProtoConstants ==
    /\ Proto!Wrap \in Nat \ {0} /\ TIMEOUT_TICKS \in Nat /\ PollTicks \in Nat /\ IdleTicks \in Nat
    /\ FifoSize \in Nat /\ MaxLines \in Nat /\ PROTO_MAX_LINE \in Nat \ {0}
    /\ TIMEOUT_TICKS + PollTicks + IdleTicks < Proto!Wrap
    /\ Proto!Old = TIMEOUT_TICKS + PollTicks + IdleTicks + 1 /\ Proto!Old \in Nat
<1>1. /\ Proto!Wrap \in Nat /\ TIMEOUT_TICKS \in Nat /\ PollTicks \in Nat /\ IdleTicks \in Nat
      /\ FifoSize \in Nat /\ MaxLines \in Nat /\ PROTO_MAX_LINE \in Nat \ {0}
      /\ TIMEOUT_TICKS + PollTicks + IdleTicks < Proto!Wrap
  BY ProtocolAssumption DEF Proto!Wrap
<1>2. Proto!Old = TIMEOUT_TICKS + PollTicks + IdleTicks + 1
  BY DEF Proto!Old
<1> QED
  BY <1>1, <1>2

\* An age grows by one, and stops at Old.
LEMMA OlderIs ==
    \A n \in 0 .. Proto!Old :
        Proto!Older(n) = IF n = Proto!Old THEN Proto!Old ELSE n + 1
<1>1. TAKE n \in 0 .. Proto!Old
<1> DEFINE both == {n + 1, Proto!Old}
<1>2. Proto!Older(n) = CHOOSE x \in both : \A y \in both : x <= y
  BY DEF Proto!Older, Proto!Min
<1>3. Proto!Old \in Nat /\ n \in Nat
  BY ProtoConstants
<1>4. \E x \in both : \A y \in both : x <= y
  <2>1. CASE n + 1 <= Proto!Old
    BY <1>3, <2>1
  <2>2. CASE n + 1 >= Proto!Old
    BY <1>3, <2>2
  <2> QED
    BY <1>3, <2>1, <2>2
<1>5. Proto!Older(n) \in both /\ \A y \in both : Proto!Older(n) <= y
  <2> HIDE DEF both
  <2> QED
    BY <1>2, <1>4
<1> QED
  BY <1>3, <1>5

\* The ticks since the last byte, one tick or some ticks later.
LEMMA SinceLater ==
    ASSUME NEW a \in 0 .. Proto!Wrap - 1, plast \in 0 .. Proto!Wrap - 1
    PROVE  /\ Proto!Since(a) \in 0 .. Proto!Wrap - 1
           /\ \A n \in Nat : Proto!Since(a) + n < Proto!Wrap =>
                Proto!Since((a + n) % Proto!Wrap) = Proto!Since(a) + n
           /\ Proto!Since(plast) = 0
<1> DEFINE W == Proto!Wrap
<1>1. W \in Nat \ {0}
  BY ProtoConstants
<1>2. \A x \in 0 .. W - 1 : Proto!Since(x) = IF x >= plast THEN x - plast ELSE x + W - plast
  BY <1>1, Difference DEF Proto!Since
<1> HIDE DEF W
<1>3. Proto!Since(a) \in 0 .. W - 1 /\ Proto!Since(plast) = 0
  BY <1>1, <1>2 DEF W
<1>4. ASSUME NEW n \in Nat, Proto!Since(a) + n < W
      PROVE  Proto!Since((a + n) % W) = Proto!Since(a) + n
  <2>1. n \in 0 .. W - 1
    BY <1>1, <1>3, <1>4
  <2>2. (a + n) % W = IF a + n >= W THEN a + n - W ELSE a + n
    BY <1>1, <2>1, SomeMore DEF W
  <2>3. (a + n) % W \in 0 .. W - 1
    BY <1>1, <2>1, <2>2 DEF W
  <2>4. Proto!Since((a + n) % W) =
          LET t == (a + n) % W IN IF t >= plast THEN t - plast ELSE t + W - plast
    BY <1>2, <2>3
  <2> QED
    BY <1>1, <1>2, <1>4, <2>1, <2>2, <2>4 DEF W
<1> QED
  BY <1>3, <1>4 DEF W

LEMMA ProtoInit == Proto!Init => Proto!IInv
<1>1. SUFFICES ASSUME Proto!Init PROVE Proto!IInv
  OBVIOUS
<1>2. Proto!TypeOK
  <2>1. /\ ptick \in {0, Proto!Wrap - 1} /\ pfifo = <<>> /\ pline = <<>> /\ plast = 0
        /\ phandled = 0 /\ plaststatus = "OK" /\ pstatus = "OK" /\ ppolling = FALSE
        /\ pnow = 0 /\ pspent = 0 /\ page = 0 /\ pkept = 0
    BY <1>1 DEF Proto!Init
  <2>2. /\ ptick \in 0 .. Proto!Wrap - 1 /\ pnow \in 0 .. Proto!Wrap - 1
        /\ plast \in 0 .. Proto!Wrap - 1
        /\ phandled \in 0 .. MaxLines /\ pspent \in 0 .. IdleTicks
        /\ page \in 0 .. Proto!Old /\ pkept \in 0 .. Proto!Old
    BY <2>1, ProtoConstants
  <2>3. /\ pfifo \in Seq([byte : {"a", "newline"}, age : 0 .. Proto!Old])
        /\ Len(pfifo) <= FifoSize /\ pline \in Seq({"a"})
    BY <2>1, ProtoConstants
  <2> QED
    BY <2>1, <2>2, <2>3 DEF Proto!TypeOK
<1>3. Proto!SilenceInv
  BY <1>1 DEF Proto!Init, Proto!SilenceInv
<1>4. Proto!TimeoutIsSilence
  <2>1. pline = <<>> /\ pstatus = "OK" /\ Len(pline) < PROTO_MAX_LINE
    BY <1>1, ProtoConstants DEF Proto!Init
  <2> QED
    BY <2>1 DEF Proto!TimeoutIsSilence
<1> QED
  BY <1>2, <1>3, <1>4 DEF Proto!IInv

LEMMA ProtoTick == Proto!IInv /\ Proto!TickPasses => Proto!IInv'
<1>1. SUFFICES ASSUME Proto!IInv, Proto!TickPasses PROVE Proto!IInv'
  OBVIOUS
<1>2. Proto!TypeOK /\ Proto!SilenceInv /\ Proto!TimeoutIsSilence
  BY <1>1 DEF Proto!IInv
<1>3. /\ pspent < (IF ppolling THEN PollTicks ELSE IdleTicks)
      /\ ptick' = (ptick + 1) % Proto!Wrap /\ pspent' = pspent + 1
      /\ pfifo' = [k \in DOMAIN pfifo |-> [pfifo[k] EXCEPT !.age = Proto!Older(@)]]
      /\ page' = Proto!Older(page) /\ pkept' = Proto!Older(pkept)
      /\ UNCHANGED <<pline, plast, phandled, plaststatus, ppolling, pnow, pstatus>>
  BY <1>1 DEF Proto!TickPasses, Proto!proto
<1>4. /\ ptick \in 0 .. Proto!Wrap - 1 /\ pnow \in 0 .. Proto!Wrap - 1
      /\ plast \in 0 .. Proto!Wrap - 1
      /\ pspent \in Nat /\ pspent' \in Nat /\ ppolling \in BOOLEAN
      /\ ppolling => pspent' <= PollTicks
      /\ ~ ppolling => pspent' <= IdleTicks
      /\ page \in 0 .. Proto!Old /\ pkept \in 0 .. Proto!Old
  <2>1. /\ ptick \in 0 .. Proto!Wrap - 1 /\ pnow \in 0 .. Proto!Wrap - 1
        /\ plast \in 0 .. Proto!Wrap - 1 /\ page \in 0 .. Proto!Old /\ pkept \in 0 .. Proto!Old
        /\ pspent \in 0 .. (IF ppolling THEN PollTicks ELSE IdleTicks)
    BY <1>2 DEF Proto!TypeOK
  <2>2. ppolling \in BOOLEAN
    BY <1>2 DEF Proto!TypeOK
  <2>3. CASE ppolling
    BY <1>3, <2>1, <2>2, <2>3, ProtoConstants
  <2>4. CASE ~ ppolling
    BY <1>3, <2>1, <2>2, <2>4, ProtoConstants
  <2> QED
    BY <2>3, <2>4
<1>5. ptick' \in 0 .. Proto!Wrap - 1
  BY <1>3, <1>4, ProtoConstants
<1>6. /\ page' \in 0 .. Proto!Old /\ pkept' \in 0 .. Proto!Old
      /\ page' = page + 1 \/ page' = Proto!Old
      /\ pkept' <= pkept + 1
  BY <1>3, <1>4, OlderIs, ProtoConstants
<1>7. pfifo' \in Seq([byte : {"a", "newline"}, age : 0 .. Proto!Old]) /\ Len(pfifo') = Len(pfifo)
  <2> DEFINE Cells == [byte : {"a", "newline"}, age : 0 .. Proto!Old]
  <2>1. pfifo \in Seq(Cells)
    BY <1>2 DEF Proto!TypeOK
  <2>2. /\ DOMAIN pfifo = 1 .. Len(pfifo) /\ Len(pfifo) \in Nat
        /\ \A k \in DOMAIN pfifo : pfifo[k] \in Cells
    <3> HIDE DEF Cells
    <3> QED
      BY <2>1, LenProperties, ElementOfSeq
  <2>3. \A c \in Cells : [c EXCEPT !.age = Proto!Older(@)] \in Cells
    BY OlderIs, ProtoConstants
  <2>4. pfifo' \in [1 .. Len(pfifo) -> Cells]
    BY <1>3, <2>2, <2>3
  <2> HIDE DEF Cells
  <2>5. pfifo' \in Seq(Cells)
    BY <2>2, <2>4, SeqDef
  <2>6. Len(pfifo') = Len(pfifo)
    BY <2>2, <2>4, <2>5, LenProperties
  <2> QED
    BY <2>5, <2>6 DEF Cells
<1>8. Proto!TypeOK'
  BY <1>2, <1>3, <1>4, <1>5, <1>6, <1>7 DEF Proto!TypeOK
<1>9. Proto!TimeoutIsSilence'
  BY <1>2, <1>3, <1>4 DEF Proto!TimeoutIsSilence
<1>10. ppolling => ptick' = (pnow + pspent') % Proto!Wrap
  <2>1. SUFFICES ASSUME ppolling PROVE ptick' = (pnow + pspent') % Proto!Wrap
    OBVIOUS
  <2>2. ptick = (pnow + pspent) % Proto!Wrap
    BY <1>2, <2>1 DEF Proto!SilenceInv
  <2>3. pspent' \in 0 .. Proto!Wrap - 1 /\ pspent \in 0 .. Proto!Wrap - 1
    BY <1>3, <1>4, <2>1, ProtoConstants
  <2>4. /\ (pnow + pspent') % Proto!Wrap = (IF pnow + pspent' >= Proto!Wrap
                                         THEN pnow + pspent' - Proto!Wrap ELSE pnow + pspent')
        /\ ptick = (IF pnow + pspent >= Proto!Wrap
                    THEN pnow + pspent - Proto!Wrap ELSE pnow + pspent)
    BY <1>4, <2>2, <2>3, SomeMore, ProtoConstants
  <2>5. ptick' = IF ptick + 1 = Proto!Wrap THEN 0 ELSE ptick + 1
    BY <1>3, <1>4, OneMore, ProtoConstants
  <2> HIDE DEF Proto!Wrap
  <2> QED
    BY <1>3, <1>4, <2>4, <2>5, ProtoConstants
<1>11. ASSUME pline # <<>>
       PROVE  /\ page' + PollTicks >= Proto!Elapsed' /\ pkept' <= Proto!Elapsed'
              /\ ppolling => Proto!Since(pnow)' <= TIMEOUT_TICKS + PollTicks + IdleTicks
              /\ ~ ppolling => Proto!Since(ptick)' <= TIMEOUT_TICKS + PollTicks + pspent'
  <2>1. /\ page + PollTicks >= Proto!Elapsed /\ pkept <= Proto!Elapsed
        /\ ppolling => Proto!Since(pnow) <= TIMEOUT_TICKS + PollTicks + IdleTicks
        /\ ~ ppolling => Proto!Since(ptick) <= TIMEOUT_TICKS + PollTicks + pspent
    BY <1>2, <1>11 DEF Proto!SilenceInv
  <2>2. CASE ppolling
    <3>1. Proto!Elapsed = Proto!Since(pnow) + pspent /\ Proto!Elapsed' = Proto!Since(pnow) + pspent'
          /\ Proto!Since(pnow)' = Proto!Since(pnow)
      BY <1>3, <2>2 DEF Proto!Elapsed, Proto!Since
    <3>2. Proto!Since(pnow) \in Nat
      BY <1>4, SinceLater, ProtoConstants
    <3> QED
      BY <1>3, <1>4, <1>6, <2>1, <2>2, <3>1, <3>2, ProtoConstants
  <2>3. CASE ~ ppolling
    <3>1. Proto!Since(ptick) + 1 < Proto!Wrap /\ Proto!Since(ptick) \in Nat
      BY <1>3, <1>4, <2>1, <2>3, SinceLater, ProtoConstants
    <3>2. Proto!Since((ptick + 1) % Proto!Wrap) = Proto!Since(ptick) + 1
      BY <1>4, <3>1, SinceLater
    <3>3. Proto!Since(ptick)' = Proto!Since((ptick + 1) % Proto!Wrap)
      BY <1>3 DEF Proto!Since
    <3>4. Proto!Elapsed = Proto!Since(ptick) /\ Proto!Elapsed' = Proto!Since(ptick)'
      BY <1>3, <2>3 DEF Proto!Elapsed
    <3> QED
      BY <1>3, <1>4, <1>6, <2>1, <2>3, <3>1, <3>2, <3>3, <3>4, ProtoConstants
  <2> QED
    BY <1>4, <2>2, <2>3
<1>12. Proto!SilenceInv'
  BY <1>3, <1>10, <1>11 DEF Proto!SilenceInv
<1> QED
  BY <1>8, <1>9, <1>12 DEF Proto!IInv

LEMMA ProtoArrive == \A b \in {"a", "newline"} : Proto!IInv /\ Proto!Arrive(b) => Proto!IInv'
<1>1. SUFFICES ASSUME NEW b \in {"a", "newline"}, Proto!IInv, Proto!Arrive(b) PROVE Proto!IInv'
  OBVIOUS
<1>2. Proto!TypeOK /\ Proto!SilenceInv /\ Proto!TimeoutIsSilence
  BY <1>1 DEF Proto!IInv
<1>3. /\ Len(pfifo) < FifoSize /\ pfifo' = Append(pfifo, [byte |-> b, age |-> 0])
      /\ UNCHANGED <<ptick, pline, plast, phandled, plaststatus, ppolling, pnow, pstatus,
                     pspent, page, pkept>>
  BY <1>1 DEF Proto!Arrive, Proto!proto
<1>4. pfifo' \in Seq([byte : {"a", "newline"}, age : 0 .. Proto!Old]) /\ Len(pfifo') <= FifoSize
  <2> DEFINE Cells == [byte : {"a", "newline"}, age : 0 .. Proto!Old]
  <2>1. [byte |-> b, age |-> 0] \in Cells /\ pfifo \in Seq(Cells)
    BY <1>2, ProtoConstants DEF Proto!TypeOK
  <2> HIDE DEF Cells
  <2>2. pfifo' \in Seq(Cells) /\ Len(pfifo') = Len(pfifo) + 1 /\ Len(pfifo) \in Nat
    BY <1>3, <2>1
  <2> QED
    BY <1>3, <2>2, ProtoConstants DEF Cells
<1>5. Proto!TypeOK'
  BY <1>2, <1>3, <1>4 DEF Proto!TypeOK
<1>6. Proto!SilenceInv'
  BY <1>2, <1>3 DEF Proto!SilenceInv, Proto!Elapsed, Proto!Since
<1>7. Proto!TimeoutIsSilence'
  BY <1>2, <1>3 DEF Proto!TimeoutIsSilence
<1> QED
  BY <1>5, <1>6, <1>7 DEF Proto!IInv

LEMMA ProtoPoll == Proto!IInv /\ Proto!Poll => Proto!IInv'
<1>1. SUFFICES ASSUME Proto!IInv, Proto!Poll PROVE Proto!IInv'
  OBVIOUS
<1>2. Proto!TypeOK /\ Proto!SilenceInv /\ Proto!TimeoutIsSilence
  BY <1>1 DEF Proto!IInv
<1>3. /\ ~ ppolling /\ ppolling' = TRUE /\ pnow' = ptick /\ pspent' = 0
      /\ UNCHANGED <<ptick, pfifo, pline, plast, phandled, plaststatus, pstatus, page, pkept>>
  BY <1>1 DEF Proto!Poll, Proto!proto
<1>4. ptick \in 0 .. Proto!Wrap - 1 /\ plast \in 0 .. Proto!Wrap - 1 /\ pspent \in 0 .. IdleTicks
  BY <1>2, <1>3 DEF Proto!TypeOK
<1>5. Proto!TypeOK'
  BY <1>2, <1>3, ProtoConstants DEF Proto!TypeOK
<1>6. Proto!TimeoutIsSilence'
  BY <1>2, <1>3 DEF Proto!TimeoutIsSilence
<1>7. Proto!SilenceInv'
  <2>1. ptick = (ptick + 0) % Proto!Wrap
    BY <1>4, SomeMore, ProtoConstants
  <2>2. Proto!Since(pnow)' = Proto!Since(ptick) /\ Proto!Since(ptick) \in Nat
    BY <1>3, <1>4, SinceLater, ProtoConstants DEF Proto!Since
  <2>3. Proto!Elapsed' = Proto!Since(ptick) /\ Proto!Elapsed = Proto!Since(ptick)
    BY <1>3, <2>2 DEF Proto!Elapsed
  <2>4. pline # <<>> => Proto!Since(pnow)' <= TIMEOUT_TICKS + PollTicks + IdleTicks
    BY <1>2, <1>3, <1>4, <2>2, ProtoConstants DEF Proto!SilenceInv
  <2> QED
    BY <1>2, <1>3, <2>1, <2>3, <2>4 DEF Proto!SilenceInv
<1> QED
  BY <1>5, <1>6, <1>7 DEF Proto!IInv

\* What the three cases of a byte have in common.
LEMMA ProtoRead ==
    Proto!IInv /\ Proto!Read =>
    /\ pfifo' \in Seq([byte : {"a", "newline"}, age : 0 .. Proto!Old]) /\ Len(pfifo') <= FifoSize
    /\ Head(pfifo).byte \in {"a", "newline"}
    /\ page' \in 0 .. Proto!Old /\ pkept' \in 0 .. Proto!Old
    /\ plast' \in 0 .. Proto!Wrap - 1
    /\ pkept' = 0 /\ page' \in Nat /\ plast' = pnow
    /\ UNCHANGED <<ptick, pnow>> /\ ppolling /\ pspent \in 0 .. PollTicks
    /\ ptick' = (pnow' + pspent) % Proto!Wrap
    /\ Proto!Since(pnow)' = 0
<1>1. SUFFICES ASSUME Proto!IInv, Proto!Read
      PROVE /\ pfifo' \in Seq([byte : {"a", "newline"}, age : 0 .. Proto!Old])
            /\ Len(pfifo') <= FifoSize
            /\ Head(pfifo).byte \in {"a", "newline"}
            /\ page' \in 0 .. Proto!Old /\ pkept' \in 0 .. Proto!Old
            /\ plast' \in 0 .. Proto!Wrap - 1
            /\ pkept' = 0 /\ page' \in Nat /\ plast' = pnow
            /\ UNCHANGED <<ptick, pnow>> /\ ppolling /\ pspent \in 0 .. PollTicks
            /\ ptick' = (pnow' + pspent) % Proto!Wrap
            /\ Proto!Since(pnow)' = 0
  OBVIOUS
<1> DEFINE Cells == [byte : {"a", "newline"}, age : 0 .. Proto!Old]
<1>2. Proto!TypeOK /\ Proto!SilenceInv
  BY <1>1 DEF Proto!IInv
<1>3. /\ ppolling /\ pfifo # <<>> /\ pfifo' = Tail(pfifo) /\ page' = Head(pfifo).age
      /\ pkept' = 0 /\ plast' = pnow /\ UNCHANGED <<ptick, pnow>>
  BY <1>1 DEF Proto!Read
<1>4. pfifo \in Seq(Cells) /\ Len(pfifo) <= FifoSize
  BY <1>2 DEF Proto!TypeOK
<1>5. Head(pfifo) \in Cells /\ pfifo' \in Seq(Cells) /\ Len(pfifo') <= FifoSize
  <2> HIDE DEF Cells
  <2>1. Head(pfifo) \in Cells /\ pfifo' \in Seq(Cells) /\ Len(pfifo') = Len(pfifo) - 1
    BY <1>3, <1>4, HeadTailProperties
  <2>2. Len(pfifo) \in Nat
    BY <1>4
  <2> QED
    BY <1>4, <2>1, <2>2, ProtoConstants
<1>6. page' \in 0 .. Proto!Old /\ pkept' \in 0 .. Proto!Old
  BY <1>3, <1>5, ProtoConstants
<1>7. pnow \in 0 .. Proto!Wrap - 1 /\ pspent \in 0 .. PollTicks
  BY <1>2, <1>3 DEF Proto!TypeOK
<1>8. ptick = (pnow + pspent) % Proto!Wrap
  BY <1>2, <1>3 DEF Proto!SilenceInv
<1>9. Proto!Since(pnow)' = 0
  <2>1. Proto!Since(pnow)' = (pnow + Proto!Wrap - pnow) % Proto!Wrap
    BY <1>3 DEF Proto!Since
  <2> QED
    BY <1>7, <2>1, Difference, ProtoConstants
<1> QED
  BY <1>3, <1>5, <1>6, <1>7, <1>8, <1>9, ProtoConstants

\* After a byte that leaves the poll going on.
LEMMA ProtoByte ==
    /\ Proto!IInv /\ Proto!Read
    /\ UNCHANGED <<plaststatus, pstatus, ppolling, pspent>>
    /\ pline' \in Seq({"a"}) /\ Len(pline') < PROTO_MAX_LINE /\ phandled' \in 0 .. MaxLines
    => Proto!IInv'
<1>1. SUFFICES ASSUME Proto!IInv, Proto!Read,
                      UNCHANGED <<plaststatus, pstatus, ppolling, pspent>>,
                      pline' \in Seq({"a"}), Len(pline') < PROTO_MAX_LINE,
                      phandled' \in 0 .. MaxLines
               PROVE  Proto!IInv'
  OBVIOUS
<1>2. Proto!TypeOK /\ Proto!TimeoutIsSilence
  BY <1>1 DEF Proto!IInv
<1>3. /\ pfifo' \in Seq([byte : {"a", "newline"}, age : 0 .. Proto!Old]) /\ Len(pfifo') <= FifoSize
      /\ page' \in 0 .. Proto!Old /\ pkept' \in 0 .. Proto!Old
      /\ plast' \in 0 .. Proto!Wrap - 1
      /\ pkept' = 0 /\ page' \in Nat
      /\ UNCHANGED <<ptick, pnow>> /\ ppolling /\ pspent \in 0 .. PollTicks
      /\ ptick' = (pnow' + pspent) % Proto!Wrap
      /\ Proto!Since(pnow)' = 0
  BY <1>1, ProtoRead, ProtoConstants
<1>4. Proto!TypeOK'
  BY <1>1, <1>2, <1>3 DEF Proto!TypeOK
<1>5. Proto!TimeoutIsSilence'
  BY <1>1, <1>2, <1>3 DEF Proto!TimeoutIsSilence
<1>6. Proto!SilenceInv'
  <2>1. ppolling' /\ pspent' = pspent
    BY <1>1, <1>3
  <2>2. Proto!Elapsed' = 0 + pspent
    BY <1>3, <2>1 DEF Proto!Elapsed
  <2>3. page' + PollTicks >= Proto!Elapsed' /\ pkept' <= Proto!Elapsed'
    <3>1. pspent \in Nat /\ pspent <= PollTicks /\ PollTicks \in Nat
      BY <1>3, ProtoConstants
    <3>2. page' \in Nat /\ pkept' = 0
      BY <1>3
    <3>3. \A n \in Nat : n + PollTicks >= pspent
      BY <3>1
    <3>4. Proto!Elapsed' = pspent
      BY <2>2, <3>1
    <3>5. page' + PollTicks >= pspent
      BY <3>2, <3>3
    <3>6. pkept' <= pspent
      BY <3>1, <3>2
    <3> QED
      BY <3>4, <3>5, <3>6
  <2>4. Proto!Since(pnow)' <= TIMEOUT_TICKS + PollTicks + IdleTicks
    BY <1>3, ProtoConstants
  <2> QED
    BY <1>3, <2>1, <2>3, <2>4 DEF Proto!SilenceInv
<1> QED
  BY <1>4, <1>5, <1>6 DEF Proto!IInv

LEMMA ProtoReadNewline == Proto!IInv /\ Proto!ReadNewline => Proto!IInv'
<1>1. SUFFICES ASSUME Proto!IInv, Proto!ReadNewline PROVE Proto!IInv'
  OBVIOUS
<1>2. /\ Proto!Read /\ phandled < MaxLines /\ phandled' = phandled + 1 /\ pline' = <<>>
      /\ UNCHANGED <<plaststatus, pstatus, ppolling, pspent>>
  BY <1>1 DEF Proto!ReadNewline
<1>3. phandled \in 0 .. MaxLines
  BY <1>1 DEF Proto!IInv, Proto!TypeOK
<1>4. pline' \in Seq({"a"}) /\ Len(pline') = 0
  BY <1>2
<1>5. Len(pline') < PROTO_MAX_LINE /\ phandled' \in 0 .. MaxLines
  BY <1>2, <1>3, <1>4, ProtoConstants
<1> QED
  BY <1>1, <1>2, <1>4, <1>5, ProtoByte

LEMMA ProtoReadByte == Proto!IInv /\ Proto!ReadByte => Proto!IInv'
<1>1. SUFFICES ASSUME Proto!IInv, Proto!ReadByte PROVE Proto!IInv'
  OBVIOUS
<1>2. /\ Proto!Read /\ Head(pfifo).byte # "newline" /\ ~ Proto!Full
      /\ pline' = Append(pline, Head(pfifo).byte)
      /\ UNCHANGED <<phandled, plaststatus, pstatus, ppolling, pspent>>
  BY <1>1 DEF Proto!ReadByte
<1>3. Head(pfifo).byte = "a"
  BY <1>1, <1>2, ProtoRead, ProtoConstants
<1>4. phandled' \in 0 .. MaxLines /\ pline \in Seq({"a"}) /\ Len(pline) < PROTO_MAX_LINE - 1
  <2>1. phandled \in 0 .. MaxLines /\ pline \in Seq({"a"})
    BY <1>1 DEF Proto!IInv, Proto!TypeOK
  <2> QED
    BY <1>2, <2>1, ProtoConstants DEF Proto!Full
<1>5. pline' \in Seq({"a"}) /\ Len(pline') = Len(pline) + 1 /\ Len(pline) \in Nat
  BY <1>2, <1>3, <1>4
<1>6. Len(pline') < PROTO_MAX_LINE
  BY <1>4, <1>5, ProtoConstants
<1> QED
  BY <1>1, <1>2, <1>4, <1>5, <1>6, ProtoByte

LEMMA ProtoOverflow == Proto!IInv /\ Proto!Overflow => Proto!IInv'
<1>1. SUFFICES ASSUME Proto!IInv, Proto!Overflow PROVE Proto!IInv'
  OBVIOUS
<1>2. Proto!TypeOK /\ Proto!TimeoutIsSilence
  BY <1>1 DEF Proto!IInv
<1>3. /\ Proto!Read /\ pline' = <<>> /\ ppolling' = FALSE /\ pspent' = 0
      /\ pstatus' = "OVERFLOW" /\ plaststatus' = "OVERFLOW" /\ UNCHANGED phandled
  BY <1>1 DEF Proto!Overflow, Proto!Ended
<1>4. /\ pfifo' \in Seq([byte : {"a", "newline"}, age : 0 .. Proto!Old]) /\ Len(pfifo') <= FifoSize
      /\ page' \in 0 .. Proto!Old /\ pkept' \in 0 .. Proto!Old
      /\ plast' \in 0 .. Proto!Wrap - 1 /\ UNCHANGED <<ptick, pnow>>
  BY <1>1, <1>3, ProtoRead, ProtoConstants
<1>5. pline' \in Seq({"a"}) /\ Len(pline') < PROTO_MAX_LINE /\ pspent' \in 0 .. IdleTicks
  BY <1>3, ProtoConstants
<1>6. Proto!TypeOK'
  BY <1>2, <1>3, <1>4, <1>5 DEF Proto!TypeOK
<1>7. Proto!TimeoutIsSilence'
  BY <1>3, <1>5 DEF Proto!TimeoutIsSilence
<1>8. Proto!SilenceInv'
  BY <1>3 DEF Proto!SilenceInv
<1> QED
  BY <1>6, <1>7, <1>8 DEF Proto!IInv

\* The ticks since the last byte, when a poll ends.
LEMMA ProtoEnd ==
    Proto!IInv /\ ppolling /\ Proto!Since(pnow) + pspent < Proto!Wrap
    => Proto!Since(ptick) = Proto!Since(pnow) + pspent
<1>1. SUFFICES ASSUME Proto!IInv, ppolling, Proto!Since(pnow) + pspent < Proto!Wrap
               PROVE  Proto!Since(ptick) = Proto!Since(pnow) + pspent
  OBVIOUS
<1>2. pnow \in 0 .. Proto!Wrap - 1 /\ plast \in 0 .. Proto!Wrap - 1 /\ pspent \in 0 .. PollTicks
  BY <1>1 DEF Proto!IInv, Proto!TypeOK
<1>3. ptick = (pnow + pspent) % Proto!Wrap
  BY <1>1 DEF Proto!IInv, Proto!SilenceInv
<1>4. pspent \in Nat
  BY <1>2, ProtoConstants
<1> QED
  BY <1>1, <1>2, <1>3, <1>4, SinceLater

LEMMA ProtoTimeout == Proto!IInv /\ Proto!Timeout => Proto!IInv'
<1>1. SUFFICES ASSUME Proto!IInv, Proto!Timeout PROVE Proto!IInv'
  OBVIOUS
<1>2. Proto!TypeOK /\ Proto!TimeoutIsSilence /\ Proto!SilenceInv
  BY <1>1 DEF Proto!IInv
<1>3. /\ ppolling /\ pline # <<>> /\ Proto!Silent
      /\ pline' = <<>> /\ ppolling' = FALSE /\ pspent' = 0
      /\ pstatus' = "TIMEOUT" /\ plaststatus' = "TIMEOUT"
      /\ UNCHANGED <<ptick, pfifo, plast, phandled, pnow, page, pkept>>
  BY <1>1 DEF Proto!Timeout, Proto!Ended
<1>4. pline' \in Seq({"a"}) /\ Len(pline') < PROTO_MAX_LINE /\ pspent' \in 0 .. IdleTicks
  BY <1>3, ProtoConstants
<1>5. Proto!TypeOK'
  BY <1>2, <1>3, <1>4 DEF Proto!TypeOK
<1>6. page > TIMEOUT_TICKS - PollTicks
  <2>1. page + PollTicks >= Proto!Since(pnow) + pspent
    BY <1>2, <1>3 DEF Proto!SilenceInv, Proto!Elapsed
  <2>2. Proto!Since(pnow) > TIMEOUT_TICKS
    BY <1>3 DEF Proto!Silent, Proto!Since
  <2>3. /\ pnow \in 0 .. Proto!Wrap - 1 /\ plast \in 0 .. Proto!Wrap - 1
        /\ pspent \in 0 .. PollTicks /\ page \in 0 .. Proto!Old
    BY <1>2, <1>3 DEF Proto!TypeOK
  <2>4. Proto!Since(pnow) \in Nat /\ pspent \in Nat /\ page \in Nat
    BY <2>3, SinceLater, ProtoConstants
  <2> QED
    BY <2>1, <2>2, <2>4, ProtoConstants
<1>7. Proto!TimeoutIsSilence'
  BY <1>3, <1>4, <1>6 DEF Proto!TimeoutIsSilence
<1>8. Proto!SilenceInv'
  BY <1>3 DEF Proto!SilenceInv
<1> QED
  BY <1>5, <1>7, <1>8 DEF Proto!IInv

LEMMA ProtoReturn == Proto!IInv /\ Proto!Return => Proto!IInv'
<1>1. SUFFICES ASSUME Proto!IInv, Proto!Return PROVE Proto!IInv'
  OBVIOUS
<1>2. Proto!TypeOK /\ Proto!TimeoutIsSilence /\ Proto!SilenceInv
  BY <1>1 DEF Proto!IInv
<1>3. /\ ppolling /\ ~ (pline # <<>> /\ Proto!Silent)
      /\ ppolling' = FALSE /\ pspent' = 0
      /\ pstatus' = "OK" /\ plaststatus' = plaststatus
      /\ UNCHANGED <<ptick, pfifo, pline, plast, phandled, pnow, page, pkept>>
  BY <1>1 DEF Proto!Return, Proto!Ended
<1>4. Len(pline') < PROTO_MAX_LINE /\ pspent' \in 0 .. IdleTicks
  BY <1>2, <1>3, ProtoConstants DEF Proto!TimeoutIsSilence
<1>5. Proto!TypeOK'
  BY <1>2, <1>3, <1>4 DEF Proto!TypeOK
<1>6. ASSUME pline # <<>>
      PROVE  /\ Proto!Since(ptick) = Proto!Elapsed /\ Proto!Elapsed \in Nat
             /\ Proto!Elapsed <= TIMEOUT_TICKS + PollTicks
  <2>1. /\ pnow \in 0 .. Proto!Wrap - 1 /\ plast \in 0 .. Proto!Wrap - 1
        /\ pspent \in 0 .. PollTicks
    BY <1>2, <1>3 DEF Proto!TypeOK
  <2>2. Proto!Since(pnow) \in 0 .. Proto!Wrap - 1
    BY <2>1, SinceLater
  <2>3. ~ (Proto!Since(pnow) > TIMEOUT_TICKS)
    BY <1>3, <1>6 DEF Proto!Silent, Proto!Since
  <2>4. Proto!Since(pnow) + pspent < Proto!Wrap /\ Proto!Since(pnow) + pspent \in Nat
        /\ Proto!Since(pnow) + pspent <= TIMEOUT_TICKS + PollTicks
    BY <2>1, <2>2, <2>3, ProtoConstants
  <2> QED
    BY <1>1, <1>3, <2>4, ProtoEnd DEF Proto!Elapsed
<1>7. Proto!Since(ptick)' = Proto!Since(ptick) /\ Proto!Elapsed' = Proto!Since(ptick)
  BY <1>3 DEF Proto!Since, Proto!Elapsed
<1>8. Proto!SilenceInv'
  <2>1. pline # <<>> => page + PollTicks >= Proto!Elapsed /\ pkept <= Proto!Elapsed
    BY <1>2 DEF Proto!SilenceInv
  <2>2. pline # <<>> => Proto!Since(ptick) <= TIMEOUT_TICKS + PollTicks + pspent'
    BY <1>3, <1>6, ProtoConstants
  <2> QED
    BY <1>3, <1>6, <1>7, <2>1, <2>2 DEF Proto!SilenceInv
<1>9. Proto!TimeoutIsSilence'
  <2>1. pline # <<>> => pkept <= Proto!Elapsed /\ pkept \in 0 .. Proto!Old
    BY <1>2 DEF Proto!SilenceInv, Proto!TypeOK
  <2>2. pline # <<>> => pkept <= TIMEOUT_TICKS + PollTicks
    BY <1>6, <2>1, ProtoConstants
  <2> QED
    BY <1>3, <1>4, <2>2 DEF Proto!TimeoutIsSilence
<1> QED
  BY <1>5, <1>8, <1>9 DEF Proto!IInv

LEMMA ProtoStutter ==
    Proto!IInv /\ UNCHANGED <<ptick, pfifo, pline, plast, phandled, plaststatus, pstatus,
                              ppolling, pnow, pspent, page, pkept>>
    => Proto!IInv'
BY DEF Proto!IInv, Proto!TypeOK, Proto!SilenceInv, Proto!TimeoutIsSilence, Proto!Elapsed,
   Proto!Since

\* protocol.c: the invariant of the protocol holds whichever program runs.
THEOREM ProtoInvariance == SpecAll => []Proto!IInv
<1>1. InitAll => Proto!IInv
  BY ProtoInit DEF InitAll
<1>2. Proto!IInv /\ [NextAll]_allVars => Proto!IInv'
  <2> SUFFICES ASSUME Proto!IInv, [NextAll]_allVars PROVE Proto!IInv'
    OBVIOUS
  <2>1. CASE Proto!Next
    BY <2>1, ProtoTick, ProtoArrive, ProtoPoll, ProtoReadNewline, ProtoReadByte, ProtoOverflow,
       ProtoTimeout, ProtoReturn DEF Proto!Next
  <2>2. CASE UNCHANGED protocolVars
    BY <2>2, ProtoStutter DEF protocolVars
  <2> QED
    BY <2>1, <2>2 DEF NextAll, allVars
<1> QED
  BY <1>1, <1>2, PTL DEF SpecAll

-----------------------------------------------------------------------------
\* uart.c and main.c of week 50

\* Induction, as a fact about sets: a set that has 0 and with every number the
\* next has every number, for there is no least number that it has not.
LEMMA NatSet ==
    ASSUME NEW T, 0 \in T, \A n \in Nat : n \in T => n + 1 \in T
    PROVE  Nat \subseteq T
<1> DEFINE less == {ss \in Nat \X Nat : ss[1] < ss[2]}
           rest == Nat \ T
<1>1. SUFFICES ASSUME rest # {} PROVE FALSE
  OBVIOUS
<1>2. IsWellFoundedOn(less, Nat)
  BY NatLessThanWellFounded DEF OpToRel
<1>3. PICK x \in rest : \A y \in rest : ~ (<<y, x>> \in less)
  <2> HIDE DEF less
  <2>1. rest \subseteq Nat /\ rest # {}
    BY <1>1
  <2> HIDE DEF rest
  <2> QED
    BY <1>2, <2>1, WFMin
<1>4. x \in Nat /\ x # 0 /\ x \notin T
  BY <1>3
<1>5. x - 1 \in Nat /\ x - 1 \notin rest
  <2>1. x - 1 \in Nat /\ x - 1 < x
    BY <1>4
  <2>2. <<x - 1, x>> \in less
    BY <1>4, <2>1
  <2> QED
    BY <1>3, <2>1, <2>2
<1> QED
  BY <1>4, <1>5

\* A function that flattens s, as Serial!FlattenSeq builds it.
Flattens(f, s) == f = [i \in 1 .. Len(s) |-> IF i = 1 THEN s[i] ELSE f[i - 1] \o s[i]]

LEMMA FlattenIs ==
    ASSUME NEW s, Len(s) # 0
    PROVE  Serial!FlattenSeq(s) = (CHOOSE f : Flattens(f, s))[Len(s)]
BY DEF Serial!FlattenSeq, Flattens

Agree(f, g, n) == \A i \in 1 .. n : f[i] = g[i]

\* Two functions that flatten a sequence agree as far as the sequences do.
LEMMA FlattensOnce ==
    ASSUME NEW s, NEW t, Len(s) \in Nat, Len(t) \in Nat, NEW n \in Nat,
           n <= Len(s), n <= Len(t), Agree(s, t, n),
           NEW f, Flattens(f, s), NEW g, Flattens(g, t)
    PROVE  Agree(f, g, n)
<1> DEFINE T == {i \in Nat : i \in 1 .. n => f[i] = g[i]}
<1>1. 0 \in T
  OBVIOUS
<1>2. ASSUME NEW i \in Nat, i \in T PROVE i + 1 \in T
  <2>1. SUFFICES ASSUME i + 1 \in 1 .. n PROVE f[i + 1] = g[i + 1]
    OBVIOUS
  <2>2. i + 1 \in 1 .. Len(s) /\ i + 1 \in 1 .. Len(t) /\ (i + 1) - 1 = i
    BY <2>1
  <2>3. /\ f[i + 1] = IF i + 1 = 1 THEN s[i + 1] ELSE f[(i + 1) - 1] \o s[i + 1]
        /\ g[i + 1] = IF i + 1 = 1 THEN t[i + 1] ELSE g[(i + 1) - 1] \o t[i + 1]
    BY <2>2 DEF Flattens
  <2>4. s[i + 1] = t[i + 1]
    BY <2>1 DEF Agree
  <2>5. CASE i = 0
    BY <2>3, <2>4, <2>5
  <2>6. CASE i # 0
    <3>1. f[i] = g[i] /\ i + 1 # 1
      BY <1>2, <2>1, <2>6
    <3> QED
      BY <2>2, <2>3, <2>4, <3>1
  <2> QED
    BY <2>5, <2>6
<1>3. Nat \subseteq T
  <2> HIDE DEF T
  <2> QED
    BY <1>1, <1>2, NatSet
<1> QED
  BY <1>3 DEF Agree

\* The first m steps of such a function.
Builds(f, s, m) ==
    \A i \in 1 .. m : f[i] = IF i = 1 THEN s[i] ELSE f[i - 1] \o s[i]

\* Every sequence of sequences is flattened by some function.
LEMMA FlattensSome ==
    ASSUME NEW X, NEW s \in Seq(Seq(X))
    PROVE  \E f \in [1 .. Len(s) -> Seq(X)] : Flattens(f, s)
<1> DEFINE T == {m \in Nat : m <= Len(s) => \E f \in [1 .. m -> Seq(X)] : Builds(f, s, m)}
<1>1. 0 \in T
  <2>1. [i \in 1 .. 0 |-> <<>>] \in [1 .. 0 -> Seq(X)]
    OBVIOUS
  <2>2. \A f : Builds(f, s, 0)
    BY DEF Builds
  <2> QED
    BY <2>1, <2>2
<1>2. ASSUME NEW m \in Nat, m \in T PROVE m + 1 \in T
  <2>1. SUFFICES ASSUME m + 1 <= Len(s)
                 PROVE  \E f \in [1 .. m + 1 -> Seq(X)] : Builds(f, s, m + 1)
    OBVIOUS
  <2>2. Len(s) \in Nat /\ m <= Len(s)
    BY <2>1
  <2>3. PICK f \in [1 .. m -> Seq(X)] : Builds(f, s, m)
    BY <1>2, <2>2
  <2>4. s[m + 1] \in Seq(X)
    BY <2>1, <2>2
  <2> DEFINE last == IF m = 0 THEN s[m + 1] ELSE f[m] \o s[m + 1]
             g == [i \in 1 .. m + 1 |-> IF i = m + 1 THEN last ELSE f[i]]
  <2>5. last \in Seq(X)
    <3>1. m # 0 => f[m] \in Seq(X)
      BY <2>3
    <3> QED
      BY <2>4, <3>1, ConcatProperties
  <2>6. g \in [1 .. m + 1 -> Seq(X)]
    <3> HIDE DEF last
    <3> QED
      BY <2>3, <2>5
  <2>7. ASSUME NEW i \in 1 .. m + 1
        PROVE  g[i] = IF i = 1 THEN s[i] ELSE g[i - 1] \o s[i]
    <3>1. CASE i = m + 1
      <4>1. g[i] = last
        BY <3>1
      <4>2. i # 1 => g[i - 1] = f[m] /\ m # 0
        BY <3>1
      <4> QED
        BY <3>1, <4>1, <4>2
    <3>2. CASE i # m + 1
      <4>1. i \in 1 .. m /\ g[i] = f[i]
        BY <3>2
      <4>2. i # 1 => g[i - 1] = f[i - 1]
        BY <4>1
      <4>3. f[i] = IF i = 1 THEN s[i] ELSE f[i - 1] \o s[i]
        BY <2>3, <4>1 DEF Builds
      <4> QED
        BY <4>1, <4>2, <4>3
    <3> QED
      BY <3>1, <3>2
  <2> HIDE DEF g
  <2> QED
    BY <2>6, <2>7 DEF Builds
<1>3. Nat \subseteq T
  <2> HIDE DEF T
  <2> QED
    BY <1>1, <1>2, NatSet
<1>4. Len(s) \in Nat
  OBVIOUS
<1>5. PICK f \in [1 .. Len(s) -> Seq(X)] : Builds(f, s, Len(s))
  BY <1>3, <1>4
<1>6. Flattens(f, s)
  BY <1>5 DEF Flattens, Builds
<1> QED
  BY <1>6

\* What Serial!FlattenSeq gives for a sequence with one element more.
LEMMA FlattenMore ==
    ASSUME NEW X, NEW s \in Seq(Seq(X)), NEW x \in Seq(X)
    PROVE  /\ Serial!FlattenSeq(s) \in Seq(X)
           /\ Serial!FlattenSeq(Append(s, x)) = Serial!FlattenSeq(s) \o x
<1>1. PICK n \in Nat : n = Len(s)
  OBVIOUS
<1>2. PICK t \in Seq(Seq(X)) : t = Append(s, x)
  BY AppendProperties
<1>3. PICK f : f = CHOOSE h : Flattens(h, s)
  OBVIOUS
<1>4. PICK g : g = CHOOSE h : Flattens(h, t)
  OBVIOUS
<1>5. /\ Len(t) = n + 1 /\ t[n + 1] = x /\ n \in Nat
      /\ \A i \in 1 .. n : t[i] = s[i]
  BY <1>1, <1>2
<1>6. Flattens(f, s) /\ Flattens(g, t)
  BY <1>3, <1>4, FlattensSome
<1>7. Serial!FlattenSeq(t) = g[n + 1]
  <2> QED
    BY <1>5, <1>4, FlattenIs
<1>8. n # 0 => Serial!FlattenSeq(s) = f[n]
  BY <1>1, <1>3, FlattenIs
<1>9. g[n + 1] = IF n + 1 = 1 THEN t[n + 1] ELSE g[(n + 1) - 1] \o t[n + 1]
  <2>1. n + 1 \in 1 .. Len(t)
    BY <1>5
  <2> QED
    BY <1>6, <2>1 DEF Flattens
<1>10. n # 0 => g[n] = f[n]
  <2>1. Agree(f, g, n)
    <3>1. n <= Len(s) /\ n <= Len(t) /\ Agree(s, t, n)
      BY <1>1, <1>5 DEF Agree
    <3>2. Flattens(f, s) /\ Flattens(g, t)
      BY <1>6
    <3>3. Len(s) \in Nat /\ Len(t) \in Nat
      BY <1>1, <1>5
    <3> QED
      BY <3>1, <3>2, <3>3, FlattensOnce
  <2> QED
    BY <2>1 DEF Agree
<1>11. Serial!FlattenSeq(s) \in Seq(X)
  <2>1. CASE n = 0
    <3>1. Serial!FlattenSeq(s) = s
      BY <1>1, <2>1 DEF Serial!FlattenSeq
    <3>2. s = <<>>
      BY <1>1, <2>1, EmptySeq
    <3> QED
      BY <3>1, <3>2
  <2>2. CASE n # 0
    <3>1. PICK h \in [1 .. n -> Seq(X)] : Flattens(h, s)
      BY <1>1, FlattensSome
    <3>2. f[n] = h[n]
      <4>1. Agree(f, h, n)
        <5>1. Agree(s, s, n) /\ Len(s) \in Nat /\ n <= Len(s)
          BY <1>1 DEF Agree
        <5> QED
          BY <1>6, <3>1, <5>1, FlattensOnce
      <4> QED
        BY <2>2, <4>1 DEF Agree
    <3>3. h[n] \in Seq(X)
      BY <1>5, <2>2, <3>1
    <3> QED
      BY <1>8, <2>2, <3>2, <3>3
  <2> QED
    BY <2>1, <2>2
<1>12. Serial!FlattenSeq(t) = Serial!FlattenSeq(s) \o x
  <2>1. CASE n = 0
    <3>1. Serial!FlattenSeq(t) = x
      BY <1>5, <1>7, <1>9, <2>1
    <3>2. Serial!FlattenSeq(s) = s /\ s = <<>>
      BY <1>1, <2>1, EmptySeq DEF Serial!FlattenSeq
    <3>3. <<>> \o x = x
      OBVIOUS
    <3> QED
      BY <3>1, <3>2, <3>3
  <2>2. CASE n # 0
    <3>1. n + 1 # 1 /\ (n + 1) - 1 = n
      BY <2>2
    <3>2. g[n + 1] = g[n] \o x
      BY <1>5, <1>9, <3>1
    <3> QED
      BY <1>7, <1>8, <1>10, <2>2, <3>2
  <2> QED
    BY <2>1, <2>2
<1> QED
  BY <1>11, <1>12, <1>2

\* A sequence each element of which is written as F has it.
Written(F, s) == Serial!FlattenSeq([k \in DOMAIN s |-> F[s[k]]])

LEMMA WrittenIs ==
    ASSUME NEW D, NEW X, NEW F \in [D -> Seq(X)], NEW s \in Seq(D)
    PROVE  Written(F, s) \in Seq(X)
<1>1. PICK r \in Seq(Seq(X)) : r = [k \in DOMAIN s |-> F[s[k]]]
  <2>1. PICK n \in Nat : DOMAIN s = 1 .. n /\ \A k \in 1 .. n : s[k] \in D
    OBVIOUS
  <2>2. [k \in 1 .. n |-> F[s[k]]] \in [1 .. n -> Seq(X)]
    BY <2>1
  <2>3. [1 .. n -> Seq(X)] \subseteq Seq(Seq(X))
    BY SeqDef
  <2> QED
    BY <2>1, <2>2, <2>3
<1>2. <<>> \in Seq(X)
  OBVIOUS
<1> QED
  BY <1>1, <1>2, FlattenMore DEF Written

LEMMA WrittenMore ==
    ASSUME NEW D, NEW X, NEW F \in [D -> Seq(X)], NEW s \in Seq(D), NEW c \in D
    PROVE  Written(F, Append(s, c)) = Written(F, s) \o F[c]
<1>1. PICK t \in Seq(D) : t = Append(s, c)
  BY AppendProperties
<1>2. PICK n \in Nat : n = Len(s)
  OBVIOUS
<1>3. /\ DOMAIN s = 1 .. n /\ DOMAIN t = 1 .. n + 1 /\ t[n + 1] = c
      /\ \A k \in 1 .. n : t[k] = s[k] /\ s[k] \in D
  BY <1>1, <1>2, AppendProperties
<1>4. PICK r \in Seq(Seq(X)) : r = [k \in DOMAIN s |-> F[s[k]]]
  <2>1. [k \in 1 .. n |-> F[s[k]]] \in [1 .. n -> Seq(X)]
    BY <1>3
  <2>2. [1 .. n -> Seq(X)] \subseteq Seq(Seq(X))
    BY SeqDef
  <2> QED
    BY <1>3, <2>1, <2>2
<1>5. [k \in DOMAIN t |-> F[t[k]]] = Append(r, F[c])
  <2>1. Len(r) = n /\ F[c] \in Seq(X)
    BY <1>3, <1>4
  <2> QED
    BY <1>3, <1>4, <2>1
<1> QED
  BY <1>1, <1>4, <1>5, FlattenMore DEF Written

\* uart_puts, a character at a time.
LEMMA PutsMore ==
    ASSUME NEW s \in Seq(Serial!Chars), NEW c \in Serial!Chars
    PROVE  /\ Serial!uart_puts(s) \in Seq(Serial!Chars)
           /\ Serial!uart_puts(Append(s, c)) =
                Serial!uart_puts(s) \o (IF c = "LF" THEN <<"CR", "LF">> ELSE <<c>>)
<1>1. PICK F \in [Serial!Chars -> Seq(Serial!Chars)] :
        F = [d \in Serial!Chars |-> IF d = "LF" THEN <<"CR", "LF">> ELSE <<d>>]
  <2>1. <<"CR", "LF">> \in Seq(Serial!Chars)
    <3>1. "CR" \in Serial!Chars /\ "LF" \in Serial!Chars
      BY DEF Serial!Chars, Serial!Keys
    <3> QED
      BY <3>1
  <2>2. \A d \in Serial!Chars : <<d>> \in Seq(Serial!Chars)
    OBVIOUS
  <2>3. \A d \in Serial!Chars :
           (IF d = "LF" THEN <<"CR", "LF">> ELSE <<d>>) \in Seq(Serial!Chars)
    BY <2>1, <2>2
  <2> QED
    BY <2>3
<1>2. ASSUME NEW t \in Seq(Serial!Chars)
      PROVE  Serial!uart_puts(t) = Written(F, t)
  <2>1. \A k \in DOMAIN t : F[t[k]] = IF t[k] = "LF" THEN <<"CR", "LF">> ELSE <<t[k]>>
    BY <1>1, ElementOfSeq
  <2>2. [k \in DOMAIN t |-> F[t[k]]]
          = [k \in DOMAIN t |-> IF t[k] = "LF" THEN <<"CR", "LF">> ELSE <<t[k]>>]
    BY <2>1
  <2> QED
    BY <2>2 DEF Serial!uart_puts, Written
<1>3. Append(s, c) \in Seq(Serial!Chars)
  BY AppendProperties
<1>4. F[c] = IF c = "LF" THEN <<"CR", "LF">> ELSE <<c>>
  BY <1>1
<1>5. Written(F, s) \in Seq(Serial!Chars) /\ Written(F, Append(s, c)) = Written(F, s) \o F[c]
  <2>1. Written(F, s) \in Seq(Serial!Chars)
    BY <1>1, WrittenIs
  <2>2. Written(F, Append(s, c)) = Written(F, s) \o F[c]
    <3>1. F \in [Serial!Chars -> Seq(Serial!Chars)]
      BY <1>1
    <3> QED
      BY <3>1, WrittenMore
  <2> QED
    BY <2>1, <2>2
<1> QED
  BY <1>2, <1>3, <1>4, <1>5

LEMMA ThreeAppended ==
    ASSUME NEW X, NEW a \in X, NEW b \in X, NEW c \in X
    PROVE  Append(<<a, b>>, c) = <<a, b, c>>
<1>1. <<a, b>> \in Seq(X) /\ <<a, b, c>> \in Seq(X)
  OBVIOUS
<1>2. PICK s \in Seq(X) : s = <<a, b>>
  BY <1>1
<1>3. PICK t \in Seq(X) : t = <<a, b, c>>
  BY <1>1
<1>4. Len(s) = 2 /\ s[1] = a /\ s[2] = b
  BY <1>2
<1>5. Len(t) = 3 /\ t[1] = a /\ t[2] = b /\ t[3] = c
  BY <1>3
<1>6. /\ Append(s, c) \in Seq(X) /\ Len(Append(s, c)) = 3 /\ Append(s, c)[3] = c
      /\ Append(s, c)[1] = s[1] /\ Append(s, c)[2] = s[2]
  <2>1. Append(s, c) \in Seq(X) /\ Len(Append(s, c)) = 3
    BY <1>2, <1>4, AppendProperties
  <2>2. Append(s, c)[3] = c
    BY <1>2, <1>4, AppendProperties
  <2>3. Append(s, c)[1] = s[1] /\ Append(s, c)[2] = s[2]
    BY <1>2, <1>4, AppendProperties
  <2> QED
    BY <2>1, <2>2, <2>3
<1>7. \A i \in 1 .. 3 : i = 1 \/ i = 2 \/ i = 3
  OBVIOUS
<1>8. \A i \in 1 .. 3 : Append(s, c)[i] = t[i]
  BY <1>4, <1>5, <1>6, <1>7
<1> QED
  BY <1>2, <1>3, <1>5, <1>6, <1>8, SeqEqual

\* What is put a string: words, and a line when there is a LF at its end.
LEMMA WordsArePut ==
    ASSUME NEW a \in Serial!Chars, NEW b \in Serial!Chars
    PROVE  /\ Serial!uart_puts(<<a>>) \in Seq(Serial!Chars)
           /\ Serial!uart_puts(<<a, b>>) \in Seq(Serial!Chars)
           /\ \E s \in Seq(Serial!Chars) : Serial!uart_puts(<<a, b, "LF">>) = s \o <<"CR", "LF">>
<1>1. "LF" \in Serial!Chars
  BY DEF Serial!Chars, Serial!Keys
<1>2. <<a>> \in Seq(Serial!Chars) /\ <<a, b>> \in Seq(Serial!Chars) /\ "LF" \in Serial!Chars
  BY <1>1
<1>3. Append(<<a, b>>, "LF") = <<a, b, "LF">>
  BY <1>1, ThreeAppended
<1>4. /\ Serial!uart_puts(<<a, b>>) \in Seq(Serial!Chars)
      /\ Serial!uart_puts(Append(<<a, b>>, "LF")) = Serial!uart_puts(<<a, b>>) \o <<"CR", "LF">>
  BY <1>2, PutsMore
<1>5. Serial!uart_puts(<<a>>) \in Seq(Serial!Chars)
  BY <1>2, PutsMore
<1> QED
  BY <1>3, <1>4, <1>5

LEMMA RepliesAreWords ==
    /\ Serial!Banner \in Seq(Serial!Chars)
    /\ \A c \in Serial!Keys : Serial!Reply(c) \in Seq(Serial!Chars)
    /\ \E s \in Seq(Serial!Chars) : Serial!Reply("q") = s \o <<"CR", "LF">>
<1>1. /\ "LF" \in Serial!Chars /\ "characters are echoed" \in Serial!Chars /\ "bye" \in Serial!Chars
      /\ "got '" \in Serial!Chars /\ "' = " \in Serial!Chars
      /\ <<"CR", "LF">> \in Seq(Serial!Chars)
  BY DEF Serial!Chars, Serial!Keys
<1>2. PICK s \in Seq(Serial!Chars) : Serial!Banner = s \o <<"CR", "LF">>
  BY <1>1, WordsArePut DEF Serial!Banner
<1>3. PICK t \in Seq(Serial!Chars) : Serial!Reply("q") = t \o <<"CR", "LF">>
  <2>1. Serial!Reply("q") = Serial!uart_puts(<<"LF", "bye", "LF">>)
    BY DEF Serial!Reply
  <2> QED
    BY <1>1, <2>1, WordsArePut
<1>4. \A c \in Serial!Keys : Serial!Reply(c) \in Seq(Serial!Chars)
  <2>1. ASSUME NEW c \in Serial!Keys PROVE Serial!Reply(c) \in Seq(Serial!Chars)
    <3>1. CASE c = "q"
      BY <1>1, <1>3, <3>1, ConcatProperties
    <3>2. CASE c # "q"
      <4>1. Serial!Reply(c) =
              Serial!uart_puts(<<"got '">>) \o <<c>> \o Serial!uart_puts(<<"' = ", "LF">>)
        BY <3>2 DEF Serial!Reply
      <4>2. <<c>> \in Seq(Serial!Chars)
        <5>1. c \in Serial!Chars
          BY DEF Serial!Chars
        <5> QED
          BY <5>1
      <4>3. /\ Serial!uart_puts(<<"got '">>) \in Seq(Serial!Chars)
            /\ Serial!uart_puts(<<"' = ", "LF">>) \in Seq(Serial!Chars)
        BY <1>1, WordsArePut
      <4>4. Serial!uart_puts(<<"got '">>) \o <<c>> \in Seq(Serial!Chars)
        BY <4>2, <4>3, ConcatProperties
      <4> QED
        BY <4>1, <4>3, <4>4, ConcatProperties
    <3> QED
      BY <3>1, <3>2
  <2> QED
    BY <2>1
<1>5. Serial!Banner \in Seq(Serial!Chars)
  BY <1>1, <1>2, ConcatProperties
<1> QED
  BY <1>3, <1>4, <1>5

\* What main says in reply to s, and what a character more adds to it.
Said(s) == Serial!FlattenSeq([k \in DOMAIN s |-> Serial!Reply(s[k])])

LEMMA RepliesMore ==
    ASSUME NEW s \in Seq(Serial!Keys), NEW c \in Serial!Keys
    PROVE  /\ Said(s) \in Seq(Serial!Chars)
           /\ Said(Append(s, c)) = Said(s) \o Serial!Reply(c)
<1>1. PICK F \in [Serial!Keys -> Seq(Serial!Chars)] : F = [d \in Serial!Keys |-> Serial!Reply(d)]
  BY RepliesAreWords
<1>2. ASSUME NEW t \in Seq(Serial!Keys)
      PROVE  Said(t) = Written(F, t)
  <2>1. \A k \in DOMAIN t : F[t[k]] = Serial!Reply(t[k])
    BY <1>1, ElementOfSeq
  <2>2. [k \in DOMAIN t |-> F[t[k]]] = [k \in DOMAIN t |-> Serial!Reply(t[k])]
    BY <2>1
  <2> QED
    BY <2>2 DEF Said, Written
<1>3. Append(s, c) \in Seq(Serial!Keys) /\ F[c] = Serial!Reply(c)
  BY <1>1, AppendProperties
<1>4. Written(F, s) \in Seq(Serial!Chars) /\ Written(F, Append(s, c)) = Written(F, s) \o F[c]
  <2>1. Written(F, s) \in Seq(Serial!Chars)
    BY <1>1, WrittenIs
  <2>2. Written(F, Append(s, c)) = Written(F, s) \o F[c]
    <3>1. F \in [Serial!Keys -> Seq(Serial!Chars)]
      BY <1>1
    <3> QED
      BY <3>1, WrittenMore
  <2> QED
    BY <2>1, <2>2
<1> QED
  BY <1>2, <1>3, <1>4

\* An element that moves from the head of a sequence to the end of the one before it.
LEMMA MoveOne ==
    ASSUME NEW X, NEW s \in Seq(X), NEW t \in Seq(X), t # <<>>
    PROVE  Append(s, Head(t)) \o Tail(t) = s \o t
<1>1. /\ Head(t) \in X /\ Tail(t) \in Seq(X) /\ Len(Tail(t)) = Len(t) - 1 /\ Len(t) \in Nat
      /\ \A i \in 1 .. Len(Tail(t)) : Tail(t)[i] = t[i + 1]
      /\ Head(t) = t[1]
  BY HeadTailProperties
<1>2. PICK h \in X : h = Head(t)
  BY <1>1
<1>3. PICK r \in Seq(X) : r = Tail(t)
  BY <1>1
<1>4. PICK a \in Seq(X) : a = Append(s, h)
  BY AppendProperties
<1>5. /\ Len(a) = Len(s) + 1 /\ Len(s) \in Nat /\ a[Len(s) + 1] = h
      /\ \A i \in 1 .. Len(s) : a[i] = s[i]
  BY <1>4, AppendProperties
<1>6. /\ a \o r \in Seq(X) /\ Len(a \o r) = Len(a) + Len(r)
      /\ \A i \in 1 .. Len(a) + Len(r) :
           (a \o r)[i] = IF i <= Len(a) THEN a[i] ELSE r[i - Len(a)]
  BY ConcatProperties
<1>7. /\ s \o t \in Seq(X) /\ Len(s \o t) = Len(s) + Len(t)
      /\ \A i \in 1 .. Len(s) + Len(t) :
           (s \o t)[i] = IF i <= Len(s) THEN s[i] ELSE t[i - Len(s)]
  BY ConcatProperties
<1>8. Len(a \o r) = Len(s \o t)
  BY <1>1, <1>3, <1>5, <1>6, <1>7
<1>9. ASSUME NEW i \in 1 .. Len(a \o r) PROVE (a \o r)[i] = (s \o t)[i]
  <2>1. i \in 1 .. Len(a) + Len(r) /\ i \in 1 .. Len(s) + Len(t)
    BY <1>6, <1>7, <1>8
  <2>2. /\ (a \o r)[i] = IF i <= Len(a) THEN a[i] ELSE r[i - Len(a)]
        /\ (s \o t)[i] = IF i <= Len(s) THEN s[i] ELSE t[i - Len(s)]
    BY <1>6, <1>7, <2>1
  <2>3. CASE i <= Len(s)
    BY <1>5, <2>1, <2>2, <2>3
  <2>4. CASE i = Len(s) + 1
    BY <1>1, <1>2, <1>5, <2>1, <2>2, <2>4
  <2>5. CASE i > Len(s) + 1
    <3>1. i - Len(a) \in 1 .. Len(r) /\ (i - Len(a)) + 1 = i - Len(s)
      BY <1>1, <1>3, <1>5, <2>1, <2>5
    <3>2. r[i - Len(a)] = t[i - Len(s)]
      BY <1>1, <1>3, <3>1
    <3> QED
      BY <1>5, <2>1, <2>2, <2>5, <3>2
  <2> QED
    BY <1>5, <2>1, <2>3, <2>4, <2>5
<1> QED
  BY <1>2, <1>3, <1>4, <1>6, <1>7, <1>8, <1>9, SeqEqual

\* The last of the elements.
LEMMA LastOf ==
    ASSUME NEW X, NEW s \in Seq(X), NEW a \in X, NEW b \in X
    PROVE  Serial!Last(s \o <<a, b>>) = b
<1>1. PICK t \in Seq(X) : t = <<a, b>>
  <2>1. <<a, b>> \in Seq(X)
    OBVIOUS
  <2> QED
    BY <2>1
<1>2. Len(t) = 2 /\ t[2] = b
  BY <1>1
<1>3. PICK n \in Nat : n = Len(s)
  OBVIOUS
<1>4. /\ Len(s \o t) = n + 2
      /\ \A i \in 1 .. n + 2 : (s \o t)[i] = IF i <= n THEN s[i] ELSE t[i - n]
  BY <1>1, <1>2, <1>3, ConcatProperties
<1>5. n + 2 \in 1 .. n + 2 /\ ~ (n + 2 <= n) /\ (n + 2) - n = 2
  BY <1>3
<1>6. (s \o t)[n + 2] = b
  BY <1>2, <1>4, <1>5
<1> QED
  BY <1>1, <1>4, <1>6 DEF Serial!Last

LEMMA ToSetMore ==
    ASSUME NEW X, NEW s \in Seq(X), NEW c \in X, NEW x
    PROVE  x \in Serial!ToSet(Append(s, c)) <=> x \in Serial!ToSet(s) \/ x = c
<1>1. PICK n \in Nat : n = Len(s)
  OBVIOUS
<1>2. PICK t \in Seq(X) : t = Append(s, c)
  BY AppendProperties
<1>3. /\ DOMAIN s = 1 .. n /\ DOMAIN t = 1 .. n + 1 /\ t[n + 1] = c
      /\ \A i \in 1 .. n : t[i] = s[i]
  BY <1>1, <1>2, AppendProperties
<1>4. \A i \in 1 .. n + 1 : i \in 1 .. n \/ i = n + 1
  OBVIOUS
<1>5. n + 1 \in 1 .. n + 1 /\ 1 .. n \subseteq 1 .. n + 1
  OBVIOUS
<1>6. x \in Serial!ToSet(t) <=> x \in Serial!ToSet(s) \/ x = c
  BY <1>3, <1>4, <1>5 DEF Serial!ToSet
<1> QED
  BY <1>2, <1>6
\* A sequence that is empty is left out.
LEMMA EmptyBetween ==
    ASSUME NEW X, NEW s \in Seq(X), NEW t \in Seq(X)
    PROVE  /\ (s \o <<>>) \o t = s \o t
           /\ (s \o t) \o <<>> = s \o t
BY ConcatProperties, ConcatEmptySeq

\* What EchoIsComplete says of the line, said with Said.
Spoken == uline \o ushift \o utx \o utodo
Before(a) == a \in {"disable", "configure", "enable"}

EchoAs ==
    /\ utaken \o urx = utyped
    /\ Spoken = (IF Before(uat) THEN <<>> ELSE Serial!Banner \o Said(utaken))
    /\ uat \in {"poll", "flush", "stopped"} => uenabled /\ ufen /\ uwlen = 8
    /\ uat \in {"flush", "stopped"} <=> "q" \in Serial!ToSet(utaken)
    /\ uat = "stopped" => ~ Serial!Busy /\ utodo = <<>> /\ Serial!Last(uline) = "LF"

LEMMA EchoIs ==
    (Serial!EchoIsComplete <=> EchoAs) /\ (Serial!EchoIsComplete' <=> EchoAs')
BY DEF Serial!EchoIsComplete, EchoAs, Spoken, Before, Said

LEMMA SerialTypes ==
    Serial!TypeOK =>
    /\ {urx, utyped, utaken} \subseteq Seq(Serial!Keys)
    /\ {utx, ushift, utodo, uline} \subseteq Seq(Serial!Chars)
    /\ uline \o ushift \in Seq(Serial!Chars)
    /\ uline \o ushift \o utx \in Seq(Serial!Chars)
    /\ Spoken \in Seq(Serial!Chars)
    /\ Said(utaken) \in Seq(Serial!Chars)
    /\ Serial!Banner \in Seq(Serial!Chars)
<1>1. SUFFICES ASSUME Serial!TypeOK
               PROVE  /\ {urx, utyped, utaken} \subseteq Seq(Serial!Keys)
                      /\ {utx, ushift, utodo, uline} \subseteq Seq(Serial!Chars)
                      /\ uline \o ushift \in Seq(Serial!Chars)
                      /\ uline \o ushift \o utx \in Seq(Serial!Chars)
                      /\ Spoken \in Seq(Serial!Chars)
                      /\ Said(utaken) \in Seq(Serial!Chars)
                      /\ Serial!Banner \in Seq(Serial!Chars)
  OBVIOUS
<1>2. /\ {urx, utyped, utaken} \subseteq Seq(Serial!Keys)
      /\ {utx, ushift, utodo, uline} \subseteq Seq(Serial!Chars)
  BY <1>1 DEF Serial!TypeOK
<1>3. uline \o ushift \in Seq(Serial!Chars)
  BY <1>2, ConcatProperties
<1>4. uline \o ushift \o utx \in Seq(Serial!Chars)
  BY <1>2, <1>3, ConcatProperties
<1>5. Spoken \in Seq(Serial!Chars)
  BY <1>2, <1>4, ConcatProperties DEF Spoken
<1>6. "q" \in Serial!Keys
  BY DEF Serial!Keys
<1>7. Said(utaken) \in Seq(Serial!Chars)
  BY <1>2, <1>6, RepliesMore
<1> QED
  BY <1>2, <1>3, <1>4, <1>5, <1>7, RepliesAreWords

LEMMA SerialInit == Serial!Init => Serial!IInv
<1>1. SUFFICES ASSUME Serial!Init PROVE Serial!IInv
  OBVIOUS
<1>2. /\ uat = "disable" /\ uwlen \in {5, 8} /\ ufen \in BOOLEAN /\ uenabled \in BOOLEAN
      /\ urx = <<>> /\ utx = <<>> /\ ushift = <<>> /\ utodo = <<>> /\ uline = <<>>
      /\ utyped = <<>> /\ utaken = <<>>
  BY <1>1 DEF Serial!Init
<1>3. Serial!TypeOK
  <2>1. {urx, utyped, utaken} \subseteq Seq(Serial!Keys)
    BY <1>2
  <2>2. {utx, ushift, utodo, uline} \subseteq Seq(Serial!Chars)
    BY <1>2
  <2> QED
    BY <1>2, <2>1, <2>2 DEF Serial!TypeOK
<1>4. Serial!MainInv
  BY <1>2 DEF Serial!MainInv
<1>5. Serial!EchoIsComplete
  <2>1. <<>> \o <<>> = <<>>
    BY ConcatEmptySeq, EmptySeq
  <2>2. Spoken = <<>> /\ utaken \o urx = utyped
    BY <1>2, <2>1 DEF Spoken
  <2>3. Serial!ToSet(utaken) = {}
    BY <1>2 DEF Serial!ToSet
  <2> QED
    BY <1>2, <2>2, <2>3, EchoIs DEF EchoAs, Before
<1> QED
  BY <1>3, <1>4, <1>5 DEF Serial!IInv

LEMMA SerialType ==
    ASSUME NEW c \in Serial!Keys
    PROVE  Serial!IInv /\ Serial!Type(c) => Serial!IInv'
<1>1. SUFFICES ASSUME Serial!IInv, Serial!Type(c) PROVE Serial!IInv'
  OBVIOUS
<1>2. Serial!TypeOK /\ Serial!MainInv /\ Serial!EchoIsComplete
  BY <1>1 DEF Serial!IInv
<1>3. /\ \/ urx' = Append(urx, c) /\ utyped' = Append(utyped, c)
         \/ UNCHANGED <<urx, utyped>>
      /\ UNCHANGED <<uat, uwlen, ufen, uenabled, utx, ushift, utodo, uline, utaken>>
  BY <1>1 DEF Serial!Type, Serial!program
<1>4. urx \in Seq(Serial!Keys) /\ utyped \in Seq(Serial!Keys) /\ utaken \in Seq(Serial!Keys)
  BY <1>2, SerialTypes
<1>5. {urx', utyped', utaken'} \subseteq Seq(Serial!Keys)
  <2>1. Append(urx, c) \in Seq(Serial!Keys) /\ Append(utyped, c) \in Seq(Serial!Keys)
    BY <1>4, AppendProperties
  <2> QED
    BY <1>3, <1>4, <2>1
<1>6. Serial!TypeOK'
  BY <1>2, <1>3, <1>5 DEF Serial!TypeOK
<1>7. Serial!MainInv'
  BY <1>2, <1>3 DEF Serial!MainInv
<1>8. utaken' \o urx' = utyped'
  <2>1. utaken \o urx = utyped
    BY <1>2, EchoIs DEF EchoAs
  <2>2. utaken \o Append(urx, c) = Append(utaken \o urx, c)
    <3>1. /\ Append(urx, c) = urx \o <<c>> /\ <<c>> \in Seq(Serial!Keys)
          /\ utaken \o urx \in Seq(Serial!Keys)
      BY <1>4, AppendIsConcat, ConcatProperties
    <3>2. Append(utaken \o urx, c) = (utaken \o urx) \o <<c>>
      BY <3>1, AppendIsConcat
    <3> QED
      BY <1>4, <3>1, <3>2, ConcatAssociative
  <2> QED
    BY <1>3, <2>1, <2>2
<1>9. Serial!EchoIsComplete'
  <2>1. Spoken' = Spoken /\ Said(utaken)' = Said(utaken) /\ Serial!Busy' = Serial!Busy
    BY <1>3 DEF Spoken, Said, Serial!Busy
  <2>2. Serial!ToSet(utaken)' = Serial!ToSet(utaken) /\ Serial!Last(uline)' = Serial!Last(uline)
    BY <1>3 DEF Serial!ToSet, Serial!Last
  <2>3. EchoAs
    BY <1>2, EchoIs
  <2>4. EchoAs'
    BY <1>3, <1>8, <2>1, <2>2, <2>3 DEF EchoAs
  <2> QED
    BY <2>4, EchoIs
<1> QED
  BY <1>6, <1>7, <1>9 DEF Serial!IInv

LEMMA SerialShift == Serial!IInv /\ Serial!Shift => Serial!IInv'
<1>1. SUFFICES ASSUME Serial!IInv, Serial!Shift PROVE Serial!IInv'
  OBVIOUS
<1>2. Serial!TypeOK /\ Serial!MainInv /\ EchoAs
  BY <1>1, EchoIs DEF Serial!IInv
<1>3. /\ utx # <<>> /\ ushift = <<>>
      /\ ushift' = <<Head(utx)>> /\ utx' = Tail(utx)
      /\ UNCHANGED <<uat, uwlen, ufen, uenabled, urx, utodo, uline, utyped, utaken>>
  BY <1>1 DEF Serial!Shift, Serial!program
<1>4. /\ urx \in Seq(Serial!Keys) /\ utyped \in Seq(Serial!Keys) /\ utaken \in Seq(Serial!Keys)
      /\ utx \in Seq(Serial!Chars) /\ ushift \in Seq(Serial!Chars)
      /\ utodo \in Seq(Serial!Chars) /\ uline \in Seq(Serial!Chars)
  BY <1>2, SerialTypes
<1>5. Head(utx) \in Serial!Chars /\ Tail(utx) \in Seq(Serial!Chars)
  BY <1>3, <1>4, HeadTailProperties
<1>6. <<Head(utx)>> \in Seq(Serial!Chars)
  BY <1>5
<1>7. Serial!TypeOK'
  <2>1. ushift' \in Seq(Serial!Chars) /\ utx' \in Seq(Serial!Chars)
    BY <1>3, <1>5, <1>6
  <2>2. {utx', ushift', utodo', uline'} \subseteq Seq(Serial!Chars)
    BY <1>3, <1>4, <2>1
  <2> QED
    BY <1>2, <1>3, <2>2 DEF Serial!TypeOK
<1>8. uat \notin {"disable", "configure", "enable", "stopped"}
  <2>1. Serial!Busy
    BY <1>3 DEF Serial!Busy
  <2> QED
    BY <1>2, <1>3, <2>1 DEF Serial!MainInv, EchoAs
<1>9. Serial!MainInv'
  BY <1>2, <1>3, <1>8 DEF Serial!MainInv
<1>10. EchoAs'
  <2>1. uline \o <<Head(utx)>> \o Tail(utx) = uline \o utx
    <3>1. Append(uline, Head(utx)) = uline \o <<Head(utx)>>
      BY <1>4, <1>5, AppendIsConcat
    <3>2. Append(uline, Head(utx)) \o Tail(utx) = uline \o utx
      BY <1>3, <1>4, MoveOne
    <3> QED
      BY <3>1, <3>2
  <2>2. uline \o ushift = uline
    BY <1>3, <1>4, ConcatEmptySeq
  <2>3. Spoken' = Spoken
    BY <1>3, <2>1, <2>2 DEF Spoken
  <2>4. Said(utaken)' = Said(utaken) /\ Serial!ToSet(utaken)' = Serial!ToSet(utaken)
    BY <1>3 DEF Said, Serial!ToSet
  <2> QED
    BY <1>2, <1>3, <1>8, <2>3, <2>4 DEF EchoAs, Before
<1> QED
  BY <1>7, <1>9, <1>10, EchoIs DEF Serial!IInv

LEMMA SerialSent == Serial!IInv /\ Serial!Sent => Serial!IInv'
<1>1. SUFFICES ASSUME Serial!IInv, Serial!Sent PROVE Serial!IInv'
  OBVIOUS
<1>2. Serial!TypeOK /\ Serial!MainInv /\ EchoAs
  BY <1>1, EchoIs DEF Serial!IInv
<1>3. /\ ushift # <<>>
      /\ uline' = uline \o ushift /\ ushift' = <<>>
      /\ UNCHANGED <<uat, uwlen, ufen, uenabled, urx, utx, utodo, utyped, utaken>>
  BY <1>1 DEF Serial!Sent, Serial!program
<1>4. /\ urx \in Seq(Serial!Keys) /\ utyped \in Seq(Serial!Keys) /\ utaken \in Seq(Serial!Keys)
      /\ utx \in Seq(Serial!Chars) /\ ushift \in Seq(Serial!Chars)
      /\ utodo \in Seq(Serial!Chars) /\ uline \in Seq(Serial!Chars)
  BY <1>2, SerialTypes
<1>5. uline \o ushift \in Seq(Serial!Chars)
  BY <1>2, SerialTypes
<1>6. Serial!TypeOK'
  <2>1. ushift' \in Seq(Serial!Chars) /\ uline' \in Seq(Serial!Chars)
    BY <1>3, <1>5
  <2>2. {utx', ushift', utodo', uline'} \subseteq Seq(Serial!Chars)
    BY <1>3, <1>4, <2>1
  <2> QED
    BY <1>2, <1>3, <2>2 DEF Serial!TypeOK
<1>7. uat \notin {"disable", "configure", "enable", "stopped"}
  <2>1. Serial!Busy
    BY <1>3 DEF Serial!Busy
  <2> QED
    BY <1>2, <1>3, <2>1 DEF Serial!MainInv, EchoAs
<1>8. Serial!MainInv'
  BY <1>2, <1>3, <1>7 DEF Serial!MainInv
<1>9. EchoAs'
  <2>1. (uline \o ushift) \o <<>> = uline \o ushift
    BY <1>5, ConcatEmptySeq
  <2>2. Spoken' = Spoken
    BY <1>3, <2>1 DEF Spoken
  <2>3. Said(utaken)' = Said(utaken) /\ Serial!ToSet(utaken)' = Serial!ToSet(utaken)
    BY <1>3 DEF Said, Serial!ToSet
  <2> QED
    BY <1>2, <1>3, <1>7, <2>2, <2>3 DEF EchoAs, Before
<1> QED
  BY <1>6, <1>8, <1>9, EchoIs DEF Serial!IInv

LEMMA SerialDisable == Serial!IInv /\ Serial!Disable => Serial!IInv'
<1>1. SUFFICES ASSUME Serial!IInv, Serial!Disable PROVE Serial!IInv'
  OBVIOUS
<1>2. Serial!TypeOK /\ Serial!MainInv /\ EchoAs
  BY <1>1, EchoIs DEF Serial!IInv
<1>3. /\ uat = "disable" /\ uat' = "configure" /\ uenabled' = FALSE
      /\ UNCHANGED <<uwlen, ufen, urx, utx, ushift, utodo, uline, utyped, utaken>>
  BY <1>1 DEF Serial!Disable
<1>4. /\ urx \in Seq(Serial!Keys) /\ utyped \in Seq(Serial!Keys) /\ utaken \in Seq(Serial!Keys)
      /\ utx \in Seq(Serial!Chars) /\ ushift \in Seq(Serial!Chars)
      /\ utodo \in Seq(Serial!Chars) /\ uline \in Seq(Serial!Chars)
  BY <1>2, SerialTypes
<1>5. Serial!TypeOK'
  BY <1>2, <1>3 DEF Serial!TypeOK
<1>6. Serial!MainInv'
  BY <1>2, <1>3 DEF Serial!MainInv
<1>7. EchoAs'
  <2>1. Spoken' = Spoken /\ Serial!ToSet(utaken)' = Serial!ToSet(utaken)
    BY <1>3 DEF Spoken, Serial!ToSet
  <2> QED
    BY <1>2, <1>3, <2>1 DEF EchoAs, Before
<1> QED
  BY <1>5, <1>6, <1>7, EchoIs DEF Serial!IInv

LEMMA SerialConfigure == Serial!IInv /\ Serial!Configure => Serial!IInv'
<1>1. SUFFICES ASSUME Serial!IInv, Serial!Configure PROVE Serial!IInv'
  OBVIOUS
<1>2. Serial!TypeOK /\ Serial!MainInv /\ EchoAs
  BY <1>1, EchoIs DEF Serial!IInv
<1>3. /\ uat = "configure" /\ uat' = "enable" /\ uwlen' = 8 /\ ufen' = TRUE
      /\ UNCHANGED <<uenabled, urx, utx, ushift, utodo, uline, utyped, utaken>>
  BY <1>1 DEF Serial!Configure
<1>4. /\ urx \in Seq(Serial!Keys) /\ utyped \in Seq(Serial!Keys) /\ utaken \in Seq(Serial!Keys)
      /\ utx \in Seq(Serial!Chars) /\ ushift \in Seq(Serial!Chars)
      /\ utodo \in Seq(Serial!Chars) /\ uline \in Seq(Serial!Chars)
  BY <1>2, SerialTypes
<1>5. Serial!TypeOK'
  BY <1>2, <1>3 DEF Serial!TypeOK
<1>6. Serial!MainInv'
  BY <1>2, <1>3 DEF Serial!MainInv
<1>7. EchoAs'
  <2>1. Spoken' = Spoken /\ Serial!ToSet(utaken)' = Serial!ToSet(utaken)
    BY <1>3 DEF Spoken, Serial!ToSet
  <2> QED
    BY <1>2, <1>3, <2>1 DEF EchoAs, Before
<1> QED
  BY <1>5, <1>6, <1>7, EchoIs DEF Serial!IInv

LEMMA SerialEnable == Serial!IInv /\ Serial!Enable => Serial!IInv'
<1>1. SUFFICES ASSUME Serial!IInv, Serial!Enable PROVE Serial!IInv'
  OBVIOUS
<1>2. Serial!TypeOK /\ Serial!MainInv /\ EchoAs
  BY <1>1, EchoIs DEF Serial!IInv
<1>3. /\ uat = "enable" /\ uat' = "poll" /\ uenabled' = TRUE /\ utodo' = Serial!Banner
      /\ UNCHANGED <<uwlen, ufen, urx, utx, ushift, uline, utyped, utaken>>
  BY <1>1 DEF Serial!Enable
<1>4. /\ urx \in Seq(Serial!Keys) /\ utyped \in Seq(Serial!Keys) /\ utaken \in Seq(Serial!Keys)
      /\ utx \in Seq(Serial!Chars) /\ ushift \in Seq(Serial!Chars)
      /\ utodo \in Seq(Serial!Chars) /\ uline \in Seq(Serial!Chars)
  BY <1>2, SerialTypes
<1>5. Serial!TypeOK'
  <2>1. {utx', ushift', utodo', uline'} \subseteq Seq(Serial!Chars)
    BY <1>3, <1>4, RepliesAreWords
  <2> QED
    BY <1>2, <1>3, <2>1 DEF Serial!TypeOK
<1>6. Serial!MainInv'
  BY <1>3 DEF Serial!MainInv
<1>7. EchoAs'
  <2>1. /\ utx = <<>> /\ ushift = <<>> /\ uline = <<>> /\ utaken = <<>>
        /\ ufen /\ uwlen = 8
    BY <1>2, <1>3 DEF Serial!MainInv
  <2>2. <<>> \o <<>> = <<>> /\ <<>> \o Serial!Banner = Serial!Banner
    BY EmptySeq, ConcatEmptySeq, RepliesAreWords
  <2>3. Spoken' = Serial!Banner
    BY <1>3, <2>1, <2>2 DEF Spoken
  <2>4. Said(utaken') = <<>>
    <3>1. Said(<<>>) = <<>>
      BY DEF Said, Serial!FlattenSeq
    <3> QED
      BY <1>3, <2>1, <3>1
  <2>5. Said(utaken)' = <<>>
    BY <2>4 DEF Said
  <2>6. Serial!Banner \o <<>> = Serial!Banner
    BY ConcatEmptySeq, RepliesAreWords
  <2>7. Serial!ToSet(utaken)' = Serial!ToSet(utaken)
    BY <1>3 DEF Serial!ToSet
  <2> QED
    BY <1>2, <1>3, <2>1, <2>3, <2>5, <2>6, <2>7 DEF EchoAs, Before
<1> QED
  BY <1>5, <1>6, <1>7, EchoIs DEF Serial!IInv

LEMMA SerialPut == Serial!IInv /\ Serial!Put => Serial!IInv'
<1>1. SUFFICES ASSUME Serial!IInv, Serial!Put PROVE Serial!IInv'
  OBVIOUS
<1>2. Serial!TypeOK /\ Serial!MainInv /\ EchoAs
  BY <1>1, EchoIs DEF Serial!IInv
<1>3. /\ utodo # <<>> /\ ~ (Len(utx) >= TxSize)
      /\ utx' = IF Len(utx) < TxSize THEN Append(utx, Head(utodo)) ELSE utx
      /\ utodo' = Tail(utodo)
      /\ UNCHANGED <<uat, uwlen, ufen, uenabled, urx, ushift, uline, utyped, utaken>>
  BY <1>1 DEF Serial!Put, Serial!Full, Serial!program
<1>4. /\ urx \in Seq(Serial!Keys) /\ utyped \in Seq(Serial!Keys) /\ utaken \in Seq(Serial!Keys)
      /\ utx \in Seq(Serial!Chars) /\ ushift \in Seq(Serial!Chars)
      /\ utodo \in Seq(Serial!Chars) /\ uline \in Seq(Serial!Chars)
  BY <1>2, SerialTypes
<1>5. utx' = Append(utx, Head(utodo))
  <2>1. Len(utx) \in Nat /\ TxSize \in Nat
    BY <1>4, UartAssumption
  <2> QED
    BY <1>3, <2>1
<1>6. Head(utodo) \in Serial!Chars /\ Tail(utodo) \in Seq(Serial!Chars)
  BY <1>3, <1>4, HeadTailProperties
<1>7. Append(utx, Head(utodo)) \in Seq(Serial!Chars)
  BY <1>4, <1>6, AppendProperties
<1>8. Serial!TypeOK'
  <2>1. {utx', ushift', utodo', uline'} \subseteq Seq(Serial!Chars)
    BY <1>3, <1>4, <1>5, <1>6, <1>7
  <2> QED
    BY <1>2, <1>3, <2>1 DEF Serial!TypeOK
<1>9. uat \notin {"disable", "configure", "enable", "stopped"}
  BY <1>2, <1>3 DEF Serial!MainInv, EchoAs
<1>10. Serial!MainInv'
  BY <1>2, <1>3, <1>9 DEF Serial!MainInv
<1>11. EchoAs'
  <2>1. PICK a \in Seq(Serial!Chars) : a = uline \o ushift
    BY <1>2, SerialTypes
  <2>2. (a \o Append(utx, Head(utodo))) \o Tail(utodo)
          = a \o (Append(utx, Head(utodo)) \o Tail(utodo))
    <3>1. \A v, w \in Seq(Serial!Chars) : (a \o v) \o w = a \o (v \o w)
      <4>1. a \in Seq(Serial!Chars)
        BY <2>1
      <4>2. SUFFICES ASSUME NEW v \in Seq(Serial!Chars), NEW w \in Seq(Serial!Chars)
                     PROVE  (a \o v) \o w = a \o (v \o w)
        OBVIOUS
      <4> QED
        BY <4>1, ConcatAssociative
    <3> QED
      BY <1>6, <1>7, <3>1
  <2>3. Append(utx, Head(utodo)) \o Tail(utodo) = utx \o utodo
    BY <1>3, <1>4, MoveOne
  <2>4. a \o (utx \o utodo) = (a \o utx) \o utodo
    <3>1. PICK v \in Seq(Serial!Chars), w \in Seq(Serial!Chars) : v = utx /\ w = utodo
      BY <1>4
    <3>2. (a \o v) \o w = a \o (v \o w)
      BY <2>1, <3>1, ConcatAssociative
    <3> QED
      BY <3>1, <3>2
  <2>5. Spoken' = Spoken
    BY <1>3, <1>5, <2>1, <2>2, <2>3, <2>4 DEF Spoken
  <2>6. Said(utaken)' = Said(utaken) /\ Serial!ToSet(utaken)' = Serial!ToSet(utaken)
    BY <1>3 DEF Said, Serial!ToSet
  <2> QED
    BY <1>2, <1>3, <1>9, <2>5, <2>6 DEF EchoAs, Before
<1> QED
  BY <1>8, <1>10, <1>11, EchoIs DEF Serial!IInv

LEMMA SerialGet == Serial!IInv /\ Serial!Get => Serial!IInv'
<1>1. SUFFICES ASSUME Serial!IInv, Serial!Get PROVE Serial!IInv'
  OBVIOUS
<1>2. Serial!TypeOK /\ Serial!MainInv /\ EchoAs
  BY <1>1, EchoIs DEF Serial!IInv
<1>3. /\ uat = "poll" /\ utodo = <<>> /\ urx # <<>>
      /\ urx' = Tail(urx) /\ utaken' = Append(utaken, Head(urx))
      /\ utodo' = Serial!Reply(Head(urx))
      /\ uat' = IF Head(urx) = "q" THEN "flush" ELSE "poll"
      /\ UNCHANGED <<uwlen, ufen, uenabled, utx, ushift, uline, utyped>>
  BY <1>1 DEF Serial!Get
<1>4. /\ urx \in Seq(Serial!Keys) /\ utyped \in Seq(Serial!Keys) /\ utaken \in Seq(Serial!Keys)
      /\ utx \in Seq(Serial!Chars) /\ ushift \in Seq(Serial!Chars)
      /\ utodo \in Seq(Serial!Chars) /\ uline \in Seq(Serial!Chars)
  BY <1>2, SerialTypes
<1>5. Head(urx) \in Serial!Keys /\ Tail(urx) \in Seq(Serial!Keys)
  BY <1>3, <1>4, HeadTailProperties
<1>6. PICK c \in Serial!Keys : c = Head(urx)
  BY <1>5
<1>7. /\ Append(utaken, c) \in Seq(Serial!Keys) /\ Append(utaken, c) # <<>>
       /\ Len(Append(utaken, c)) = Len(utaken) + 1
       /\ Append(utaken, c)[Len(utaken) + 1] = c
  BY <1>4, AppendProperties
<1>8. Serial!Reply(c) \in Seq(Serial!Chars)
  BY RepliesAreWords
<1>9. Serial!TypeOK'
  <2>1. {utx', ushift', utodo', uline'} \subseteq Seq(Serial!Chars)
    BY <1>3, <1>4, <1>6, <1>8
  <2>2. {urx', utyped', utaken'} \subseteq Seq(Serial!Keys)
    BY <1>3, <1>4, <1>5, <1>6, <1>7
  <2> QED
    BY <1>2, <1>3, <2>1, <2>2 DEF Serial!TypeOK
<1>10. Serial!MainInv'
  <2>1. Serial!Last(Append(utaken, c)) = c
    BY <1>7 DEF Serial!Last
  <2>2. Serial!Last(utaken') = c /\ utaken' # <<>>
    BY <1>3, <1>6, <1>7, <2>1
  <2>3. Serial!Last(utaken)' = c
    BY <2>2 DEF Serial!Last
  <2> QED
    BY <1>3, <1>6, <2>2, <2>3 DEF Serial!MainInv
<1>11. EchoAs'
  <2>1. utaken' \o urx' = utyped'
    <3>1. Append(utaken, Head(urx)) \o Tail(urx) = utaken \o urx
      BY <1>3, <1>4, MoveOne
    <3> QED
      BY <1>2, <1>3, <3>1 DEF EchoAs
  <2>2. PICK a \in Seq(Serial!Chars) : a = uline \o ushift \o utx
    BY <1>2, SerialTypes
  <2>3. a = Serial!Banner \o Said(utaken)
    <3>1. a \o <<>> = a
      BY <2>2, ConcatEmptySeq
    <3>2. Spoken = a
      BY <1>3, <2>2, <3>1 DEF Spoken
    <3> QED
      BY <1>2, <1>3, <3>2 DEF EchoAs, Before
  <2>4. Said(utaken') = Said(utaken) \o Serial!Reply(c)
    BY <1>3, <1>4, <1>6, RepliesMore
  <2>5. Said(utaken)' = Said(utaken) \o Serial!Reply(c)
    BY <2>4 DEF Said
  <2>6. Spoken' = Serial!Banner \o Said(utaken)'
    <3>1. Spoken' = a \o Serial!Reply(c)
      BY <1>3, <1>6, <2>2 DEF Spoken
    <3>2. /\ Serial!Banner \in Seq(Serial!Chars) /\ Said(utaken) \in Seq(Serial!Chars)
      BY <1>2, SerialTypes
    <3>3. (Serial!Banner \o Said(utaken)) \o Serial!Reply(c)
            = Serial!Banner \o (Said(utaken) \o Serial!Reply(c))
      BY <1>8, <3>2, ConcatAssociative
    <3> QED
      BY <2>3, <2>5, <3>1, <3>3
  <2>7. uat' \in {"flush", "stopped"} <=> "q" \in Serial!ToSet(utaken)'
    <3>1. "q" \notin Serial!ToSet(utaken)
      BY <1>2, <1>3 DEF EchoAs
    <3>2. "q" \in Serial!ToSet(Append(utaken, c)) <=> c = "q"
      BY <1>4, <3>1, ToSetMore
    <3>3. "q" \in Serial!ToSet(utaken') <=> c = "q"
      BY <1>3, <1>6, <3>2
    <3> QED
      BY <1>3, <1>6, <3>3 DEF Serial!ToSet
  <2>8. uat' \in {"poll", "flush"}
    BY <1>3
  <2> QED
    BY <1>2, <1>3, <2>1, <2>6, <2>7, <2>8 DEF EchoAs, Before
<1> QED
  BY <1>9, <1>10, <1>11, EchoIs DEF Serial!IInv

\* Four sequences, however they are joined.
Joined(a, b, c, d) == a \o (b \o (c \o d)) = ((a \o b) \o c) \o d

LEMMA FourJoined ==
    ASSUME NEW X, NEW a \in Seq(X), NEW b \in Seq(X), NEW c \in Seq(X), NEW d \in Seq(X)
    PROVE  Joined(a, b, c, d)
<1>1. PICK bc \in Seq(X) : bc = b \o c
  BY ConcatProperties
<1>2. b \o (c \o d) = bc \o d
  BY <1>1, ConcatAssociative
<1>3. a \o (bc \o d) = (a \o bc) \o d
  BY ConcatAssociative
<1>4. a \o bc = (a \o b) \o c
  BY <1>1, ConcatAssociative
<1> QED
  BY <1>2, <1>3, <1>4 DEF Joined

LEMMA SerialFlush == Serial!IInv /\ Serial!Flush => Serial!IInv'
<1>1. SUFFICES ASSUME Serial!IInv, Serial!Flush PROVE Serial!IInv'
  OBVIOUS
<1>2. Serial!TypeOK /\ Serial!MainInv /\ EchoAs
  BY <1>1, EchoIs DEF Serial!IInv
<1>3. /\ uat = "flush" /\ utodo = <<>> /\ utx = <<>> /\ ushift = <<>> /\ uat' = "stopped"
      /\ UNCHANGED <<uwlen, ufen, uenabled, urx, utx, ushift, utodo, uline, utyped, utaken>>
  BY <1>1 DEF Serial!Flush, Serial!Busy
<1>4. /\ urx \in Seq(Serial!Keys) /\ utyped \in Seq(Serial!Keys) /\ utaken \in Seq(Serial!Keys)
      /\ utx \in Seq(Serial!Chars) /\ ushift \in Seq(Serial!Chars)
      /\ utodo \in Seq(Serial!Chars) /\ uline \in Seq(Serial!Chars)
  BY <1>2, SerialTypes
<1>5. Serial!TypeOK'
  BY <1>2, <1>3 DEF Serial!TypeOK
<1>6. Serial!MainInv'
  BY <1>2, <1>3 DEF Serial!MainInv
<1>7. uline = Serial!Banner \o Said(utaken)
  <2>1. uline \o <<>> = uline
    BY <1>4, ConcatEmptySeq
  <2>2. Spoken = uline
    BY <1>3, <2>1 DEF Spoken
  <2> QED
    BY <1>2, <1>3, <2>2 DEF EchoAs, Before
<1>8. Serial!Last(uline) = "LF"
  <2>1. utaken # <<>> /\ Serial!Last(utaken) = "q"
    BY <1>2, <1>3 DEF Serial!MainInv
  <2>2. PICK s \in Seq(Serial!Keys), c \in Serial!Keys : utaken = Append(s, c)
    BY <1>4, <2>1, SequenceEmptyOrAppend
  <2>3. c = "q"
    <3>1. Len(Append(s, c)) = Len(s) + 1 /\ Append(s, c)[Len(s) + 1] = c
      BY <2>2, AppendProperties
    <3> QED
      BY <2>1, <2>2, <3>1 DEF Serial!Last
  <2>4. PICK r \in Seq(Serial!Chars) : Serial!Reply("q") = r \o <<"CR", "LF">>
    BY RepliesAreWords
  <2>5. /\ Said(utaken) = Said(s) \o (r \o <<"CR", "LF">>)
        /\ Said(s) \in Seq(Serial!Chars)
    BY <2>2, <2>3, <2>4, RepliesMore
  <2>6. PICK u \in Seq(Serial!Chars) : u = <<"CR", "LF">>
    <3>1. "CR" \in Serial!Chars /\ "LF" \in Serial!Chars
      BY DEF Serial!Chars, Serial!Keys
    <3>2. <<"CR", "LF">> \in Seq(Serial!Chars)
      BY <3>1
    <3> QED
      BY <3>2
  <2>7. PICK b \in Seq(Serial!Chars) : b = Serial!Banner
    BY RepliesAreWords
  <2>8. PICK v \in Seq(Serial!Chars) : v = Said(s)
    BY <2>5
  <2>9. b \o (v \o (r \o u)) = ((b \o v) \o r) \o u
    <3>1. /\ v \in Seq(Serial!Chars) /\ r \in Seq(Serial!Chars)
          /\ u \in Seq(Serial!Chars) /\ b \in Seq(Serial!Chars)
      BY <2>4, <2>6, <2>7, <2>8
    <3>2. Joined(b, v, r, u)
      BY <3>1, FourJoined
    <3> QED
      BY <3>2 DEF Joined
  <2>10. PICK w \in Seq(Serial!Chars) : w = (b \o v) \o r
    <3>1. b \o v \in Seq(Serial!Chars)
      BY <2>7, <2>8, ConcatProperties
    <3> QED
      BY <2>4, <3>1, ConcatProperties
  <2>11. uline = w \o <<"CR", "LF">>
    BY <1>7, <2>5, <2>6, <2>7, <2>8, <2>9, <2>10
  <2>12. "CR" \in Serial!Chars /\ "LF" \in Serial!Chars
    BY DEF Serial!Chars, Serial!Keys
  <2> QED
    BY <2>10, <2>11, <2>12, LastOf
<1>9. EchoAs'
  <2>1. Spoken' = Spoken /\ Said(utaken)' = Said(utaken)
    BY <1>3 DEF Spoken, Said
  <2>2. Serial!ToSet(utaken)' = Serial!ToSet(utaken) /\ Serial!Last(uline)' = Serial!Last(uline)
    BY <1>3 DEF Serial!ToSet, Serial!Last
  <2>3. ~ Serial!Busy'
    BY <1>3 DEF Serial!Busy
  <2> QED
    BY <1>2, <1>3, <1>8, <2>1, <2>2, <2>3 DEF EchoAs, Before
<1> QED
  BY <1>5, <1>6, <1>9, EchoIs DEF Serial!IInv

LEMMA SerialStutter ==
    Serial!IInv /\ UNCHANGED <<uat, uwlen, ufen, uenabled, urx, utx, ushift, utodo, uline,
                               utyped, utaken>>
    => Serial!IInv'
<1>1. SUFFICES ASSUME Serial!IInv,
                      UNCHANGED <<uat, uwlen, ufen, uenabled, urx, utx, ushift, utodo, uline,
                                  utyped, utaken>>
               PROVE  Serial!IInv'
  OBVIOUS
<1>2. Serial!TypeOK' /\ Serial!MainInv'
  BY <1>1 DEF Serial!IInv, Serial!TypeOK, Serial!MainInv, Serial!Last
<1>3. Serial!EchoIsComplete'
  <2>1. EchoAs
    BY <1>1, EchoIs DEF Serial!IInv
  <2>2. Spoken' = Spoken /\ Said(utaken)' = Said(utaken) /\ Serial!Busy' = Serial!Busy
    BY <1>1 DEF Spoken, Said, Serial!Busy
  <2>3. Serial!ToSet(utaken)' = Serial!ToSet(utaken) /\ Serial!Last(uline)' = Serial!Last(uline)
    BY <1>1 DEF Serial!ToSet, Serial!Last
  <2>4. EchoAs'
    BY <1>1, <2>1, <2>2, <2>3 DEF EchoAs
  <2> QED
    BY <2>4, EchoIs
<1> QED
  BY <1>2, <1>3 DEF Serial!IInv

\* uart.c: the invariant of the echo holds whichever program runs.
THEOREM SerialInvariance == SpecAll => []Serial!IInv
<1>1. InitAll => Serial!IInv
  BY SerialInit DEF InitAll
<1>2. Serial!IInv /\ [NextAll]_allVars => Serial!IInv'
  <2> SUFFICES ASSUME Serial!IInv, [NextAll]_allVars PROVE Serial!IInv'
    OBVIOUS
  <2>1. CASE Serial!Next
    BY <2>1, SerialType, SerialShift, SerialSent, SerialDisable, SerialConfigure, SerialEnable,
       SerialPut, SerialGet, SerialFlush DEF Serial!Next
  <2>2. CASE UNCHANGED uartVars
    BY <2>2, SerialStutter DEF uartVars
  <2> QED
    BY <2>1, <2>2 DEF NextAll, allVars
<1> QED
  BY <1>1, <1>2, PTL DEF SpecAll

\* protocol.c and uart.c: the protocol gives up a line only when it went silent and
\* keeps none that is, and what the echo says is complete and in order, for any
\* sizes of the FIFOs, any timeout and any place where the ticks wrap.
THEOREM SerialLineHolds == SpecAll => []SerialLineIsRight
<1>1. Proto!IInv /\ Serial!IInv => SerialLineIsRight
  BY DEF SerialLineIsRight, Proto!IInv, Serial!IInv
<1> QED
  BY <1>1, ProtoInvariance, SerialInvariance, PTL

-----------------------------------------------------------------------------
\* rtos.c and the superloop, side by side.

LEMMA RtosAlways == SpecAll => []IInv
<1>1. InitAll => IInv
  BY RtosInit DEF InitAll
<1>2. IInv /\ [NextAll]_allVars => IInv'
  BY RtosNext DEF NextAll, allVars
<1> QED
  BY <1>1, <1>2, PTL DEF SpecAll

\* The two programs of week 54 compared: with the kernel no period drifts and no gap
\* exceeds the period by more than a tick; without it, the gap is the sum of the jobs.
THEOREM GapsAreBounded == SpecAll => []GapsBounded
<1>1. IInv /\ Loop!IInv => GapsBounded
  BY DEF GapsBounded, IInv, Loop!IInv
<1> QED
  BY <1>1, RtosAlways, LoopInvariance, PTL

=============================================================================
