-------------------------------- MODULE LoadCell ------------------------------
(***************************************************************************)
(* Probing with a load cell: a converter chip, HX71x (src/sensor_hx71x.c)  *)
(* or ADS1220 (src/sensor_ads1220.c), polled by a timer and read by a      *)
(* task, which feeds src/trigger_analog.c, whose monitor watches over it.  *)
(*                                                                         *)
(* The host takes a tenth of the time between two conversions for          *)
(* rest_ticks, and arms the trigger (trsync_start) before it homes.        *)
(* Of a sample only what becomes of it is modelled, not the arithmetic of  *)
(* its filter; of the trsync, which Homing has, whether it can trigger;    *)
(* the codes of errors and what query_state reports are left out.          *)
(* The interrupt is late by less than rest_ticks.                          *)
(***************************************************************************)
EXTENDS Board

CONSTANTS
    RestTicks,     \* the rest_ticks of a query
    MonitorTicks,  \* the monitor_ticks of a homing move
    MonitorMax     \* its monitor_max

PERIOD == 10 * RestTicks

ASSUME LoadCellAssumption ==
    /\ RestTicks \in Nat \ {0} /\ MonitorTicks \in Nat \ {0}
    /\ MonitorMax \in 0 .. 255 /\ MaxLate < RestTicks

VARIABLES
    sensor,   \* struct hx71x_adc or struct ads1220_adc
    chip,     \* the chip: whether a sample is ready, when the next one is
    torn,     \* whether it changed during the read in progress, or the last
    probe,    \* struct trigger_analog
    armed,    \* whether the trsync can trigger, and until then
    activity  \* when the probe last took a sample, or the homing began
cellVars == <<sensor, chip, torn, probe, armed, activity>>

LoadCellInit ==
    /\ sensor = [kind |-> "hx71x", time |-> Off, flags |-> {}, error |-> FALSE]
    /\ chip = [ready |-> FALSE, next |-> Off] /\ torn = FALSE
    /\ probe = [time |-> Off, flags |-> {}, clock |-> 0, count |-> 0]
    /\ armed = FALSE /\ activity = 0

Celltimes == {sensor.time, probe.time}
CellTick ==
    /\ Scheduled(Celltimes) \/ armed
    /\ Tick(Celltimes) /\ (chip.next # Off => now < chip.next)
    /\ UNCHANGED <<shutdown, task, wake, cellVars>>

(* The chip has a new sample, or stops for good.                            *)
ChipConverts ==
    /\ chip.next = now
    /\ \/ chip' = [ready |-> TRUE, next |-> now + PERIOD]
       \/ chip' = [chip EXCEPT !.next = Off]
    /\ torn' = (torn \/ (task.at = "read" /\ chip'.next # Off))
    /\ UNCHANGED <<now, shutdown, task, wake, sensor, probe, armed, activity>>

-----------------------------------------------------------------------------
(* hx71x_event and ads1220_event.  Mutant: the next test comes too late.    *)
AfterNextSample == 12 * RestTicks
BeforeNextSample == 8 * RestTicks
SensorEvent ==
    LET pending == "PENDING" \in sensor.flags
        seen == ~pending /\ chip.ready
    IN /\ Runs(sensor.time, Celltimes)
       /\ sensor' = [sensor EXCEPT
              !.flags = @ \cup (IF pending /\ sensor.kind = "hx71x"
                                THEN {"OVERFLOW"} ELSE {})
                          \cup (IF seen THEN {"PENDING"} ELSE {}),
              !.time = @ + (IF pending THEN 4 * RestTicks
                            ELSE IF seen THEN BeforeNextSample ELSE RestTicks)]
       /\ wake' = (wake \/ seen)
       /\ UNCHANGED <<now, shutdown, task, chip, torn, probe, armed, activity>>

(* query_hx71x and query_ads1220, to begin or to end measurements.          *)
QuerySensor(kind, begin) ==
    /\ sensor' = [kind |-> kind, flags |-> {}, error |-> FALSE,
                  time |-> IF begin THEN now + RestTicks ELSE Off]
    /\ chip' = [ready |-> FALSE, next |-> IF begin THEN now + PERIOD ELSE Off]
    /\ UNCHANGED <<now, shutdown, task, wake, torn, probe, armed, activity>>

(* The capture tasks, up to the read of the chip.                           *)
CaptureTask ==
    /\ Woken
    /\ task' = IF sensor.flags = {} THEN Idle ELSE [at |-> "read"]
    /\ torn' = FALSE
    /\ UNCHANGED <<now, shutdown, sensor, chip, probe, armed, activity>>

(* The end of the read.  The extra clocks of an HX71x may show that it went *)
(* wrong, and a pending flag that stayed up shows that it took too long;    *)
(* an error stays until the next query.                                     *)
Error(desync) ==
    sensor.kind = "hx71x" /\ (desync \/ "OVERFLOW" \in sensor.flags \/ sensor.error)
ReadAdc ==
    /\ task.at = "read"
    /\ chip' = [chip EXCEPT !.ready = FALSE]
    /\ \E desync \in BOOLEAN :
           /\ sensor' = [sensor EXCEPT !.flags = {}, !.error = Error(desync)]
           /\ task' = [at |-> IF Error(desync) THEN "add" ELSE "update"]
    /\ UNCHANGED <<now, shutdown, wake, torn, probe, armed, activity>>

(* add_sample: the report (see Accelerometer) ends the task.                *)
AddSample ==
    /\ task.at = "add" /\ task' = Idle
    /\ UNCHANGED <<now, shutdown, wake, cellVars>>

-----------------------------------------------------------------------------
(* trsync_do_trigger                                                        *)
DoTrigger == armed' = FALSE /\ activity' = 0

(* trigger_analog_update, up to the note of activity ...                    *)
TriggerAnalogUpdate ==
    LET waits == "AWAIT" \in probe.flags /\ now < probe.clock
        active == "CAN_TRIGGER" \in probe.flags /\ ~waits
    IN /\ task.at = "update"
       /\ task' = [at |-> IF active THEN "check" ELSE "add"]
       /\ probe' = IF active THEN [probe EXCEPT !.count = 0] ELSE probe
       /\ activity' = IF active /\ armed THEN now ELSE activity
       /\ UNCHANGED <<now, shutdown, wake, sensor, chip, torn, armed>>

(* ... and its end: cancel_homing on a raw value out of range or a filter   *)
(* that overflows, a trigger, or none.                                      *)
CheckSample ==
    /\ task.at = "check" /\ task' = [at |-> "add"]
    /\ \/ DoTrigger /\ probe' = [probe EXCEPT !.flags = {}]
       \/ /\ probe' = [probe EXCEPT !.flags = {"CAN_TRIGGER"}]
          /\ UNCHANGED <<armed, activity>>
    /\ UNCHANGED <<now, shutdown, wake, sensor, chip, torn>>

(* monitor_event, whose count has eight bits.                               *)
Missed(p) == p.count > MonitorMax
MonitorEvent ==
    /\ Runs(probe.time, Celltimes)
    /\ IF "CAN_TRIGGER" \in probe.flags /\ ~Missed(probe)
       THEN probe' = [probe EXCEPT !.count = (@ + 1) % 256, !.time = @ + MonitorTicks]
       ELSE probe' = [probe EXCEPT !.time = Off]
    /\ IF "CAN_TRIGGER" \in probe.flags /\ Missed(probe)
       THEN DoTrigger ELSE UNCHANGED <<armed, activity>>
    /\ UNCHANGED <<now, shutdown, task, wake, sensor, chip, torn>>

(* trigger_analog_home, to begin or to end.                                 *)
TriggerAnalogHome(clock) ==
    /\ probe' = [time |-> clock, flags |-> {"AWAIT", "CAN_TRIGGER"},
                 clock |-> clock, count |-> 0]
    /\ armed' = TRUE /\ activity' = clock
    /\ UNCHANGED <<now, shutdown, task, wake, sensor, chip, torn>>
TriggerAnalogEnd ==
    /\ probe' = [probe EXCEPT !.time = Off, !.flags = {}]
    /\ armed' = FALSE /\ activity' = 0
    /\ UNCHANGED <<now, shutdown, task, wake, sensor, chip, torn>>

LoadCellNext ==
    \/ /\ Command
       /\ \/ \E k \in {"hx71x", "ads1220"}, b \in BOOLEAN : QuerySensor(k, b)
          \/ TriggerAnalogHome(now + 1)
          \/ TriggerAnalogEnd
    \/ /\ UNCHANGED commands
       /\ \/ CellTick \/ ChipConverts \/ SensorEvent \/ MonitorEvent
          \/ CaptureTask \/ ReadAdc \/ AddSample
          \/ TriggerAnalogUpdate \/ CheckSample

CellAll == <<now, shutdown, task, wake, commands, cellVars>>
CellSpec == BoardInit /\ LoadCellInit /\ [][LoadCellNext]_CellAll

-----------------------------------------------------------------------------
(* While a probing move can still be stopped, a chip, a task or a bus that  *)
(* gives no good sample does stop it: after monitor_max intervals and two,  *)
(* wherever in them the last sample fell.  (The count is never more than    *)
(* 255: with that for a monitor_max nothing would stop it.)                 *)
SilenceCaught ==
    armed /\ MonitorMax < 255 =>
        now <= activity + (MonitorMax + 2) * MonitorTicks + MaxLate

(* What an HX71x changed while it was being read never reaches the trigger, *)
(* though its check bits may look good: the read was marked as too long     *)
(* before the chip could change.                                            *)
NeverTorn ==
    task.at \in {"update", "check"} /\ sensor.kind = "hx71x" => ~torn

ProbeSound == SilenceCaught /\ NeverTorn
===============================================================================
