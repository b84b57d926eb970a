------------------------------ MODULE AngleSensor -----------------------------
(***************************************************************************)
(* The magnetic angle sensors of src/sensor_angle.c: a timer at a fixed    *)
(* rate wakes a task that reads the chip.  A report carries no times: the  *)
(* host takes entry k of a measurement for the k-th event of its timer,    *)
(* so that an event the task missed must have an entry of its own.         *)
(*                                                                         *)
(* What the chip answers and the time code of an entry are left out, but   *)
(* for the rule that every query of a chip adds one entry, good or bad.    *)
(***************************************************************************)
EXTENDS Board

CONSTANTS
    AngleRest,   \* the rest_ticks of a query
    AngleSlots,  \* how many entries sb.data holds (17)
    OVERFLOWS    \* the width of the overflow counter (256)

ASSUME AngleSensorAssumption ==
    {AngleRest, AngleSlots, OVERFLOWS} \subseteq Nat \ {0}

VARIABLES
    angle,   \* struct spi_angle and its struct sensor_bulk
    start,   \* the clock of the last query
    slipped  \* whether overflow was not zero then, or has wrapped since
angleVars == <<angle, start, slipped>>

AngleInit ==
    /\ angle = [time |-> Off, pending |-> FALSE, overflow |-> 0,
                data |-> 0, sequence |-> 0]
    /\ start = 0 /\ slipped = FALSE

AngleTick ==
    /\ Scheduled({angle.time}) /\ Tick({angle.time})
    /\ UNCHANGED <<shutdown, task, wake, angleVars>>

(* angle_event                                                              *)
AngleEvent ==
    /\ Runs(angle.time, {angle.time})
    /\ angle' = [angle EXCEPT
           !.pending = TRUE, !.time = @ + AngleRest,
           !.overflow = IF angle.pending THEN (@ + 1) % OVERFLOWS ELSE @]
    /\ slipped' = (slipped \/ (angle.pending /\ angle.overflow + 1 = OVERFLOWS))
    /\ wake' = TRUE
    /\ UNCHANGED <<now, shutdown, task, start>>

(* command_query_spi_angle, to begin and to end measurements.  The first    *)
(* resets all but the overflow counter.                                     *)
QueryAngle(clock) ==
    /\ angle' = [angle EXCEPT !.time = clock, !.pending = FALSE,
                              !.data = 0, !.sequence = 0]
    /\ start' = clock /\ slipped' = (angle.overflow # 0)
    /\ UNCHANGED <<now, shutdown, task, wake>>
EndQueryAngle ==
    /\ angle' = [angle EXCEPT !.time = Off, !.pending = FALSE]
    /\ UNCHANGED <<now, shutdown, task, wake, start, slipped>>

(* angle_add, and sensor_bulk_report when the buffer is full.               *)
Added(a) ==
    IF a.data + 1 = AngleSlots
    THEN [a EXCEPT !.data = 0, !.sequence = @ + 1]
    ELSE [a EXCEPT !.data = @ + 1]

(* spi_angle_task, up to its masked section ...                             *)
AngleTask ==
    /\ Woken
    /\ task' = IF angle.pending THEN [at |-> "take"] ELSE Idle
    /\ UNCHANGED <<now, shutdown, angleVars>>

(* ... the section, with the time of the last event and the count of those  *)
(* before it.  Mutant: the waketime is taken for that of the last event,    *)
(* though the event has moved it on.                                        *)
NextEvent(a) == a.time
LastEvent(a) == a.time - AngleRest
TakePending ==
    /\ task.at = "take"
    /\ task' = [at |-> "slots", stime |-> LastEvent(angle),
                overflow |-> angle.overflow]
    /\ angle' = [angle EXCEPT !.pending = FALSE, !.overflow = 0]
    /\ UNCHANGED <<now, shutdown, wake, start, slipped>>

(* ... an error for each event without a measurement, ...                   *)
AddOverflow ==
    /\ task.at = "slots" /\ task.overflow > 0
    /\ angle' = Added(angle)
    /\ task' = [task EXCEPT !.overflow = @ - 1]
    /\ UNCHANGED <<now, shutdown, wake, start, slipped>>

(* ... and the measurement: a1333_query and its kin.                        *)
QueryChip ==
    /\ task.at = "slots" /\ task.overflow = 0
    /\ angle' = Added(angle) /\ task' = Idle
    /\ UNCHANGED <<now, shutdown, wake, start, slipped>>

AngleNext ==
    \/ /\ Command
       /\ \/ \E lead \in 0 .. 1 : QueryAngle(now + lead)
          \/ EndQueryAngle
    \/ /\ UNCHANGED commands
       /\ \/ AngleTick \/ AngleEvent
          \/ AngleTask \/ TakePending \/ AddOverflow \/ QueryChip

AngleAll == <<now, shutdown, task, wake, commands, angleVars>>
AngleSpec == BoardInit /\ AngleInit /\ [][AngleNext]_AngleAll

-----------------------------------------------------------------------------
(* The measurement of an event is the entry that the host takes for this    *)
(* event, however late the task was and however many events it missed, as   *)
(* long as the counter of those started at zero and did not wrap.           *)
SlotsAligned ==
    task.at = "slots" /\ ~slipped =>
        task.stime = start + AngleRest *
            (angle.sequence * AngleSlots + angle.data + task.overflow)
===============================================================================
