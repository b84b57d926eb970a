----------------------------- MODULE Accelerometer ----------------------------
(***************************************************************************)
(* The accelerometers ADXL345, LIS2DW, LIS3DH and BMI160                   *)
(* (src/sensor_adxl345.c, src/sensor_lis2dw.c, src/sensor_bmi160.c) and    *)
(* the bulk reports of src/sensor_bulk.c.                                  *)
(*                                                                         *)
(* A timer wakes a task, which drains the chip's FIFO and only then adds   *)
(* the timer again: one sample at a time with its status (ADXL345), or a   *)
(* block at a time by a status that was read before.  The host has the     *)
(* chip measure before it queries, with rest_ticks of several samples, and *)
(* stops a measurement before it begins the next one.                      *)
(* A sample is a unit of the counts; the chip takes one at every tick.     *)
(***************************************************************************)
EXTENDS Board, FiniteSetsExt

CONSTANTS
    AccelRest,  \* the rest_ticks of a query
    FifoSize,   \* the samples a chip's FIFO holds (32)
    BlockSize,  \* BYTES_PER_BLOCK (8 samples)
    BulkSize    \* how many samples sb.data holds (10)

ASSUME AccelerometerAssumption ==
    /\ {AccelRest, FifoSize, BlockSize, BulkSize} \subseteq Nat \ {0}
    /\ 2 * BlockSize <= FifoSize

VARIABLES
    accel,   \* struct adxl345, lis2dw or bmi160, and its struct sensor_bulk
    fifo,    \* the chip: samples in its FIFO; whether it measures and has
             \* lost some, and that it was read well since
    misread  \* whether more was read than the FIFO held
accelVars == <<accel, fifo, misread>>

AccelInit ==
    /\ accel = [kind |-> "adxl345", time |-> Off, pending |-> FALSE, left |-> 0,
                data |-> 0, sequence |-> 0, overflows |-> 0]
    /\ fifo = [on |-> FALSE, count |-> 0, lost |-> "no"]
    /\ misread = FALSE

AccelTick ==
    /\ Tick({accel.time})
    /\ fifo' = IF ~fifo.on THEN fifo
               ELSE IF fifo.count < FifoSize THEN [fifo EXCEPT !.count = @ + 1]
               ELSE [fifo EXCEPT !.lost = "unread"]
    /\ UNCHANGED <<shutdown, task, wake, accel, misread>>

(* adxl345_event and its kin.                                               *)
AccelEvent ==
    /\ Runs(accel.time, {accel.time})
    /\ accel' = [accel EXCEPT !.pending = TRUE, !.time = Off]
    /\ wake' = TRUE
    /\ UNCHANGED <<now, shutdown, task, fifo, misread>>

(* sensor_bulk_reset                                                        *)
BulkReset(a) == [a EXCEPT !.data = 0, !.sequence = 0, !.overflows = 0]

(* command_query_adxl345 and its kin, to begin and to end measurements.     *)
(* Mutant: the flag of the last measurement stays.                          *)
StillPending(a) == [a EXCEPT !.time = Off]
Stopped(a) == [a EXCEPT !.time = Off, !.pending = FALSE]
QueryAccel(kind) ==
    /\ ~fifo.on
    /\ accel' = [BulkReset(Stopped(accel)) EXCEPT
           !.kind = kind, !.left = 0, !.time = now + AccelRest]
    /\ fifo' = [on |-> TRUE, count |-> 0, lost |-> "no"]
    /\ UNCHANGED <<now, shutdown, task, wake, misread>>
EndQueryAccel ==
    /\ accel' = Stopped(accel)
    /\ fifo' = [fifo EXCEPT !.on = FALSE]
    /\ UNCHANGED <<now, shutdown, task, wake, misread>>

(* adxl345_task and its kin.                                                *)
AccelTask ==
    /\ Woken
    /\ task' = IF accel.pending THEN [at |-> "query"] ELSE Idle
    /\ UNCHANGED <<now, shutdown, accelVars>>

(* The end of adxl_query and lis2dw_query: the task again, or the timer.    *)
GoOn(a, more) ==
    /\ accel' = IF more THEN a
                ELSE [a EXCEPT !.pending = FALSE, !.time = now + AccelRest]
    /\ wake' = (wake \/ more) /\ task' = Idle

(* adxl_query: a sample, or the mark of a data error, and fifo_status.      *)
WasFull(status) == status >= FifoSize - 1
AdxlQuery ==
    /\ task.at = "query" /\ accel.kind = "adxl345"
    /\ misread' = (misread \/ fifo.count = 0)
    /\ \E error \in BOOLEAN :
           LET rest == Max({fifo.count - 1, 0})
               status == IF error THEN 0 ELSE rest
               full == accel.data + 1 = BulkSize
           IN /\ fifo' = [fifo EXCEPT
                     !.count = rest,
                     !.lost = IF @ = "unread" /\ ~error THEN "read" ELSE @]
              /\ GoOn([accel EXCEPT
                     !.data = IF full THEN 0 ELSE @ + 1,
                     !.sequence = @ + (IF full THEN 1 ELSE 0),
                     !.overflows = @ + (IF WasFull(status) THEN 1 ELSE 0)],
                     status > 1)
    /\ UNCHANGED <<now, shutdown>>

(* update_fifo_status of sensor_lis2dw.c (an overrun bit; the FIFO's level  *)
(* has five bits on a LIS3DH) and of sensor_bmi160.c.                       *)
UpdateFifoStatus(a) ==
    [a EXCEPT
        !.left = IF a.kind = "lis3dh" THEN Min({fifo.count, FifoSize - 1})
                 ELSE fifo.count,
        !.overflows = @ + (IF IF a.kind = "bmi160" THEN fifo.count > FifoSize
                              ELSE fifo.lost = "unread"
                           THEN 1 ELSE 0)]

(* lis2dw_query and bmi160_query, the status ...                            *)
QueryFifoStatus ==
    /\ task.at = "query" /\ accel.kind # "adxl345"
    /\ accel' = IF accel.left < BlockSize THEN UpdateFifoStatus(accel) ELSE accel
    /\ task' = [at |-> "block"]
    /\ UNCHANGED <<now, shutdown, wake, fifo, misread>>

(* ... and the block.                                                       *)
ReadFifoBlock ==
    LET has == accel.left >= BlockSize
    IN /\ task.at = "block"
       /\ misread' = (misread \/ (has /\ fifo.count < BlockSize))
       /\ fifo' = IF has THEN [fifo EXCEPT !.count = Max({@ - BlockSize, 0}),
                                           !.lost = IF @ = "unread" THEN "read" ELSE @]
                  ELSE fifo
       /\ LET a == IF has THEN [accel EXCEPT !.left = @ - BlockSize,
                                             !.sequence = @ + 1]
                   ELSE accel
          IN GoOn(a, a.left >= BlockSize)
       /\ UNCHANGED <<now, shutdown>>

(* command_query_lis2dw_status and command_query_bmi160_status; that of the *)
(* ADXL345 changes nothing.                                                 *)
AccelStatus ==
    /\ accel.kind # "adxl345" /\ accel' = UpdateFifoStatus(accel)
    /\ UNCHANGED <<now, shutdown, task, wake, fifo, misread>>

AccelNext ==
    \/ /\ Command
       /\ \/ \E k \in {"adxl345", "lis2dw", "lis3dh", "bmi160"} : QueryAccel(k)
          \/ EndQueryAccel
          \/ AccelStatus
    \/ /\ UNCHANGED commands
       /\ \/ AccelTick \/ AccelEvent
          \/ AccelTask \/ AdxlQuery \/ QueryFifoStatus \/ ReadFifoBlock

AccelAll == <<now, shutdown, task, wake, commands, accelVars>>
AccelSpec == BoardInit /\ AccelInit /\ [][AccelNext]_AccelAll

-----------------------------------------------------------------------------
(* The task never adds the timer while it is on the list, where a second    *)
(* insertion would break the list's links: it has work only when the timer  *)
(* has run.                                                                 *)
AddedOnce == accel.pending => accel.time = Off

(* The task reads no sample the chip does not have: what it remembers of    *)
(* the FIFO's level from another call, or from a status command, is there.  *)
ReadsAreReal ==
    /\ ~misread
    /\ accel.kind # "adxl345" /\ fifo.on => accel.left <= fifo.count

(* Samples of an ADXL345 that were lost before a good read are counted with *)
(* that read, so that the host knows before it uses what came after them.   *)
LossNoted ==
    accel.kind = "adxl345" /\ fifo.lost = "read" => accel.overflows > 0

DrainSound == AddedOnce /\ ReadsAreReal /\ LossNoted
===============================================================================
