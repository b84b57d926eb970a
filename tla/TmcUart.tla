-------------------------------- MODULE TmcUart -------------------------------
(***************************************************************************)
(* The bit-banged UART of src/tmcuart.c: a request is sent by toggling a   *)
(* pin from timer callbacks, the reply is sampled by others, and a task    *)
(* reports it.  Bits are numbered through the bytes of data[].             *)
(*                                                                         *)
(* The host's requests begin with a start bit, which is 0.  What the line  *)
(* is while the driver chip has it is left open.                           *)
(***************************************************************************)
EXTENDS Board, FiniteSetsExt

CONSTANTS
    CfgBitTime,  \* cfg_bit_time
    SendDelay,   \* timer_from_us(200)
    SyncLimit,   \* how often the line is polled for a reply: 64 and once
    Requests,    \* the requests the host writes, as sequences of bits
    ReplyBits    \* how many bits it wants to read

ASSUME TmcUartAssumption ==
    /\ CfgBitTime \in Nat \ {0} /\ SendDelay \in Nat /\ SyncLimit \in Nat
    /\ \A r \in Requests : r \in Seq({0, 1}) /\ r # <<>> /\ Head(r) = 0
    /\ ReplyBits \subseteq Nat

VARIABLES
    uart,    \* struct tmcuart_s
    request, \* the request accepted last, and whether it awaits an answer
    edges,   \* until then, when the pin was toggled for it,
    heard    \* and the levels read since it was sent
tmcVars == <<uart, edges, heard, request>>

(* The sync nibble is followed by enough edges to measure the baud rate.    *)
BeginsWithSync(bits) ==
    Len(bits) >= 6 /\ SubSeq(bits, 1, 6) = <<0, 1, 0, 1, 0, 1>>

(* The timer interrupt is late by less than half a bit. Where the chip      *)
(* measures the bit, so is what it makes of that over the whole request,    *)
(* the rounding of the measure to a tick included.                          *)
ASSUME TmcTimingAssumption ==
    LET rounding == IF MaxLate < 2 THEN MaxLate ELSE 2
    IN /\ 2 * MaxLate < CfgBitTime
       /\ \A r \in Requests : BeginsWithSync(r) =>
              9 * MaxLate + 2 * (Len(r) - 5) * rounding < 4 * CfgBitTime

Driven(u) == IF u.high THEN 1 ELSE 0

TmcInit ==
    /\ uart = [time |-> Off, func |-> "send", high |-> TRUE, active |-> FALSE,
               sync |-> FALSE, report |-> FALSE, pos |-> 0, reads |-> 0,
               writes |-> 0, bit |-> 0, data |-> <<>>]
    /\ edges = <<>> /\ heard = <<>>
    /\ request = [bits |-> <<>>, reads |-> 0, open |-> FALSE]

TmcTick ==
    /\ Scheduled({uart.time}) /\ Tick({uart.time})
    /\ UNCHANGED <<shutdown, task, wake, tmcVars>>

(* The bit at `pos` of data[].                                              *)
BitAt(u, pos) == u.data[pos + 1]

ResetLine(u) ==
    [u EXCEPT !.high = TRUE, !.active = FALSE, !.sync = FALSE, !.report = FALSE]
Finalize(u) ==
    /\ uart' = [ResetLine(u) EXCEPT !.report = TRUE, !.time = Off] /\ wake' = TRUE

-----------------------------------------------------------------------------
(* Sending.                                                                 *)
Toggle(u) == [u EXCEPT !.high = ~@]
Quiet == UNCHANGED <<now, shutdown, task>>

(* The bits after pos, and the next of them at which the pin must change.   *)
Changes(u) == {p \in (u.pos + 1) .. (u.writes - 1) : BitAt(u, p) # Driven(u)}
SendEvent ==
    LET u == Toggle(uart)
        p == Min(Changes(u) \cup {u.writes})
    IN /\ uart.func = "send"
       /\ uart' = [u EXCEPT !.time = @ + (p - u.pos) * u.bit,
                            !.pos = IF p = u.writes THEN @ ELSE p,
                            !.func = IF p = u.writes THEN "send_finish" ELSE @]
       /\ edges' = Append(edges, now)
       /\ Quiet /\ UNCHANGED <<wake, heard, request>>

(* DIV_ROUND_CLOSEST(diff, 4)                                               *)
Quarter(diff) == IF diff >= 0 THEN (diff + 2) \div 4 ELSE -((2 - diff) \div 4)
SendSyncEvent ==
    LET u == [Toggle(uart) EXCEPT !.pos = @ + 1]
        offset == now - u.time
        diff == offset - u.bit
        bit == CfgBitTime + Quarter(diff)
    IN /\ uart.func = "send_sync"
       /\ uart' = IF u.pos >= 5
                  THEN [u EXCEPT !.bit = bit, !.func = "send",
                                 !.time = @ + diff + bit]
                  ELSE [u EXCEPT !.bit = IF u.pos = 1 THEN offset ELSE @,
                                 !.time = @ + CfgBitTime]
       /\ edges' = Append(edges, now)
       /\ Quiet /\ UNCHANGED <<wake, heard, request>>

SendFinishEvent ==
    /\ uart.func = "send_finish"
    /\ \/ uart.reads = 0 /\ Finalize(uart)
       \/ /\ uart.reads # 0
          /\ uart' = [uart EXCEPT !.pos = 0, !.func = "read_sync",
                                  !.time = @ + 4 * uart.bit]
          /\ UNCHANGED wake
    /\ Quiet /\ UNCHANGED <<edges, heard, request>>

-----------------------------------------------------------------------------
(* Reading.  u is the structure when the pin is read with the level v.      *)
Stored(u, v) ==
    [u EXCEPT !.data = [k \in 1 .. (IF Len(@) > u.pos THEN Len(@) ELSE u.pos + 1)
                           |-> IF k = u.pos + 1 THEN v ELSE u.data[k]]]
Read(u, v) ==
    \/ u.pos + 1 >= u.reads /\ Finalize(Stored(u, v))
    \/ /\ u.pos + 1 < u.reads
       /\ uart' = [Stored(u, v) EXCEPT !.pos = @ + 1, !.time = @ + u.bit]
       /\ UNCHANGED wake

ReadEvent(v) ==
    uart.func = "read" /\ Read(uart, v) /\ heard' = Append(heard, v)

(* A level that ends the wait for a reply is read once more, as its first   *)
(* bit, which may have another value w.                                     *)
StartBit(u, v) == v = 0 /\ u.sync
ReadSyncEvent(v) ==
    LET u == [uart EXCEPT !.sync = @ \/ v = 1]
    IN /\ uart.func = "read_sync"
       /\ \/ /\ StartBit(u, v)
             /\ \E w \in {0, 1} :
                    /\ Read([u EXCEPT !.pos = 0, !.func = "read"], w)
                    /\ heard' = Append(Append(heard, v), w)
          \/ /\ ~StartBit(u, v) /\ u.pos >= SyncLimit
             /\ Finalize([u EXCEPT !.pos = @ + 1, !.reads = 0])
             /\ heard' = Append(heard, v)
          \/ /\ ~StartBit(u, v) /\ u.pos < SyncLimit
             /\ uart' = [u EXCEPT !.pos = @ + 1, !.time = @ + u.bit]
             /\ heard' = Append(heard, v) /\ UNCHANGED wake

TmcEvent ==
    /\ Runs(uart.time, {uart.time})
    /\ \/ SendEvent \/ SendSyncEvent \/ SendFinishEvent
       \/ /\ \E v \in {0, 1} : ReadEvent(v) \/ ReadSyncEvent(v)
          /\ Quiet /\ UNCHANGED <<edges, request>>

-----------------------------------------------------------------------------
(* Mutant: the busy flag is not tested.                                     *)
FreeAlways == TRUE
Free == ~uart.active

(* A request while one is under way is dropped; one that comes before the   *)
(* task has reported the last takes its place, and the report is dropped.   *)
TmcuartSend(bits, reads) ==
    /\ \/ /\ Free
          /\ uart' = [uart EXCEPT
                 !.data = bits \o SubSeq(@, Len(bits) + 1, Len(@)), !.pos = 0,
                 !.sync = FALSE, !.report = FALSE, !.active = TRUE,
                 !.writes = Len(bits), !.reads = reads,
                 !.func = IF BeginsWithSync(bits) THEN "send_sync" ELSE "send",
                 !.bit = IF BeginsWithSync(bits) THEN @ ELSE CfgBitTime,
                 !.time = now + SendDelay]
          /\ edges' = <<>> /\ heard' = <<>>
          /\ request' = [bits |-> bits, reads |-> reads, open |-> TRUE]
       \/ ~Free /\ UNCHANGED tmcVars
    /\ Quiet /\ UNCHANGED wake

TmcTask ==
    /\ Woken /\ task' = [at |-> "report"]
    /\ UNCHANGED <<now, shutdown, tmcVars>>
TmcReport ==
    /\ task.at = "report" /\ task' = Idle
    /\ \/ ~uart.report /\ UNCHANGED <<uart, request>>
       \/ /\ uart.report
          /\ uart' = [uart EXCEPT !.report = FALSE]
          /\ request' = [request EXCEPT !.open = FALSE]
    /\ edges' = IF request'.open THEN edges ELSE <<>>
    /\ heard' = IF request'.open THEN heard ELSE <<>>
    /\ UNCHANGED <<now, shutdown, wake>>

TmcShutDown ==
    /\ shutdown' = TRUE /\ task' = Idle
    /\ uart' = [ResetLine(uart) EXCEPT !.time = Off]
    /\ request' = [request EXCEPT !.open = FALSE]
    /\ edges' = <<>> /\ heard' = <<>>
    /\ UNCHANGED <<now, wake>>

TmcNext ==
    \/ /\ Command
       /\ \/ \E bits \in Requests, reads \in ReplyBits : TmcuartSend(bits, reads)
          \/ TmcShutDown
    \/ ClearShutdown /\ UNCHANGED <<now, task, wake, tmcVars>>
    \/ UNCHANGED commands /\ (TmcTick \/ TmcEvent \/ TmcTask \/ TmcReport)

TmcAll == <<now, shutdown, task, wake, commands, tmcVars>>
TmcSpec == BoardInit /\ TmcInit /\ [][TmcNext]_TmcAll

-----------------------------------------------------------------------------
(* The chip takes its time from the first edge, and its baud rate from the  *)
(* sync nibble if there is one; read in the middle of each bit, the line    *)
(* is the request, however late each edge is.  Times in eighths of a bit.   *)
ChipBit(r) ==
    IF BeginsWithSync(r) THEN edges[5] - edges[1] ELSE 4 * CfgBitTime
Middle(r, k) == 8 * edges[1] + (2 * k + 1) * ChipBit(r)
LineAt(t) == IF Cardinality({i \in DOMAIN edges : 8 * edges[i] <= t}) % 2 = 0
             THEN 1 ELSE 0
RequestOnWire ==
    uart.func = "send_finish" /\ request.open =>
        \A k \in 0 .. (Len(request.bits) - 1) :
            LineAt(Middle(request.bits, k)) = request.bits[k + 1]

(* The request accepted last comes to its answer: its timer goes on, or the *)
(* task is going to report.  What is reported is the bits read from a start *)
(* bit after an idle line on, or nothing where no start bit came in time.   *)
Starts(h) == {j \in DOMAIN h : h[j] = 0 /\ \E i \in 1 .. (j - 1) : h[i] = 1}
RequestAnswered ==
    request.open =>
        \/ uart.time # Off
        \/ /\ uart.report /\ (wake \/ task.at = "report")
           /\ \/ uart.reads = request.reads /\ uart.reads = 0
              \/ /\ uart.reads = request.reads /\ Starts(heard) # {}
                 /\ SubSeq(uart.data, 1, uart.reads)
                        = SubSeq(heard, Min(Starts(heard)) + 1, Len(heard))
              \/ /\ uart.reads = 0 /\ Starts(heard) = {}
                 /\ Len(heard) = SyncLimit + 1

RequestSound == RequestOnWire /\ RequestAnswered

(* A request is given up for one reason only, apart from a shutdown: the    *)
(* host sends the next when the last is over and the task has not reported  *)
(* it.  Never in the middle of its bits, and no answer is given twice.      *)
Reports == task.at = "report" /\ task' = Idle
GivenUp ==
    request.open /\ request' # request =>
        (uart.report /\ uart.time = Off) \/ shutdown'
Answers == Reports /\ uart.report => request.open /\ ~request'.open
AnsweredOnce == [][GivenUp /\ Answers]_tmcVars

(* So every request comes to its answer, and to one only.                   *)
RequestServed == []RequestSound /\ AnsweredOnce
===============================================================================
