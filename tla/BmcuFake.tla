------------------------------ MODULE BmcuFake ------------------------------
(***************************************************************************)
(* The fake-pin driver of src/esp32/bmcu_fake.c: output pins that latch a  *)
(* channel and a mode, a trigger pin that starts an action of the external *)
(* BMCU adapter, an endstop pin that reads !action_active, and the line    *)
(* assembler that polls UART2 for the adapter's "DONE".                    *)
(*                                                                         *)
(* bmcu_fake_poll_uart() has two callers on one core: bmcu_fake_task() (and*)
(* the command handlers), in task context with interrupts enabled, and the *)
(* timer interrupt, through gpio_in_read() of an endstop sample or         *)
(* gpio_out_toggle_noirq() of a step or pwm pin.  Nothing masks the        *)
(* interrupt around the task's poll, so the model runs the same steps in   *)
(* two contexts: "irq" preempts "task" between any two steps and runs to   *)
(* its end before the task moves again.                                    *)
(*                                                                         *)
(* Bytes are members of the set Byte and DONE is any non-empty sequence of *)
(* them, so that short lines can stand for the real ones.                  *)
(***************************************************************************)
EXTENDS Integers, Sequences

CONSTANTS
    Byte,          \* the bytes a line is made of
    NUL, CR, LF,   \* '\0', '\r' and '\n'
    DONE,          \* BMCU_DONE_LINE
    RX_LINE_MAX,   \* BMCU_RX_LINE_MAX, the size of rx_line
    DATA_MAX,      \* sizeof(data) in bmcu_fake_poll_uart
    FIFO_MAX,      \* capacity of the UART's receive FIFO (hardware)
    Lines,         \* the lines the external adapter may send
    MaxLines,      \* bound: lines sent in one behaviour
    DrivenPins,    \* the fake output pins the host has configured
    Reloads,       \* TRUE if the build reads rx_len again to store a byte:
                   \* it is neither volatile nor masked, so C allows both
    IrqReads       \* TRUE if a timer interrupt reads or toggles a fake pin:
                   \* an armed endstop, a running fake stepper, a software pwm

ASSUME BytesAssumption ==
    /\ NUL \in Byte /\ CR \in Byte /\ LF \in Byte
    /\ DONE \in Seq(Byte) /\ Lines \subseteq Seq(Byte)
(* DONE is text, and the adapter ends each of its lines.                    *)
ASSUME LinesAssumption ==
    /\ CR # LF /\ DONE # <<>>
    /\ \A i \in DOMAIN DONE : DONE[i] \notin {NUL, CR, LF}
    /\ \A l \in Lines : l # <<>> /\ l[Len(l)] = LF
ASSUME SizesAssumption ==
    /\ RX_LINE_MAX \in Nat /\ RX_LINE_MAX > Len(DONE)
    /\ DATA_MAX \in Nat \ {0}
    /\ FIFO_MAX \in Nat \ {0}
    /\ MaxLines \in Nat
    /\ IrqReads \in BOOLEAN /\ Reloads \in BOOLEAN

Context == {"task", "irq"}
ChannelPins == {"channel_low", "channel_high", "channel_mode"}
OutputPins == ChannelPins \cup {"action_dir", "action_step", "action_trigger"}
NoPin == "none"
Bit == {0, 1}
Request == [command : {"INPUT", "OUTPUT"}, channel : 0..3]
NoRequest == [command |-> "INPUT", channel |-> 0]
ASSUME PinsAssumption == DrivenPins \subseteq OutputPins

VARIABLES
    channel_low, channel_high, channel_mode,
    action_active,
    uart_initialized,
    rx_len, rx_line,
    led_state,
    pc,        \* where each context is in the driver
    led_saw,   \* action_active as led_task tested it
    take,      \* len, the number of bytes to read from the FIFO
    data,      \* the part of the local array data[] not yet processed
    reg,       \* rx_len as loaded by the bounds check, or for the store
    matched,   \* the result of strcmp
    toggling,  \* the pin whose toggle polls first, or NoPin
    request,   \* the request being formatted
    fifo,      \* the UART's receive FIFO
    sent,      \* every request written to the UART's transmit FIFO
    wire,      \* what is left of the line the adapter is sending
    line,      \* the whole of that line
    lines,     \* how many lines the adapter has begun
    clean,     \* the bytes accepted since the last LF are a line so far:
               \* none was dropped and no action started in its middle
    doneSeen,  \* a DONE line was received whole since the last start
    doneLines, \* how many DONE lines the adapter has begun
    completions \* how many times action_active fell

pins == <<channel_low, channel_high, channel_mode>>
assembler == <<rx_len, rx_line>>
locals == <<led_saw, take, data, reg, matched, toggling, request>>
adapter == <<wire, line, lines, doneLines>>
ghosts == <<clean, doneSeen, completions>>
vars == <<pins, action_active, uart_initialized, assembler, led_state, pc,
          locals, fifo, sent, adapter, ghosts>>

IsDone(l) == l \in {DONE \o <<LF>>, DONE \o <<CR, LF>>}

Init ==
    /\ channel_low = 0 /\ channel_high = 0 /\ channel_mode = 0
    /\ action_active = 0
    /\ uart_initialized = 0
    /\ rx_len = 0
    /\ rx_line = [i \in 0..(RX_LINE_MAX - 1) |-> NUL]
    /\ led_state = 0
    /\ pc = [c \in Context |-> IF c = "task" THEN "boot" ELSE "idle"]
    /\ led_saw = [c \in Context |-> 0]
    /\ take = [c \in Context |-> 0]
    /\ data = [c \in Context |-> <<>>]
    /\ reg = [c \in Context |-> 0]
    /\ matched = [c \in Context |-> FALSE]
    /\ toggling = [c \in Context |-> NoPin]
    /\ request = [c \in Context |-> NoRequest]
    /\ fifo = <<>> /\ sent = <<>>
    /\ wire = <<>> /\ line = <<>> /\ lines = 0
    /\ clean = TRUE /\ doneSeen = FALSE
    /\ doneLines = 0 /\ completions = 0

(* A context runs when it is the interrupt, or when no interrupt is active. *)
Runs(c) == c = "irq" \/ pc["irq"] = "idle"

At(c, label) == pc[c] = label /\ Runs(c)
Goto(c, label) == pc' = [pc EXCEPT ![c] = label]

-----------------------------------------------------------------------------
(* bmcu_fake_init, from ctr_run_initfuncs before the task loop starts.     *)

InitUart ==
    /\ At("task", "boot")
    /\ uart_initialized' = 1
    /\ fifo' = <<>>
    /\ Goto("task", "idle")
    /\ UNCHANGED <<pins, action_active, assembler, led_state, locals, sent,
                   adapter, ghosts>>

-----------------------------------------------------------------------------
(* bmcu_fake_poll_uart                                                     *)

(* Mutant: a command writes the pin with its timer still armed.             *)
TimerStillArmed(c, p) == TRUE

(* A pin belongs to one digital_out object: command_update_digital_out, in  *)
(* task context, deletes the object's timer before it writes the pin, so no *)
(* interrupt writes that pin while the task does.                           *)
TimerDeleted(c, p) ==
    c = "irq" /\ p = "action_trigger" => pc["task"] \notin {"start", "send"}

(* A poll begins with the test of action_active in bmcu_fake_led_task.  A   *)
(* read of any fake pin polls; a toggle polls before it writes.             *)
BeginPoll(c, p) ==
    /\ At(c, "idle") /\ pc["task"] # "boot"
    /\ c = "irq" => IrqReads
    /\ p # NoPin => c = "irq"
    /\ TimerDeleted(c, p)
    /\ toggling' = [toggling EXCEPT ![c] = p]
    /\ led_saw' = [led_saw EXCEPT ![c] = action_active]
    /\ Goto(c, "led")
    /\ UNCHANGED <<pins, action_active, uart_initialized, assembler, led_state,
                   take, data, reg, matched, request, fifo, sent, adapter,
                   ghosts>>

(* Mutant: the idle branch does not turn the LED off.                       *)
LedTaskKeepsLed(c) ==
    /\ At(c, "led")
    /\ led_state' \in IF led_saw[c] = 0 THEN {led_state}
                      ELSE {led_state, 1 - led_state}
    /\ Goto(c, "fifo")
    /\ UNCHANGED <<pins, action_active, uart_initialized, assembler, locals,
                   fifo, sent, adapter, ghosts>>

(* The rest of bmcu_fake_led_task; the blink period may or may not be over. *)
LedTask(c) ==
    /\ At(c, "led")
    /\ led_state' \in IF led_saw[c] = 0 THEN {0} ELSE {led_state, 1 - led_state}
    /\ Goto(c, "fifo")
    /\ UNCHANGED <<pins, action_active, uart_initialized, assembler, locals,
                   fifo, sent, adapter, ghosts>>

(* The FIFO's length is latched, then that many bytes are read.             *)
FifoLen(c) ==
    /\ At(c, "fifo")
    /\ uart_initialized = 1 /\ fifo # <<>>
    /\ take' = [take EXCEPT ![c] = IF Len(fifo) > DATA_MAX THEN DATA_MAX
                                   ELSE Len(fifo)]
    /\ Goto(c, "read")
    /\ UNCHANGED <<pins, action_active, uart_initialized, assembler, led_state,
                   led_saw, data, reg, matched, toggling, request, fifo, sent,
                   adapter, ghosts>>

(* A read past the bytes that are left (another context drained them)       *)
(* returns whatever the hardware returns.                                   *)
ReadFifo(c) ==
    /\ At(c, "read")
    /\ IF take[c] <= Len(fifo)
       THEN /\ data' = [data EXCEPT ![c] = SubSeq(fifo, 1, take[c])]
            /\ fifo' = SubSeq(fifo, take[c] + 1, Len(fifo))
       ELSE /\ \E junk \in [1..(take[c] - Len(fifo)) -> Byte] :
                   data' = [data EXCEPT ![c] = fifo \o junk]
            /\ fifo' = <<>>
    /\ take' = [take EXCEPT ![c] = 0]
    /\ Goto(c, "byte")
    /\ UNCHANGED <<pins, action_active, uart_initialized, assembler, led_state,
                   led_saw, reg, matched, toggling, request, sent, adapter,
                   ghosts>>

(* End of the inner loop: back to the FIFO.                                 *)
EndData(c) ==
    /\ At(c, "byte") /\ data[c] = <<>>
    /\ Goto(c, "fifo")
    /\ UNCHANGED <<pins, action_active, uart_initialized, assembler, led_state,
                   locals, fifo, sent, adapter, ghosts>>

(* Mutant: a carriage return is stored like any other byte.                 *)
StoreCR(c) ==
    /\ At(c, "byte") /\ data[c] # <<>> /\ Head(data[c]) = CR
    /\ data' = [data EXCEPT ![c] = Tail(data[c])]
    /\ IF rx_len < RX_LINE_MAX - 1
       THEN /\ rx_line' = [rx_line EXCEPT ![rx_len] = CR]
            /\ rx_len' = rx_len + 1
       ELSE rx_len' = 0 /\ UNCHANGED rx_line
    /\ UNCHANGED <<pins, action_active, uart_initialized, led_state, pc,
                   led_saw, take, reg, matched, toggling, request, fifo, sent,
                   adapter, ghosts>>

SkipCR(c) ==
    /\ At(c, "byte") /\ data[c] # <<>> /\ Head(data[c]) = CR
    /\ data' = [data EXCEPT ![c] = Tail(data[c])]
    /\ UNCHANGED <<pins, action_active, uart_initialized, assembler, led_state,
                   pc, led_saw, take, reg, matched, toggling, request, fifo,
                   sent, adapter, ghosts>>

(* Mutant: strncmp(rx_line, BMCU_DONE_LINE, rx_len) == 0                    *)
IsDonePrefix(l) ==
    \A i \in 1..rx_len : i <= Len(DONE) /\ l[i - 1] = DONE[i]

(* strcmp(rx_line, BMCU_DONE_LINE) == 0                                     *)
IsDoneLine(l) ==
    /\ \A i \in 1..Len(DONE) : l[i - 1] = DONE[i]
    /\ l[Len(DONE)] = NUL

(* A line feed: bmcu_fake_finish_rx_line up to the comparison ...  (A NUL   *)
(* that falls behind rx_line, see LineFits, changes led_initialized, whose  *)
(* only effect is that the LED's pin is set up once more.)                  *)
CompareLine(c) ==
    /\ At(c, "byte") /\ data[c] # <<>> /\ Head(data[c]) = LF
    /\ data' = [data EXCEPT ![c] = Tail(data[c])]
    /\ rx_line' = [rx_line EXCEPT ![rx_len] = NUL]
    /\ matched' = [matched EXCEPT ![c] = IsDoneLine(rx_line')]
    /\ Goto(c, "finish")
    /\ UNCHANGED <<pins, action_active, uart_initialized, rx_len, led_state,
                   led_saw, take, reg, toggling, request, fifo, sent, adapter,
                   ghosts>>

(* Mutant: the line is not cleared after it was compared.                   *)
FinishLineKeepLen(c) ==
    /\ At(c, "finish")
    /\ IF matched[c]
       THEN /\ action_active' = 0
            /\ completions' = completions + action_active
       ELSE UNCHANGED <<action_active, completions>>
    /\ matched' = [matched EXCEPT ![c] = FALSE]
    /\ Goto(c, "byte")
    /\ UNCHANGED <<pins, uart_initialized, assembler, led_state, led_saw, take,
                   data, reg, toggling, request, fifo, sent, adapter, clean,
                   doneSeen>>

(* ... and the rest: bmcu_fake_finish_action, then rx_len = 0.              *)
FinishLine(c) ==
    /\ At(c, "finish")
    /\ IF matched[c]
       THEN /\ action_active' = 0
            /\ completions' = completions + action_active
       ELSE UNCHANGED <<action_active, completions>>
    /\ rx_len' = 0
    /\ matched' = [matched EXCEPT ![c] = FALSE]
    /\ Goto(c, "byte")
    /\ UNCHANGED <<pins, uart_initialized, rx_line, led_state, led_saw, take,
                   data, reg, toggling, request, fifo, sent, adapter, clean,
                   doneSeen>>

(* Any other byte: rx_len is loaded for the bounds check ...                *)
LoadLen(c) ==
    /\ At(c, "byte") /\ data[c] # <<>> /\ Head(data[c]) \notin {CR, LF}
    /\ reg' = [reg EXCEPT ![c] = rx_len]
    /\ Goto(c, "store")
    /\ UNCHANGED <<pins, action_active, uart_initialized, assembler, led_state,
                   led_saw, take, data, matched, toggling, request, fifo, sent,
                   adapter, ghosts>>

(* Mutant: the bounds check leaves no room for the terminating NUL.         *)
HasRoomForByte(len) == len < RX_LINE_MAX

(* The bounds check.                                                        *)
HasRoom(len) == len < RX_LINE_MAX - 1

(* The byte fits, but its index is yet to be read.                          *)
Unindexed(c) == pc[c] = "store" /\ Reloads /\ HasRoom(reg[c])

(* ... and again for the index, in a build that does not keep it ...        *)
ReloadLen(c) ==
    /\ At(c, "store") /\ Unindexed(c)
    /\ reg' = [reg EXCEPT ![c] = rx_len]
    /\ Goto(c, "index")
    /\ UNCHANGED <<pins, action_active, uart_initialized, assembler, led_state,
                   led_saw, take, data, matched, toggling, request, fifo, sent,
                   adapter, ghosts>>

(* ... and the byte stored at the loaded index, or the line dropped.        *)
StoreByte(c) ==
    /\ At(c, "index") \/ (At(c, "store") /\ ~Unindexed(c))
    /\ IF pc[c] = "index" \/ HasRoom(reg[c])
       THEN /\ rx_line' = [rx_line EXCEPT ![reg[c]] = Head(data[c])]
            /\ rx_len' = reg[c] + 1
       ELSE /\ rx_len' = 0
            /\ UNCHANGED rx_line
    /\ data' = [data EXCEPT ![c] = Tail(data[c])]
    /\ reg' = [reg EXCEPT ![c] = 0]
    /\ Goto(c, "byte")
    /\ UNCHANGED <<pins, action_active, uart_initialized, led_state, led_saw,
                   take, matched, toggling, request, fifo, sent, adapter,
                   ghosts>>

-----------------------------------------------------------------------------
(* bmcu_fake_write and bmcu_fake_toggle                                    *)

ReadPin(p) ==
    CASE p = "channel_low"  -> channel_low
      [] p = "channel_high" -> channel_high
      [] p = "channel_mode" -> channel_mode
      [] OTHER              -> 0

WritePin(c, p, bit) ==
    /\ channel_low' = IF p = "channel_low" THEN bit ELSE channel_low
    /\ channel_high' = IF p = "channel_high" THEN bit ELSE channel_high
    /\ channel_mode' = IF p = "channel_mode" THEN bit ELSE channel_mode
    /\ Goto(c, IF p = "action_trigger" /\ bit = 1 /\ action_active = 0
               THEN "start" ELSE "idle")

Write(c, p, bit) ==
    /\ At(c, "idle") /\ pc["task"] # "boot"
    /\ TimerDeleted(c, p)
    /\ WritePin(c, p, bit)
    /\ UNCHANGED <<action_active, uart_initialized, assembler, led_state,
                   locals, fifo, sent, adapter, ghosts>>

(* The FIFO is empty: the poll returns, and a toggle writes the inverse of  *)
(* what it read.                                                            *)
EndPoll(c) ==
    /\ At(c, "fifo")
    /\ uart_initialized = 0 \/ fifo = <<>>
    /\ IF toggling[c] = NoPin
       THEN Goto(c, "idle") /\ UNCHANGED pins
       ELSE WritePin(c, toggling[c], 1 - ReadPin(toggling[c]))
    /\ toggling' = [toggling EXCEPT ![c] = NoPin]
    /\ UNCHANGED <<action_active, uart_initialized, assembler, led_state,
                   led_saw, take, data, reg, matched, request, fifo, sent,
                   adapter, ghosts>>

(* bmcu_fake_start_action, up to the formatting of the request ...          *)
StartAction(c) ==
    /\ At(c, "start")
    /\ request' = [request EXCEPT ![c] =
           [command |-> IF channel_mode = 1 THEN "OUTPUT" ELSE "INPUT",
            channel |-> channel_low + 2 * channel_high]]
    /\ action_active' = 1
    /\ rx_len' = 0
    /\ led_state' = 1
    /\ clean' = (clean /\ wire = <<>>)
    /\ doneSeen' = FALSE
    /\ Goto(c, "send")
    /\ UNCHANGED <<pins, uart_initialized, rx_line, led_saw, take, data, reg,
                   matched, toggling, fifo, sent, adapter, completions>>

(* Mutant: the request is formatted from the pins only when it is sent.     *)
SendFromPins(c) ==
    /\ At(c, "send")
    /\ sent' = Append(sent,
           [command |-> IF channel_mode = 1 THEN "OUTPUT" ELSE "INPUT",
            channel |-> channel_low + 2 * channel_high])
    /\ uart_initialized' = 1
    /\ fifo' = IF uart_initialized = 1 THEN fifo ELSE <<>>
    /\ request' = [request EXCEPT ![c] = NoRequest]
    /\ Goto(c, "idle")
    /\ UNCHANGED <<pins, action_active, assembler, led_state, led_saw, take,
                   data, reg, matched, toggling, adapter, ghosts>>

(* ... and bmcu_fake_uart_write, which initializes the UART if need be.     *)
SendRequest(c) ==
    /\ At(c, "send")
    /\ sent' = Append(sent, request[c])
    /\ uart_initialized' = 1
    /\ fifo' = IF uart_initialized = 1 THEN fifo ELSE <<>>
    /\ request' = [request EXCEPT ![c] = NoRequest]
    /\ Goto(c, "idle")
    /\ UNCHANGED <<pins, action_active, assembler, led_state, led_saw, take,
                   data, reg, matched, toggling, adapter, ghosts>>

-----------------------------------------------------------------------------
(* The external adapter and the UART's receiver.                            *)

(* A byte enters the FIFO, or is dropped when the FIFO is full.             *)
Receive(b, rest, l) ==
    /\ wire' = rest
    /\ IF Len(fifo) < FIFO_MAX
       THEN /\ fifo' = Append(fifo, b)
            /\ clean' = (clean \/ b = LF)
            /\ doneSeen' = (doneSeen \/ (b = LF /\ clean /\ IsDone(l)))
       ELSE /\ clean' = FALSE
            /\ UNCHANGED <<fifo, doneSeen>>
    /\ UNCHANGED <<pins, action_active, uart_initialized, assembler, led_state,
                   pc, locals, sent, completions>>

BeginLine ==
    /\ uart_initialized = 1 /\ wire = <<>> /\ lines < MaxLines
    /\ \E l \in Lines :
           /\ l # <<>>
           /\ line' = IF Tail(l) = <<>> THEN <<>> ELSE l
           /\ doneLines' = doneLines + (IF IsDone(l) THEN 1 ELSE 0)
           /\ Receive(Head(l), Tail(l), l)
    /\ lines' = lines + 1

NextWireByte ==
    /\ wire # <<>>
    /\ Receive(Head(wire), Tail(wire), line)
    /\ line' = IF Tail(wire) = <<>> THEN <<>> ELSE line
    /\ UNCHANGED <<lines, doneLines>>

-----------------------------------------------------------------------------
BeginTaskPoll == BeginPoll("task", NoPin)
BeginIrqPoll == \E p \in DrivenPins \cup {NoPin} : BeginPoll("irq", p)
BeginWrite(c) == \E p \in DrivenPins, bit \in Bit : Write(c, p, bit)

(* The steps of a driver call already under way.                            *)
Continue(c) ==
    \/ LedTask(c) \/ FifoLen(c) \/ ReadFifo(c)
    \/ EndData(c) \/ SkipCR(c) \/ CompareLine(c) \/ FinishLine(c)
    \/ LoadLen(c) \/ ReloadLen(c) \/ StoreByte(c)
    \/ EndPoll(c) \/ StartAction(c) \/ SendRequest(c)

Next ==
    \/ InitUart
    \/ BeginTaskPoll \/ BeginIrqPoll
    \/ \E c \in Context : BeginWrite(c) \/ Continue(c)
    \/ BeginLine \/ NextWireByte

Spec == Init /\ [][Next]_vars

(* The interrupt returns; the task goes on; and sched_main keeps running    *)
(* bmcu_fake_task whatever else the task context is asked to do (strong:    *)
(* commands and interrupts come in between).  Nothing makes the adapter     *)
(* send, and nothing makes a pin change.                                    *)
Fairness ==
    /\ WF_vars(InitUart)
    /\ WF_vars(Continue("irq"))
    /\ SF_vars(Continue("task"))
    /\ SF_vars(BeginTaskPoll)
FairSpec == Spec /\ Fairness

-----------------------------------------------------------------------------
Label == {"boot", "idle", "led", "fifo", "read", "byte", "store", "index",
          "finish", "start", "send"}

PinTypes ==
    /\ channel_low \in Bit /\ channel_high \in Bit /\ channel_mode \in Bit
    /\ action_active \in Bit /\ uart_initialized \in Bit /\ led_state \in Bit
AssemblerTypes ==
    /\ rx_len \in Nat
    /\ rx_line \in [0..(RX_LINE_MAX - 1) -> Byte]
    /\ reg \in [Context -> Nat]
ControlTypes ==
    /\ pc \in [Context -> Label]
    /\ toggling \in [Context -> OutputPins \cup {NoPin}]
LocalTypes ==
    /\ led_saw \in [Context -> Bit]
    /\ take \in [Context -> Nat]
    /\ matched \in [Context -> BOOLEAN]
    /\ request \in [Context -> Request]
StreamTypes ==
    /\ data \in [Context -> Seq(Byte)]
    /\ fifo \in Seq(Byte) /\ sent \in Seq(Request)
    /\ wire \in Seq(Byte) /\ line \in Seq(Byte)
    /\ \A c \in Context : pc[c] \in {"store", "index"} => data[c] # <<>>
GhostTypes ==
    /\ lines \in Nat /\ doneLines \in Nat /\ completions \in Nat
    /\ clean \in BOOLEAN /\ doneSeen \in BOOLEAN

(* Types; the data[] array is never read past what was taken from the FIFO. *)
TypeOK ==
    /\ PinTypes /\ AssemblerTypes /\ ControlTypes /\ LocalTypes
    /\ StreamTypes /\ GhostTypes

(* Two contexts assemble one line: a byte one of them stores is stored in   *)
(* rx_line, whatever the other did to rx_len after the bounds check.  The   *)
(* NUL that ends a line is stored in rx_line too, but for a build that      *)
(* reads rx_len twice while an interrupt polls: there it may fall on the    *)
(* byte behind the line, which is led_initialized.                          *)
Stores(c) == pc[c] = "index" \/ (pc[c] = "store" /\ HasRoom(reg[c]) /\ ~Reloads)
LineFits ==
    /\ \A c \in Context : Stores(c) => reg[c] < RX_LINE_MAX
    /\ rx_len < RX_LINE_MAX \/ (rx_len = RX_LINE_MAX /\ Reloads /\ IrqReads)

(* Re-entry is blocked: with one request between the two steps of           *)
(* bmcu_fake_start_action counted, every request sent is matched by one     *)
(* fall of action_active, but for the one that is active.  A start while    *)
(* another action was active would break the count.                         *)
Sending == (IF pc["task"] = "send" THEN 1 ELSE 0)
           + (IF pc["irq"] = "send" THEN 1 ELSE 0)
OneOutstanding == Len(sent) + Sending = completions + action_active

(* An action only ends because the adapter sent a DONE line: the driver     *)
(* never completes more actions than DONE lines were put on the wire.       *)
CompletionNeedsDone == completions <= doneLines

(* Requests, completions and DONE lines match, one by one.                  *)
RequestsMatched == OneOutstanding /\ CompletionNeedsDone

(* "On any DONE, ESP32 unconditionally sets action_active = 0": once a      *)
(* whole DONE line was received after the start and the driver has caught   *)
(* up with its FIFO, the action is over.                                    *)
DoneConverges ==
    doneSeen /\ fifo = <<>> /\ (\A c \in Context : pc[c] = "idle")
        => action_active = 0

(* The same promise over time: the task loop gets there.                    *)
DoneEndsAction == doneSeen ~> (action_active = 0 \/ ~doneSeen)

(* The LED does not outlive the action, even when the interrupt completed   *)
(* it between led_task's test and its write.                                *)
LedGoesOff == (action_active = 0) ~> (led_state = 0 \/ action_active = 1)
=============================================================================
