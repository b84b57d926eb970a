# A verification project for ufb2cfs

`ufb2cfs` is Klipper micro-controller firmware for an ESP32, extended with a
driver of *fake pins* through which Klipper macros drive an external BMCU
filament adapter over a UART. This directory holds TLA+ models of the firmware
and the macros, the TLC configurations that check them on small instances, and
TLAPS proofs about them. Paths below are relative to the repository; `sched.c`
stands for `src/sched.c`, and so on.

## Inventory

| Part | Source | State | Operations | Who calls it | Model |
| --- | --- | --- | --- | --- | --- |
| Fake-pin driver | `esp32/bmcu_fake.c` | latched pins, `action_active`, line buffer, LED | read, write, toggle a pin; poll the UART; LED task | the task loop; the timer interrupt, through endstop samples and stepper or pwm toggles | `BmcuFake` |
| Macros | `config/bmcu.cfg`, `config/box.cfg` | `BMCU_MATERIAL_STATE.current`, `M8200.tnn`, the call in progress | select a material, run an action, wait for it | the printer, one command at a time | `BmcuSystem` |
| BMCU adapter | external | request at work, filament fed | takes a request, answers DONE | UART2 | in `BmcuSystem`, `BmcuFake` |
| Timer scheduler | `sched.c`, `generic/timer_irq.c`, `esp32/timer.c` | timer list, hint, compare register, shutdown status | add, delete, dispatch, reset a timer | tasks, commands, timer callbacks | `Sched` |
| Task loop and command link | `sched.c`, `command.c`, `generic/serial_irq.c` | receive and transmit buffers, next sequence, tasks_status | store and fetch a byte, find and run a block, respond, sleep | UART interrupt, task loop | `Console` |
| Configuration | `basecmd.c` | memory, oid table, size of a move, high word of the clock | allocate, configure, finalize, count the clock's turns, reset | configuration commands, a task | `Config` |
| Move queue | `basecmd.c` | free list, links of the moves | allocate, push, pop, free, reset | commands and callbacks of outputs and steppers | `MoveQueue`, in `Outputs` (its size in `Homing`) |
| Homing | `trsync.c`, `endstop.c`, `stepper.c` | trigger flags, signal list, sample counts, step queue | queue a move, step, arm, sample, trigger, expire, stop, report | timer callbacks, commands, a task | `Homing` |
| Outputs | `gpiocmds.c`, `pwmcmds.c` | queue of updates, value, end time of each pin | queue, load, toggle, update at once, shut down | timer callbacks, commands | `Outputs` |
| Analog inputs | `adccmds.c`, `esp32/gpio/gpio_adc.c` | sampling state machine per input, one converter | query, sample, check the range, report, cancel | timer callbacks, a task, commands, the shutdown handler | `AnalogIn` |
| Buttons | `buttons.c` | pressed pins, reports not acknowledged, retransmission count | sample, send, acknowledge | timer callback, a task, commands | `Buttons` |
| TMC UART | `tmcuart.c` | line, position in the message, next callback | send bit by bit, synchronise, read, report | timer callbacks, a task, a command | `TmcUart` |
| Load cell | `sensor_hx71x.c`, `sensor_ads1220.c`, `trigger_analog.c` | pending and overflow flags; flags, clock and count of the probe | poll, read, check, trigger, watch | timer callbacks, a task, commands | `LoadCell` |
| Accelerometers | `sensor_adxl345.c`, `sensor_lis2dw.c`, `sensor_bmi160.c`, `sensor_bulk.c` | timer, pending flag, cached FIFO level, message | wake, drain, report, stop | timer callback, a task, commands | `Accelerometer` |
| Angle sensors | `sensor_angle.c` | timer, pending flag, overflow count, message | wake, read, add entries | timer callback, a task, commands | `AngleSensor` |
| Counters, thermocouples | `pulse_counter.c`, `thermocouple.c` | count and its times; count of faults | poll, report, shut down | timer callbacks, tasks, commands | `Pollers` |
| SPI bus | `spicmds.c`, `spi_software.c` | clock, data and select pins | prepare, transfer, send shutdown messages | commands, sensor tasks, the shutdown handler | `SpiBus` |
| Message coding | `command.c`, `compile_time_request.c` | `in_sendf` | encode, parse, guard `sendf` | whoever responds | `Codec` |
| Watchdog, start-up, displays, neopixels, debug commands | the rest of `src/` | none that another part reads | write pins and registers | tasks, commands | not modelled |

How they interact. There is one core. The task loop runs with interrupts
enabled and runs all task functions when one is requested; the UART interrupt
(level 1) and the timer interrupt (level 3) preempt it; `irq_disable` masks
both. Timer callbacks run one at a time inside the timer interrupt. A
`shutdown()` is a longjmp out of wherever it is called to `sched_main`, which
resets the timers and starts the task loop again. The host talks to the
firmware in message blocks with a sequence number modulo 16.

What is hard, by part, and the properties that settle it:

- Driver: `bmcu_fake_poll_uart` has two callers, and nothing masks the one from
  the other; DONE carries no identity; a line may be cut by an overflow, by the
  end of the buffer or by a start (`OneOutstanding`, `RequestsMatched`,
  `DoneConverges`, `DoneEndsAction`, `LedGoesOff`, `ImplementsShim`).
- Macros: a call may be aborted by an error or a timeout between any two lines,
  and its variables stay as they were; the driver, the adapter and the macros
  each have an idea of what is going on (`MaterialsFed`, `FlushNamesTarget`,
  `WaitMeansDone`, `AdapterNotOverrun`, `RequestIsJob`, `SelectEnds`).
- Scheduler: a list that is changed under an armed compare register, a hint
  that must not go stale, a clock that wraps, a walk without a null test, a
  longjmp out of the middle (`ListSound`, `SentinelBounds`, `NeverEarly`, `EveryTimerRuns`, `PeriodicGoesOn`).
- Command link: two buffers moved under interrupts that fill and empty them, a
  loop that sleeps, lost bytes, repeated blocks, a shutdown half way through a
  block (`BuffersSound`, `ResponsesInOrder`, `NoLostWakeup`,
  `ImplementsLink`).
- Homing: an endstop, an expiry timer and the host race to fire a trigger, whose
  signals stop steppers in the middle of a move, a pulse or a change of
  direction, while commands for more moves are still under way; the position
  must be right in all of these places, the pins must keep their times however
  late the interrupt is, and the host must hear of the trigger (`ImplementsTrigger`,
  `PositionIsMotor`, `PulseTimes`, `SamplesAgree`, `NoTriggerUntold`).
- Outputs and moves: links rewritten by a command and by callbacks that come
  between its sections; an update is loaded by whichever of command, toggle and
  load event comes first (`ImplementsQueues`, `KeepsMaxDuration`, `UpdatesOnTime`).
- Analog inputs: the task tests a state and takes a value that an interrupt
  fills, and shutdown has to stop a converter that all inputs share
  (`ReportIsSum`, `ShutdownEnds`).
- Buttons: reports dropped, repeated and acknowledged late (`ButtonsTold`).
- TMC UART: late callbacks move the edges of a bit, a reply may begin when
  the wait for it ends, and the host may send again at any time
  (`RequestServed`).
- Load cell: a chip that goes silent, or changes while it is read; a probe whose
  flags are written by a task and a timer (`ProbeSound`).
- Accelerometers, angle sensors: a FIFO level read earlier, a timer that the task
  and a query both add, a loss or a missed event the host must be told of
  (`DrainSound`, `SlotsAligned`).
- Counters and thermocouples: the timer has moved on when the task reports
  (`PollersSound`).
- SPI: a transfer cut at any edge, then a shutdown message (`SpiSound`).
- Configuration and coding: rejected commands leave objects half made; the
  length of an integer changes at uneven bounds; a shutdown inside `sendf`
  (`ConfigSound`, `CodecSound`).

`PROJECT.json` lists every hazard at its line, with its properties. One has none: an
error in the middle of a selection, which is among the observations below.

## Modules

| Module | What it is |
| --- | --- |
| `BmcuShim` | abstract: what the driver promises to printer and adapter |
| `BmcuFake` | the driver, with the task and the interrupt as two contexts |
| `BmcuFakeRefines` | the refinement mapping from `BmcuFake` to `BmcuShim` |
| `MCBmcuFake` | small alphabets and lines for TLC |
| `BmcuFakeProofs` | proofs about `BmcuFake` |
| `BmcuSystem`, `BmcuSystemProofs` | macros, `BmcuShim` and adapter composed; proofs |
| `Sched`, `MCSched`, `SchedProofs` | the timer scheduler, its instances, its proofs |
| `CommandLink` | abstract: messages run once each, in order, and acknowledged |
| `Console`, `ConsoleProofs` | the command link and the task loop, implementing `CommandLink`; proofs |
| `TriggerSync` | abstract: a trigger stops what follows it, once, and what is stopped stays so |
| `Stepper` | one stepper as a value: load, step, unstep, stop, position |
| `Homing`, `MCHoming`, `HomingProofs` | steppers, endstops, triggers and the host's commands, implementing `TriggerSync`; its instance, its proofs |
| `Board` | what the devices share: clock, shutdown, place of the task loop, commands |
| `MoveQueue` | abstract: every move is free, in one hand, or in one place of one queue |
| `Outputs`, `OutputsProofs` | digital and pwm pins over the linked pool of moves, implementing `MoveQueue`; proofs |
| `AnalogIn` | analog inputs over one converter |
| `Buttons` | buttons, the host and what is on its way between them |
| `TmcUart` | the UART of a TMC driver, edge by edge |
| `LoadCell` | converter chip, its sensor task and the analog trigger |
| `Accelerometer` | four accelerometers and their bulk reports |
| `AngleSensor` | angle sensors and the entries of their reports |
| `Pollers` | pulse counter and thermocouple readers |
| `SpiBus` | SPI devices on one software bus |
| `Codec` | the encoding of responses and the guard of `sendf` |
| `Config` | memory, object ids, the size of moves, the turns of the clock |
| `SensorProofs` | proofs about `AnalogIn`, `LoadCell`, `Accelerometer`, `AngleSensor` |
| `DeviceProofs` | proofs about `Buttons`, `Config`, `SpiBus`, `Pollers`, `TmcUart`, `Codec` |
| `MCDevices` | the instances of all devices, each checked on its own |

The driver is thus modelled twice: `BmcuFake` statement by statement, and
`BmcuShim` as the macros see it. `ImplementsShim` connects the two, so what
`BmcuSystem` shows of the macros over `BmcuShim` holds over the driver, in the
situation for which the refinement holds: only the task polls (see findings).

Operators whose comment begins with "Mutant" are wrong variants of the
definition after them; no specification uses them. Each property of a passing
run names one that it refutes, so that the property is known to depend on that
code.

### BmcuFake

`pc[c]` says where context `c` ("task" or "irq") is inside the driver; the
interrupt preempts the task between any two steps and runs to its end before
the task moves. The steps are the places where the two can meet: the test and
the write of the LED (`LedTask`), the FIFO length (`FifoLen`) and the read of
that many bytes (`ReadFifo`; what a read of an empty FIFO returns is any byte),
the bytes one by one (`SkipCR`, `CompareLine`, `FinishLine`), the bounds check and
the store (`LoadLen`, `ReloadLen`, `StoreByte`), a write and its start (`Write`,
`StartAction`, `SendRequest`). The source reads `rx_len` in the test and again in
`rx_line[rx_len++]`; it is not volatile, so a build may do either. With `Reloads` the
model reads it twice, and an interrupt may come in between; without, the index is
what was tested. The two writes of the store are one step. Two pieces of context come from the callers:
`command_update_digital_out` deletes the pin's timer before it writes
(`TimerDeleted`), and the interrupt polls only when an endstop, a step pin or a
software pwm uses a fake pin (`IrqReads`). Bytes are a small set, and DONE a short
sequence of them. `BmcuShim` counts a DONE as arrived when its line feed is in
the FIFO; a start may lose or make one by emptying the line buffer in the middle
of a line, which `Trigger` allows.

### BmcuSystem

`hpc` is the line of the macro; `from` and `to` are the values the template of
`BMCU_SELECT_MATERIAL` read when it was rendered, which is what Klipper does;
labels `load.*` and `unload.*` are the two runs of `BMCU_RUN`. `WaitDone` and
`WaitTimeout` are the two ends of the homing move. `BoxError` is any M8200 step
that raises; `Restart` is FIRMWARE_RESTART, after which variables and the driver are
back at their initial values and the adapter and the filament are as they were.
Requests not yet taken by the adapter may be lost by it. The lines of the two runs
of `BMCU_RUN` are rows of the table `Line`: the pin a line sets, its value, the
line after it.

### Sched

A clock of `Wrap` ticks stands for the 32-bit counter, and the ASSUME states
what the code relies on: times that are compared are less than half a turn
apart. `AddFirst` and `AddLater` are the two branches of `sched_add_timer`;
`Unlinked` covers the three of `sched_del_timer`; `DeletedEvent`,
`PeriodicEvent` and `UserEvent` are the callbacks (a user callback may delete
another timer before it returns); `ReturnNext`, `ReturnDeferred`,
`RescheduledInPast` and `Repeat` are the exits of `timer_dispatch_many`. Whether the
repeat limit or `tasks_busy` applies is left open. `EventShutdown` and
`RescheduledInPast` longjmp out of the handler, after which `irq_source` is still
false, as in `timer_isr`. `LatenessAssumption` says what the rest of the code assumes
of the interrupt: it is never so late that timers would seem to lie ahead (`Lag`:
a dispatch deferred in shutdown and the kick of each shutdown included, half a
turn at most), it defers by more than it accepts as now (5us against 2us, `DEFER` and
`MIN_TRY`, generic/timer_irq.c:35-36), and is late by no less than a timer may be
rescheduled in the past without a shutdown.

### Console

`pc` is where the task loop is, from the test of `tasks_status` to the sleep, and
through `console_task`. A byte is a pair (message, index) or SYNC; a long
message has a byte of the value of SYNC in its payload. `FindNothing`,
`FindBlock`, `FindSync` and `FindError` are the exits of `command_find_block`;
`PopCopy`, `PopDone` and `PopRaced` the loop of `console_pop_input`; `SendfRoom`,
`SendfMove`, `SendfResume` and `SendfPut` the steps of `console_sendf` between which
the transmit interrupt may come. A response is one slot of `transmit_buf`, and
carries only the sequence number. Abstractions: the crc rejects whatever is not
a whole block; a byte inside a message is not taken for a header with a valid
length; one command per block; a response may be lost but not corrupted. The
host is Klipper's serial queue, seen from outside: it keeps what is not
acknowledged within RECEIVE_WINDOW bytes and sends all of it again, after a sync
byte, on a nak or a timeout. It resends block by block (`sent`, `SendAgain`):
acknowledgements that arrive meanwhile shorten what is still to be resent.

### Homing

`Stepper` holds what `stepper_event_full`, `stepper_load_next` and `stepper_stop` make of
one stepper; `Homing` has the callbacks and commands that apply it. A timer
callback is one step, for it runs with interrupts disabled; a command is one
step when it is masked as a whole, and `command_queue_step` two, the allocation of
the move and its masked section (`QueueStep`, `QueueStepPush`); `trsync_task` is one step
for the test of `trsync_wake` and one for each trsync (`TrsyncTask`, `TrsyncReport`).
Callbacks run in the order of their waketimes, as `Sched` shows of the
scheduler. `ShutDown` is the shutdown handlers of `stepper.c` and `trsync.c` and the
longjmp; that timers may not run again after one (finding 4) only removes
behaviours. `MayBeTooClose` is the shutdown of `sched_add_timer`, which depends on
timers of other modules too and is thus left open. The while loop of
`stepper_load_next` that waits for the pin advances the clock (`TurnTime`).

The variables `motor`, `hold` and `streak` are of the model: where the motor is by
the edges it saw, until when the pins of a stepper may not change, and how many
samples in a row matched. `told` is what the host read in reports. A count of 0 in
queue_step, which only shuts down, is not sent. Polarities of pins,
configuration and the wrap of times and positions are left out.

### Board and the devices

The device modules extend `Board`. `now` is `timer_read_time`, `shutdown` is
`sched_is_shutdown`, `wake` the task_wake of the device. `task` is where the task
loop is: `Idle`, or at a named place of a command or a task function, with the
locals that are live there. A timer callback is one step. A command or task
function is one step for each section that `irq_disable` or a single access
makes indivisible, and callbacks come between the sections. `Runs(w, W)` lets the
first timer of the device run once it is due; `Tick(W)` moves the clock unless a
due timer would become later than `MaxLate`. Times do not wrap here; `Sched` shows
that the order of timers survives the wrap. A device with several callbacks of
one timer keeps the name of the next one in `func`, as the struct does.

- `Outputs`. `out` is `digital_out_s` or `pwm_out_s`, `move` the payload of a node
  and `next` its link, `move_free` the free list. `QueueOutput` is the allocation,
  `PushDigital` and `PushPwm` the masked sections; `DigitalLoadEvent`,
  `DigitalToggleEvent` and `PwmEvent` the callbacks, with their shutdowns
  ("Missed scheduling", "Scheduled digital out event will exceed max_duration");
  `UpdateDigitalOut` and `SetDigitalOutPwmCycle` the direct commands. `since` is of the
  model: when a pin was last set.
- `AnalogIn`. `running` is the pin of the conversion under way. `AnalogInEvent` has the
  start of a conversion, the wait for it (`Conversion`) and its end (`Sampled`), with
  the range check; `AnalogTest` and `AnalogTake` are the task's test and its masked
  read; `AnalogInShutdown` and `ShutdownAgain` are the shutdown handler and the
  shutdown that may happen within it: for a conversion of another input, or for a value
  over the reference (`OverReference`), which gpio_adc_read refuses in a sample too.
  `group` is of the model: the samples taken.
- `Buttons`. `ButtonsEvent` samples, debounces and counts; `ButtonsTest`,
  `ButtonsGenerate` and `ButtonsSend` are the task; `Acknowledged` is the masked part of
  the acknowledgement; `HostTakes` is klippy (external), which sees counts modulo
  256. `Retransmit` is below BF_NO_RETRANSMIT, as the query that sets it checks
  (buttons.c:108-110).
- `TmcUart`. Every callback (`SendEvent`, `SendSyncEvent`, `SendFinishEvent`, `ReadEvent`,
  `ReadSyncEvent`) and the send command, task and shutdown. `edges` and `heard` are of
  the model: when the line changed, and what was read, and so is `request`, the one
  accepted last. The level that ends the wait for a reply is read a second time as
  its first bit (tmcuart.c:79, 58), and may have changed. A request is dropped while
  one is under way (`Free`); one that comes between the end of a transmission and the
  task's report takes the place of the last, whose response is gone (see the observations).
  `TmcTimingAssumption` bounds the lateness of the interrupt: nothing in the code keeps
  a bit-banged line right when a callback is half a bit late.
- `LoadCell`. `SensorEvent`, `CaptureTask`, `ReadAdc` and `AddSample` are the converter's
  timer and task; `TriggerAnalogUpdate`, `CheckSample`, `MonitorEvent`, `TriggerAnalogHome`
  and `TriggerAnalogEnd` the trigger, with a count of eight bits. `chip` is external: it is ready every
  `PERIOD`, and `torn` says that it changed under a read.
- `Accelerometer`. `AdxlQuery` reads one sample with its status; `QueryFifoStatus` and
  `ReadFifoBlock` read a level and then blocks by it. `fifo` is the chip.
- `AngleSensor`. `TakePending` is the masked section of the task, `AddOverflow` the
  entries for missed events, `QueryChip` the measurement itself.
- `Pollers`. `CounterEvent`, `TakeCount` (masked), `TellCount`; `ThermoEvent`, `TakeThermo`,
  `ThermoRespond`. The time told with a count is when its last poll was due, or
  later by up to the lateness of the interrupt.
- `SpiBus`. `Prepare`, `SelectDevice`, `FirstHalf`, `SecondHalf` and `Release` are a transfer,
  edge by edge; a shutdown may come at each, and `SpiShutdown` then sends the
  messages. `slave` is the devices, which sample and shift by their mode. A transfer
  of a device without a bus returns at once (`NoBus`), in a command and in the
  shutdown handler.
- `Codec`. `EncodeInt`, `ParseInt`, `Encodef` and `Parsef` are pure operators over bytes;
  what they loop over is a recursive function of how far they got (`EncodeArg`, `ParseArg`
  are one parameter). What is parsed ends at maxend, with the crc and the sync byte
  behind it (`Trailers`), which a parameter that starts there is read from.
  `command_encoder` is the table of responses with types and max_size as the
  generated file has them; `Sendf` and `SendfDone` move `in_sendf`. `BufferFits` says that a
  buffer is no longer than `max_size` leaves room for beside the other parameters at
  their widest, so that `command_encodef` does not shorten it: the tasks and the
  host's requests keep to that (52 bytes for `sensor_bulk_data`, which is what a block
  of it holds).
- `Config`. `AllocateOids`, `ConfigObject`, `FinalizeConfig`, `StatsUpdate` and the shutdown
  and reset commands. Memory is counted in words. `ConfigObject` is any command that
  configures an object, with each place where it may be cut short: by `oid_alloc`,
  before or after the type is noted, or by a pin that is refused, before the memory is
  given out or, for the kinds in `PinsLater`, after it and before `move_queue_setup`, as
  in `command_config_stepper`. `whole` is of the model: the command ran to its end. A
  shutdown that a timer callback raises in the middle of one of these commands is left
  out: the host starts no timer before its configuration is final.

The devices are composed in `MCDevices` by interleaving that is trivial: they
share no variable but those of `Board`, so that `unit` picks the one whose steps
a behaviour has. What they share in the code is modelled where it bites: the pool
of moves in `Outputs` and `Homing`, the converter in `AnalogIn`, the bus in
`SpiBus`, the timer list in `Sched`, the transmit buffer in `Console`.

## Runs

| Run | Shows | Bounds |
| --- | --- | --- |
| `fake_task` | the four properties of the driver while only the task polls and interrupts write pins | DONE of two bytes, a line buffer of four, reads of two, a FIFO of two: lines straddle reads, overflow, and are too long for the buffer; two lines, two driven pins |
| `fake_irq` | `LineFits`, re-entry and the LED when interrupts poll too and `rx_len` is read twice | one line, DONE or as long as the buffer, a buffer of three, all bytes of a small alphabet (a read of an empty FIFO returns any): enough for both contexts to hold a byte when the buffer is nearly full |
| `fake_done_lost` | finding 1 | the same with `rx_len` read once, so that the second read is not what loses the DONE |
| `system` | the six properties of a material change | a box material and two adapter channels, four selections, two timeouts, one error, one restart |
| `system_restart`, `system_reentry` | findings 2 and 3 | as above |
| `sched` | the four properties of the scheduler | two user timers, so that a hint, a deleted node and a third node exist together; a clock of 16 ticks, of which the behaviours wrap many times; one shutdown |
| `sched_isr_shutdown` | finding 4, against `PeriodicGoesOn` | one user timer |
| `console` | the four properties of the link | four messages modulo three, so that numbers wrap; a receive buffer of two messages, which a resend overflows; a transmit buffer of two responses; one loss and one shutdown |
| `homing` | the six properties of a homing move | a stepper with one event for a step and one with two, an endstop, a trigger; four commands, each with a clock that has passed or is to come; four ticks of the clock, interrupts late by up to one; a pool of two moves |
| `devices` | one property of each device, one more of the outputs, and that the pool of moves implements `MoveQueue` | for each device a bound on the clock (`Until`) and on commands (`Commands`); see below |
| `adc_shutdown` | finding 5, against `ShutdownEnds` | two inputs, two ticks |

Why the bounds are enough. `fake_task`: the assembler keeps no memory across
lines other than the buffer, so two lines, one after another, show every state
of it. `system`: three materials give every transition box to adapter, adapter
to adapter, adapter to box and to itself; four selections are enough for an
aborted one, one that meets what it left, and one after. `console`: a resent
block can be new or old, which two outstanding messages and three sequence
numbers show. `homing`: a late write needs a step, a trigger in its middle, and a
queue_step behind it, which with the reset, the start and the signal is four
commands; two steps of different intervals show every branch of a load and of
an event, on time and late; three samples in a row are one more than a sample,
a mismatch and a sample again.

`devices`. Outputs: two moves, so that a queue has a first, a last and none to
spare, and three updates, one more than the pool holds; leads of one and of
three against a max_duration of two, so that some are rejected. Analog inputs:
groups of 0 and 2 samples, three queries, and a clock that sees a whole group, its
rest and the start of the next. Buttons: two reports until the queue is full, numbers
modulo four (the code's 8 and 256 have the same ratio of room to spare or more),
five reports in all, so that the count wraps. TMC UART: one request that begins
with the sync nibble and one that does not, replies of three bits, a
synchronisation that polls three times before it gives up, edges late by up to a
quarter of a bit. Load cell: a query and a homing move, or one after another of
the same, with two conversions and enough of the monitor's intervals to stop the
move; a lateness of one under a rest_ticks of two. Accelerometers: a FIFO of two
blocks, which overflows when the task is late. Angle sensors: an overflow counter
that wraps at four. SPI: all four modes, a message cut at every edge, seven
commands, so that each device is configured and used. Codec: every edge of every
integer length, every response of the table, a buffer as long as the tightest of them has
room for. Configuration: seven words, of
which two types of objects and the pool of moves use different amounts; a clock
that turns twice. Pollers: a counter with sample times that are not multiples of
its polls; two faults in a row.

`sched` uses a VIEW that identifies states differing only by the origin of the
clock or by fields of timers that are not on the list; every guard reads the
clock through differences, and a timer's fields are written when it is added, so
states that look the same have the same future. It also has the constraint
`Alive`: the states after a longjmp out of the interrupt (`Dead`) are absorbing and
cannot reach another one. The run thus shows its liveness property for the
behaviours without such a longjmp, and `sched_isr_shutdown`, without the
constraint, shows what happens with one. The safety properties are checked in
the first dead state too.

Deadlock is checked except in `system`, `console`, `homing`, `devices` and
`adc_shutdown`, where a finite number of selections, messages, commands or ticks comes
to its end.

In `system`, four properties are stated for behaviours without faults
(`NoFault`): a timeout, an aborted macro or a restart leaves the printer not
knowing what is fed, by design of the macros, and `BMCU_SET_CURRENT_MATERIAL` is
there for the operator to tell it. `RequestIsJob`, `SelectEnds`, the first half of
`FlushNamesTarget` and, but for restarts, `AdapterNotOverrun` hold with faults.

## Fairness

- `BmcuFake`: an interrupt under way returns (weak); the task's call under way
  goes on, and the task loop keeps calling `bmcu_fake_task`, which is a
  DECL_TASK (strong, for commands and interrupts come in between). Nothing makes
  the adapter send or a pin change.
- `BmcuSystem`: the macro interpreter goes on, the adapter answers what it took,
  the driver polls. Nothing makes a user select; no fault is fair.
- `Sched`: the clock goes on and the interrupt runs (weak on `IsrStep`). The
  bound `MaxLate` says that a live interrupt runs within so many ticks, and that
  deferring in shutdown, which the code does not limit, does not last longer.
- `Console`: the task loop, the two UART interrupts and the periodic timer run,
  and the host resends what it knows to be not acknowledged when the link is
  quiet, to the end (weak on `SendAgain`). Resends before that count as losses, which are bounded: against a host that
  always resends too early nothing is promised.
- `Homing` has no liveness property and assumes no fairness. That the host is told
  is stated of the states in which the task has nothing more to do; that the
  task comes to run is `NoLostWakeup` of `Console`.
- `AnalogIn`: in `adc_shutdown` the shutdown handlers go on (weak), for they run
  with interrupts disabled and nothing else can. The other properties of the
  devices are safety properties: that something is told or answered is stated of
  each state, as "or its timer is on, or its task is going to".

## Proofs

The theorems hold for every value of the constants that satisfies the named
ASSUMEs of the modules, and under the guards of `Next` that bound counters, which
only remove behaviours. Each rests on an inductive invariant that was first
checked by TLC on the run's instance. What follows says, for each module, what the
invariant adds to the property and why it is needed.

### BmcuFakeProofs

For every alphabet, line buffer, FIFO, set of lines and choice of driven pins,
with and without interrupts that poll:

- `LineStaysInBounds`: `Spec => []LineFits`. Two contexts test, read again and
  increment `rx_len`. `LineShared` says what each may find after its bounds check: the
  interrupt, which nothing interrupts, what it tested; the task at most `LenLimit - 1`,
  since the interrupt stores only where it leaves room for a NUL. `LenLimit`, the
  longest a line gets, is `RX_LINE_MAX - 1`, and `RX_LINE_MAX` if the build reads
  twice and interrupts poll. The bytes therefore always fall into `rx_line`; the NUL
  of that longest line does not (see the observations). `TypeCorrect` states the
  types alone.
- `ReentryBlocked`: `Spec => []OneOutstanding`. Not inductive by itself: the test
  of `action_active` and its assignment are steps apart. The strengthening `Exclusion`
  says that no two contexts are between the two: the interrupt only toggles the
  trigger pin when the task is not writing it (the timer was deleted), and an
  interrupt runs to its end before the task moves.
- `EveryDoneCounts`: while only the task polls (`~IrqReads`; finding 1 is that it is
  false otherwise), `Spec => []DoneConverges`, for all lines that end with a line feed
  (`LinesAssumption`) and any cut of them into reads. `DoneInv` says where a DONE line
  lies: `Placed` relates the bytes not processed yet (`Stream`: those the task has in
  hand, then the FIFO) and the first bytes of `rx_line` to the bytes of the line, for
  one that is coming in (`Coming`) and for one that came in since the last start
  (`Came`); `Ready` says that a line begins after a line feed or with an empty line
  buffer. It is needed since a line may be split over reads, stored one byte per step
  (`Held` is the length that counts while a byte is being stored), and the lines before it may be
  cut by a full FIFO, longer than the buffer, or emptied half way by a start.
- `EveryCompletionHadADone`: with the same `~IrqReads`, `Spec => []RequestsMatched`, if
  some byte of DONE is in no other line the adapter may send (`Marking`; README.md:185
  names no other line than DONE). The hypothesis cannot be dropped: a full FIFO may
  leave of some other line just DONE. The invariant `Paid` is an account in that byte:
  each completion, a match not yet acted upon, and the bytes in the line buffer, in
  the stream and on the wire are covered by the DONE lines begun. No step copies a
  byte, `strcmp` matches only a buffer that holds as many as DONE does
  (`KeptMatches`, since DONE has no NUL), and all of them are gone when the line is.
- `DriverImplementsShim`: with the same `~IrqReads`, `Spec => ShimSteps`, the safety half
  of `ImplementsShim`: the first state and every step of the driver are those of
  `BmcuShim`, or show nothing of it. What has to be shown is that no step invents
  or loses a DONE in transit, which is what the assembler would make of all the
  bytes that are still to be read (`AssembleAll`, a recursive function): a byte more at the
  end (`AssembleLast`) or one taken from the front (`AssembleFirst`), and what a start
  does in the middle of a line, when the assembler begins it with less than it
  held. `CloseRun` says that two assemblers that differ in what they hold of a line
  stay within one DONE line of each other, whatever bytes come: from the next
  line feed on they hold the same (`AlikeRun`). These are inductions over the
  bytes, by `UpTo`: the least number at which a set of numbers ends.

### BmcuSystemProofs

For every set of materials and any number of selections, timeouts, errors and
restarts: `MaterialsStayApart`, `FlushIsForTarget`, `OneRequestAtATime`,
`WaitsEndWithTheirOwnDone` and `RequestsSayTheirJob`, which are all safety properties
of the run `system`. The invariant says what a reader of the macros would note
at every line: the branch taken (`Route`), the pins the request will be built from
(`PinsSet`), that `action_active` is exactly the requests queued, the one at work
and the answer on its way (`Booked`, until a restart), which material `M8200.tnn`
names (`Named`), and, while nothing has failed, where the filament is (`Story`).

### SchedProofs

For every clock, set of timers and set of bounds that satisfy the assumptions:

- `SentinelStops`: `Spec => []SentinelBounds`, by the invariant `WakeInv`: the
  sentinel's time is half a turn after the periodic timer's whenever a list
  walk may start, through `periodic_event`, which moves both, and the reset.
- `ListStaysSound`: `Spec => [](~Dead => ListSound)`, and
- `CallbacksAreNeverEarly`: every user callback runs at or after its waketime,
  until `Dead`. Both by `AliveInv`. The list is a chain (`Chain`: a function from
  positions to nodes, so that no induction along links is needed), it is ordered
  by how far ahead of the clock its nodes are (`Lead`, a difference modulo the
  clock read as a signed number), and all leads are within half a turn (`Near`),
  which is where `LatenessAssumption` comes in. That the walk of `insert_timer`
  ends where the order says is an induction over positions (`Walk`, by the
  least-number principle). `Timely` bounds how late the head may be in every
  state of the compare register.

`~Dead` is the run's constraint `Alive`: after a longjmp out of the interrupt no
timer runs again (finding 4), and the clock leaves the waketimes half a turn
behind, where their order is reversed.

### ConsoleProofs

For every number of messages, modulus, window below it, and size of the buffers:

- `BuffersStaySound`, `ResponsesKeepOrder`, `NeverSleepsOnWork`: the invariants of the
  run. `Popped` and `Sends` say what the two buffers hold at each place inside the
  moving loops (`Gap` is the part popped and not yet moved over; `First` where the
  unsent part starts), `Awake` why the loop may sleep (`Served`).
- `LinkSafety`: every step of `Console` is a step of `CommandLink` or leaves it
  alone. The heart is `Channel`: sequence numbers are only right modulo `SEQ_MOD`,
  and name one message because every byte anywhere between host and firmware
  belongs to a message less than `Window` behind what was run (`Fresh`, `Near`), and
  because the responses on their way are numbers of messages in order (`Covers`).
  The liveness half of `ImplementsLink` remains with the run.

### HomingProofs

For all steppers, endstops, triggers, moves and bounds:

- `TriggerImplemented`: `Spec => ImplementsTrigger`, every step of `Homing` being a step of
  `TriggerSync` or a stutter, with no assumption about the order in which timers
  run. It needs the invariant `IInv`: the timer of a stopped stepper is off
  (`Live`, which a queue_step in flight would break if it were not dropped), an
  armed trigger has its expiry reason, and an endstop whose timer is on has a
  trigger.
- `HostIsTold`: `Spec => []NoTriggerUntold`, by `ReportInv`: a trigger not yet told of has
  its report flag up, and the task has been woken or has it still before it in
  its scan.
- `HomingTypes`, `PositionIsKnown`, `PinsKeepTimes`, `SamplesAreCounted`: the other four
  properties of the run, by `HInv`. `Tracked` relates a stepper's position, the
  edges its move has left, its pins and the motor at every edge: the position is
  stored ahead, at the end of the move, so a stop in the middle counts back by
  what is left, which is half the edges for a stepper with two events for a step
  (`Counts`, `Phase`). `Held` says until when a pin may not change while the timer is
  on. `PositionsFit` assumes that the moves of a behaviour do not reach
  positions below -`BIAS`: the sign of the biased position is the direction
  bit, and beyond it would be misread (`Reaches`). That two steppers are not
  stopped by one another's signals is the disjointness of the signal sets.

### SensorProofs

For `AnalogIn`, every number of inputs, of samples and of samples in a report, and
every query:

- `ReportsAreWhole`: `AnalogSpec => []ReportIsSum`. The invariant says what `value` is
  in each state of the sampling machine (`Summed`): the sum of the group under way
  while `state < sample_count`, of the last group while `state = sample_count`, and
  nobody's after the task took it. It does not hold between a shutdown and its
  handler, where no timer runs instead (`InShutdown`).

For `LoadCell`, every rest_ticks, monitor interval and maximum of eight bits, and a
lateness below rest_ticks:

- `NoSampleIsTrusted`: `CellSpec => []ProbeSound`. One half counts intervals: while
  the trsync can trigger and monitor_max is below 255 (see the observations for 255),
  the monitor's timer is on and no later than the activity and the counted intervals
  allow (`Watched`). The other half places the polls between the conversions
  (`InStep`): a poll comes after every conversion in time to note that the read before it is still pending, which needs that
  rest_ticks is a tenth of a period and that interrupts are late by less.

For `Accelerometer`, every rest_ticks, FIFO, block and message size:

- `DrainsSoundly`: `AccelSpec => []DrainSound`, by `AtWork` (the timer is off while
  the task drains), `HasSample` (an ADXL345 is not read before its first
  sample) and `LossSeen` (a FIFO that lost samples is still full when it is read).

For `AngleSensor`, every rate, message size and width of the overflow counter:

- `EveryEventCounts`: `AngleSpec => []SlotsAligned`, by `Accounted`: the events up to
  the next one are the entries sent, those the overflow counter or the task is
  about to add, and the pending one.

### OutputsProofs

For every set of digital and pwm outputs, pool of moves, max_duration, cycle and
lateness:

- `OutputsKeepLimits`: `OutputsSpec => []KeepsMaxDuration`, and
- `UpdatesTakeEffect`: `OutputsSpec => UpdatesOnTime`.
  Both need that the updates of a queue are in the order of their times, and a
  queue is links in an array that all outputs share. The invariant therefore
  says that there is an owner for every node (an output, the free list, a
  command): links stay within an owner, no two nodes of one owner have the same
  successor and none leads back to the head (`Owned`); this is what a push, a
  pop and an allocation keep without an induction along the list. The other
  half says what the timer of each output is set to (`Timed`): the first
  update, the end of the pulses or the limit, and never behind the clock.
- `PoolIsQueues`: `OutputsSpec => ImplementsQueues`, the whole refinement (`MoveQueue` has
  no fairness). The abstract queues are what following the links gives (`Nodes`, by
  the recursive function `Chain`). The invariant `Queued` says that there are lists of
  which each follows the links from its head (`Follows`), each ends in its output's
  `last`, no node is in two places (`Once`) and the one in a command's hand in none
  (`Aside`). Such lists have at most `MoveCount` nodes (`ShortEnough`, the pigeonhole
  principle), so they are what `Chain` computes (`LinkingIs`, an induction over its
  length by `UpTo`). A pop, push and allocation each write one or two links: what
  remains to be shown is that these are the links of no other list, and that
  each node of the lists after the step has one place among those before it.

### DeviceProofs

For `Buttons`, every number of reports kept, width of their count, and number of
messages and acknowledgements under way:

- `ReportsReachHost`: `ButtonsSpec => []ButtonsTold`. The host sees counts modulo
  `COUNTS` and takes the difference as a signed number. This is right because a
  message was built when at most `REPORTS` fewer reports were acknowledged than
  the host has taken by the time it arrives (`MessagesBuilt`), and because the
  acknowledgements under way add up to what the host took and the firmware has not
  removed yet (`AcksSum`: partial sums, as a function the invariant says to exist,
  which needs no recursion).

For `Config`, every size of the memory, of objects and moves, and every turn of
the clock:

- `ConfigStaysSound`: `ConfigSpec => []ConfigSound`. What is given out next lies from
  `alloc_end` on, so that it is apart from all before (`Apart`, `Placed`); a move of the
  pool is as large as those of every object whose command ran to its end (`Tables`),
  which is all that can be said: see the observations for the others; `SentAt`, the time
  of the last count in two words, is never a turn ago (`StatsKept`), so that a count
  notes every wrap.

For `SpiBus`, every number of devices, mode of each, message and answer:

- `TransfersAreExact`: `SpiSpec => []SpiSound`. At each stage of a transfer
  (`AtStage`): the level of the clock, the device selected, the bits it has taken
  and the bits it has shifted out, which depend on the phase of its mode; the
  first edge is right only because `Prepare` sets the idle level of the mode
  before the device is selected, whatever a cut transfer left behind. `Warned`
  says which devices have had their shutdown message.

For `Pollers`, every rate and lateness:

- `ReportsAreDated`: `PollersSpec => []PollersSound`. A poll that sees the pin has
  counted all pulses up to then, or all but one that came after the last poll
  (`Sees`, `Counted`); what the task took is a pair that was right together
  (`Telling`); the faults of a reader are counted at least as fast as they come
  (`FaultsCounted`).

For `TmcUart`, every set of requests that begin with a start bit, bit time, delay
and limit of the wait:

- `RequestsAreServed`: `TmcSpec => RequestServed`.
  The edges sent are the changes of the request: each edge comes before one bit,
  at the time planned for that bit or late by as much as the interrupt is
  (`Sent`, `Drawn`, `Planned`), and which bit the firmware looks for next is right
  because the level is the parity of the edges (`Sending`). With a sync nibble the
  first four edges are a bit time apart, late each on its own, and the rest are
  planned from the fifth with the bit that the firmware measured (`BitMeasured`),
  while the chip measures it from the first edge to the fifth. `OnTimeMeasured` shows
  that both agree on what is before the middle of which bit: nine times the
  lateness must stay below four bits, and the firmware rounds a quarter of the
  difference to a tick, which is off by at most two quarters and adds up with
  every bit of the request. This is the second half of `TmcTimingAssumption`.
  For the answer, what is stored is what was heard from the first 0 after a 1 on
  (`Reading`), where an appended level may add a start bit and takes none away
  (`Grown`); the request accepted last has its timer on until it is over (`Timed`).
  That a request is given up for no other reason than a request that comes before
  the task's report or a shutdown, and answered no more than once (`AnsweredOnce`),
  needs that the busy flag is set while the timer is on, and that what is to be
  reported is still open (`Owed`).

For `Codec`, every sequence of words and of buffers:

- `ResponsesAreReadBack`: `CodecSpec => []CodecSound`. What `parse_int` does with the
  seven-bit digits that `encode_int` wrote is the integer again, for each of its five
  lengths: the first digit shows the sign exactly because the bounds of the lengths
  are uneven (`ContinuedIs`, `DigitsAre`). So its bytes are read back whatever
  follows them (`ParseEncoded`), and so is a message, one parameter after another
  (`ParsefEncodef`, an induction over the parameters by `UpTo`). Which encoder a
  message belongs to is seen by its id (`IdsDiffer`). The widths of the parameters of
  each of the 24 encoders add up to at most what `max_size` leaves (`WidthsFit`,
  `EncodefFits`). The invariant `CodecInv` says that what is said is always of the types of
  one encoder (`Saying`), and that the encoder that `sendf` holds is that one.

### Only model-checked

- Liveness: `LedGoesOff`, `DoneEndsAction`, `SelectEnds`, `EveryTimerRuns`, `ShutdownEnds`
  (its counterexample), the liveness halves of `ImplementsLink` and of `ImplementsShim`. The prover has no
  rules for fairness.

Every invariant that a passing run checks, and every property of a passing run
that is not liveness, has a theorem above.

The library's induction theorems take the statement as an operator, which the
installed provers cannot instantiate. Three other forms of induction do the work
here: the least-number principle on sets (`WFMin`), where the statement is about
positions in a fixed function; induction up to a number with the statement as a set
(`UpTo`), which also gives what a recursive function computes; and an invariant that says
that a function exists (a chain of nodes, partial sums).

## Findings

1. `fake_done_lost`. With the endstop timer polling during `BMCU_ACTION_WAIT`, the
   task may hold the first bytes of a DONE, taken from the FIFO, while the
   interrupt assembles the last ones: the line is lost, the action stays active,
   and only the 90 s timeout ends the wait. README.md:149 promises otherwise.
2. `system_restart`. After a restart in the middle of an action, the old DONE ends
   the wait for the next action (README.md:152-153).
3. `system_reentry`. After a timed-out wait a sequential host does trigger while
   an action is active (README.md:254); the driver ignores the trigger.
4. `sched_isr_shutdown`. `timer_isr` disables its interrupt source while it
   dispatches; a shutdown inside a callback leaves it disabled, so that the
   periodic timer does not go on (sched.c:31-33).

5. `adc_shutdown`. The shutdown handler cancels the conversion of each input in turn
   with a loop that samples; if the conversion under way is that of a later
   input, the sample shuts down again, which runs the handlers again, with the
   same conversion still under way, until the watchdog resets the board. The
   comment at esp32/gpio/gpio_adc.c:187-190 says that the function waits and reads.

Observations that no run is about:

- bmcu_fake.c:186-187, in a build that reads `rx_len` twice: with 14 bytes in the
  buffer of 16 the task tests, the interrupt stores the 15th, and the task stores
  the 16th. A line feed then writes its NUL one byte behind `rx_line`, which is
  `led_initialized`: the LED's pin is set up once more. `LineFits` says that this is
  the worst of it, for no byte received is stored there, and the next one drops the line.
- bmcu.cfg:140: an M8200 step that raises in the middle of a selection ends the macro
  before its last line, which sets `current`: it then names the old material, taken
  out already, or nothing while the new one is fed. README.md:71 says that it tracks
  the selected material, with a Klipper restart as the only exception. A T command
  for the old material answers "already selected" with nothing in the tool head.
  `CurrentIsFed`, in `MaterialsFed`, is the same without faults, and holds.
- tmcuart.c:204: `tmcuart_finalize` clears the busy flag before the task has reported.
  A `tmcuart_send` in between is accepted and clears `TU_REPORT`: the response that
  tmcuart.c:43 speaks of scheduling is never sent. The host meets this when it sends
  again after it gave up waiting. `RequestServed` says that a request is lost in no
  other way but a shutdown (`AnsweredOnce`), and that the one accepted last comes to
  its answer.
- sensor_bmi160.c:108 counts a possible overflow when `fifo_bytes > 1024`, of a FIFO
  that holds up to 1024 bytes: losses of that chip are never counted.
  `LossNoted` is therefore stated of the ADXL345 only. The LIS chips are also read
  by a level that was cached: an overflow after the status was read is not
  counted with those blocks.
- sensor_angle.c does not clear `overflow` when a measurement begins; what an
  earlier one left shifts the entries of the next (`slipped` excludes this, and the
  wrap of the 8-bit counter).
- `oid_alloc` (basecmd.c:205) sets the type before its memory may be refused. The
  object then has a null data pointer for the commands that come after
  `clear_shutdown`, and ends `foreach_oid` early. `MemoryDisjoint` shows that nothing
  comes to overlap.
- A stepper whose step or direction pin is refused (stepper.c:228-229,
  esp32/gpio/gpio_out.c:33-34) has its type and memory, and `clear_shutdown` makes it
  usable, but the size of its moves was not noted (stepper.c:232). If no other
  stepper was configured, `finalize_config` makes the moves too small for it.
- `monitor_count` has eight bits and must be more than `monitor_max`
  (trigger_analog.c:69, 75): with a `monitor_max` of 255 it never is, and a probe that
  gets no samples is not stopped. `SilenceCaught` is stated below 255.
- The query of an analog input does not reset `invalid_count`, so a range error
  counted before it counts on.
- A change of a button while all eight reports are unacknowledged is noted in
  `pressed` and not reported; the next change reports the state of then.
- pulse_counter.c: the comment "sample immediately" stands for a first report
  at the second poll.
- esp32/watchdog.c:63 speaks of a 500us timeout where the code configures 500e3
  ticks of 1 us.
- `config_reset` (basecmd.c:262) is defined and never declared as a command.

## Not modelled

- `esp32/watchdog.c`, clock and pin set-up, `initial_pins.c`: register writes at
  start, no state that anything reads later. The restart they are part of is
  `Restart` in `BmcuSystem` and `ResetBoard` in `Config`.
- Displays (`lcd_hd44780.c`, `lcd_st7920.c`), neopixels, `debugcmds.c`, the I2C and
  hardware SPI drivers: each command writes to its device and returns; correctness
  is in pulse lengths of nanoseconds and in peripherals.
- The arithmetic of the fixed-point filter of `sos_filter.c` and of the readings of
  the sensors: data, of which the models keep what control depends on (triggers,
  cancels, bad, lost).
- The crc: `Console` takes it that it rejects what is not a whole block.
- `compile_time_request.c` but for the encoders of responses: initialised tables.
- Statistics of the scheduler (`stats` response): wording.
- The sum of an analog input in 16 bits: the host chooses sample_count so that the
  sum fits.
