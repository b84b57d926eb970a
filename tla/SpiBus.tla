-------------------------------- MODULE SpiBus --------------------------------
(***************************************************************************)
(* The SPI devices of src/spicmds.c on a software bus, src/spi_software.c: *)
(* several devices with a select pin each share the clock and data pins,   *)
(* and may want different clock modes.  A shutdown may cut a transfer      *)
(* between any two writes of a pin; spidev_shutdown then releases every    *)
(* device and sends the messages that the host left for this case.         *)
(*                                                                         *)
(* The devices are external: one samples the data pin at one edge of the   *)
(* clock and puts its next bit out at the other, while it is selected.     *)
(***************************************************************************)
EXTENDS Board

CONSTANTS
    SpiMode,      \* the devices, by oid: the mode of each, 0 to 3
    SpiMessages,  \* what a transfer may send, as bits
    ShutdownMsg,  \* the shutdown_msg of a device
    Answer        \* what a device answers: more bits than a message has

ASSUME SpiBusAssumption ==
    /\ SpiMode \in Seq(0 .. 3)
    /\ \A m \in SpiMessages \cup {ShutdownMsg, Answer} : m \in Seq({0, 1})
    /\ \A m \in SpiMessages \cup {ShutdownMsg} : Len(m) \in 1 .. Len(Answer)

SpiDevice == DOMAIN SpiMode

VARIABLES
    ready,  \* the devices with SF_SOFTWARE, by spi_set_sw_bus
    wire,   \* the pins: sclk, mosi, and the devices that are selected
    slave   \* of each device, the bits it got in this or the last selection,
            \* and how often it has shifted
spiVars == <<ready, wire, slave>>

SpiInit ==
    /\ ready = {} /\ wire = [sclk |-> 0, mosi |-> 0, cs |-> {}]
    /\ slave = [d \in SpiDevice |-> [got |-> <<>>, shifts |-> 0]]

PHASE(d) == SpiMode[d] % 2

(* A selected device, of mode 0 and 3 at a rising edge, of mode 1 and 2 at  *)
(* a falling one, takes a bit, and at the other edge shifts.                *)
Clocked(level, mosi) ==
    [d \in SpiDevice |->
        IF d \notin wire.cs THEN slave[d]
        ELSE IF (SpiMode[d] \in {0, 3}) = (level = 1)
        THEN [slave[d] EXCEPT !.got = Append(@, mosi)]
        ELSE [slave[d] EXCEPT !.shifts = @ + 1]]
Miso(d) == LET i == slave[d].shifts + (1 - PHASE(d))
           IN IF i \in DOMAIN Answer THEN Answer[i] ELSE 1

-----------------------------------------------------------------------------
(* spidev_transfer, to the first device of a queue ...                      *)
Transfers(queue) ==
    IF queue = <<>> THEN Idle
    ELSE [at |-> "prepare", dev |-> queue[1].dev, data |-> queue[1].data,
          got |-> <<>>, queue |-> Tail(queue)]

(* ... nothing, without a bus.                                              *)
NoBus ==
    /\ task.at = "prepare" /\ task.dev \notin ready
    /\ task' = Transfers(task.queue)
    /\ UNCHANGED <<now, shutdown, wake, spiVars>>

(* spi_software_prepare.  Mutant: the clock is left where it is.            *)
LeftAsIs(mode, sclk) == sclk
Prepared(mode, sclk) == mode \div 2
Prepare ==
    /\ task.at = "prepare" /\ task.dev \in ready
    /\ wire' = [wire EXCEPT !.sclk = Prepared(SpiMode[task.dev], @)]
    /\ slave' = Clocked(wire'.sclk, wire.mosi)
    /\ task' = [task EXCEPT !.at = "select"]
    /\ UNCHANGED <<now, shutdown, wake, ready>>

SelectDevice ==
    /\ task.at = "select"
    /\ wire' = [wire EXCEPT !.cs = @ \cup {task.dev}]
    /\ slave' = [slave EXCEPT ![task.dev] = [got |-> <<>>, shifts |-> 0]]
    /\ task' = [task EXCEPT !.at = "first"]
    /\ UNCHANGED <<now, shutdown, wake, ready>>

(* spi_software_transfer, a bit: a toggle of the clock and the write of the *)
(* data pin, in modes 1 and 3 in this order; ...                            *)
FirstHalf ==
    LET bit == task.data[Len(task.got) + 1]
    IN /\ task.at = "first"
       /\ wire' = [wire EXCEPT !.sclk = 1 - @, !.mosi = bit]
       /\ slave' = Clocked(1 - wire.sclk, IF PHASE(task.dev) = 1 THEN wire.mosi ELSE bit)
       /\ task' = [task EXCEPT !.at = "second"]
       /\ UNCHANGED <<now, shutdown, wake, ready>>

(* ... the other toggle and the read of the answer, in this order as well:  *)
(* an answer that a toggle has shifted out is of before it in mode 0 and 2. *)
SecondHalf ==
    LET got == Append(task.got, Miso(task.dev))
    IN /\ task.at = "second"
       /\ wire' = [wire EXCEPT !.sclk = 1 - @]
       /\ slave' = Clocked(1 - wire.sclk, wire.mosi)
       /\ task' = [task EXCEPT !.got = got,
                       !.at = IF Len(got) = Len(task.data) THEN "release" ELSE "first"]
       /\ UNCHANGED <<now, shutdown, wake, ready>>

Release ==
    /\ task.at = "release"
    /\ wire' = [wire EXCEPT !.cs = @ \ {task.dev}]
    /\ task' = Transfers(task.queue)
    /\ UNCHANGED <<now, shutdown, wake, ready, slave>>

(* command_spi_set_sw_bus, which may come once.                             *)
SpiSetBus(d) ==
    /\ d \notin ready /\ ready' = ready \cup {d}
    /\ UNCHANGED <<now, shutdown, task, wake, wire, slave>>

(* command_spi_transfer and command_spi_send.                               *)
SpiTransfer(d, data) ==
    /\ task' = Transfers(<<[dev |-> d, data |-> data]>>)
    /\ UNCHANGED <<now, shutdown, wake, spiVars>>

(* A callback shuts down, and spidev_shutdown runs: it releases all devices *)
(* and goes through the messages.                                           *)
SpiShutdown ==
    LET messages == [d \in SpiDevice |-> [dev |-> d, data |-> ShutdownMsg]]
    IN /\ ~shutdown /\ shutdown' = TRUE
       /\ wire' = [wire EXCEPT !.cs = {}]
       /\ task' = Transfers(messages)
       /\ UNCHANGED <<now, wake, ready, slave>>

SpiNext ==
    \/ /\ Command
       /\ \E d \in SpiDevice :
              \/ SpiSetBus(d)
              \/ \E data \in SpiMessages : SpiTransfer(d, data)
    \/ ClearShutdown /\ UNCHANGED <<now, task, wake, spiVars>>
    \/ /\ UNCHANGED commands
       /\ \/ NoBus \/ Prepare \/ SelectDevice \/ FirstHalf \/ SecondHalf
          \/ Release \/ SpiShutdown

SpiAll == <<now, shutdown, task, wake, commands, spiVars>>
SpiSpec == BoardInit /\ SpiInit /\ [][SpiNext]_SpiAll

-----------------------------------------------------------------------------
(* A transfer that ends has given the device the message, bit for bit, and  *)
(* got its answer, whatever mode the devices before it have left the clock  *)
(* in, and wherever one of their transfers was cut.                         *)
TransferExact ==
    task.at = "release" =>
        /\ slave[task.dev].got = task.data
        /\ task.got = SubSeq(Answer, 1, Len(task.data))

(* Once a shutdown is over, every device of the bus has got its shutdown    *)
(* message, also the one it was in the middle of another message with.      *)
ShutdownHeard ==
    shutdown /\ task = Idle => \A d \in ready : slave[d].got = ShutdownMsg

SpiSound == TransferExact /\ ShutdownHeard
===============================================================================
