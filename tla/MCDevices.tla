------------------------------ MODULE MCDevices -------------------------------
(***************************************************************************)
(* The modules of the devices, for TLC: each on its own, chosen by `unit`, *)
(* with bounds of its own on the clock and on the host's commands.         *)
(***************************************************************************)
EXTENDS Outputs, AnalogIn, Buttons, TmcUart, LoadCell, Accelerometer,
        AngleSensor, Codec, SpiBus, Config, Pollers

VARIABLE unit  \* the device that is checked
vars == <<now, shutdown, task, wake, commands, unit, outputVars, analogVars,
          buttonVars, tmcVars, cellVars, accelVars, angleVars, codecVars,
          spiVars, configVars, pollerVars>>

Until == [outputs |-> 6, adc |-> 7, buttons |-> 0, tmc |-> 100, cell |-> 46,
          accel |-> 12, angle |-> 16, codec |-> 0, spi |-> 0, config |-> 15,
          pollers |-> 8]
Commands == [outputs |-> 3, adc |-> 3, buttons |-> 0, tmc |-> 2, cell |-> 2,
             accel |-> 4, angle |-> 3, codec |-> 1, spi |-> 7, config |-> 5,
             pollers |-> 3]

Init ==
    /\ unit \in DOMAIN Until
    /\ BoardInit /\ OutputsInit /\ AnalogInit /\ ButtonsInit /\ TmcInit
    /\ LoadCellInit /\ AccelInit /\ AngleInit /\ CodecInit /\ SpiInit
    /\ ConfigInit /\ PollersInit

Next ==
    /\ UNCHANGED unit
    /\ \/ /\ unit = "outputs" /\ OutputsNext
          /\ UNCHANGED <<analogVars, buttonVars, tmcVars, cellVars, accelVars,
                         angleVars, codecVars, spiVars, configVars, pollerVars>>
       \/ /\ unit = "adc" /\ AnalogNext
          /\ UNCHANGED <<outputVars, buttonVars, tmcVars, cellVars, accelVars,
                         angleVars, codecVars, spiVars, configVars, pollerVars>>
       \/ /\ unit = "buttons" /\ ButtonsNext
          /\ UNCHANGED <<outputVars, analogVars, tmcVars, cellVars, accelVars,
                         angleVars, codecVars, spiVars, configVars, pollerVars>>
       \/ /\ unit = "tmc" /\ TmcNext
          /\ UNCHANGED <<outputVars, analogVars, buttonVars, cellVars, accelVars,
                         angleVars, codecVars, spiVars, configVars, pollerVars>>
       \/ /\ unit = "cell" /\ LoadCellNext
          /\ UNCHANGED <<outputVars, analogVars, buttonVars, tmcVars, accelVars,
                         angleVars, codecVars, spiVars, configVars, pollerVars>>
       \/ /\ unit = "accel" /\ AccelNext
          /\ UNCHANGED <<outputVars, analogVars, buttonVars, tmcVars, cellVars,
                         angleVars, codecVars, spiVars, configVars, pollerVars>>
       \/ /\ unit = "angle" /\ AngleNext
          /\ UNCHANGED <<outputVars, analogVars, buttonVars, tmcVars, cellVars,
                         accelVars, codecVars, spiVars, configVars, pollerVars>>
       \/ /\ unit = "codec" /\ CodecNext
          /\ UNCHANGED <<outputVars, analogVars, buttonVars, tmcVars, cellVars,
                         accelVars, angleVars, spiVars, configVars, pollerVars>>
       \/ /\ unit = "spi" /\ SpiNext
          /\ UNCHANGED <<outputVars, analogVars, buttonVars, tmcVars, cellVars,
                         accelVars, angleVars, codecVars, configVars, pollerVars>>
       \/ /\ unit = "config" /\ ConfigNext
          /\ UNCHANGED <<outputVars, analogVars, buttonVars, tmcVars, cellVars,
                         accelVars, angleVars, codecVars, spiVars, pollerVars>>
       \/ /\ unit = "pollers" /\ PollersNext
          /\ UNCHANGED <<outputVars, analogVars, buttonVars, tmcVars, cellVars,
                         accelVars, angleVars, codecVars, spiVars, configVars>>
    /\ now' <= Until[unit] /\ commands' <= Commands[unit]

Spec == Init /\ [][Next]_vars

(* The task loop goes on with a shutdown, whose handlers run with           *)
(* interrupts disabled.                                                     *)
AdcShutdownSpec ==
    /\ Spec /\ unit = "adc"
    /\ WF_vars(Next /\ (AnalogInShutdown \/ ShutdownAgain))

-----------------------------------------------------------------------------
(* Constants.                                                               *)
MCModes == <<0, 3, 1, 2>>
MCMessages == {<<1, 0>>}
MCShutdownMsg == <<0, 1, 1>>
MCAnswer == <<1, 1, 0, 1>>
MCRequests == {<<0, 1, 0, 1, 0, 1, 1>>, <<0, 1, 1, 0>>}
MCObjectSize == [t |-> 1, u |-> 2]
MCMoveSize == [t |-> 2, u |-> 3]
(* Where encode_int takes another byte, and the ends of the range.          *)
Edges(k) == <<-(2^k) - 1, -(2^k), 3 * 2^k - 1, 3 * 2^k, 4 * 2^k - 1, 4 * 2^k>>
MCWords == Edges(5) \o Edges(12) \o Edges(19) \o Edges(26)
           \o <<0, -1, 1, 127, 128, -2147483647 - 1, 2147483647>>
MCBuffers == <<<<>>, <<126, 255>>, [i \in 1 .. 50 |-> 128]>>
===============================================================================
