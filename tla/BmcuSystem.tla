----------------------------- MODULE BmcuSystem -----------------------------
(***************************************************************************)
(* A change of material, end to end: the macros of src/config/bmcu.cfg on  *)
(* the printer, the driver (BmcuShim, which BmcuFake implements) on the    *)
(* ESP32, and the external adapter that feeds and retracts the filament.   *)
(*                                                                         *)
(* T0..T3 belong to the box and T4..T7 to the adapter's channels 0..3.     *)
(* Macros are sequential: a command ends, or an error aborts the whole     *)
(* call chain, before the next one starts.  A SET_PIN takes effect on the  *)
(* ESP32 in the order the macros issue it.                                 *)
(***************************************************************************)
EXTENDS Integers, Sequences, FiniteSets

CONSTANTS
    Materials,    \* the materials selected, among 0..7
    MaxSelects,   \* bound: BMCU_SELECT_MATERIAL calls in one behaviour
    MaxTimeouts,  \* bound: fake moves that run their 90 s without an endstop
    MaxErrors,    \* bound: box commands that raise an error
    MaxRestarts   \* bound: restarts of Klipper and of the ESP32

ASSUME MaterialsAssumption == Materials \subseteq 0..7
ASSUME BoundsAssumption ==
    MaxSelects \in Nat /\ MaxTimeouts \in Nat /\ MaxErrors \in Nat
    /\ MaxRestarts \in Nat

VARIABLES
    pins, active, sent, replies, \* the driver: see BmcuShim
    hpc,       \* the macro line the host is at
    from, to,  \* current and target as BMCU_SELECT_MATERIAL read them
    current,   \* BMCU_MATERIAL_STATE.current
    tnn,       \* M8200.tnn, as the material it names, or NoTnn
    selects, timeouts, errors, restarts, \* what the bounds count
    taken,     \* how many requests the adapter has taken
    working,   \* whether the adapter is at work on the last one it took
    fed        \* the materials whose filament is in the tool head's path

shimVars == <<pins, active, sent, replies>>
host == <<hpc, from, to, current, tnn>>
counts == <<selects, timeouts, errors, restarts>>
adapter == <<taken, working, fed>>
vars == <<shimVars, host, counts, adapter>>

Shim == INSTANCE BmcuShim

NoMaterial == -1
NoTnn == -1
Ufb(m) == m >= 4

Init ==
    /\ Shim!Init
    /\ hpc = "ready" /\ from = NoMaterial /\ to = NoMaterial
    /\ current = NoMaterial /\ tnn = NoTnn
    /\ selects = 0 /\ timeouts = 0 /\ errors = 0 /\ restarts = 0
    /\ taken = 0 /\ working = FALSE /\ fed = {}

Goto(label) == hpc' = label
HostOnly == UNCHANGED <<shimVars, from, to, current, tnn, counts, adapter>>

-----------------------------------------------------------------------------
(* Mutant: the material that is loaded is not taken out first.              *)
SelectWithoutUnload(target) ==
    /\ hpc = "ready" /\ selects < MaxSelects
    /\ selects' = selects + 1
    /\ IF current = target
       THEN UNCHANGED <<hpc, from, to>>
       ELSE /\ from' = current /\ to' = target
            /\ Goto(IF Ufb(target) THEN "tnn" ELSE "L")
    /\ UNCHANGED <<shimVars, current, tnn, timeouts, errors, restarts, adapter>>

(* BMCU_SELECT_MATERIAL, called by T0..T7.  The template is rendered when   *)
(* the macro is called: current is read once.                               *)
SelectMaterial(target) ==
    /\ hpc = "ready" /\ selects < MaxSelects
    /\ selects' = selects + 1
    /\ IF current = target
       THEN UNCHANGED <<hpc, from, to>>
       ELSE /\ from' = current /\ to' = target
            /\ Goto(IF current # NoMaterial THEN "P"
                    ELSE IF Ufb(target) THEN "tnn" ELSE "L")
    /\ UNCHANGED <<shimVars, current, tnn, timeouts, errors, restarts, adapter>>

(* M8200 P, C, W and O leave the state alone (external box commands).       *)
BoxStep ==
    /\ hpc \in {"P", "C", "W", "O"}
    /\ Goto(CASE hpc = "P" -> "C"
              [] hpc = "C" -> IF Ufb(from) THEN "unload.low" ELSE "R"
              [] hpc = "W" -> "F"
              [] OTHER -> "commit")
    /\ HostOnly

(* M8200 R: the box takes back whatever box material is fed.                *)
BoxRetrude ==
    /\ hpc = "R"
    /\ fed' = {m \in fed : Ufb(m)}
    /\ Goto(IF Ufb(to) THEN "tnn" ELSE "L")
    /\ UNCHANGED <<shimVars, from, to, current, tnn, counts, taken, working>>

(* M8200 L: the box feeds, and records which material F will flush.         *)
BoxLoad ==
    /\ hpc = "L"
    /\ fed' = fed \cup {to}
    /\ tnn' = to
    /\ Goto("F")
    /\ UNCHANGED <<shimVars, from, to, current, counts, taken, working>>

(* Mutant: the variable of M8200 is not set.                                *)
LeaveTnn ==
    /\ hpc = "tnn"
    /\ Goto("load.low")
    /\ UNCHANGED <<shimVars, from, to, current, tnn, counts, adapter>>

(* BMCU_SET_M8200_TNN                                                       *)
SetTnn ==
    /\ hpc = "tnn"
    /\ tnn' = to
    /\ Goto("load.low")
    /\ UNCHANGED <<shimVars, from, to, current, counts, adapter>>

(* M8200 F: flushes the material tnn names, then clears it.                 *)
BoxFlush ==
    /\ hpc = "F"
    /\ tnn' = NoTnn
    /\ Goto("O")
    /\ UNCHANGED <<shimVars, from, to, current, counts, adapter>>

Commit ==
    /\ hpc = "commit"
    /\ current' = to
    /\ Goto("ready")
    /\ UNCHANGED <<shimVars, from, to, tnn, counts, adapter>>

(* An error in a box command aborts the macro where it is.                  *)
BoxError ==
    /\ hpc \in {"P", "C", "R", "L", "W", "F", "O"} /\ errors < MaxErrors
    /\ errors' = errors + 1
    /\ Goto("ready")
    /\ UNCHANGED <<shimVars, from, to, current, tnn, selects, timeouts,
                   restarts, adapter>>

-----------------------------------------------------------------------------
(* BMCU_RUN: BMCU_ACTION_PREPARE, BMCU_ACTION_TRIGGER, BMCU_ACTION_WAIT.    *)
Runs == {"load", "unload"}
Line ==
    [load |-> [low |-> "load.low", high |-> "load.high", mode |-> "load.mode",
               trigger |-> "load.trigger", wait |-> "load.wait"],
     unload |-> [low |-> "unload.low", high |-> "unload.high",
                 mode |-> "unload.mode", trigger |-> "unload.trigger",
                 wait |-> "unload.wait"]]
At(r, label) == hpc = Line[r][label]
Step(r, label) == Goto(Line[r][label])
RunMaterial(r) == IF r = "load" THEN to ELSE from
Channel(r) == RunMaterial(r) - 4
Job(r) == [command |-> IF r = "load" THEN "INPUT" ELSE "OUTPUT",
           channel |-> Channel(r)]

SetPin(p, bit) == Shim!SetPin(p, bit)
PinStep == UNCHANGED <<from, to, current, tnn, counts, adapter>>

PrepareLow(r) ==
    At(r, "low") /\ SetPin("low", Channel(r) % 2) /\ Step(r, "high") /\ PinStep
PrepareHigh(r) ==
    At(r, "high") /\ SetPin("high", (Channel(r) \div 2) % 2) /\ Step(r, "mode")
    /\ PinStep
(* Mutant: INPUT and OUTPUT swapped.                                        *)
PrepareSwappedMode(r) ==
    At(r, "mode") /\ SetPin("mode", IF r = "load" THEN 1 ELSE 0)
    /\ Step(r, "trigger") /\ PinStep
PrepareMode(r) ==
    At(r, "mode") /\ SetPin("mode", IF r = "load" THEN 0 ELSE 1)
    /\ Step(r, "trigger") /\ PinStep

(* Mutant: bmcu_fake_write does not test action_active.                     *)
WriteTriggerAnyway(r) ==
    /\ At(r, "trigger")
    /\ active' = 1 /\ sent' = Append(sent, Shim!Command(pins))
    /\ Step(r, "wait")
    /\ UNCHANGED <<pins, replies>> /\ PinStep

(* The trigger pin is written 0, 1 and 0; only the 1 does anything, and     *)
(* nothing when an action is active.  The adapter sends lines of DONE and   *)
(* nothing else, so a start that drops part of a line makes no DONE.        *)
WriteTrigger(r) ==
    /\ At(r, "trigger")
    /\ IF active = 0 THEN Shim!Trigger /\ replies' <= replies
                      ELSE UNCHANGED shimVars
    /\ Step(r, "wait")
    /\ PinStep

(* Mutant: the fake move does not stop on the endstop's level.              *)
WaitNothing(r) ==
    /\ At(r, "wait")
    /\ Goto(IF r = "load" THEN "W" ELSE IF Ufb(to) THEN "tnn" ELSE "L")
    /\ HostOnly

(* MANUAL_STEPPER ... STOP_ON_ENDSTOP=1 ends when the endstop, !active,     *)
(* reads 1 ...                                                              *)
WaitDone(r) ==
    /\ At(r, "wait") /\ active = 0
    /\ Goto(IF r = "load" THEN "W" ELSE IF Ufb(to) THEN "tnn" ELSE "L")
    /\ HostOnly

(* ... or raises an error after 900 mm at 10 mm/s.                          *)
WaitTimeout(r) ==
    /\ At(r, "wait") /\ timeouts < MaxTimeouts
    /\ timeouts' = timeouts + 1
    /\ Goto("ready")
    /\ UNCHANGED <<shimVars, from, to, current, tnn, selects, errors, restarts,
                   adapter>>

(* A restart of Klipper resets the ESP32; the variables of the macros and   *)
(* the driver's state and FIFOs return to their defaults: a request still in*)
(* the transmit FIFO is lost or not.  The adapter and the filament do not   *)
(* notice.                                                                  *)
Restart ==
    /\ restarts < MaxRestarts
    /\ restarts' = restarts + 1
    /\ Goto("ready")
    /\ current' = NoMaterial /\ tnn' = NoTnn
    /\ pins' = [p \in Shim!Pin |-> 0]
    /\ active' = 0 /\ replies' = 0
    /\ sent' \in {sent, SubSeq(sent, 1, taken)}
    /\ UNCHANGED <<from, to, selects, timeouts, errors, adapter>>

(* After a restart the user tells the printer what is loaded:               *)
(* BMCU_SET_CURRENT_MATERIAL.                                               *)
SetCurrentMaterial ==
    /\ hpc = "ready" /\ restarts > 0
    /\ \/ fed = {} /\ current' = NoMaterial
       \/ \E m \in fed : fed = {m} /\ current' = m
    /\ UNCHANGED <<shimVars, hpc, from, to, tnn, counts, adapter>>

-----------------------------------------------------------------------------
(* The external adapter: takes the requests in order, works, replies DONE.  *)
AdapterTake ==
    /\ ~working /\ taken < Len(sent)
    /\ taken' = taken + 1 /\ working' = TRUE
    /\ UNCHANGED <<shimVars, host, counts, fed>>

AdapterDone ==
    /\ working
    /\ working' = FALSE
    /\ fed' = LET r == sent[taken]
              IN IF r.command = "INPUT" THEN fed \cup {r.channel + 4}
                                        ELSE fed \ {r.channel + 4}
    /\ Shim!Arrive
    /\ UNCHANGED <<host, counts, taken>>

(* Mutant: a DONE is received and ignored.                                  *)
DriverIgnores ==
    /\ replies > 0 /\ replies' = replies - 1
    /\ UNCHANGED <<pins, active, sent, host, counts, adapter>>

DriverComplete == Shim!Complete /\ UNCHANGED <<host, counts, adapter>>

-----------------------------------------------------------------------------
HostStep ==
    \/ BoxStep \/ BoxRetrude \/ BoxLoad \/ SetTnn \/ BoxFlush \/ Commit
    \/ \E r \in Runs : \/ PrepareLow(r) \/ PrepareHigh(r) \/ PrepareMode(r)
                       \/ WriteTrigger(r) \/ WaitDone(r)
Fault == BoxError \/ (\E r \in Runs : WaitTimeout(r)) \/ Restart

Next ==
    \/ \E m \in Materials : SelectMaterial(m)
    \/ SetCurrentMaterial
    \/ HostStep \/ Fault
    \/ AdapterTake \/ AdapterDone \/ DriverComplete

Spec == Init /\ [][Next]_vars

(* The macro interpreter goes on, the adapter answers, the driver polls.    *)
FairSpec ==
    Spec /\ WF_vars(HostStep) /\ WF_vars(AdapterTake) /\ WF_vars(AdapterDone)
         /\ WF_vars(DriverComplete)

-----------------------------------------------------------------------------
Labels == {"ready", "P", "C", "R", "L", "W", "F", "O", "tnn", "commit"}
    \cup {Line[r][l] : r \in Runs,
                      l \in {"low", "high", "mode", "trigger", "wait"}}

(* Types; the macros only ever address channels that exist.                 *)
TypeOK ==
    /\ pins \in [Shim!Pin -> {0, 1}] /\ active \in {0, 1}
    /\ sent \in Seq([command : {"INPUT", "OUTPUT"}, channel : 0..3])
    /\ replies \in Nat
    /\ hpc \in Labels
    /\ from \in -1..7 /\ to \in -1..7 /\ current \in -1..7 /\ tnn \in -1..7
    /\ taken \in 0..Len(sent) /\ working \in BOOLEAN /\ fed \subseteq 0..7
    /\ \A r \in Runs : At(r, "low") \/ At(r, "high") \/ At(r, "mode")
                           => Channel(r) \in 0..3

(* Nothing has failed so far.                                               *)
NoFault == timeouts = 0 /\ errors = 0 /\ restarts = 0

(* Two filaments never meet in the tool head: while no fault happens, a     *)
(* load starts only once the previous material has been taken out, though   *)
(* the host knows of it only by DONE, UART and endstop.                     *)
OneMaterialFed == NoFault => Cardinality(fed) <= 1

(* What is in the tool head's path is what BMCU_MATERIAL_STATE.current says.*)
CurrentTold == fed = IF current = NoMaterial THEN {} ELSE {current}

(* BMCU_MATERIAL_STATE.current tells the truth whenever the printer is      *)
(* ready for the next T command, while no fault happens.                    *)
CurrentIsFed == NoFault /\ hpc = "ready" => CurrentTold

(* The macros address channels that exist and feed what they say they do.   *)
MaterialsFed == TypeOK /\ OneMaterialFed /\ CurrentIsFed

(* When a wait is over, the adapter has finished this very request: the     *)
(* DONE that ended the action was not an older one.                         *)
WaitEnds(r) ==
    WaitDone(r) => /\ ~working /\ taken = Len(sent)
                   /\ sent # <<>> /\ sent[Len(sent)] = Job(r)

(* So it is while no fault happens ...                                      *)
WaitMeansDone == [][\A r \in Runs : NoFault => WaitEnds(r)]_vars

(* ... and "this design makes DONE a state synchronization point", which    *)
(* "does not depend on the ESP32 and Klipper agreeing on the previous       *)
(* action state", claims it whatever happened before.                       *)
DoneSynchronizes == [][\A r \in Runs : WaitEnds(r)]_vars

(* "M8200 F depends on M8200.tnn": F always flushes the material that was   *)
(* selected, on the box branch and on the branch that skips M8200 L, even   *)
(* after calls that were aborted half way; and that material has been fed,  *)
(* while no fault happens.                                                  *)
FlushNamesTarget == hpc = "F" => tnn = to /\ (NoFault => to \in fed)

(* The driver never lets two requests reach the adapter together, even when *)
(* the host gave up waiting and started over: the second trigger is ignored *)
(* until the adapter has answered the first.  Only a restart forgets.       *)
AdapterNotOverrun ==
    restarts = 0 => Len(sent) - taken <= 1 /\ (working => taken = Len(sent))

(* A request carries the mode and the channel the macro asked for, whatever *)
(* earlier calls, aborted or not, left on the pins.                         *)
RequestIsJob ==
    [][\A r \in Runs : WriteTrigger(r) /\ sent' # sent
           => sent' = Append(sent, Job(r))]_vars

(* Every change of material ends, with success or with an error.            *)
SelectEnds == (hpc # "ready") ~> (hpc = "ready")
(* "If host macros remain strictly sequential, action re-entry should not   *)
(* occur": the host never writes a trigger while an action is active.       *)
NoReentry == \A r \in Runs : At(r, "trigger") => active = 0
=============================================================================
