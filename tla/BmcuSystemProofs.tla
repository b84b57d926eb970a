-------------------------- MODULE BmcuSystemProofs --------------------------
(***************************************************************************)
(* The safety properties of BmcuSystem hold for every set of materials and *)
(* for every number of selections, timeouts, errors and restarts.          *)
(*                                                                         *)
(* The invariant says what the host may conclude at each line of its       *)
(* macros.  Its parts are the branch the macros took (Route), the pins the *)
(* request will be built from (PinsSet), the account of requests and       *)
(* answers that action_active stands for (Booked), the variable of M8200   *)
(* (Named), and, while nothing has failed, where the filament is (Story).  *)
(***************************************************************************)
EXTENDS BmcuSystem, FiniteSetTheorems, TLAPS

Request == [command : {"INPUT", "OUTPUT"}, channel : 0..3]

LoadLines == {"load.low", "load.high", "load.mode", "load.trigger", "load.wait"}
UnloadLines ==
    {"unload.low", "unload.high", "unload.mode", "unload.trigger", "unload.wait"}
Waits == {"load.wait", "unload.wait"}

(* The lines at which the old material is still in, at which none is, and   *)
(* at which the new one is.                                                 *)
Before == {"P", "C", "R", "unload.low", "unload.high", "unload.mode",
           "unload.trigger"}
Between == {"tnn", "load.low", "load.high", "load.mode", "load.trigger", "L"}
After == {"W", "F", "O", "commit"}

Typed ==
    /\ pins \in [Shim!Pin -> {0, 1}] /\ active \in {0, 1}
    /\ sent \in Seq(Request) /\ replies \in Nat
    /\ hpc \in {"ready"} \cup Before \cup Between \cup After \cup Waits
    /\ from \in -1..7 /\ to \in -1..7 /\ current \in -1..7 /\ tnn \in -1..7
    /\ taken \in 0..Len(sent) /\ working \in BOOLEAN /\ fed \subseteq 0..7
    /\ timeouts \in Nat /\ errors \in Nat /\ restarts \in Nat
    /\ working => taken >= 1

Route ==
    /\ hpc # "ready" => to \in 0..7
    /\ hpc \in {"P", "C"} => from \in 0..7
    /\ hpc = "R" => from \in 0..3
    /\ hpc \in UnloadLines => from \in 4..7
    /\ hpc = "L" => to \in 0..3
    /\ hpc \in LoadLines \cup {"tnn"} => to \in 4..7

PinsSet ==
    \A r \in Runs :
        /\ At(r, "high") \/ At(r, "mode") \/ At(r, "trigger")
               => pins["low"] = Channel(r) % 2
        /\ At(r, "mode") \/ At(r, "trigger")
               => pins["high"] = (Channel(r) \div 2) % 2
        /\ At(r, "trigger") => pins["mode"] = IF r = "load" THEN 0 ELSE 1

(* One request is under way, or none: in the FIFO, at the adapter, or in the*)
(* answer that the driver has not looked at.                                *)
AtWork == IF working THEN 1 ELSE 0
Booked == restarts = 0 => active = (Len(sent) - taken) + AtWork + replies

Named == hpc \in LoadLines \cup {"W", "F"} => tnn = to

Pending == taken < Len(sent) \/ working

Story ==
    /\ hpc \notin Waits => active = 0
    /\ hpc = "ready" => fed = IF current = NoMaterial THEN {} ELSE {current}
    /\ hpc \in Before => fed = {from}
    /\ hpc \in Between => fed = {}
    /\ hpc \in After => fed = {to}
    /\ hpc \in Waits => sent # <<>>
    /\ hpc = "unload.wait" =>
        /\ sent[Len(sent)] = Job("unload")
        /\ fed = IF Pending THEN {from} ELSE {}
    /\ hpc = "load.wait" =>
        /\ sent[Len(sent)] = Job("load")
        /\ fed = IF Pending THEN {} ELSE {to}

Inv == Typed /\ Route /\ PinsSet /\ Booked /\ Named /\ (NoFault => Story)

LEMMA Channels ==
    ASSUME Typed, Route, NEW r \in Runs,
           At(r, "low") \/ At(r, "high") \/ At(r, "mode") \/ At(r, "trigger")
    PROVE  Channel(r) \in 0..3
BY DEF Typed, Route, Runs, At, Line, Channel, RunMaterial, LoadLines, UnloadLines

(* The two pins of the channel hold its binary digits.                      *)
LEMMA Digits ==
    ASSUME NEW c \in 0..3
    PROVE  /\ c % 2 \in {0, 1} /\ (c \div 2) % 2 \in {0, 1}
           /\ (c % 2) + 2 * ((c \div 2) % 2) = c
<1>1. c = 0 \/ c = 1 \/ c = 2 \/ c = 3
  OBVIOUS
<1>2. CASE c = 0
  BY <1>2
<1>3. CASE c = 1
  BY <1>3
<1>4. CASE c = 2
  BY <1>4
<1>5. CASE c = 3
  BY <1>5
<1> QED
  BY <1>1, <1>2, <1>3, <1>4, <1>5

LEMMA PinWritten ==
    ASSUME Typed, NEW p \in Shim!Pin, NEW bit \in {0, 1}, SetPin(p, bit)
    PROVE  /\ pins' \in [Shim!Pin -> {0, 1}] /\ pins'[p] = bit
           /\ \A q \in Shim!Pin \ {p} : pins'[q] = pins[q]
           /\ UNCHANGED <<active, sent, replies>>
BY DEF Typed, SetPin, Shim!SetPin

LEMMA PrepareLowIs ==
    ASSUME Typed, Route, NEW r \in Runs, PrepareLow(r)
    PROVE  /\ At(r, "low") /\ hpc' = Line[r]["high"]
           /\ pins' \in [Shim!Pin -> {0, 1}] /\ pins'["low"] = Channel(r) % 2
           /\ UNCHANGED <<active, sent, replies>> /\ PinStep
<1>1. /\ At(r, "low") /\ hpc' = Line[r]["high"] /\ PinStep
      /\ SetPin("low", Channel(r) % 2)
  BY DEF PrepareLow, Step, Goto
<1>2. Channel(r) % 2 \in {0, 1}
  BY <1>1, Channels, Digits
<1> QED
  BY <1>1, <1>2, PinWritten DEF Shim!Pin

LEMMA PrepareHighIs ==
    ASSUME Typed, Route, NEW r \in Runs, PrepareHigh(r)
    PROVE  /\ At(r, "high") /\ hpc' = Line[r]["mode"]
           /\ pins' \in [Shim!Pin -> {0, 1}]
           /\ pins'["high"] = (Channel(r) \div 2) % 2 /\ pins'["low"] = pins["low"]
           /\ UNCHANGED <<active, sent, replies>> /\ PinStep
<1>1. /\ At(r, "high") /\ hpc' = Line[r]["mode"] /\ PinStep
      /\ SetPin("high", (Channel(r) \div 2) % 2)
  BY DEF PrepareHigh, Step, Goto
<1>2. (Channel(r) \div 2) % 2 \in {0, 1}
  BY <1>1, Channels, Digits
<1> QED
  BY <1>1, <1>2, PinWritten DEF Shim!Pin

LEMMA PrepareModeIs ==
    ASSUME Typed, Route, NEW r \in Runs, PrepareMode(r)
    PROVE  /\ At(r, "mode") /\ hpc' = Line[r]["trigger"]
           /\ pins' \in [Shim!Pin -> {0, 1}]
           /\ pins'["mode"] = IF r = "load" THEN 0 ELSE 1
           /\ pins'["low"] = pins["low"] /\ pins'["high"] = pins["high"]
           /\ UNCHANGED <<active, sent, replies>> /\ PinStep
<1>1. /\ At(r, "mode") /\ hpc' = Line[r]["trigger"] /\ PinStep
      /\ SetPin("mode", IF r = "load" THEN 0 ELSE 1)
  BY DEF PrepareMode, Step, Goto
<1> QED
  BY <1>1, PinWritten DEF Shim!Pin

LEMMA CommandIsJob ==
    ASSUME Typed, Route, PinsSet, NEW r \in Runs, At(r, "trigger")
    PROVE  Shim!Command(pins) = Job(r)
<1>1. /\ pins["low"] = Channel(r) % 2 /\ pins["high"] = (Channel(r) \div 2) % 2
      /\ pins["mode"] = IF r = "load" THEN 0 ELSE 1
  BY DEF PinsSet
<1>2. pins["low"] + 2 * pins["high"] = Channel(r)
  BY <1>1, Channels, Digits
<1>3. (IF pins["mode"] = 1 THEN "OUTPUT" ELSE "INPUT")
          = IF r = "load" THEN "INPUT" ELSE "OUTPUT"
  BY <1>1
<1> QED
  BY <1>2, <1>3, Zenon DEF Shim!Command, Job

LEMMA JobTyped ==
    ASSUME Typed, Route, PinsSet, NEW r \in Runs, At(r, "trigger")
    PROVE  Job(r) \in Request
<1>1. Channel(r) \in 0..3
  BY Channels
<1>2. (IF r = "load" THEN "INPUT" ELSE "OUTPUT") \in {"INPUT", "OUTPUT"}
  OBVIOUS
<1> QED
  BY <1>1, <1>2, Zenon DEF Job, Request

LEMMA WriteTriggerIs ==
    ASSUME Typed, Route, PinsSet, NEW r \in Runs, WriteTrigger(r)
    PROVE  /\ At(r, "trigger") /\ hpc' = Line[r]["wait"] /\ PinStep
           /\ UNCHANGED pins /\ sent' \in Seq(Request)
           /\ \/ /\ active = 0 /\ active' = 1 /\ sent' = Append(sent, Job(r))
                 /\ Len(sent') = Len(sent) + 1 /\ sent'[Len(sent')] = Job(r)
                 /\ sent' # <<>> /\ replies' \in Nat /\ replies' <= replies
              \/ active # 0 /\ UNCHANGED <<active, sent, replies>>
<1>1. /\ At(r, "trigger") /\ hpc' = Line[r]["wait"] /\ PinStep
      /\ IF active = 0 THEN Shim!Trigger /\ replies' <= replies
                        ELSE UNCHANGED shimVars
  BY DEF WriteTrigger, Step, Goto
<1>2. Job(r) \in Request /\ Shim!Command(pins) = Job(r) /\ sent \in Seq(Request)
  BY <1>1, CommandIsJob, JobTyped DEF Typed
<1>3. CASE active = 0
  <2>1. /\ active' = 1 /\ sent' = Append(sent, Job(r)) /\ UNCHANGED pins
        /\ replies' \in Nat /\ replies' <= replies
    BY <1>1, <1>2, <1>3 DEF Shim!Trigger
  <2>2. /\ sent' \in Seq(Request) /\ Len(sent') = Len(sent) + 1
        /\ sent'[Len(sent')] = Job(r) /\ sent' # <<>>
    BY <1>2, <2>1
  <2> QED
    BY <1>1, <1>3, <2>1, <2>2
<1>4. CASE active # 0
  BY <1>1, <1>2, <1>4 DEF shimVars
<1> QED
  BY <1>3, <1>4

(* While nothing has failed the adapter is at work only during a wait, and  *)
(* then on the last request.                                                *)
LEMMA AdapterDoneIs ==
    ASSUME Typed, AdapterDone
    PROVE  /\ working /\ ~working' /\ working' \in BOOLEAN /\ replies' = replies + 1
           /\ UNCHANGED <<pins, active, sent, host, counts, taken>>
           /\ sent[taken] \in Request
           /\ fed' = IF sent[taken].command = "INPUT"
                     THEN fed \cup {sent[taken].channel + 4}
                     ELSE fed \ {sent[taken].channel + 4}
           /\ fed' \subseteq 0..7
<1>1. /\ working /\ ~working' /\ working' \in BOOLEAN /\ replies' = replies + 1
      /\ UNCHANGED <<pins, active, sent, host, counts, taken>>
      /\ fed' = IF sent[taken].command = "INPUT"
                THEN fed \cup {sent[taken].channel + 4}
                ELSE fed \ {sent[taken].channel + 4}
  <2>1. working /\ working' = FALSE
    BY DEF AdapterDone
  <2>2. working' \in BOOLEAN /\ ~working'
    BY <2>1, Zenon
  <2> QED
    BY <2>1, <2>2 DEF AdapterDone, Shim!Arrive
<1>2. sent[taken] \in Request
  BY <1>1 DEF Typed
<1>3. sent[taken].channel \in 0..3
  BY <1>2 DEF Request
<1>4. fed' \subseteq 0..7
  <2>1. sent[taken].channel + 4 \in 0..7 /\ fed \subseteq 0..7
    BY <1>3 DEF Typed
  <2> QED
    BY <1>1, <2>1, Zenon
<1> QED
  BY <1>1, <1>2, <1>4

LEMMA TypedStep ==
    ASSUME Typed, Route, PinsSet, [Next]_vars
    PROVE  Typed'
<1> USE MaterialsAssumption, BoundsAssumption DEF Typed, Route, Before, Between, After, Waits, LoadLines, UnloadLines, Ufb, Goto, HostOnly, shimVars, host, counts, adapter, NoMaterial, NoTnn
<1>1. ASSUME NEW m \in Materials, SelectMaterial(m) PROVE Typed'
  <2>1. m \in 0..7 /\ UNCHANGED <<pins, active, sent, replies, current, tnn, timeouts,
                                    errors, restarts, taken, working, fed>>
    BY <1>1 DEF SelectMaterial
  <2>2. \/ hpc' = hpc /\ from' = from /\ to' = to
        \/ hpc' \in {"P", "tnn", "L"} /\ from' = current /\ to' = m
    BY <1>1 DEF SelectMaterial
  <2> QED
    BY <2>1, <2>2
<1>2. CASE SetCurrentMaterial
  BY <1>2 DEF SetCurrentMaterial
<1>3. CASE BoxStep
  BY <1>3 DEF BoxStep
<1>4. CASE BoxRetrude
  BY <1>4 DEF BoxRetrude
<1>5. CASE BoxLoad
  BY <1>5 DEF BoxLoad
<1>6. CASE SetTnn
  BY <1>6 DEF SetTnn
<1>7. CASE BoxFlush
  BY <1>7 DEF BoxFlush
<1>8. CASE Commit
  BY <1>8 DEF Commit
<1>9. ASSUME NEW r \in Runs, PrepareLow(r) PROVE Typed'
  BY <1>9, PrepareLowIs DEF PinStep, At, Line, Runs
<1>10. ASSUME NEW r \in Runs, PrepareHigh(r) PROVE Typed'
  BY <1>10, PrepareHighIs DEF PinStep, At, Line, Runs
<1>11. ASSUME NEW r \in Runs, PrepareMode(r) PROVE Typed'
  BY <1>11, PrepareModeIs DEF PinStep, At, Line, Runs
<1>12. ASSUME NEW r \in Runs, WriteTrigger(r) PROVE Typed'
  <2> HIDE DEF Typed
  <2>1. /\ UNCHANGED pins /\ sent' \in Seq(Request) /\ PinStep
        /\ hpc' \in Waits
    BY <1>12, WriteTriggerIs DEF At, Line, Runs, Waits
  <2>2. active' \in {0, 1} /\ replies' \in Nat /\ Len(sent') >= Len(sent)
    BY <1>12, WriteTriggerIs DEF Typed
  <2> QED
    BY <2>1, <2>2 DEF Typed, PinStep
<1>13. ASSUME NEW r \in Runs, WaitDone(r) PROVE Typed'
  BY <1>13 DEF WaitDone, At, Line, Runs
<1>14. CASE BoxError
  BY <1>14 DEF BoxError
<1>15. ASSUME NEW r \in Runs, WaitTimeout(r) PROVE Typed'
  BY <1>15 DEF WaitTimeout, At, Line, Runs
<1>16. CASE Restart
  BY <1>16 DEF Restart, Shim!Pin
<1>17. CASE AdapterTake
  BY <1>17 DEF AdapterTake
<1>18. CASE AdapterDone
  <2> HIDE DEF Typed
  <2>1. /\ working /\ ~working' /\ working' \in BOOLEAN /\ replies' = replies + 1 /\ fed' \subseteq 0..7
        /\ UNCHANGED <<pins, active, sent, host, counts, taken>>
    BY <1>18, AdapterDoneIs, Zenon
  <2>5. replies \in Nat
    BY DEF Typed
  <2>2. /\ UNCHANGED <<pins, active, sent, hpc, from, to, current, tnn, taken>>
        /\ UNCHANGED <<timeouts, errors, restarts>>
    BY <2>1
  <2>3. replies' \in Nat /\ working' \in BOOLEAN /\ ~working'
    BY <2>1, <2>5
  <2>4. fed' \subseteq 0..7
    BY <2>1
  <2> QED
    BY <2>2, <2>3, <2>4 DEF Typed
<1>19. CASE DriverComplete
  BY <1>19 DEF DriverComplete, Shim!Complete
<1>20. CASE UNCHANGED vars
  BY <1>20 DEF vars
<1> QED
  BY <1>1, <1>2, <1>3, <1>4, <1>5, <1>6, <1>7, <1>8, <1>9, <1>10, <1>11, <1>12, <1>13, <1>14, <1>15, <1>16, <1>17, <1>18, <1>19, <1>20 DEF Next, HostStep, Fault

LEMMA RouteStep ==
    ASSUME Typed, Route, [Next]_vars
    PROVE  Route'
<1> USE MaterialsAssumption DEF Typed, Route, Before, Between, After, Waits, LoadLines, UnloadLines, Ufb, Goto, HostOnly, shimVars, host, counts, adapter, NoMaterial, NoTnn
<1>1. ASSUME NEW m \in Materials, SelectMaterial(m) PROVE Route'
  BY <1>1 DEF SelectMaterial
<1>2. CASE SetCurrentMaterial
  BY <1>2 DEF SetCurrentMaterial
<1>3. CASE BoxStep
  BY <1>3 DEF BoxStep
<1>4. CASE BoxRetrude
  BY <1>4 DEF BoxRetrude
<1>5. CASE BoxLoad
  BY <1>5 DEF BoxLoad
<1>6. CASE SetTnn
  BY <1>6 DEF SetTnn
<1>7. CASE BoxFlush
  BY <1>7 DEF BoxFlush
<1>8. CASE Commit
  BY <1>8 DEF Commit
<1>9. ASSUME NEW r \in Runs, PrepareLow(r) PROVE Route'
  BY <1>9 DEF PrepareLow, SetPin, Shim!SetPin, PinStep, At, Step, Line, Runs
<1>10. ASSUME NEW r \in Runs, PrepareHigh(r) PROVE Route'
  BY <1>10 DEF PrepareHigh, SetPin, Shim!SetPin, PinStep, At, Step, Line, Runs
<1>11. ASSUME NEW r \in Runs, PrepareMode(r) PROVE Route'
  BY <1>11 DEF PrepareMode, SetPin, Shim!SetPin, PinStep, At, Step, Line, Runs
<1>12. ASSUME NEW r \in Runs, WriteTrigger(r) PROVE Route'
  BY <1>12 DEF WriteTrigger, PinStep, At, Step, Line, Runs, Shim!Trigger, Shim!Command
<1>13. ASSUME NEW r \in Runs, WaitDone(r) PROVE Route'
  BY <1>13 DEF WaitDone, At, Line, Runs
<1>14. CASE BoxError
  BY <1>14 DEF BoxError
<1>15. ASSUME NEW r \in Runs, WaitTimeout(r) PROVE Route'
  BY <1>15 DEF WaitTimeout, At, Line, Runs
<1>16. CASE Restart
  BY <1>16 DEF Restart, Shim!Pin
<1>17. CASE AdapterTake
  BY <1>17 DEF AdapterTake
<1>18. CASE AdapterDone
  BY <1>18 DEF AdapterDone, Shim!Arrive
<1>19. CASE DriverComplete
  BY <1>19 DEF DriverComplete, Shim!Complete
<1>20. CASE UNCHANGED vars
  BY <1>20 DEF vars
<1> QED
  BY <1>1, <1>2, <1>3, <1>4, <1>5, <1>6, <1>7, <1>8, <1>9, <1>10, <1>11, <1>12, <1>13, <1>14, <1>15, <1>16, <1>17, <1>18, <1>19, <1>20 DEF Next, HostStep, Fault

LEMMA NamedStep ==
    ASSUME Typed, Named, [Next]_vars
    PROVE  Named'
<1> USE DEF Named, LoadLines, Typed, Before, Between, After, Waits, Goto, HostOnly, shimVars, host, counts, adapter, NoMaterial, NoTnn
<1>1. ASSUME NEW m \in Materials, SelectMaterial(m) PROVE Named'
  BY <1>1 DEF SelectMaterial
<1>2. CASE SetCurrentMaterial
  BY <1>2 DEF SetCurrentMaterial
<1>3. CASE BoxStep
  BY <1>3 DEF BoxStep
<1>4. CASE BoxRetrude
  BY <1>4 DEF BoxRetrude
<1>5. CASE BoxLoad
  BY <1>5 DEF BoxLoad
<1>6. CASE SetTnn
  BY <1>6 DEF SetTnn
<1>7. CASE BoxFlush
  BY <1>7 DEF BoxFlush
<1>8. CASE Commit
  BY <1>8 DEF Commit
<1>9. ASSUME NEW r \in Runs, PrepareLow(r) PROVE Named'
  BY <1>9 DEF PrepareLow, SetPin, Shim!SetPin, PinStep, At, Step, Line, Runs
<1>10. ASSUME NEW r \in Runs, PrepareHigh(r) PROVE Named'
  BY <1>10 DEF PrepareHigh, SetPin, Shim!SetPin, PinStep, At, Step, Line, Runs
<1>11. ASSUME NEW r \in Runs, PrepareMode(r) PROVE Named'
  BY <1>11 DEF PrepareMode, SetPin, Shim!SetPin, PinStep, At, Step, Line, Runs
<1>12. ASSUME NEW r \in Runs, WriteTrigger(r) PROVE Named'
  BY <1>12 DEF WriteTrigger, PinStep, At, Step, Line, Runs, Shim!Trigger, Shim!Command
<1>13. ASSUME NEW r \in Runs, WaitDone(r) PROVE Named'
  BY <1>13 DEF WaitDone, At, Line, Runs
<1>14. CASE BoxError
  BY <1>14 DEF BoxError
<1>15. ASSUME NEW r \in Runs, WaitTimeout(r) PROVE Named'
  BY <1>15 DEF WaitTimeout, At, Line, Runs
<1>16. CASE Restart
  BY <1>16 DEF Restart, Shim!Pin
<1>17. CASE AdapterTake
  BY <1>17 DEF AdapterTake
<1>18. CASE AdapterDone
  BY <1>18 DEF AdapterDone, Shim!Arrive
<1>19. CASE DriverComplete
  BY <1>19 DEF DriverComplete, Shim!Complete
<1>20. CASE UNCHANGED vars
  BY <1>20 DEF vars
<1> QED
  BY <1>1, <1>2, <1>3, <1>4, <1>5, <1>6, <1>7, <1>8, <1>9, <1>10, <1>11, <1>12, <1>13, <1>14, <1>15, <1>16, <1>17, <1>18, <1>19, <1>20 DEF Next, HostStep, Fault

LEMMA PinsStep ==
    ASSUME Typed, Route, PinsSet, [Next]_vars
    PROVE  PinsSet'
<1> USE DEF PinsSet, At, Line, Runs, Channel, RunMaterial, Typed, Before, Between, After, Waits, Goto, HostOnly, shimVars, host, counts, adapter, NoMaterial, NoTnn
<1>1. ASSUME NEW m \in Materials, SelectMaterial(m) PROVE PinsSet'
  BY <1>1 DEF SelectMaterial
<1>2. CASE SetCurrentMaterial
  BY <1>2 DEF SetCurrentMaterial
<1>3. CASE BoxStep
  BY <1>3 DEF BoxStep
<1>4. CASE BoxRetrude
  BY <1>4 DEF BoxRetrude
<1>5. CASE BoxLoad
  BY <1>5 DEF BoxLoad
<1>6. CASE SetTnn
  BY <1>6 DEF SetTnn
<1>7. CASE BoxFlush
  BY <1>7 DEF BoxFlush
<1>8. CASE Commit
  BY <1>8 DEF Commit
<1>9. ASSUME NEW r \in Runs, PrepareLow(r) PROVE PinsSet'
  <2>1. \A q \in Runs : Channel(q)' = Channel(q)
    BY <1>9, PrepareLowIs DEF PinStep
  <2> HIDE DEF Channel, RunMaterial
  <2> QED
    BY <1>9, <2>1, PrepareLowIs
<1>10. ASSUME NEW r \in Runs, PrepareHigh(r) PROVE PinsSet'
  <2>1. \A q \in Runs : Channel(q)' = Channel(q)
    BY <1>10, PrepareHighIs DEF PinStep
  <2> HIDE DEF Channel, RunMaterial
  <2> QED
    BY <1>10, <2>1, PrepareHighIs
<1>11. ASSUME NEW r \in Runs, PrepareMode(r) PROVE PinsSet'
  <2>1. \A q \in Runs : Channel(q)' = Channel(q)
    BY <1>11, PrepareModeIs DEF PinStep
  <2> HIDE DEF Channel, RunMaterial
  <2> QED
    BY <1>11, <2>1, PrepareModeIs
<1>12. ASSUME NEW r \in Runs, WriteTrigger(r) PROVE PinsSet'
  BY <1>12 DEF WriteTrigger, PinStep, At, Step, Line, Runs, Shim!Trigger, Shim!Command
<1>13. ASSUME NEW r \in Runs, WaitDone(r) PROVE PinsSet'
  BY <1>13 DEF WaitDone, At, Line, Runs
<1>14. CASE BoxError
  BY <1>14 DEF BoxError
<1>15. ASSUME NEW r \in Runs, WaitTimeout(r) PROVE PinsSet'
  BY <1>15 DEF WaitTimeout, At, Line, Runs
<1>16. CASE Restart
  BY <1>16 DEF Restart, Shim!Pin
<1>17. CASE AdapterTake
  BY <1>17 DEF AdapterTake
<1>18. CASE AdapterDone
  BY <1>18 DEF AdapterDone, Shim!Arrive
<1>19. CASE DriverComplete
  BY <1>19 DEF DriverComplete, Shim!Complete
<1>20. CASE UNCHANGED vars
  BY <1>20 DEF vars
<1> QED
  BY <1>1, <1>2, <1>3, <1>4, <1>5, <1>6, <1>7, <1>8, <1>9, <1>10, <1>11, <1>12, <1>13, <1>14, <1>15, <1>16, <1>17, <1>18, <1>19, <1>20 DEF Next, HostStep, Fault

LEMMA BookedStep ==
    ASSUME Typed, Booked, [Next]_vars
    PROVE  Booked'
<1> USE DEF Booked, AtWork, Typed, Goto, HostOnly, shimVars, host, counts, adapter, NoMaterial, NoTnn
<1>1. ASSUME NEW m \in Materials, SelectMaterial(m) PROVE Booked'
  BY <1>1 DEF SelectMaterial
<1>2. CASE SetCurrentMaterial
  BY <1>2 DEF SetCurrentMaterial
<1>3. CASE BoxStep
  BY <1>3 DEF BoxStep
<1>4. CASE BoxRetrude
  BY <1>4 DEF BoxRetrude
<1>5. CASE BoxLoad
  BY <1>5 DEF BoxLoad
<1>6. CASE SetTnn
  BY <1>6 DEF SetTnn
<1>7. CASE BoxFlush
  BY <1>7 DEF BoxFlush
<1>8. CASE Commit
  BY <1>8 DEF Commit
<1>9. ASSUME NEW r \in Runs, PrepareLow(r) PROVE Booked'
  BY <1>9 DEF PrepareLow, SetPin, Shim!SetPin, PinStep, At, Step, Line, Runs
<1>10. ASSUME NEW r \in Runs, PrepareHigh(r) PROVE Booked'
  BY <1>10 DEF PrepareHigh, SetPin, Shim!SetPin, PinStep, At, Step, Line, Runs
<1>11. ASSUME NEW r \in Runs, PrepareMode(r) PROVE Booked'
  BY <1>11 DEF PrepareMode, SetPin, Shim!SetPin, PinStep, At, Step, Line, Runs
<1>12. ASSUME NEW r \in Runs, WriteTrigger(r) PROVE Booked'
  BY <1>12 DEF WriteTrigger, PinStep, At, Step, Line, Runs, Shim!Trigger, Shim!Command
<1>13. ASSUME NEW r \in Runs, WaitDone(r) PROVE Booked'
  BY <1>13 DEF WaitDone, At, Line, Runs
<1>14. CASE BoxError
  BY <1>14 DEF BoxError
<1>15. ASSUME NEW r \in Runs, WaitTimeout(r) PROVE Booked'
  BY <1>15 DEF WaitTimeout, At, Line, Runs
<1>16. CASE Restart
  BY <1>16 DEF Restart, Shim!Pin
<1>17. CASE AdapterTake
  BY <1>17 DEF AdapterTake
<1>18. CASE AdapterDone
  BY <1>18 DEF AdapterDone, Shim!Arrive
<1>19. CASE DriverComplete
  BY <1>19 DEF DriverComplete, Shim!Complete
<1>20. CASE UNCHANGED vars
  BY <1>20 DEF vars
<1> QED
  BY <1>1, <1>2, <1>3, <1>4, <1>5, <1>6, <1>7, <1>8, <1>9, <1>10, <1>11, <1>12, <1>13, <1>14, <1>15, <1>16, <1>17, <1>18, <1>19, <1>20 DEF Next, HostStep, Fault

LEMMA StoryStep ==
    ASSUME Typed, Route, PinsSet, Booked, NoFault => Story, [Next]_vars
    PROVE  (NoFault => Story)'
<1> USE DEF NoFault, Story, Pending, Job, Channel, RunMaterial, Booked, AtWork, Typed, Route, Before, Between, After, Waits, LoadLines, UnloadLines, Ufb, Goto, HostOnly, shimVars, host, counts, adapter, NoMaterial, NoTnn
<1>1. ASSUME NEW m \in Materials, SelectMaterial(m) PROVE (NoFault => Story)'
  BY <1>1 DEF SelectMaterial
<1>2. CASE SetCurrentMaterial
  BY <1>2 DEF SetCurrentMaterial
<1>3. CASE BoxStep
  BY <1>3 DEF BoxStep
<1>4. CASE BoxRetrude
  BY <1>4 DEF BoxRetrude
<1>5. CASE BoxLoad
  BY <1>5 DEF BoxLoad
<1>6. CASE SetTnn
  BY <1>6 DEF SetTnn
<1>7. CASE BoxFlush
  BY <1>7 DEF BoxFlush
<1>8. CASE Commit
  BY <1>8 DEF Commit
<1>9. ASSUME NEW r \in Runs, PrepareLow(r) PROVE (NoFault => Story)'
  BY <1>9 DEF PrepareLow, SetPin, Shim!SetPin, PinStep, At, Step, Line, Runs
<1>10. ASSUME NEW r \in Runs, PrepareHigh(r) PROVE (NoFault => Story)'
  BY <1>10 DEF PrepareHigh, SetPin, Shim!SetPin, PinStep, At, Step, Line, Runs
<1>11. ASSUME NEW r \in Runs, PrepareMode(r) PROVE (NoFault => Story)'
  BY <1>11 DEF PrepareMode, SetPin, Shim!SetPin, PinStep, At, Step, Line, Runs
<1>12. ASSUME NEW r \in Runs, WriteTrigger(r) PROVE (NoFault => Story)'
  <2> SUFFICES ASSUME NoFault'
               PROVE  Story'
    OBVIOUS
  <2>1. NoFault /\ active = 0 /\ Story /\ At(r, "trigger")
    BY <1>12, WriteTriggerIs DEF PinStep, At, Line, Runs
  <2>2. /\ hpc' = Line[r]["wait"] /\ UNCHANGED <<from, to, fed, taken, working>>
        /\ Len(sent') = Len(sent) + 1 /\ sent'[Len(sent')] = Job(r) /\ sent' # <<>>
    BY <1>12, <2>1, WriteTriggerIs DEF PinStep
  <2>3. Pending'
    BY <2>2
  <2>4. Job(r)' = Job(r)
    BY <2>2
  <2>5. CASE r = "load"
    BY <2>1, <2>2, <2>3, <2>4, <2>5 DEF At, Line
  <2>6. CASE r = "unload"
    BY <2>1, <2>2, <2>3, <2>4, <2>6 DEF At, Line
  <2> QED
    BY <2>5, <2>6 DEF Runs
<1>13. ASSUME NEW r \in Runs, WaitDone(r) PROVE (NoFault => Story)'
  BY <1>13 DEF WaitDone, At, Line, Runs
<1>14. CASE BoxError
  BY <1>14 DEF BoxError
<1>15. ASSUME NEW r \in Runs, WaitTimeout(r) PROVE (NoFault => Story)'
  BY <1>15 DEF WaitTimeout, At, Line, Runs
<1>16. CASE Restart
  BY <1>16 DEF Restart, Shim!Pin
<1>17. CASE AdapterTake
  BY <1>17 DEF AdapterTake
<1>18. CASE AdapterDone
  <2> SUFFICES ASSUME NoFault'
               PROVE  Story'
    OBVIOUS
  <2>1. /\ NoFault /\ Story /\ ~Pending' /\ taken = Len(sent) /\ hpc \in Waits
        /\ UNCHANGED <<active, sent, hpc, from, to, current>>
    BY <1>18, AdapterDoneIs
  <2>2. CASE hpc = "load.wait"
    <3>1. sent[taken].command = "INPUT" /\ sent[taken].channel + 4 = to
      BY <2>1, <2>2
    <3>2. fed' = {to}
      BY <1>18, <2>1, <2>2, <3>1, AdapterDoneIs
    <3> QED
      BY <2>1, <2>2, <3>2
  <2>3. CASE hpc = "unload.wait"
    <3>1. sent[taken].command = "OUTPUT" /\ sent[taken].channel + 4 = from
      BY <2>1, <2>3
    <3>2. fed' = {}
      BY <1>18, <2>1, <2>3, <3>1, AdapterDoneIs
    <3> QED
      BY <2>1, <2>3, <3>2
  <2> QED
    BY <2>1, <2>2, <2>3
<1>19. CASE DriverComplete
  BY <1>19 DEF DriverComplete, Shim!Complete
<1>20. CASE UNCHANGED vars
  BY <1>20 DEF vars
<1> QED
  BY <1>1, <1>2, <1>3, <1>4, <1>5, <1>6, <1>7, <1>8, <1>9, <1>10, <1>11, <1>12, <1>13, <1>14, <1>15, <1>16, <1>17, <1>18, <1>19, <1>20 DEF Next, HostStep, Fault

LEMMA InitInv == Init => Inv
<1> SUFFICES ASSUME Init PROVE Inv
  OBVIOUS
<1>1. /\ hpc = "ready" /\ active = 0 /\ sent = <<>> /\ replies = 0
      /\ pins = [p \in Shim!Pin |-> 0]
      /\ from = -1 /\ to = -1 /\ current = -1 /\ tnn = -1
      /\ timeouts = 0 /\ errors = 0 /\ restarts = 0
      /\ taken = 0 /\ ~working /\ fed = {}
  BY DEF Init, Shim!Init, NoMaterial, NoTnn
<1>2. working \in BOOLEAN
  BY DEF Init
<1>3. Typed
  BY <1>1, <1>2 DEF Typed
<1>4. Route /\ PinsSet /\ Named
  BY <1>1 DEF Route, PinsSet, Named, At, Line, Runs, LoadLines, UnloadLines
<1>5. Booked
  BY <1>1 DEF Booked, AtWork
<1>6. Story
  BY <1>1 DEF Story, Waits, Before, Between, After, NoMaterial
<1> QED
  BY <1>3, <1>4, <1>5, <1>6 DEF Inv

LEMMA NextInv == Inv /\ [Next]_vars => Inv'
BY TypedStep, RouteStep, PinsStep, BookedStep, NamedStep, StoryStep DEF Inv

(* At every line of the macros the host's view is right: the branch it is   *)
(* on, the pins it has set, the request it waits for, and, as long as       *)
(* nothing has failed, which filament is in the tool head.                  *)
THEOREM HostViewHolds == Spec => []Inv
<1>1. Init => Inv
  BY InitInv
<1>2. Inv /\ [Next]_vars => Inv'
  BY NextInv
<1> QED
  BY <1>1, <1>2, PTL DEF Spec

-----------------------------------------------------------------------------
LEMMA InvTypes == Inv => TypeOK
<1> SUFFICES ASSUME Inv PROVE TypeOK
  OBVIOUS
<1>1. Typed /\ Route
  BY DEF Inv
<1>2. hpc \in Labels
  <2>1. \A r \in Runs : \A l \in {"low", "high", "mode", "trigger", "wait"} :
            Line[r][l] \in Labels
    BY DEF Labels
  <2>2. Before \cup Between \cup Waits \subseteq
            {"P", "C", "R", "tnn", "L"} \cup LoadLines \cup UnloadLines
    BY DEF Before, Between, Waits, LoadLines, UnloadLines
  <2>3. LoadLines \cup UnloadLines \subseteq Labels
    BY <2>1 DEF LoadLines, UnloadLines, Runs, Line
  <2>4. {"ready", "P", "C", "R", "tnn", "L"} \cup After \subseteq Labels
    BY DEF Labels, After
  <2> QED
    BY <1>1, <2>2, <2>3, <2>4 DEF Typed
<1>3. \A r \in Runs : At(r, "low") \/ At(r, "high") \/ At(r, "mode")
          => Channel(r) \in 0..3
  BY <1>1, Channels
<1> QED
  BY <1>1, <1>2, <1>3 DEF TypeOK, Typed, Request

(* While nothing has failed, at most one filament is in the tool head.      *)
LEMMA InvOneFed == Inv => OneMaterialFed
<1> SUFFICES ASSUME Inv, NoFault PROVE Cardinality(fed) <= 1
  BY DEF OneMaterialFed
<1>1. Typed /\ Story
  BY DEF Inv
<1>2. fed = {} \/ fed = {current} \/ fed = {from} \/ fed = {to}
  BY <1>1 DEF Typed, Story, Waits
<1>3. Cardinality({}) = 0 /\ \A m : Cardinality({m}) = 1
  BY FS_EmptySet, FS_Singleton, Zenon
<1>4. Cardinality(fed) = 0 \/ Cardinality(fed) = 1
  BY <1>2, <1>3, Zenon
<1> QED
  BY <1>4

(* The macros address channels that exist; a load never starts before the   *)
(* previous material is out, and current names what is fed whenever the     *)
(* printer is ready, as long as no wait times out, no box command fails and *)
(* nothing restarts.                                                        *)
THEOREM MaterialsStayApart == Spec => []MaterialsFed
<1>1. Inv => MaterialsFed
  <2>1. Inv => CurrentIsFed
    BY DEF Inv, Story, CurrentIsFed, CurrentTold
  <2> QED
    BY <2>1, InvTypes, InvOneFed DEF MaterialsFed
<1> QED
  BY <1>1, HostViewHolds, PTL

(* M8200 F flushes the material that was selected, after any timeouts,      *)
(* errors and restarts; and that material is in the tool head if there were *)
(* none.                                                                    *)
THEOREM FlushIsForTarget == Spec => []FlushNamesTarget
<1>1. Inv => FlushNamesTarget
  BY DEF Inv, Named, Story, After, Waits, FlushNamesTarget
<1> QED
  BY <1>1, HostViewHolds, PTL

(* Until the ESP32 restarts the adapter has at most one request to do, and  *)
(* none behind the one it works on, however often waits time out.           *)
THEOREM OneRequestAtATime == Spec => []AdapterNotOverrun
<1>1. Inv => AdapterNotOverrun
  BY DEF Inv, Typed, Booked, AtWork, AdapterNotOverrun
<1> QED
  BY <1>1, HostViewHolds, PTL

(* As long as nothing has failed, a wait that ends ends because the adapter *)
(* has finished this very request.                                          *)
THEOREM WaitsEndWithTheirOwnDone == Spec => WaitMeansDone
<1>1. Inv => \A r \in Runs : NoFault => WaitEnds(r)
  <2> SUFFICES ASSUME Inv, NEW r \in Runs, NoFault, WaitDone(r)
               PROVE  /\ ~working /\ taken = Len(sent)
                      /\ sent # <<>> /\ sent[Len(sent)] = Job(r)
    BY DEF WaitEnds
  <2>1. At(r, "wait") /\ active = 0
    BY DEF WaitDone
  <2>2. Typed /\ Booked /\ Story /\ restarts = 0
    BY DEF Inv, NoFault
  <2>3. ~working /\ taken = Len(sent)
    BY <2>1, <2>2 DEF Typed, Booked, AtWork
  <2>4. sent # <<>> /\ sent[Len(sent)] = Job(r)
    BY <2>1, <2>2 DEF Story, At, Line, Runs, Waits
  <2> QED
    BY <2>3, <2>4
<1>2. Inv /\ [Next]_vars => [\A r \in Runs : NoFault => WaitEnds(r)]_vars
  BY <1>1
<1> QED
  BY <1>2, HostViewHolds, PTL DEF Spec, WaitMeansDone

(* A request carries the command and the channel its macro asked for,       *)
(* whatever earlier calls, aborted or not, and restarts left on the pins.   *)
THEOREM RequestsSayTheirJob == Spec => RequestIsJob
<1>1. ASSUME Inv
      PROVE  \A r \in Runs : WriteTrigger(r) /\ sent' # sent
                 => sent' = Append(sent, Job(r))
  BY <1>1, WriteTriggerIs DEF Inv
<1>2. Inv /\ [Next]_vars =>
        [\A r \in Runs : WriteTrigger(r) /\ sent' # sent
             => sent' = Append(sent, Job(r))]_vars
  BY <1>1
<1> QED
  BY <1>2, HostViewHolds, PTL DEF Spec, RequestIsJob
=============================================================================
