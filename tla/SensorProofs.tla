------------------------------ MODULE SensorProofs -----------------------------
(***************************************************************************)
(* What holds of the analog inputs and of the sensors for every number of  *)
(* inputs, rate, size of a FIFO and of a block.  Each device has a section *)
(* of its own: its inductive invariant, a lemma for each of its actions,   *)
(* and the theorem that its safety property follows.                       *)
(***************************************************************************)
EXTENDS AnalogIn, Accelerometer, AngleSensor, LoadCell, TLAPS

(* A timer that is off has no time.                                         *)
LEMMA OffIsNoTime == ASSUME NEW t \in Int PROVE t # Off
BY BoardAssumption

-------------------------------------------------------------------------------
(***************************************************************************)
(* For every number of inputs and whatever the host queries: each value in *)
(* a report of an analog input is the sum of one whole group of samples.   *)
(***************************************************************************)
Group == [begin : Int, number : Nat, sum : Nat]
Sample == [value : Nat, next : Int, of : Group]
Fields == {"time", "begin", "count", "state", "value", "invalid", "per", "data"}
IsAnalog(a) ==
    /\ DOMAIN a = Fields
    /\ a.time \in Int \cup {Off} /\ a.begin \in Int /\ a.count \in Nat
    /\ a.state \in Nat \ {0} /\ a.value \in Nat /\ a.invalid \in Nat
    /\ a.per \in Nat \ {0} /\ a.data \in Seq(Sample)

Typed ==
    /\ now \in Int
    /\ DOMAIN analog = Input /\ \A i \in Input : IsAnalog(analog[i])
    /\ group \in [Input -> [now : Group, last : Group]]
    /\ task.at = "query" =>
           task.clock \in Int /\ task.count \in Nat /\ task.per \in Nat \ {0}

(* The value of an input is the sum of the samples of its current group, or *)
(* of the last one, until the task has it or a query ends it.               *)
Summed(a, g) ==
    /\ a.state < a.count => /\ g.now.number = a.state /\ g.now.sum = a.value
                            /\ g.now.begin = a.begin
    /\ a.state >= a.count => g.now.number = 0 /\ g.now.sum = 0
    /\ a.state = a.count => /\ g.last.number = a.count /\ g.last.sum = a.value
                            /\ a.begin = g.last.begin + AnalogRest

Reported(a) ==
    \A k \in DOMAIN a.data :
        /\ a.data[k].of.number = a.count
        /\ a.data[k].value = a.data[k].of.sum
        /\ a.data[k].next = a.data[k].of.begin + AnalogRest

(* A shutdown leaves a group half done, and no timer, until its handler has *)
(* begun them all again.                                                    *)
InShutdown == task.at \in {"shutdown", "longjmp"}
AnalogIInv ==
    /\ Typed
    /\ \A i \in Input : Reported(analog[i])
    /\ InShutdown => \A i \in Input : analog[i].time = Off
    /\ ~InShutdown => \A i \in Input : Summed(analog[i], group[i])

LEMMA AnalogNumbers ==
    /\ AnalogRest \in Nat /\ SampleTicks \in Nat /\ Readings \subseteq Nat
    /\ MaxValue \in Nat /\ AnalogCounts \subseteq Nat /\ PerReport \subseteq Nat \ {0}
BY AnalogAssumption

LEMMA NoSamplesIsGroup ==
    /\ NoSamples \in Group /\ NoSamples.number = 0 /\ NoSamples.sum = 0
BY DEF NoSamples, Group

LEMMA OtherTime ==
    ASSUME NEW a, IsAnalog(a), NEW t \in Int \cup {Off}
    PROVE  LET b == [a EXCEPT !.time = t]
           IN /\ IsAnalog(b) /\ b.time = t /\ b.begin = a.begin /\ b.count = a.count
              /\ b.state = a.state /\ b.value = a.value /\ b.data = a.data
<1> DEFINE b == [a EXCEPT !.time = t]
<1>1. /\ DOMAIN b = Fields /\ b.time = t /\ b.begin = a.begin /\ b.count = a.count
      /\ b.state = a.state /\ b.value = a.value /\ b.invalid = a.invalid
      /\ b.per = a.per /\ b.data = a.data
  BY Zenon DEF IsAnalog, Fields
<1> HIDE DEF b
<1>2. IsAnalog(b)
  BY <1>1 DEF IsAnalog
<1> QED
  BY <1>1, <1>2 DEF b

-----------------------------------------------------------------------------
(* No input has begun a group, and none has a report.                       *)
THEOREM AnalogInitial == BoardInit /\ AnalogInit => AnalogIInv
<1> SUFFICES ASSUME BoardInit, AnalogInit  PROVE AnalogIInv
  OBVIOUS
<1> DEFINE a0 == [time |-> Off, begin |-> 0, count |-> 0, state |-> 1, value |-> 0,
                  invalid |-> 0, per |-> 1, data |-> <<>>]
<1>1. IsAnalog(a0) /\ a0.data = <<>> /\ a0.count = 0 /\ a0.state = 1
  <2>1. <<>> \in Seq(Sample)
    OBVIOUS
  <2>2. /\ DOMAIN a0 = Fields /\ a0.time = Off /\ a0.begin = 0 /\ a0.count = 0
        /\ a0.state = 1 /\ a0.value = 0 /\ a0.invalid = 0 /\ a0.per = 1
        /\ a0.data = <<>>
    BY DEF Fields
  <2> HIDE DEF a0
  <2> QED
    BY <2>1, <2>2 DEF IsAnalog
<1>2. analog = [i \in Input |-> a0]
  BY DEF AnalogInit
<1> HIDE DEF a0
<1>3. group \in [Input -> [now : Group, last : Group]]
      /\ \A i \in Input : group[i].now = NoSamples
  BY NoSamplesIsGroup DEF AnalogInit
<1>4. task.at = "idle" /\ now = 0
  BY DEF BoardInit, Idle
<1>5. \A i \in Input : analog[i] = a0 /\ Reported(a0) /\ Summed(analog[i], group[i])
  BY <1>1, <1>2, <1>3, NoSamplesIsGroup DEF Reported, Summed
<1> QED
  BY <1>1, <1>2, <1>3, <1>4, <1>5 DEF AnalogIInv, Typed, InShutdown

(* The steps that leave the inputs as they are, in a shutdown or out of it. *)
LEMMA InputsKept ==
    ASSUME AnalogIInv, UNCHANGED <<analog, group>>, now' \in Int,
           InShutdown' <=> InShutdown, task' = task \/ task'.at # "query"
    PROVE  AnalogIInv'
BY DEF AnalogIInv, Typed

(* A shutdown, wherever it comes, only stops the timers.                    *)
LEMMA ShutDownKeeps == ASSUME AnalogIInv, NEW pin, AnalogStops(pin)  PROVE AnalogIInv'
<1>1. /\ analog' = [i \in Input |-> [analog[i] EXCEPT !.time = Off]]
      /\ UNCHANGED <<now, group>> /\ task'.at = "shutdown"
  BY DEF AnalogStops
<1>2. ASSUME NEW i \in Input
      PROVE  /\ IsAnalog(analog'[i]) /\ analog'[i].time = Off
             /\ analog'[i].data = analog[i].data /\ analog'[i].count = analog[i].count
  <2>1. IsAnalog(analog[i]) /\ analog'[i] = [analog[i] EXCEPT !.time = Off]
    BY <1>1 DEF AnalogIInv, Typed
  <2> QED
    BY <2>1, OtherTime
<1>3. \A i \in Input : Reported(analog'[i])
  BY <1>2 DEF AnalogIInv, Reported
<1>4. DOMAIN analog' = Input
  BY <1>1, <1>2
<1> QED
  BY <1>1, <1>2, <1>3, <1>4 DEF AnalogIInv, Typed, InShutdown

(* The handler of the shutdown begins the groups again.                     *)
LEMMA HandlerKeeps == AnalogIInv /\ AnalogInShutdown => AnalogIInv'
<1> SUFFICES ASSUME AnalogIInv, AnalogInShutdown  PROVE AnalogIInv'
  OBVIOUS
<1>1. CASE task' = [at |-> "longjmp"] /\ UNCHANGED <<analog, group>>
  BY <1>1, InputsKept DEF AnalogInShutdown, analogVars, InShutdown, AnalogIInv, Typed
<1>2. CASE /\ analog' = [i \in Input |->
                 IF analog[i].count = 0 THEN analog[i]
                 ELSE [analog[i] EXCEPT !.state = analog[i].count + 1,
                                        !.begin = @ + AnalogRest,
                                        !.time = analog[i].begin + AnalogRest]]
           /\ group' = [i \in Input |-> [group[i] EXCEPT !.now = NoSamples]]
           /\ task' = Idle
  <2>1. ASSUME NEW i \in Input
        PROVE  /\ IsAnalog(analog'[i]) /\ analog'[i].data = analog[i].data
               /\ analog'[i].count = analog[i].count
               /\ analog'[i].state > analog'[i].count
               /\ group'[i] \in [now : Group, last : Group]
               /\ group'[i].now = NoSamples
    <3>1. IsAnalog(analog[i]) /\ group[i] \in [now : Group, last : Group]
      BY DEF AnalogIInv, Typed
    <3>2. group'[i] \in [now : Group, last : Group] /\ group'[i].now = NoSamples
      BY <1>2, <3>1, NoSamplesIsGroup
    <3>3. CASE analog[i].count = 0
      <4>1. analog'[i] = analog[i]
        BY <1>2, <3>3
      <4> QED
        BY <3>1, <3>2, <3>3, <4>1 DEF IsAnalog
    <3>4. CASE analog[i].count # 0
      <4>1. analog'[i] = [analog[i] EXCEPT !.state = analog[i].count + 1,
                                           !.begin = @ + AnalogRest,
                                           !.time = analog[i].begin + AnalogRest]
        BY <1>2, <3>4
      <4>2. /\ DOMAIN analog'[i] = Fields /\ analog'[i].count = analog[i].count
            /\ analog'[i].state = analog[i].count + 1
            /\ analog'[i].begin = analog[i].begin + AnalogRest
            /\ analog'[i].time = analog[i].begin + AnalogRest
            /\ analog'[i].value = analog[i].value /\ analog'[i].per = analog[i].per
            /\ analog'[i].invalid = analog[i].invalid
            /\ analog'[i].data = analog[i].data
        BY <3>1, <4>1, Zenon DEF IsAnalog, Fields
      <4> QED
        BY <3>1, <3>2, <4>2, AnalogNumbers, SMTT(30) DEF IsAnalog
    <3> QED
      BY <3>3, <3>4
  <2>2. \A i \in Input : Reported(analog'[i])
    BY <2>1 DEF AnalogIInv, Reported
  <2>3. \A i \in Input : Summed(analog'[i], group'[i])
    <3> TAKE i \in Input
    <3>1. analog'[i].state \in Nat /\ analog'[i].count \in Nat
      BY <2>1 DEF IsAnalog
    <3> QED
      BY <2>1, <3>1, NoSamplesIsGroup DEF Summed
  <2>4. DOMAIN analog' = Input /\ group' \in [Input -> [now : Group, last : Group]]
    BY <1>2, <2>1
  <2>5. task'.at = "idle" /\ now' = now
    BY <1>2 DEF Idle, AnalogInShutdown
  <2>6. Typed'
    BY <2>1, <2>4, <2>5 DEF AnalogIInv, Typed
  <2> QED
    BY <2>2, <2>3, <2>5, <2>6 DEF AnalogIInv, InShutdown
<1> QED
  BY <1>1, <1>2 DEF AnalogInShutdown, analogVars

-----------------------------------------------------------------------------
(* A step of one input, outside a shutdown.                                 *)
LEMMA OneInput ==
    ASSUME AnalogIInv, NEW i \in Input, NEW a, IsAnalog(a),
           NEW g \in [now : Group, last : Group],
           analog' = [analog EXCEPT ![i] = a], group' = [group EXCEPT ![i] = g],
           now' = now, ~InShutdown, ~InShutdown', task' = task \/ task'.at # "query",
           Reported(a), Summed(a, g)
    PROVE  AnalogIInv'
<1>1. DOMAIN analog' = Input /\ group' \in [Input -> [now : Group, last : Group]]
  BY DEF AnalogIInv, Typed
<1>2. \A j \in Input : /\ analog'[j] = IF j = i THEN a ELSE analog[j]
                       /\ group'[j] = IF j = i THEN g ELSE group[j]
  BY DEF AnalogIInv, Typed
<1> QED
  BY <1>1, <1>2 DEF AnalogIInv, Typed

LEMMA AnalogTickKeeps == AnalogIInv /\ AnalogTick => AnalogIInv'
<1> SUFFICES ASSUME AnalogIInv, AnalogTick  PROVE AnalogIInv'
  OBVIOUS
<1>1. /\ UNCHANGED <<task, analog, group>> /\ now' \in Int
  BY DEF AnalogTick, Tick, analogVars, AnalogIInv, Typed
<1> QED
  BY <1>1, InputsKept DEF InShutdown

LEMMA ConversionKeeps ==
    ASSUME AnalogIInv, NEW i \in Input, analog[i].time # Off, Conversion(i)
    PROVE  AnalogIInv'
<1> DEFINE a == [analog[i] EXCEPT !.time = @ + 1]
<1>1. ~InShutdown /\ IsAnalog(analog[i])
  BY DEF AnalogIInv, Typed
<1>2. /\ analog' = [analog EXCEPT ![i] = a]
      /\ UNCHANGED <<now, task, group>>
  BY DEF Conversion
<1>3. /\ IsAnalog(a) /\ a.data = analog[i].data /\ a.count = analog[i].count
      /\ a.state = analog[i].state /\ a.value = analog[i].value
      /\ a.begin = analog[i].begin
  <2>1. analog[i].time + 1 \in Int
    BY <1>1 DEF IsAnalog
  <2> QED
    BY <1>1, <2>1, OtherTime
<1> HIDE DEF a
<1>4. Reported(a) /\ Summed(a, group[i])
  BY <1>1, <1>3 DEF AnalogIInv, Reported, Summed
<1>5. group' = [group EXCEPT ![i] = group[i]] /\ group[i] \in [now : Group, last : Group]
  BY <1>2 DEF AnalogIInv, Typed
<1>6. ~InShutdown'
  BY <1>1, <1>2 DEF InShutdown
<1> QED
  BY <1>1, <1>2, <1>3, <1>4, <1>5, <1>6, OneInput

(* A sample is added to the sum, or begins a new one.                       *)
LEMMA SampledKeeps ==
    ASSUME AnalogIInv, NEW i \in Input, analog[i].time # Off, NEW v \in Readings,
           Sampled(i, v)
    PROVE  AnalogIInv'
<1> DEFINE a == analog[i]
           b == Summing(a, v)
           g == Counted(group[i].now, a, v)
           invalid == IF b.value <= MaxValue THEN 0 ELSE b.invalid + 1
<1>1. /\ ~InShutdown /\ IsAnalog(a) /\ group[i] \in [now : Group, last : Group]
      /\ v \in Nat /\ a.time \in Int
  <2>1. ~InShutdown /\ IsAnalog(a) /\ group[i] \in [now : Group, last : Group]
    BY DEF AnalogIInv, Typed
  <2> QED
    BY <2>1, AnalogNumbers DEF IsAnalog
<1>2. /\ IsAnalog(b) /\ b.begin = a.begin /\ b.count = a.count /\ b.data = a.data
      /\ b.time = a.time
      /\ b.state = (IF a.state >= a.count THEN 1 ELSE a.state + 1)
      /\ b.value = (IF a.state >= a.count THEN v ELSE a.value + v)
  <2> DEFINE s == IF Restarts(a) THEN 1 ELSE a.state + 1
             w == IF Restarts(a) THEN v ELSE a.value + v
  <2>1. s \in Nat \ {0} /\ w \in Nat
    BY <1>1 DEF IsAnalog
  <2>2. b = [a EXCEPT !.value = w, !.state = s]
    BY DEF Summing
  <2> HIDE DEF s, w, b
  <2>3. /\ DOMAIN b = Fields /\ b.begin = a.begin /\ b.count = a.count
        /\ b.data = a.data /\ b.time = a.time /\ b.invalid = a.invalid
        /\ b.per = a.per /\ b.state = s /\ b.value = w
    BY <1>1, <2>2, Zenon DEF IsAnalog, Fields
  <2>4. IsAnalog(b)
    BY <1>1, <2>1, <2>3 DEF IsAnalog
  <2> QED
    BY <2>3, <2>4 DEF s, w, Restarts
<1>3. /\ g \in Group /\ g.number = group[i].now.number + 1
      /\ g.sum = group[i].now.sum + v /\ g.begin = a.begin
  <2> DEFINE h == group[i].now
             g1 == [h EXCEPT !.number = h.number + 1]
             g2 == [g1 EXCEPT !.sum = h.sum + v]
  <2>1. h \in Group /\ a.begin \in Int
    BY <1>1 DEF IsAnalog
  <2>2. g = [g2 EXCEPT !.begin = a.begin]
    BY DEF Counted
  <2> HIDE DEF h, g
  <2>3. g1 \in Group /\ g1.number = h.number + 1 /\ g1.sum = h.sum
    BY <2>1 DEF Group
  <2> HIDE DEF g1
  <2>4. g2 \in Group /\ g2.number = h.number + 1 /\ g2.sum = h.sum + v
    BY <1>1, <2>1, <2>3 DEF Group
  <2> HIDE DEF g2
  <2> QED
    BY <2>1, <2>2, <2>4 DEF Group, h
<1>4. g.number = b.state /\ g.sum = b.value
  <2>1. a.state \in Nat /\ a.count \in Nat
    BY <1>1 DEF IsAnalog
  <2> QED
    BY <1>1, <1>2, <1>3, <2>1 DEF AnalogIInv, Summed
<1>5. invalid \in Nat
  BY <1>2, AnalogNumbers DEF IsAnalog
<1> DEFINE out == /\ ~(b.state < b.count)
                  /\ invalid >= RangeChecks /\ b.value > MaxValue
           n == IF out THEN 0 ELSE invalid
<1>6. \/ /\ b.state < b.count
         /\ analog' = [analog EXCEPT ![i] = [b EXCEPT !.time = @ + SampleTicks]]
         /\ group' = [group EXCEPT ![i].now = g]
         /\ UNCHANGED <<now, task>>
      \/ /\ ~(b.state < b.count)
         /\ analog' = [analog EXCEPT ![i] =
                [b EXCEPT !.begin = @ + AnalogRest,
                          !.time = a.begin + AnalogRest, !.invalid = n]]
         /\ group' = [group EXCEPT ![i] = [now |-> NoSamples, last |-> g]]
         /\ UNCHANGED <<now, task>>
      \/ /\ task' = [at |-> "shutdown"]
         /\ analog' = [j \in Input |->
                [(IF j = i THEN [b EXCEPT !.invalid = invalid]
                  ELSE analog[j]) EXCEPT !.time = Off]]
         /\ UNCHANGED <<now, group>>
  BY Zenon DEF Sampled
<1>10. n \in Nat
  BY <1>5
<1> HIDE DEF b, g, invalid, out, n
<1>7. CASE /\ b.state < b.count
           /\ analog' = [analog EXCEPT ![i] = [b EXCEPT !.time = @ + SampleTicks]]
           /\ group' = [group EXCEPT ![i].now = g]
           /\ UNCHANGED <<now, task>>
  <2> DEFINE c == [b EXCEPT !.time = @ + SampleTicks]
             h == [group[i] EXCEPT !.now = g]
  <2>1. /\ IsAnalog(c) /\ c.begin = b.begin /\ c.count = b.count
        /\ c.data = b.data /\ c.state = b.state /\ c.value = b.value
    <3>1. b.time + SampleTicks \in Int
      BY <1>1, <1>2, AnalogNumbers
    <3> QED
      BY <1>2, <3>1, OtherTime
  <2>2. h \in [now : Group, last : Group] /\ h.now = g
    BY <1>1, <1>3
  <2>3. /\ analog' = [analog EXCEPT ![i] = c]
        /\ group' = [group EXCEPT ![i] = h]
    BY <1>7
  <2> HIDE DEF c, h
  <2>4. Reported(c)
    BY <1>2, <2>1 DEF AnalogIInv, Reported
  <2>5. Summed(c, h)
    <3>1. b.state \in Nat /\ b.count \in Nat
      BY <1>2 DEF IsAnalog
    <3> QED
      BY <1>2, <1>3, <1>4, <1>7, <2>1, <2>2, <3>1 DEF Summed
  <2>6. ~InShutdown'
    BY <1>1, <1>7 DEF InShutdown
  <2> QED
    BY <1>1, <1>7, <2>1, <2>2, <2>3, <2>4, <2>5, <2>6, OneInput
<1>8. CASE /\ ~(b.state < b.count)
           /\ analog' = [analog EXCEPT ![i] =
                  [b EXCEPT !.begin = @ + AnalogRest,
                            !.time = a.begin + AnalogRest, !.invalid = n]]
           /\ group' = [group EXCEPT ![i] = [now |-> NoSamples, last |-> g]]
           /\ UNCHANGED <<now, task>>
  <2> DEFINE c == [b EXCEPT !.begin = @ + AnalogRest,
                            !.time = a.begin + AnalogRest, !.invalid = n]
             h == [now |-> NoSamples, last |-> g]
  <2>2. /\ IsAnalog(c) /\ c.begin = b.begin + AnalogRest /\ c.count = b.count
        /\ c.data = b.data /\ c.state = b.state /\ c.value = b.value
    <3>1. /\ DOMAIN c = Fields /\ c.begin = b.begin + AnalogRest
          /\ c.time = a.begin + AnalogRest /\ c.invalid = n /\ c.count = b.count
          /\ c.data = b.data /\ c.state = b.state /\ c.value = b.value
          /\ c.per = b.per
      BY <1>2, Zenon DEF IsAnalog, Fields
    <3> HIDE DEF c
    <3> QED
      BY <1>2, <1>10, <3>1, AnalogNumbers DEF IsAnalog
  <2>3. h \in [now : Group, last : Group] /\ h.now = NoSamples /\ h.last = g
    BY <1>3, NoSamplesIsGroup
  <2>4. analog' = [analog EXCEPT ![i] = c] /\ group' = [group EXCEPT ![i] = h]
    BY <1>8
  <2> HIDE DEF c, h
  <2>5. Reported(c)
    BY <1>2, <2>2 DEF AnalogIInv, Reported
  <2>6. Summed(c, h)
    <3>1. b.state \in Nat /\ b.count \in Nat
      BY <1>2 DEF IsAnalog
    <3> QED
      BY <1>2, <1>3, <1>4, <1>8, <2>2, <2>3, <3>1, NoSamplesIsGroup DEF Summed
  <2>7. ~InShutdown'
    BY <1>1, <1>8 DEF InShutdown
  <2> QED
    BY <1>1, <1>8, <2>2, <2>3, <2>4, <2>5, <2>6, <2>7, OneInput
<1>9. CASE /\ task' = [at |-> "shutdown"]
           /\ analog' = [j \in Input |->
                  [(IF j = i THEN [b EXCEPT !.invalid = invalid]
                    ELSE analog[j]) EXCEPT !.time = Off]]
           /\ UNCHANGED <<now, group>>
  <2>1. ASSUME NEW j \in Input
        PROVE  /\ IsAnalog(analog'[j]) /\ analog'[j].time = Off
               /\ analog'[j].data = analog[j].data /\ analog'[j].count = analog[j].count
    <3>1. IsAnalog(analog[j])
      BY DEF AnalogIInv, Typed
    <3>2. CASE j = i
      <4>1. analog'[j] = [[b EXCEPT !.invalid = invalid] EXCEPT !.time = Off]
        BY <1>9, <3>2
      <4> QED
        <5>1. /\ DOMAIN analog'[j] = Fields /\ analog'[j].time = Off
              /\ analog'[j].begin = b.begin /\ analog'[j].count = b.count
              /\ analog'[j].state = b.state /\ analog'[j].value = b.value
              /\ analog'[j].invalid = invalid /\ analog'[j].per = b.per
              /\ analog'[j].data = b.data
          BY <1>2, <4>1, Zenon DEF IsAnalog, Fields
        <5> QED
          BY <1>2, <1>5, <3>2, <5>1 DEF IsAnalog
    <3>3. CASE j # i
      <4>1. analog'[j] = [analog[j] EXCEPT !.time = Off]
        BY <1>9, <3>3
      <4> QED
        BY <3>1, <4>1, OtherTime
    <3> QED
      BY <3>2, <3>3
  <2>2. \A j \in Input : Reported(analog'[j])
    BY <2>1 DEF AnalogIInv, Reported
  <2>3. DOMAIN analog' = Input
    BY <1>9, <2>1
  <2> QED
    BY <1>9, <2>1, <2>2, <2>3 DEF AnalogIInv, Typed, InShutdown
<1> QED
  BY <1>6, <1>7, <1>8, <1>9

LEMMA AnalogEventKeeps == ASSUME AnalogIInv, NEW i \in Input, AnalogInEvent(i)  PROVE AnalogIInv'
<1>1. analog[i].time # Off
  BY DEF AnalogInEvent, Runs
<1>2. CASE Conversion(i)
  BY <1>1, <1>2, ConversionKeeps
<1>3. ASSUME NEW v \in Readings, Sampled(i, v)  PROVE AnalogIInv'
  BY <1>1, <1>3, SampledKeeps
<1>4. CASE AnalogShutDown \/ OverReference(i)
  BY <1>4, ShutDownKeeps DEF AnalogShutDown, OverReference
<1> QED
  BY <1>2, <1>3, <1>4 DEF AnalogInEvent

-----------------------------------------------------------------------------
LEMMA AnalogQueryKeeps ==
    ASSUME AnalogIInv, NEW i \in Input, NEW count \in AnalogCounts, NEW per \in PerReport,
           task = Idle, QueryAnalogIn(i, now + 1, count, per)
    PROVE  AnalogIInv'
<1> DEFINE a == [analog[i] EXCEPT !.time = Off]
<1>1. IsAnalog(analog[i]) /\ ~InShutdown /\ now \in Int
  BY DEF AnalogIInv, Typed, InShutdown, Idle
<1>2. /\ analog' = [analog EXCEPT ![i] = a]
      /\ task'.at = "query" /\ task'.clock = now + 1 /\ task'.count = count
      /\ task'.per = per /\ UNCHANGED <<now, group>>
  BY DEF QueryAnalogIn
<1>3. /\ IsAnalog(a) /\ a.data = analog[i].data /\ a.count = analog[i].count
      /\ a.state = analog[i].state /\ a.value = analog[i].value
      /\ a.begin = analog[i].begin
  BY <1>1, OtherTime
<1> HIDE DEF a
<1>4. \A j \in Input : analog'[j] = IF j = i THEN a ELSE analog[j]
  BY <1>2 DEF AnalogIInv, Typed
<1>5. Reported(a) /\ Summed(a, group[i])
  BY <1>1, <1>3 DEF AnalogIInv, Reported, Summed
<1>6. Typed'
  BY <1>1, <1>2, <1>3, AnalogNumbers DEF AnalogIInv, Typed
<1> QED
  BY <1>1, <1>2, <1>4, <1>5, <1>6 DEF AnalogIInv, InShutdown

LEMMA CancelKeeps == ASSUME AnalogIInv, NEW i \in Input, AnalogCancel(i)  PROVE AnalogIInv'
<1>1. CASE AnalogShutDown \/ OverReference(i)
  BY <1>1, ShutDownKeeps DEF AnalogShutDown, OverReference
<1>2. CASE /\ analog' = [analog EXCEPT ![i] =
                  Queried(@, task.clock, task.count, task.per)]
           /\ group' = [group EXCEPT ![i] = [now |-> NoSamples, last |-> NoSamples]]
           /\ task' = Idle /\ UNCHANGED now
  <2> DEFINE a == Queried(analog[i], task.clock, task.count, task.per)
             g == [now |-> NoSamples, last |-> NoSamples]
  <2>1. /\ ~InShutdown /\ IsAnalog(analog[i]) /\ task.clock \in Int
        /\ task.count \in Nat /\ task.per \in Nat \ {0}
    BY DEF AnalogCancel, AnalogIInv, Typed, InShutdown
  <2>2. /\ IsAnalog(a) /\ a.data = <<>> /\ a.count = task.count
        /\ a.state = task.count + 1
    <3>1. <<>> \in Seq(Sample)
      OBVIOUS
    <3>2. (IF task.count = 0 THEN Off ELSE task.clock) \in Int \cup {Off}
      BY <2>1
    <3>3. /\ DOMAIN a = Fields /\ a.begin = task.clock /\ a.count = task.count
          /\ a.state = task.count + 1 /\ a.per = task.per /\ a.data = <<>>
          /\ a.time = (IF task.count = 0 THEN Off ELSE task.clock)
          /\ a.value = analog[i].value /\ a.invalid = analog[i].invalid
      BY <2>1, Zenon DEF IsAnalog, Fields, Queried
    <3> HIDE DEF a
    <3> QED
      BY <2>1, <3>1, <3>2, <3>3 DEF IsAnalog
  <2>3. g \in [now : Group, last : Group] /\ g.now = NoSamples
    BY NoSamplesIsGroup
  <2>4. analog' = [analog EXCEPT ![i] = a] /\ group' = [group EXCEPT ![i] = g]
    BY <1>2
  <2> HIDE DEF a, g
  <2>5. Reported(a)
    BY <2>2 DEF Reported
  <2>6. Summed(a, g)
    BY <2>1, <2>2, <2>3, NoSamplesIsGroup DEF Summed
  <2>7. task'.at = "idle" /\ ~InShutdown'
    BY <1>2 DEF Idle, InShutdown
  <2> QED
    BY <1>2, <2>1, <2>2, <2>3, <2>4, <2>5, <2>6, <2>7, OneInput
<1> QED
  BY <1>1, <1>2 DEF AnalogCancel

LEMMA ScanIsNoShutdown ==
    ASSUME NEW i  PROVE ScanFrom(i).at \in {"idle", "scan"}
BY DEF ScanFrom, Idle

LEMMA AnalogTaskKeeps == AnalogIInv /\ AnalogInTask => AnalogIInv'
<1> SUFFICES ASSUME AnalogIInv, AnalogInTask  PROVE AnalogIInv'
  OBVIOUS
<1>1. /\ UNCHANGED <<now, analog, group>> /\ task.at = "idle"
      /\ task'.at \in {"idle", "scan"}
  BY ScanIsNoShutdown DEF AnalogInTask, analogVars, Woken, Idle
<1> QED
  BY <1>1, InputsKept DEF InShutdown, AnalogIInv, Typed

LEMMA TestKeeps == ASSUME AnalogIInv, NEW i \in Input, AnalogTest(i)  PROVE AnalogIInv'
<1>1. /\ UNCHANGED <<now, analog, group>> /\ task.at = "scan"
  BY DEF AnalogTest, analogVars
<1>2. task'.at \in {"idle", "scan", "take"}
  <2>1. CASE task' = ScanFrom(i + 1)
    BY <2>1, ScanIsNoShutdown
  <2>2. CASE task' = [at |-> "take", oid |-> i]
    BY <2>2
  <2> QED
    BY <2>1, <2>2 DEF AnalogTest
<1> QED
  BY <1>1, <1>2, InputsKept DEF InShutdown, AnalogIInv, Typed

(* The value the task takes is that of the last group that ended.           *)
LEMMA AnalogTakeKeeps == ASSUME AnalogIInv, NEW i \in Input, AnalogTake(i)  PROVE AnalogIInv'
<1> DEFINE a == analog[i]
           d == IF Len(a.data) >= a.per THEN <<>> ELSE a.data
           sample == [value |-> a.value, next |-> a.begin, of |-> group[i].last]
           b == [a EXCEPT !.state = @ + 1, !.data = Append(d, sample)]
<1>1. /\ UNCHANGED <<now, group>> /\ task.at = "take"
      /\ task'.at \in {"idle", "scan"}
  BY ScanIsNoShutdown DEF AnalogTake
<1>2. /\ ~InShutdown /\ ~InShutdown' /\ IsAnalog(a)
      /\ group[i] \in [now : Group, last : Group]
  BY <1>1 DEF AnalogIInv, Typed, InShutdown
<1>3. CASE ~IsWhole(a) /\ analog' = analog
  BY <1>1, <1>2, <1>3, InputsKept DEF AnalogIInv, Typed
<1>4. CASE a.state = a.count /\ analog' = [analog EXCEPT ![i] = b]
  <2>1. /\ a.data \in Seq(Sample) /\ a.state \in Nat /\ a.count \in Nat
        /\ a.value \in Nat /\ a.begin \in Int
    BY <1>2 DEF IsAnalog
  <2>2. sample \in Sample
    BY <1>2, <2>1 DEF Sample
  <2>3. sample.of.number = a.count /\ sample.value = sample.of.sum
        /\ sample.next = sample.of.begin + AnalogRest
    BY <1>2, <1>4 DEF AnalogIInv, Summed
  <2>4. d \in Seq(Sample) /\ (d = <<>> \/ d = a.data)
    BY <2>1
  <2>5. Append(d, sample) \in Seq(Sample)
    BY <2>2, <2>4
  <2>6. /\ IsAnalog(b) /\ b.data = Append(d, sample) /\ b.count = a.count
        /\ b.state = a.state + 1
    <3> HIDE DEF d, sample
    <3>1. /\ DOMAIN b = Fields /\ b.data = Append(d, sample) /\ b.count = a.count
          /\ b.state = a.state + 1 /\ b.time = a.time /\ b.begin = a.begin
          /\ b.value = a.value /\ b.invalid = a.invalid /\ b.per = a.per
      BY <1>2, Zenon DEF IsAnalog, Fields
    <3> HIDE DEF b
    <3> QED
      BY <1>2, <2>1, <2>5, <3>1, SMTT(30) DEF IsAnalog
  <2>7. ASSUME NEW k \in DOMAIN Append(d, sample)
        PROVE  Append(d, sample)[k] = sample
               \/ (k \in DOMAIN a.data /\ Append(d, sample)[k] = a.data[k])
    <3> HIDE DEF d, sample
    <3>1. k \in 1 .. Len(d) + 1
      BY <2>2, <2>4
    <3>2. CASE k = Len(d) + 1
      BY <2>2, <2>4, <3>2
    <3>3. CASE k \in 1 .. Len(d)
      BY <2>2, <2>4, <3>3
    <3> QED
      BY <3>1, <3>2, <3>3, <2>4
  <2> HIDE DEF b, d, sample
  <2>8. Reported(b)
    <3> SUFFICES ASSUME NEW k \in DOMAIN b.data
                 PROVE  /\ b.data[k].of.number = a.count
                        /\ b.data[k].value = b.data[k].of.sum
                        /\ b.data[k].next = b.data[k].of.begin + AnalogRest
      BY <2>6 DEF Reported
    <3>1. b.data[k] = sample \/ (k \in DOMAIN a.data /\ b.data[k] = a.data[k])
      BY <2>6, <2>7
    <3> QED
      BY <2>3, <3>1 DEF AnalogIInv, Reported
  <2>9. Summed(b, group[i])
    BY <1>2, <1>4, <2>1, <2>6 DEF AnalogIInv, Summed
  <2>10. group' = [group EXCEPT ![i] = group[i]]
    BY <1>1 DEF AnalogIInv, Typed
  <2> QED
    BY <1>1, <1>2, <1>4, <2>6, <2>8, <2>9, <2>10, OneInput
<1> QED
  BY <1>3, <1>4 DEF AnalogTake, IsWhole

-----------------------------------------------------------------------------
(* Every step of the timers, the commands, the task and a shutdown keeps it.*)
THEOREM AnalogStep == AnalogIInv /\ [AnalogNext]_AnalogAll => AnalogIInv'
<1> SUFFICES ASSUME AnalogIInv, [AnalogNext]_AnalogAll  PROVE AnalogIInv'
  OBVIOUS
<1>1. ASSUME Command, NEW i \in Input, NEW count \in AnalogCounts,
             NEW per \in PerReport, QueryAnalogIn(i, now + 1, count, per)
      PROVE  AnalogIInv'
  BY <1>1, AnalogQueryKeeps DEF Command, AnyCommand
<1>2. CASE AnalogShutDown
  BY <1>2, ShutDownKeeps DEF AnalogShutDown
<1>3. CASE UNCHANGED <<now, task, wake, analogVars>>
  BY <1>3, InputsKept DEF analogVars, AnalogIInv, Typed, InShutdown
<1>4. CASE AnalogTick
  BY <1>4, AnalogTickKeeps
<1>5. CASE AnalogInShutdown
  BY <1>5, HandlerKeeps
<1>6. CASE ShutdownAgain
  BY <1>6, InputsKept DEF ShutdownAgain, analogVars, AnalogIInv, Typed, InShutdown
<1>7. CASE AnalogInTask
  BY <1>7, AnalogTaskKeeps
<1>8. ASSUME NEW i \in Input, AnalogInEvent(i)  PROVE AnalogIInv'
  BY <1>8, AnalogEventKeeps
<1>9. ASSUME NEW i \in Input, AnalogCancel(i)  PROVE AnalogIInv'
  BY <1>9, CancelKeeps
<1>10. ASSUME NEW i \in Input, AnalogTest(i)  PROVE AnalogIInv'
  BY <1>10, TestKeeps
<1>11. ASSUME NEW i \in Input, AnalogTake(i)  PROVE AnalogIInv'
  BY <1>11, AnalogTakeKeeps
<1>12. CASE UNCHANGED AnalogAll
  BY <1>12, InputsKept DEF AnalogAll, analogVars, AnalogIInv, Typed, InShutdown
<1> QED
  BY <1>1, <1>2, <1>3, <1>4, <1>5, <1>6, <1>7, <1>8, <1>9, <1>10, <1>11, <1>12
  DEF AnalogNext, ClearShutdown

(* ReportIsSum: whatever interrupts come between the tests of the task, and *)
(* whatever query or shutdown came before, a value is a whole group's sum.  *)
THEOREM ReportsAreWhole == AnalogSpec => []ReportIsSum
<1>1. BoardInit /\ AnalogInit => AnalogIInv
  BY AnalogInitial
<1>2. AnalogIInv /\ [AnalogNext]_AnalogAll => AnalogIInv'
  BY AnalogStep
<1>3. AnalogIInv => ReportIsSum
  BY DEF AnalogIInv, Reported, ReportIsSum
<1> QED
  BY <1>1, <1>2, <1>3, PTL DEF AnalogSpec

-------------------------------------------------------------------------------
(***************************************************************************)
(* For every rest_ticks, FIFO and block size: the task of an accelerometer *)
(* adds its timer once, reads nothing that is not there, and notes a loss. *)
(***************************************************************************)
Kinds == {"adxl345", "lis2dw", "lis3dh", "bmi160"}
Adxl == accel.kind = "adxl345"
AccelFields ==
    {"kind", "time", "pending", "left", "data", "sequence", "overflows"}
FifoFields == {"on", "count", "lost"}

(* The shape and the numbers of the state.                                  *)
AccelShape == DOMAIN accel = AccelFields /\ DOMAIN fifo = FifoFields
AccelNumbers ==
    /\ now \in Int /\ accel.left \in Int /\ accel.overflows \in Nat
    /\ accel.time # Off => accel.time \in Int
    /\ fifo.count \in 0 .. FifoSize

(* Where the task is, it has work; where there is work, the chip measures.  *)
AtWork ==
    /\ task.at \in {"query", "block"} => accel.pending
    /\ task.at = "block" => ~Adxl
    /\ accel.pending => accel.time = Off
    /\ accel.pending \/ accel.time # Off => fifo.on

(* When the timer of an ADXL345 runs, a sample has come since the last read.*)
HasSample ==
    Adxl => /\ accel.pending => fifo.count >= 1
            /\ accel.time # Off => fifo.count >= 1 \/ now < accel.time
(* A loss that was not read is of a full FIFO, which is full at the read.   *)
LossSeen ==
    Adxl /\ fifo.lost = "unread" =>
        /\ accel.pending => fifo.count = FifoSize
        /\ accel.time # Off =>
               \/ fifo.count = FifoSize
               \/ fifo.count = FifoSize - 1 /\ now < accel.time

AccelIInv ==
    /\ AccelShape /\ AccelNumbers
    /\ AtWork /\ HasSample /\ LossSeen /\ ReadsAreReal /\ LossNoted
Parts == AccelNumbers /\ AtWork /\ HasSample /\ LossSeen /\ ReadsAreReal /\ LossNoted

LEMMA AccelSizes ==
    /\ AccelRest \in Nat /\ AccelRest > 0 /\ FifoSize \in Nat /\ FifoSize > 0
    /\ BlockSize \in Nat /\ BlockSize > 0 /\ 2 * BlockSize <= FifoSize
    /\ BulkSize \in Nat /\ MaxLate \in Nat /\ MaxTime \in Nat
BY BoardAssumption, AccelerometerAssumption

LEMMA MinOfTwo == ASSUME NEW a \in Int, NEW b \in Int
                  PROVE  Min({a, b}) \in Int /\ Min({a, b}) <= a /\ Min({a, b}) <= b
<1>1. CASE a <= b  BY <1>1 DEF Min
<1>2. CASE b <= a  BY <1>2 DEF Min
<1> QED  BY <1>1, <1>2

LEMMA MaxOfTwo == ASSUME NEW a \in Int, NEW b \in Int
                  PROVE  Max({a, b}) = IF a <= b THEN b ELSE a
<1>1. CASE a <= b  BY <1>1 DEF Max
<1>2. CASE b < a  BY <1>2 DEF Max
<1> QED  BY <1>1, <1>2

-----------------------------------------------------------------------------
(* No query has been made.                                                  *)
THEOREM AccelInitial == BoardInit /\ AccelInit => AccelIInv
BY AccelSizes, SMT DEF BoardInit, AccelInit, AccelIInv, AccelShape, AccelNumbers, AtWork, HasSample,
       LossSeen, ReadsAreReal, LossNoted, Adxl, Idle, AccelFields, FifoFields

LEMMA AccelTickKeeps == AccelIInv /\ AccelTick => AccelIInv'
<1> SUFFICES ASSUME AccelIInv, AccelTick  PROVE AccelIInv'
  OBVIOUS
<1>1. /\ DOMAIN fifo' = FifoFields /\ fifo'.on = fifo.on
      /\ \/ fifo'.count = fifo.count /\ fifo'.lost = fifo.lost /\ ~fifo.on
         \/ /\ fifo'.count = fifo.count + 1 /\ fifo'.lost = fifo.lost
            /\ fifo.count < FifoSize
         \/ fifo'.count = fifo.count /\ ~(fifo.count < FifoSize)
            /\ fifo'.lost = "unread"
  BY Zenon DEF AccelIInv, AccelShape, AccelTick, FifoFields
<1>2. Parts'
  BY <1>1, AccelSizes, SMT DEF AccelIInv, Parts, AccelTick, Tick, AccelNumbers, AtWork, HasSample,
     LossSeen, ReadsAreReal, LossNoted, Adxl
<1> QED
  BY <1>1, <1>2 DEF AccelIInv, AccelShape, Parts, AccelTick

LEMMA AccelEventKeeps == AccelIInv /\ AccelEvent => AccelIInv'
<1> SUFFICES ASSUME AccelIInv, AccelEvent  PROVE AccelIInv'
  OBVIOUS
<1>1. /\ DOMAIN accel' = AccelFields
      /\ accel'.pending = TRUE /\ accel'.time = Off /\ accel'.kind = accel.kind
      /\ accel'.left = accel.left /\ accel'.overflows = accel.overflows
  BY Zenon DEF AccelIInv, AccelShape, AccelEvent, AccelFields
<1>2. Parts'
  BY <1>1, AccelSizes, SMT DEF AccelIInv, Parts, AccelEvent, Runs, AccelNumbers, AtWork, HasSample,
     LossSeen, ReadsAreReal, LossNoted, Adxl
<1> QED
  BY <1>1, <1>2 DEF AccelIInv, AccelShape, Parts, AccelEvent

LEMMA AccelQueryKeeps ==
    ASSUME AccelIInv, Command, NEW k \in Kinds, QueryAccel(k)  PROVE AccelIInv'
<1>1. DOMAIN Stopped(accel) = AccelFields
  BY Zenon DEF AccelIInv, AccelShape, Stopped
<1>2. DOMAIN BulkReset(Stopped(accel)) = AccelFields
      /\ BulkReset(Stopped(accel)).overflows = 0
      /\ BulkReset(Stopped(accel)).pending = FALSE
  <2> DEFINE a == Stopped(accel)
  <2>1. a.pending = FALSE
    BY Zenon DEF AccelIInv, AccelShape, AccelFields, Stopped
  <2> HIDE DEF a
  <2>2. DOMAIN BulkReset(a) = AccelFields /\ BulkReset(a).overflows = 0
        /\ BulkReset(a).pending = FALSE
    BY <1>1, <2>1, Zenon DEF a, BulkReset, AccelFields
  <2> QED
    BY <2>2 DEF a
<1>3. /\ DOMAIN accel' = AccelFields
      /\ accel'.kind = k /\ accel'.left = 0 /\ accel'.time = now + AccelRest
      /\ accel'.pending = FALSE /\ accel'.overflows = 0
  <2> DEFINE a == BulkReset(Stopped(accel))
  <2> HIDE DEF a
  <2>1. accel' = [a EXCEPT !.kind = k, !.left = 0, !.time = now + AccelRest]
    BY DEF a, QueryAccel
  <2>2. DOMAIN a = AccelFields /\ a.overflows = 0 /\ a.pending = FALSE
    BY <1>2 DEF a
  <2> QED
    BY <2>1, <2>2, Zenon DEF AccelFields
<1>4. DOMAIN fifo' = FifoFields /\ fifo'.on /\ fifo'.count = 0 /\ fifo'.lost = "no"
  BY DEF QueryAccel, FifoFields
<1>5. UNCHANGED <<now, task, misread>> /\ task = Idle
  BY DEF QueryAccel, Command, AnyCommand
<1>6. Parts'
  BY <1>3, <1>4, <1>5, AccelSizes, SMT DEF AccelIInv, Parts, AccelNumbers, AtWork, HasSample,
     LossSeen, ReadsAreReal, LossNoted, Adxl, Idle
<1> QED
  BY <1>3, <1>4, <1>6 DEF AccelIInv, AccelShape, Parts

LEMMA AccelEndKeeps == AccelIInv /\ Command /\ EndQueryAccel => AccelIInv'
<1> SUFFICES ASSUME AccelIInv, Command, EndQueryAccel  PROVE AccelIInv'
  OBVIOUS
<1>1. /\ DOMAIN accel' = AccelFields
      /\ accel'.pending = FALSE /\ accel'.time = Off /\ accel'.kind = accel.kind
      /\ accel'.left = accel.left /\ accel'.overflows = accel.overflows
  BY Zenon DEF AccelIInv, AccelShape, EndQueryAccel, Stopped, AccelFields
<1>2. /\ DOMAIN fifo' = FifoFields
      /\ ~fifo'.on /\ fifo'.count = fifo.count /\ fifo'.lost = fifo.lost
  BY Zenon DEF AccelIInv, AccelShape, EndQueryAccel, FifoFields
<1>3. UNCHANGED <<now, task, misread>> /\ task = Idle
  BY DEF EndQueryAccel, Command, AnyCommand
<1>4. Parts'
  BY <1>1, <1>2, <1>3, AccelSizes, SMT DEF AccelIInv, Parts, AccelNumbers, AtWork, HasSample,
     LossSeen, ReadsAreReal, LossNoted, Adxl, Idle
<1> QED
  BY <1>1, <1>2, <1>4 DEF AccelIInv, AccelShape, Parts

LEMMA AccelTaskKeeps == AccelIInv /\ AccelTask => AccelIInv'
<1> SUFFICES ASSUME AccelIInv, AccelTask  PROVE AccelIInv'
  OBVIOUS
<1>1. UNCHANGED <<now, accel, fifo, misread>>
  BY DEF AccelTask, accelVars
<1>2. (task'.at = "query" /\ accel.pending) \/ task'.at = "idle"
  BY DEF AccelTask, Idle
<1> QED
  BY <1>1, <1>2, SMT DEF AccelIInv, AccelShape, AccelNumbers, AtWork, HasSample, LossSeen,
     ReadsAreReal, LossNoted, Adxl

(* The level a status gives is there.                                       *)
LEMMA StatusIsReal ==
    ASSUME AccelIInv
    PROVE  LET a == UpdateFifoStatus(accel)
           IN /\ DOMAIN a = AccelFields
              /\ a.kind = accel.kind /\ a.time = accel.time
              /\ a.pending = accel.pending
              /\ a.left \in Int /\ a.left <= fifo.count
<1> DEFINE level == IF accel.kind = "lis3dh" THEN Min({fifo.count, FifoSize - 1})
                    ELSE fifo.count
           a == UpdateFifoStatus(accel)
<1>1. level \in Int /\ level <= fifo.count
  <2>1. fifo.count \in Int /\ FifoSize - 1 \in Int
    BY AccelSizes, SMT DEF AccelIInv, AccelNumbers
  <2>2. /\ Min({fifo.count, FifoSize - 1}) \in Int
        /\ Min({fifo.count, FifoSize - 1}) <= fifo.count
    BY <2>1, MinOfTwo, Zenon
  <2>3. fifo.count <= fifo.count
    BY <2>1, SMT
  <2> QED
    BY <2>1, <2>2, <2>3, Zenon
<1>2. /\ DOMAIN a = AccelFields
      /\ a.kind = accel.kind /\ a.time = accel.time
      /\ a.pending = accel.pending /\ a.left = level
  BY Zenon DEF AccelIInv, AccelShape, UpdateFifoStatus, AccelFields
<1> QED
  BY <1>1, <1>2

LEMMA OverflowsCount ==
    ASSUME AccelIInv  PROVE UpdateFifoStatus(accel).overflows \in Nat
<1>1. UpdateFifoStatus(accel).overflows \in {accel.overflows + 1, accel.overflows + 0}
  BY Zenon DEF AccelIInv, AccelShape, UpdateFifoStatus, AccelFields
<1> QED
  BY <1>1, SMT DEF AccelIInv, AccelNumbers

LEMMA StatusKeeps == AccelIInv /\ Command /\ AccelStatus => AccelIInv'
<1> SUFFICES ASSUME AccelIInv, AccelStatus  PROVE AccelIInv'
  OBVIOUS
<1> DEFINE a == UpdateFifoStatus(accel)
<1>1. /\ DOMAIN a = AccelFields
      /\ a.kind = accel.kind /\ a.time = accel.time /\ a.pending = accel.pending
      /\ a.left \in Int /\ a.left <= fifo.count /\ a.overflows \in Nat
  BY StatusIsReal, OverflowsCount
<1>2. accel' = a /\ accel.kind # "adxl345" /\ UNCHANGED <<now, task, fifo, misread>>
  BY DEF AccelStatus
<1> HIDE DEF a
<1> QED
  BY <1>1, <1>2, SMT DEF AccelIInv, AccelShape, AccelNumbers, AtWork, HasSample, LossSeen,
     ReadsAreReal, LossNoted, Adxl

(* What GoOn leaves, given a state a of the query that has kept the fields  *)
(* of the timer.                                                            *)
LEMMA GoOnGives ==
    ASSUME NEW a, NEW more \in BOOLEAN, GoOn(a, more), DOMAIN a = AccelFields
    PROVE  /\ DOMAIN accel' = AccelFields
           /\ accel'.kind = a.kind /\ accel'.left = a.left
           /\ accel'.overflows = a.overflows
           /\ \/ more /\ accel'.pending = a.pending /\ accel'.time = a.time
              \/ ~more /\ accel'.pending = FALSE /\ accel'.time = now + AccelRest
           /\ task'.at = "idle"
<1>1. CASE more
  BY <1>1 DEF GoOn, Idle
<1>2. CASE ~more
  <2>1. accel' = [a EXCEPT !.pending = FALSE, !.time = now + AccelRest]
        /\ task'.at = "idle"
    BY <1>2 DEF GoOn, Idle
  <2> QED
    BY <1>2, <2>1, Zenon DEF AccelFields
<1> QED
  BY <1>1, <1>2

LEMMA AdxlKeeps == AccelIInv /\ AdxlQuery => AccelIInv'
<1> SUFFICES ASSUME AccelIInv, AdxlQuery  PROVE AccelIInv'
  OBVIOUS
<1> DEFINE rest == Max({fifo.count - 1, 0})
<1>1. fifo.count >= 1 /\ accel.pending /\ accel.time = Off /\ fifo.on /\ Adxl
      /\ fifo.count \in 0 .. FifoSize
  BY SMT DEF AccelIInv, AdxlQuery, AtWork, HasSample, Adxl, AccelNumbers
<1>2. rest = fifo.count - 1
  <2>1. fifo.count - 1 \in Int /\ 0 \in Int /\ fifo.count - 1 >= 0
    BY <1>1, AccelSizes, SMT
  <2>2. rest = IF fifo.count - 1 <= 0 THEN 0 ELSE fifo.count - 1
    BY <2>1, MaxOfTwo, Zenon
  <2> QED
    BY <2>1, <2>2, SMT
<1> HIDE DEF rest
<1>3. UNCHANGED now /\ ~misread'
  <2>1. UNCHANGED now /\ misread' = (misread \/ fifo.count = 0)
    BY DEF AdxlQuery
  <2>2. ~misread /\ fifo.count # 0
    BY <1>1, SMT DEF AccelIInv, ReadsAreReal
  <2> QED
    BY <2>1, <2>2
<1>4. PICK error \in BOOLEAN :
          LET status == IF error THEN 0 ELSE rest
              full == accel.data + 1 = BulkSize
          IN /\ fifo' = [fifo EXCEPT
                    !.count = rest,
                    !.lost = IF @ = "unread" /\ ~error THEN "read" ELSE @]
             /\ GoOn([accel EXCEPT
                    !.data = IF full THEN 0 ELSE @ + 1,
                    !.sequence = @ + (IF full THEN 1 ELSE 0),
                    !.overflows = @ + (IF WasFull(status) THEN 1 ELSE 0)],
                    status > 1)
  BY DEF AdxlQuery, rest
<1> DEFINE status == IF error THEN 0 ELSE rest
           full == accel.data + 1 = BulkSize
           a == [accel EXCEPT
                    !.data = IF full THEN 0 ELSE @ + 1,
                    !.sequence = @ + (IF full THEN 1 ELSE 0),
                    !.overflows = @ + (IF WasFull(status) THEN 1 ELSE 0)]
<1>5. DOMAIN fifo' = FifoFields /\ fifo'.on = fifo.on /\ fifo'.count = rest
      /\ fifo'.lost = IF fifo.lost = "unread" /\ ~error THEN "read" ELSE fifo.lost
  BY <1>4, Zenon DEF AccelIInv, AccelShape, FifoFields
<1>6. /\ DOMAIN a = AccelFields /\ a.kind = accel.kind /\ a.left = accel.left
      /\ a.pending = accel.pending /\ a.time = accel.time
      /\ a.overflows = accel.overflows + (IF WasFull(status) THEN 1 ELSE 0)
  BY Zenon DEF AccelIInv, AccelShape, AccelFields
<1>7. GoOn(a, status > 1)
  BY <1>4
<1> HIDE DEF a
<1>8. /\ DOMAIN accel' = AccelFields
      /\ accel'.kind = a.kind /\ accel'.left = a.left
      /\ accel'.overflows = a.overflows
      /\ \/ status > 1 /\ accel'.pending = a.pending /\ accel'.time = a.time
         \/ accel'.pending = FALSE /\ accel'.time = now + AccelRest
      /\ task'.at = "idle"
  <2>1. (status > 1) \in BOOLEAN
    BY <1>2, AccelSizes, SMT DEF AccelIInv, AccelNumbers
  <2> QED
    BY <1>6, <1>7, <2>1, GoOnGives
<1>9. status = IF error THEN 0 ELSE rest
  OBVIOUS
<1> HIDE DEF status
<1>10. /\ a.overflows \in Nat
       /\ ~error /\ fifo.count = FifoSize => a.overflows > 0
       /\ accel.overflows > 0 => a.overflows > 0
  BY <1>1, <1>2, <1>6, <1>9, AccelSizes, SMT DEF AccelIInv, AccelNumbers, WasFull
<1>11. status > 1 => ~error /\ rest > 1
  BY <1>9, SMT
<1>12. /\ accel'.kind = "adxl345" /\ accel'.left = accel.left
       /\ \/ status > 1 /\ accel'.pending /\ accel'.time = Off
          \/ ~accel'.pending /\ accel'.time = now + AccelRest
  BY <1>1, <1>6, <1>8, Zenon DEF Adxl
<1>13. AccelNumbers' /\ AtWork' /\ ReadsAreReal'
  <2>1. AccelNumbers'
    BY <1>1, <1>2, <1>3, <1>5, <1>8, <1>10, <1>12, AccelSizes, SMT DEF AccelIInv, AccelNumbers
  <2>2. AtWork'
    BY <1>1, <1>5, <1>8, <1>12, SMT DEF AtWork, Adxl
  <2>3. ReadsAreReal'
    BY <1>3, <1>12 DEF ReadsAreReal, Adxl
  <2> QED
    BY <2>1, <2>2, <2>3
<1>14. HasSample' /\ LossSeen' /\ LossNoted'
  BY <1>1, <1>2, <1>3, <1>5, <1>8, <1>10, <1>11, <1>12, AccelSizes, SMT
     DEF AccelIInv, AccelNumbers, HasSample, LossSeen, LossNoted, Adxl
<1> QED
  BY <1>5, <1>8, <1>13, <1>14 DEF AccelIInv, AccelShape

LEMMA StatusReadKeeps == AccelIInv /\ QueryFifoStatus => AccelIInv'
<1> SUFFICES ASSUME AccelIInv, QueryFifoStatus  PROVE AccelIInv'
  OBVIOUS
<1> DEFINE a == UpdateFifoStatus(accel)
<1>1. /\ DOMAIN a = AccelFields
      /\ a.kind = accel.kind /\ a.time = accel.time /\ a.pending = accel.pending
      /\ a.left \in Int /\ a.left <= fifo.count /\ a.overflows \in Nat
  BY StatusIsReal, OverflowsCount
<1>2. accel' = a \/ accel' = accel
  BY DEF QueryFifoStatus
<1>3. /\ task.at = "query" /\ task'.at = "block" /\ accel.kind # "adxl345"
      /\ UNCHANGED <<now, fifo, misread>>
  BY DEF QueryFifoStatus
<1> HIDE DEF a
<1> QED
  BY <1>1, <1>2, <1>3, SMT DEF AccelIInv, AccelShape, AccelNumbers, AtWork, HasSample, LossSeen,
     ReadsAreReal, LossNoted, Adxl

LEMMA BlockKeeps == AccelIInv /\ ReadFifoBlock => AccelIInv'
<1> SUFFICES ASSUME AccelIInv, ReadFifoBlock  PROVE AccelIInv'
  OBVIOUS
<1> DEFINE has == accel.left >= BlockSize
           a == IF has THEN [accel EXCEPT !.left = @ - BlockSize, !.sequence = @ + 1]
                ELSE accel
<1>1. accel.pending /\ accel.time = Off /\ fifo.on /\ ~Adxl /\ UNCHANGED now
  BY DEF AccelIInv, ReadFifoBlock, AtWork
<1>2. has => fifo.count >= BlockSize
  BY <1>1, AccelSizes, SMT DEF AccelIInv, ReadsAreReal, AccelNumbers, Adxl
<1>3. ~misread'
  <2>1. misread' = (misread \/ (has /\ fifo.count < BlockSize))
    BY DEF ReadFifoBlock
  <2>2. ~misread /\ ~(has /\ fifo.count < BlockSize)
    BY <1>2, AccelSizes, SMT DEF AccelIInv, ReadsAreReal, AccelNumbers
  <2> QED
    BY <2>1, <2>2
<1>4. /\ DOMAIN fifo' = FifoFields /\ fifo'.on = fifo.on
      /\ fifo'.count = IF has THEN Max({fifo.count - BlockSize, 0}) ELSE fifo.count
  BY Zenon DEF AccelIInv, AccelShape, ReadFifoBlock, FifoFields
<1>5. fifo'.count = IF has THEN fifo.count - BlockSize ELSE fifo.count
  <2>1. fifo.count - BlockSize \in Int /\ 0 \in Int
        /\ (has => fifo.count - BlockSize >= 0)
    BY <1>2, AccelSizes, SMT DEF AccelIInv, AccelNumbers
  <2>2. Max({fifo.count - BlockSize, 0})
        = IF fifo.count - BlockSize <= 0 THEN 0 ELSE fifo.count - BlockSize
    BY <2>1, MaxOfTwo, Zenon
  <2>3. has => Max({fifo.count - BlockSize, 0}) = fifo.count - BlockSize
    BY <2>1, <2>2, SMT
  <2> QED
    BY <1>4, <2>3, Zenon
<1>6. /\ DOMAIN a = AccelFields /\ a.kind = accel.kind
      /\ a.pending = accel.pending /\ a.time = accel.time
      /\ a.overflows = accel.overflows
      /\ a.left = IF has THEN accel.left - BlockSize ELSE accel.left
  BY Zenon DEF AccelIInv, AccelShape, AccelFields
<1>7. GoOn(a, a.left >= BlockSize)
  BY DEF ReadFifoBlock
<1> HIDE DEF a
<1>8. /\ DOMAIN accel' = AccelFields
      /\ accel'.kind = a.kind /\ accel'.left = a.left
      /\ accel'.overflows = a.overflows
      /\ \/ accel'.pending = a.pending /\ accel'.time = a.time
         \/ accel'.pending = FALSE /\ accel'.time = now + AccelRest
      /\ task'.at = "idle"
  <2>1. (a.left >= BlockSize) \in BOOLEAN
    BY <1>6, AccelSizes, SMT DEF AccelIInv, AccelNumbers
  <2> QED
    BY <1>6, <1>7, <2>1, GoOnGives
<1>9. /\ accel'.kind = accel.kind /\ accel'.overflows = accel.overflows
      /\ accel'.left = IF has THEN accel.left - BlockSize ELSE accel.left
      /\ \/ accel'.pending /\ accel'.time = Off
         \/ ~accel'.pending /\ accel'.time = now + AccelRest
  BY <1>1, <1>6, <1>8, Zenon
<1>10. Parts'
  BY <1>1, <1>2, <1>3, <1>4, <1>5, <1>8, <1>9, AccelSizes, SMT
     DEF AccelIInv, Parts, AccelNumbers, AtWork, HasSample, LossSeen, ReadsAreReal,
         LossNoted, Adxl
<1> QED
  BY <1>4, <1>8, <1>10 DEF AccelIInv, AccelShape, Parts

-----------------------------------------------------------------------------
(* Every step of the timer, the task, the commands and the chip keeps it.   *)
THEOREM AccelStep == AccelIInv /\ [AccelNext]_AccelAll => AccelIInv'
<1> SUFFICES ASSUME AccelIInv, [AccelNext]_AccelAll  PROVE AccelIInv'
  OBVIOUS
<1>1. CASE UNCHANGED AccelAll
  BY <1>1 DEF AccelAll, accelVars, AccelIInv, AccelShape, AccelNumbers, AtWork, HasSample,
     LossSeen, ReadsAreReal, LossNoted, Adxl
<1>2. CASE AccelNext
  <2>1. ASSUME Command, NEW k \in Kinds, QueryAccel(k)  PROVE AccelIInv'
    BY <2>1, AccelQueryKeeps
  <2>2. CASE Command /\ (EndQueryAccel \/ AccelStatus)
    BY <2>2, AccelEndKeeps, StatusKeeps
  <2>3. CASE AccelTick \/ AccelEvent \/ AccelTask
    BY <2>3, AccelTickKeeps, AccelEventKeeps, AccelTaskKeeps
  <2>4. CASE AdxlQuery \/ QueryFifoStatus \/ ReadFifoBlock
    BY <2>4, AdxlKeeps, StatusReadKeeps, BlockKeeps
  <2> QED
    BY <1>2, <2>1, <2>2, <2>3, <2>4 DEF AccelNext, Kinds
<1> QED
  BY <1>1, <1>2

(* DrainSound: the timer is added once, no sample is read that the chip     *)
(* does not have, and a loss is counted with the read that follows it.      *)
THEOREM DrainsSoundly == AccelSpec => []DrainSound
<1>1. AccelIInv => DrainSound
  BY DEF AccelIInv, AtWork, DrainSound, AddedOnce
<1> QED
  BY <1>1, AccelInitial, AccelStep, PTL DEF AccelSpec

-------------------------------------------------------------------------------
(***************************************************************************)
(* For every rate, size of a report and width of the overflow counter: the *)
(* host takes the measurement of each event for that event.                *)
(***************************************************************************)
AngleFields == {"time", "pending", "overflow", "data", "sequence"}
SlotFields == {"at", "stime", "overflow"}

(* How many entries the measurement has so far.                             *)
Entries(a) == a.sequence * AngleSlots + a.data

AngleShape ==
    /\ DOMAIN angle = AngleFields
    /\ task.at = "slots" => DOMAIN task = SlotFields
AngleNumbers ==
    /\ now \in Int /\ start \in Int
    /\ angle.overflow \in 0 .. OVERFLOWS - 1
    /\ angle.data \in Nat /\ angle.sequence \in Nat
    /\ angle.time # Off => angle.time \in Int
    /\ task.at = "slots" => task.overflow \in Nat /\ task.stime \in Int

(* While the task is at work, its timer runs.                               *)
Measuring ==
    task.at \in {"take", "slots"} \/ angle.pending => angle.time # Off

(* The events up to now are those with an entry, those that the counter or  *)
(* the task will make one for, and the one that is pending or being read.   *)
Waiting == IF angle.pending THEN 1 ELSE 0
InTask == IF task.at = "slots" THEN task.overflow + 1 ELSE 0
Accounted ==
    angle.time # Off /\ ~slipped =>
        angle.time = start + AngleRest *
            (Entries(angle) + angle.overflow + Waiting + InTask)
(* The task takes what is pending.                                          *)
Taking == task.at = "take" => angle.pending

AngleIInv == AngleShape /\ AngleNumbers /\ Measuring /\ Accounted /\ Taking /\ SlotsAligned

LEMMA AngleSizes ==
    /\ AngleRest \in Nat /\ AngleRest > 0 /\ AngleSlots \in Nat /\ AngleSlots > 0
    /\ OVERFLOWS \in Nat /\ OVERFLOWS > 0
BY BoardAssumption, AngleSensorAssumption

LEMMA OneMore == ASSUME NEW k \in Int, NEW n \in Int
                 PROVE  k * (n + 1) = k * n + k /\ (n + 1) * k = n * k + k
OBVIOUS

LEMMA Products == ASSUME NEW k \in Int, NEW n \in Int PROVE k * n \in Int
OBVIOUS

LEMMA Mod == ASSUME NEW k \in Nat, NEW n \in Nat, k > 0
             PROVE  n % k \in 0 .. k - 1 /\ (n < k => n % k = n)
OBVIOUS

(* An entry added is one entry more.                                        *)
LEMMA OneEntry ==
    ASSUME DOMAIN angle = AngleFields, angle.data \in Nat, angle.sequence \in Nat
    PROVE  /\ DOMAIN Added(angle) = AngleFields
           /\ Added(angle).time = angle.time
           /\ Added(angle).pending = angle.pending
           /\ Added(angle).overflow = angle.overflow
           /\ Added(angle).data \in Nat /\ Added(angle).sequence \in Nat
           /\ Entries(Added(angle)) = Entries(angle) + 1
<1> DEFINE b == Added(angle)
<1>1. /\ DOMAIN b = AngleFields /\ b.time = angle.time
      /\ b.pending = angle.pending /\ b.overflow = angle.overflow
      /\ \/ /\ angle.data + 1 = AngleSlots
            /\ b.data = 0 /\ b.sequence = angle.sequence + 1
         \/ b.data = angle.data + 1 /\ b.sequence = angle.sequence
  <2>1. CASE angle.data + 1 = AngleSlots
    BY <2>1, Zenon DEF Added, AngleFields
  <2>2. CASE angle.data + 1 # AngleSlots
    BY <2>2, Zenon DEF Added, AngleFields
  <2> QED
    BY <2>1, <2>2
<1> HIDE DEF b
<1>2. b.sequence * AngleSlots + b.data = angle.sequence * AngleSlots + angle.data + 1
  <2>1. (angle.sequence + 1) * AngleSlots = angle.sequence * AngleSlots + AngleSlots
        /\ angle.sequence * AngleSlots \in Int
    BY AngleSizes, OneMore, Products
  <2> QED
    BY <1>1, <2>1, AngleSizes
<1>3. b.data \in Nat /\ b.sequence \in Nat
  BY <1>1, AngleSizes
<1> QED
  BY <1>1, <1>2, <1>3 DEF b, Entries

-----------------------------------------------------------------------------
(* No event has come and nothing is buffered.                               *)
THEOREM AngleInitial == BoardInit /\ AngleInit => AngleIInv
<1> SUFFICES ASSUME BoardInit, AngleInit  PROVE AngleIInv
  OBVIOUS
<1>1. /\ DOMAIN angle = AngleFields /\ angle.time = Off /\ angle.pending = FALSE
      /\ angle.overflow = 0 /\ angle.data = 0 /\ angle.sequence = 0
  BY DEF AngleInit, AngleFields
<1>2. now = 0 /\ start = 0 /\ slipped = FALSE /\ task.at = "idle"
  BY DEF BoardInit, AngleInit, Idle
<1>3. AngleNumbers
  BY <1>1, <1>2, AngleSizes, SMT DEF AngleNumbers
<1> QED
  BY <1>1, <1>2, <1>3 DEF AngleIInv, AngleShape, Measuring, Accounted, Taking, SlotsAligned

LEMMA AngleEventKeeps == AngleIInv /\ AngleEvent => AngleIInv'
<1> SUFFICES ASSUME AngleIInv, AngleEvent  PROVE AngleIInv'
  OBVIOUS
<1>1. /\ DOMAIN angle' = AngleFields
      /\ angle'.pending = TRUE /\ angle'.time = angle.time + AngleRest
      /\ angle'.overflow = IF angle.pending THEN (angle.overflow + 1) % OVERFLOWS
                           ELSE angle.overflow
      /\ angle'.data = angle.data /\ angle'.sequence = angle.sequence
  BY Zenon DEF AngleIInv, AngleShape, AngleEvent, AngleFields
<1>2. /\ UNCHANGED <<now, task, start>> /\ angle.time # Off
      /\ ~slipped' => /\ ~slipped
                      /\ angle.pending => angle.overflow + 1 # OVERFLOWS
  BY Zenon DEF AngleEvent, Runs
<1>3. angle'.overflow \in 0 .. OVERFLOWS - 1
      /\ (~slipped' => ~slipped /\
            angle'.overflow + 1 = angle.overflow + Waiting + 1)
  <2>1. CASE angle.pending
    <3>1. angle.overflow + 1 \in Nat /\ angle.overflow + 1 <= OVERFLOWS
      BY AngleSizes DEF AngleIInv, AngleNumbers
    <3>2. angle'.overflow \in 0 .. OVERFLOWS - 1
          /\ (angle.overflow + 1 < OVERFLOWS => angle'.overflow = angle.overflow + 1)
      BY <1>1, <2>1, <3>1, AngleSizes, Mod
    <3>3. ~slipped' => ~slipped /\ angle.overflow + 1 < OVERFLOWS
      BY <1>2, <2>1, <3>1, AngleSizes
    <3> QED
      BY <2>1, <3>1, <3>2, <3>3, AngleSizes DEF AngleIInv, AngleNumbers, Waiting
  <2>2. CASE ~angle.pending
    <3>1. angle'.overflow = angle.overflow /\ Waiting = 0
      BY <1>1, <2>2, Zenon DEF Waiting
    <3> QED
      BY <1>2, <3>1 DEF AngleIInv, AngleNumbers
  <2> QED
    BY <2>1, <2>2
<1>4. AngleNumbers' /\ Measuring' /\ Taking'
  <2>1. AngleNumbers'
    <3>1. angle'.time \in Int
      BY <1>1, <1>2, AngleSizes DEF AngleIInv, AngleNumbers
    <3> QED
      BY <1>1, <1>2, <1>3, <3>1 DEF AngleIInv, AngleNumbers
  <2>2. angle'.time # Off
    BY <1>1, <1>2, AngleSizes, OffIsNoTime DEF AngleIInv, AngleNumbers
  <2> QED
    BY <1>1, <2>1, <2>2 DEF Measuring, Taking
<1>5. Accounted'
  <2> SUFFICES ASSUME ~slipped'
               PROVE  angle'.time = start' + AngleRest *
                        (Entries(angle') + angle'.overflow + Waiting' + InTask')
    BY DEF Accounted
  <2> DEFINE n == Entries(angle) + angle.overflow + Waiting + InTask
  <2>1. n \in Int /\ angle.time = start + AngleRest * n
    <3>1. Entries(angle) \in Int
      BY AngleSizes, Products DEF AngleIInv, AngleNumbers, Entries
    <3>2. InTask \in Int /\ Waiting \in Int
      BY DEF AngleIInv, AngleNumbers, InTask, Waiting
    <3>3. n \in Int
      BY <3>1, <3>2 DEF AngleIInv, AngleNumbers
    <3> QED
      BY <1>2, <1>3, <3>3 DEF AngleIInv, Accounted
  <2>2. Entries(angle') = Entries(angle) /\ Waiting' = 1 /\ InTask' = InTask
    BY <1>1, <1>2 DEF Entries, Waiting, InTask
  <2>3. Entries(angle') + angle'.overflow + Waiting' + InTask' = n + 1
    <3>1. Entries(angle) \in Int
      BY AngleSizes, Products DEF AngleIInv, AngleNumbers, Entries
    <3>2. InTask \in Int /\ Waiting \in Int
      BY DEF AngleIInv, AngleNumbers, InTask, Waiting
    <3> QED
      BY <1>3, <2>2, <3>1, <3>2 DEF AngleIInv, AngleNumbers
  <2>4. AngleRest * (n + 1) = AngleRest * n + AngleRest /\ AngleRest * n \in Int
    BY <2>1, AngleSizes, OneMore, Products
  <2> HIDE DEF n
  <2>5. start' = start /\ start \in Int
    BY <1>2 DEF AngleIInv, AngleNumbers
  <2> QED
    BY <1>1, <2>1, <2>3, <2>4, <2>5, AngleSizes
<1>6. SlotsAligned'
  BY <1>1, <1>2, <1>3 DEF AngleIInv, SlotsAligned
<1> QED
  BY <1>1, <1>2, <1>4, <1>5, <1>6 DEF AngleIInv, AngleShape

(* The steps that change neither the events nor the entries.                *)
LEMMA AngleTickKeeps == AngleIInv /\ AngleTick => AngleIInv'
<1> SUFFICES ASSUME AngleIInv, AngleTick  PROVE AngleIInv'
  OBVIOUS
<1>1. UNCHANGED <<angle, start, slipped, task>> /\ now' \in Int
  BY DEF AngleTick, Tick, angleVars, AngleIInv, AngleNumbers
<1> QED
  BY <1>1 DEF AngleIInv, AngleShape, AngleNumbers, Measuring, Accounted, Taking, SlotsAligned,
     Entries, Waiting, InTask

LEMMA AngleTaskKeeps == AngleIInv /\ AngleTask => AngleIInv'
<1> SUFFICES ASSUME AngleIInv, AngleTask  PROVE AngleIInv'
  OBVIOUS
<1>1. /\ UNCHANGED <<now, angle, start, slipped>> /\ task.at = "idle"
      /\ (task'.at = "take" /\ angle.pending) \/ task'.at = "idle"
  BY DEF AngleTask, Woken, Idle, angleVars
<1>2. InTask' = 0 /\ InTask = 0
  BY <1>1 DEF InTask
<1> QED
  BY <1>1, <1>2 DEF AngleIInv, AngleShape, AngleNumbers, Measuring, Accounted, Taking, SlotsAligned,
     Entries, Waiting

LEMMA AngleQueryKeeps ==
    ASSUME AngleIInv, Command, NEW clock \in Int, QueryAngle(clock)  PROVE AngleIInv'
<1>1. /\ DOMAIN angle' = AngleFields /\ angle'.time = clock
      /\ angle'.pending = FALSE /\ angle'.overflow = angle.overflow
      /\ angle'.data = 0 /\ angle'.sequence = 0
  BY Zenon DEF AngleIInv, AngleShape, QueryAngle, AngleFields
<1>2. /\ start' = clock /\ slipped' = (angle.overflow # 0)
      /\ UNCHANGED <<now, task>> /\ task.at = "idle"
  BY DEF QueryAngle, Command, AnyCommand, Idle
<1>3. AngleNumbers'
  BY <1>1, <1>2 DEF AngleIInv, AngleNumbers
<1>4. angle'.time # Off
  BY <1>1, OffIsNoTime
<1>5. Accounted'
  <2>1. Entries(angle') = 0 /\ Waiting' = 0 /\ InTask' = 0
    BY <1>1, <1>2, AngleSizes DEF Entries, Waiting, InTask
  <2>2. ~slipped' => angle'.overflow = 0
    BY <1>1, <1>2
  <2>3. AngleRest * (0 + 0 + 0 + 0) = 0
    BY AngleSizes
  <2> QED
    BY <1>1, <1>2, <2>1, <2>2, <2>3 DEF Accounted
<1> QED
  BY <1>1, <1>2, <1>3, <1>4, <1>5 DEF AngleIInv, AngleShape, Measuring, Taking, SlotsAligned

LEMMA AngleEndKeeps == AngleIInv /\ Command /\ EndQueryAngle => AngleIInv'
<1> SUFFICES ASSUME AngleIInv, Command, EndQueryAngle  PROVE AngleIInv'
  OBVIOUS
<1>1. /\ DOMAIN angle' = AngleFields /\ angle'.time = Off
      /\ angle'.pending = FALSE /\ angle'.overflow = angle.overflow
      /\ angle'.data = angle.data /\ angle'.sequence = angle.sequence
  BY Zenon DEF AngleIInv, AngleShape, EndQueryAngle, AngleFields
<1>2. UNCHANGED <<now, task, start, slipped>> /\ task.at = "idle"
  BY DEF EndQueryAngle, Command, AnyCommand, Idle
<1>3. AngleNumbers'
  BY <1>1, <1>2 DEF AngleIInv, AngleNumbers
<1> QED
  BY <1>1, <1>2, <1>3 DEF AngleIInv, AngleShape, Measuring, Accounted, Taking, SlotsAligned

(* The number of events, as far as it is known.                             *)
Events == Entries(angle) + angle.overflow + Waiting + InTask
LEMMA EventsIsInt == AngleIInv => Events \in Int /\ Entries(angle) \in Int
                             /\ Waiting \in Int /\ InTask \in Int
<1> SUFFICES ASSUME AngleIInv PROVE Events \in Int /\ Entries(angle) \in Int
                               /\ Waiting \in Int /\ InTask \in Int
  OBVIOUS
<1>1. Entries(angle) \in Int
  BY AngleSizes, Products DEF AngleIInv, AngleNumbers, Entries
<1>2. InTask \in Int /\ Waiting \in Int
  BY DEF AngleIInv, AngleNumbers, InTask, Waiting
<1> QED
  BY <1>1, <1>2 DEF AngleIInv, AngleNumbers, Events

LEMMA AngleTakeKeeps == AngleIInv /\ TakePending => AngleIInv'
<1> SUFFICES ASSUME AngleIInv, TakePending  PROVE AngleIInv'
  OBVIOUS
<1>1. /\ DOMAIN angle' = AngleFields /\ angle'.time = angle.time
      /\ angle'.pending = FALSE /\ angle'.overflow = 0
      /\ angle'.data = angle.data /\ angle'.sequence = angle.sequence
  BY Zenon DEF AngleIInv, AngleShape, TakePending, AngleFields
<1>2. /\ DOMAIN task' = SlotFields /\ task'.at = "slots"
      /\ task'.stime = angle.time - AngleRest /\ task'.overflow = angle.overflow
      /\ UNCHANGED <<now, start, slipped>> /\ task.at = "take"
  BY DEF TakePending, LastEvent, SlotFields
<1>3. angle.time # Off /\ angle.time \in Int /\ angle.pending
  BY <1>2 DEF AngleIInv, Measuring, Taking, AngleNumbers
<1>4. AngleNumbers'
  <2>1. task'.stime \in Int /\ task'.overflow \in Nat
    BY <1>2, <1>3, AngleSizes DEF AngleIInv, AngleNumbers
  <2> QED
    BY <1>1, <1>2, <2>1, AngleSizes DEF AngleIInv, AngleNumbers
<1>5. /\ Entries(angle') = Entries(angle) /\ Waiting' = 0 /\ Waiting = 1
      /\ InTask' = angle.overflow + 1 /\ InTask = 0
  BY <1>1, <1>2, <1>3 DEF Entries, Waiting, InTask
<1>6. Events' = Events
  BY <1>1, <1>5, EventsIsInt DEF Events, AngleIInv, AngleNumbers
<1>7. Accounted'
  BY <1>1, <1>2, <1>6 DEF AngleIInv, Accounted, Events
<1>8. SlotsAligned'
  <2> SUFFICES ASSUME ~slipped'
               PROVE  task'.stime = start + AngleRest * (Entries(angle) + angle.overflow)
    BY <1>1, <1>2 DEF SlotsAligned, Entries
  <2> DEFINE n == Entries(angle) + angle.overflow
  <2>1. n \in Int /\ Events = n + 1
    BY <1>5, EventsIsInt DEF Events, AngleIInv, AngleNumbers
  <2>2. angle.time = start + AngleRest * (n + 1)
    BY <1>2, <1>3, <2>1 DEF AngleIInv, Accounted, Events
  <2>3. AngleRest * (n + 1) = AngleRest * n + AngleRest /\ AngleRest * n \in Int
    BY <2>1, AngleSizes, OneMore, Products
  <2> HIDE DEF n
  <2>4. start \in Int
    BY DEF AngleIInv, AngleNumbers
  <2>5. task'.stime = start + AngleRest * n
    BY <1>2, <2>2, <2>3, <2>4, AngleSizes
  <2> QED
    BY <2>5 DEF n
<1> QED
  BY <1>1, <1>2, <1>3, <1>4, <1>7, <1>8 DEF AngleIInv, AngleShape, Measuring, Taking

LEMMA AddKeeps == AngleIInv /\ AddOverflow => AngleIInv'
<1> SUFFICES ASSUME AngleIInv, AddOverflow  PROVE AngleIInv'
  OBVIOUS
<1>1. /\ DOMAIN angle' = AngleFields /\ angle'.time = angle.time
      /\ angle'.pending = angle.pending /\ angle'.overflow = angle.overflow
      /\ angle'.data \in Nat /\ angle'.sequence \in Nat
      /\ Entries(angle') = Entries(angle) + 1
  BY OneEntry DEF AngleIInv, AngleShape, AngleNumbers, AddOverflow
<1>2. /\ DOMAIN task' = SlotFields /\ task'.at = "slots"
      /\ task'.stime = task.stime /\ task'.overflow = task.overflow - 1
  BY Zenon DEF AngleIInv, AngleShape, AddOverflow, SlotFields
<1>3. /\ UNCHANGED <<now, start, slipped>> /\ task.at = "slots"
      /\ task.overflow \in Nat /\ task.overflow > 0
  BY DEF AngleIInv, AngleNumbers, AddOverflow
<1>4. task'.overflow \in Nat
  BY <1>2, <1>3
<1>5. AngleNumbers'
  BY <1>1, <1>2, <1>3, <1>4 DEF AngleIInv, AngleNumbers
<1>6. Waiting' = Waiting /\ InTask' = InTask - 1
  BY <1>1, <1>2, <1>3 DEF Waiting, InTask
<1>7. Events' = Events
  BY <1>1, <1>6, EventsIsInt DEF Events, AngleIInv, AngleNumbers
<1>8. Accounted'
  BY <1>1, <1>3, <1>7 DEF AngleIInv, Accounted, Events
<1>9. Entries(angle') + task'.overflow = Entries(angle) + task.overflow
  BY <1>1, <1>2, <1>3, EventsIsInt
<1>10. SlotsAligned'
  BY <1>2, <1>3, <1>9 DEF AngleIInv, SlotsAligned, Entries
<1> QED
  BY <1>1, <1>2, <1>3, <1>5, <1>8, <1>10 DEF AngleIInv, AngleShape, Measuring, Taking

LEMMA AngleChipKeeps == AngleIInv /\ QueryChip => AngleIInv'
<1> SUFFICES ASSUME AngleIInv, QueryChip  PROVE AngleIInv'
  OBVIOUS
<1>1. /\ DOMAIN angle' = AngleFields /\ angle'.time = angle.time
      /\ angle'.pending = angle.pending /\ angle'.overflow = angle.overflow
      /\ angle'.data \in Nat /\ angle'.sequence \in Nat
      /\ Entries(angle') = Entries(angle) + 1
  BY OneEntry DEF AngleIInv, AngleShape, AngleNumbers, QueryChip
<1>2. /\ UNCHANGED <<now, start, slipped>> /\ task'.at = "idle"
      /\ task.at = "slots" /\ task.overflow = 0
  BY DEF QueryChip, Idle
<1>3. AngleNumbers'
  BY <1>1, <1>2 DEF AngleIInv, AngleNumbers
<1>4. Waiting' = Waiting /\ InTask' = 0 /\ InTask = 1
  BY <1>1, <1>2 DEF Waiting, InTask
<1>5. Events' = Events
  BY <1>1, <1>4, EventsIsInt DEF Events, AngleIInv, AngleNumbers
<1>6. Accounted'
  BY <1>1, <1>2, <1>5 DEF AngleIInv, Accounted, Events
<1> QED
  BY <1>1, <1>2, <1>3, <1>6 DEF AngleIInv, AngleShape, Measuring, Taking, SlotsAligned

-----------------------------------------------------------------------------
(* Every step of the timer, the commands and the task keeps it.             *)
THEOREM AngleStep == AngleIInv /\ [AngleNext]_AngleAll => AngleIInv'
<1> SUFFICES ASSUME AngleIInv, [AngleNext]_AngleAll  PROVE AngleIInv'
  OBVIOUS
<1>1. CASE UNCHANGED AngleAll
  BY <1>1 DEF AngleAll, angleVars, AngleIInv, AngleShape, AngleNumbers, Measuring, Accounted,
     Taking, SlotsAligned, Entries, Waiting, InTask
<1>2. ASSUME Command, NEW lead \in 0 .. 1, QueryAngle(now + lead)  PROVE AngleIInv'
  <2>1. now + lead \in Int
    BY DEF AngleIInv, AngleNumbers
  <2> QED
    BY <1>2, <2>1, AngleQueryKeeps
<1>3. CASE Command /\ EndQueryAngle
  BY <1>3, AngleEndKeeps
<1>4. CASE AngleTick \/ AngleEvent \/ AngleTask
  BY <1>4, AngleTickKeeps, AngleEventKeeps, AngleTaskKeeps
<1>5. CASE TakePending \/ AddOverflow \/ QueryChip
  BY <1>5, AngleTakeKeeps, AddKeeps, AngleChipKeeps
<1> QED
  BY <1>1, <1>2, <1>3, <1>4, <1>5 DEF AngleNext

(* SlotsAligned: the host takes the measurement of an event for that event, *)
(* however many events the task missed before it.                           *)
THEOREM EveryEventCounts == AngleSpec => []SlotsAligned
<1>1. AngleIInv => SlotsAligned
  BY DEF AngleIInv
<1> QED
  BY <1>1, AngleInitial, AngleStep, PTL DEF AngleSpec

-------------------------------------------------------------------------------
(***************************************************************************)
(* For every rate of the chip, interval of the monitor and lateness of the *)
(* interrupt below rest_ticks: silence stops a probing move, and no sample *)
(* that changed while it was read reaches the trigger.                     *)
(***************************************************************************)
SensorFields == {"kind", "time", "flags", "error"}
ChipFields == {"ready", "next"}
ProbeFields == {"time", "flags", "clock", "count"}

CellShape ==
    /\ DOMAIN sensor = SensorFields /\ DOMAIN chip = ChipFields
    /\ DOMAIN probe = ProbeFields
CellNumbers ==
    /\ now \in Int /\ activity \in Int /\ probe.count \in Nat
    /\ sensor.time # Off => sensor.time \in Int
    /\ chip.next # Off => chip.next \in Int
    /\ probe.time # Off => probe.time \in Int

(* The clock: nothing is later than it may be.                              *)
OnTime ==
    /\ chip.next # Off => now <= chip.next /\ sensor.time # Off
    /\ sensor.time # Off => now <= sensor.time + MaxLate
    /\ probe.time # Off => now <= probe.time + MaxLate

(* While a probing move can be stopped, its monitor runs, and has counted   *)
(* the intervals since the last activity.                                   *)
Watched ==
    armed => /\ "CAN_TRIGGER" \in probe.flags /\ probe.time # Off
             /\ probe.time <= now + MonitorTicks
             /\ MonitorMax < 255 =>
                    probe.time <= activity + (probe.count + 1) * MonitorTicks
             /\ probe.count <= MonitorMax + 1

(* Where the polls of a HX71x fall between the conversions, as long as no   *)
(* read took too long: a pending one is noted before the chip can change.   *)
Hx == sensor.kind = "hx71x"
Pending == "PENDING" \in sensor.flags
Overflow == "OVERFLOW" \in sensor.flags
Fresh == Hx /\ ~Overflow /\ ~sensor.error
InStep ==
    Fresh /\ chip.next # Off =>
        /\ Pending => sensor.time + RestTicks <= chip.next
        /\ ~Pending /\ chip.ready => sensor.time + 9 * RestTicks <= chip.next
        /\ sensor.time <= chip.next + RestTicks
Reading ==
    /\ sensor.flags # {} => Pending
    /\ task.at = "read" => Pending
    /\ task.at = "read" /\ torn => ~Fresh

SensorPart == InStep /\ Reading /\ NeverTorn
CellIInv == CellShape /\ CellNumbers /\ OnTime /\ Watched /\ SensorPart

LEMMA Ticks ==
    /\ RestTicks \in Nat /\ RestTicks > 0 /\ MonitorTicks \in Nat /\ MonitorTicks > 0
    /\ MonitorMax \in Nat /\ MonitorMax <= 255
    /\ MaxLate \in Nat /\ MaxLate < RestTicks
BY BoardAssumption, LoadCellAssumption

LEMMA Intervals == ASSUME NEW n \in Int
                   PROVE  /\ n * MonitorTicks \in Int
                          /\ (n + 1) * MonitorTicks = n * MonitorTicks + MonitorTicks
BY Ticks

-----------------------------------------------------------------------------
(* Neither sensor nor probe has been started.                               *)
THEOREM CellInitial == BoardInit /\ LoadCellInit => CellIInv
<1> SUFFICES ASSUME BoardInit, LoadCellInit  PROVE CellIInv
  OBVIOUS
<1>1. /\ DOMAIN sensor = SensorFields /\ DOMAIN chip = ChipFields
      /\ DOMAIN probe = ProbeFields
  BY DEF LoadCellInit, SensorFields, ChipFields, ProbeFields
<1>2. /\ sensor.time = Off /\ sensor.flags = {} /\ chip.next = Off
      /\ probe.time = Off /\ probe.count = 0 /\ armed = FALSE /\ activity = 0
      /\ now = 0 /\ task.at = "idle"
  BY DEF LoadCellInit, BoardInit, Idle
<1> QED
  BY <1>1, <1>2 DEF CellIInv, CellShape, CellNumbers, OnTime, Watched, SensorPart, InStep,
     Reading, NeverTorn

LEMMA CellTickKeeps == CellIInv /\ CellTick => CellIInv'
<1> SUFFICES ASSUME CellIInv, CellTick  PROVE CellIInv'
  OBVIOUS
<1>1. UNCHANGED <<task, sensor, chip, torn, probe, armed, activity>>
  BY DEF CellTick, cellVars
<1>2. /\ now' = now + 1 /\ now \in Int
      /\ sensor.time # Off => now - sensor.time < MaxLate
      /\ probe.time # Off => now - probe.time < MaxLate
      /\ chip.next # Off => now < chip.next
  BY DEF CellTick, Tick, Celltimes, CellIInv, CellNumbers
<1>3. CellNumbers' /\ OnTime'
  BY <1>1, <1>2, Ticks DEF CellIInv, CellNumbers, OnTime
<1>4. Watched'
  <2> SUFFICES ASSUME armed  PROVE Watched'
    BY <1>1 DEF Watched
  <2>1. probe.time <= now + 1 + MonitorTicks
    BY <1>2, Ticks DEF CellIInv, Watched, CellNumbers
  <2> QED
    BY <1>1, <1>2, <2>1 DEF CellIInv, Watched
<1> QED
  BY <1>1, <1>3, <1>4 DEF CellIInv, CellShape, SensorPart, InStep, Reading, NeverTorn,
     Fresh, Hx, Pending, Overflow

LEMMA CellChipKeeps == CellIInv /\ ChipConverts => CellIInv'
<1> SUFFICES ASSUME CellIInv, ChipConverts  PROVE CellIInv'
  OBVIOUS
<1>1. /\ UNCHANGED <<now, task, sensor, probe, armed, activity>> /\ chip.next = now
      /\ now \in Int /\ chip.next # Off
  BY OffIsNoTime DEF ChipConverts, CellIInv, CellNumbers
<1>2. /\ DOMAIN chip' = ChipFields
      /\ \/ chip'.ready = TRUE /\ chip'.next = now + PERIOD
         \/ chip'.next = Off
  <2>1. CASE chip' = [ready |-> TRUE, next |-> now + PERIOD]
    BY <2>1 DEF ChipFields
  <2>2. CASE chip' = [chip EXCEPT !.next = Off]
    BY <2>2, Zenon DEF CellIInv, CellShape, ChipFields
  <2> QED
    BY <2>1, <2>2 DEF ChipConverts
<1>3. /\ torn' => torn \/ task.at = "read"
  BY DEF ChipConverts
<1>4. /\ sensor.time # Off /\ sensor.time \in Int /\ now <= sensor.time + MaxLate
  BY <1>1 DEF CellIInv, OnTime, CellNumbers
<1>5. Fresh => ~Pending /\ ~chip.ready /\ sensor.time <= now + RestTicks
  BY <1>1, <1>4, Ticks DEF CellIInv, SensorPart, InStep
<1>6. CellNumbers' /\ OnTime'
  <2>1. now + PERIOD \in Int /\ now <= now + PERIOD
    BY <1>1, Ticks DEF PERIOD
  <2> QED
    BY <1>1, <1>2, <1>4, <2>1 DEF CellIInv, CellNumbers, OnTime
<1>7. Watched'
  BY <1>1 DEF CellIInv, Watched
<1>8. (Fresh' <=> Fresh) /\ (Pending' <=> Pending) /\ (Overflow' <=> Overflow)
  BY <1>1 DEF Fresh, Hx, Pending, Overflow
<1>9. InStep'
  <2> SUFFICES ASSUME Fresh, chip'.next # Off
               PROVE  /\ sensor.time + 9 * RestTicks <= chip'.next
                      /\ sensor.time <= chip'.next + RestTicks
    BY <1>1, <1>5, <1>8 DEF InStep
  <2> QED
    BY <1>1, <1>2, <1>4, <1>5, Ticks DEF PERIOD
<1>10. Reading'
  BY <1>1, <1>3, <1>5, <1>8 DEF CellIInv, SensorPart, Reading
<1>11. NeverTorn'
  BY <1>1, <1>3 DEF CellIInv, SensorPart, NeverTorn
<1> QED
  BY <1>1, <1>2, <1>6, <1>7, <1>9, <1>10, <1>11 DEF CellIInv, CellShape, SensorPart

LEMMA SensorEventKeeps == CellIInv /\ SensorEvent => CellIInv'
<1> SUFFICES ASSUME CellIInv, SensorEvent  PROVE CellIInv'
  OBVIOUS
<1> DEFINE seen == ~Pending /\ chip.ready
<1>1. /\ UNCHANGED <<now, task, chip, torn, probe, armed, activity>>
      /\ sensor.time # Off /\ sensor.time <= now /\ sensor.time \in Int
  BY DEF SensorEvent, Runs, CellIInv, CellNumbers
<1>2. /\ DOMAIN sensor' = SensorFields
      /\ sensor'.kind = sensor.kind /\ sensor'.error = sensor.error
      /\ sensor'.flags = sensor.flags
            \cup (IF Pending /\ sensor.kind = "hx71x" THEN {"OVERFLOW"} ELSE {})
            \cup (IF seen THEN {"PENDING"} ELSE {})
      /\ sensor'.time = sensor.time + (IF Pending THEN 4 * RestTicks
            ELSE IF seen THEN BeforeNextSample ELSE RestTicks)
  BY Zenon DEF CellIInv, CellShape, SensorEvent, SensorFields, Pending
<1>3. /\ Pending' <=> Pending \/ seen
      /\ Overflow' <=> Overflow \/ (Pending /\ Hx)
      /\ sensor'.flags # {} => Pending'
  <2>1. sensor.flags # {} => Pending
    BY DEF CellIInv, SensorPart, Reading
  <2> QED
    BY <1>2, <2>1 DEF Pending, Overflow, Hx
<1>4. Fresh' <=> Fresh /\ ~Pending
  BY <1>2, <1>3 DEF Fresh, Hx
<1>5. /\ sensor'.time \in Int
      /\ Pending => sensor'.time = sensor.time + 4 * RestTicks
      /\ seen => sensor'.time = sensor.time + 8 * RestTicks
      /\ ~Pending /\ ~seen => sensor'.time = sensor.time + RestTicks
  BY <1>1, <1>2, Ticks DEF BeforeNextSample
<1>6. sensor'.time # Off /\ sensor'.time >= sensor.time
  BY <1>1, <1>5, Ticks, OffIsNoTime
<1> HIDE DEF seen
<1>7. CellNumbers' /\ OnTime'
  BY <1>1, <1>5, <1>6, Ticks DEF CellIInv, CellNumbers, OnTime
<1>8. Watched'
  BY <1>1 DEF CellIInv, Watched
<1>9. InStep'
  <2> SUFFICES ASSUME Fresh, ~Pending, chip.next # Off
               PROVE  /\ seen => sensor'.time + RestTicks <= chip.next
                      /\ ~seen => sensor'.time <= chip.next + RestTicks
                      /\ seen => sensor'.time <= chip.next + RestTicks
                      /\ chip.ready => seen
    BY <1>1, <1>3, <1>4 DEF InStep
  <2>1. chip.ready <=> seen
    BY DEF seen
  <2>2. seen => sensor.time + 9 * RestTicks <= chip.next
    BY <2>1 DEF CellIInv, SensorPart, InStep
  <2>3. chip.next \in Int /\ now <= chip.next /\ now \in Int
    BY DEF CellIInv, CellNumbers, OnTime
  <2> QED
    BY <1>1, <1>5, <2>1, <2>2, <2>3, Ticks
<1>10. Reading' /\ NeverTorn'
  BY <1>1, <1>2, <1>3, <1>4 DEF CellIInv, SensorPart, Reading, NeverTorn
<1> QED
  BY <1>1, <1>2, <1>7, <1>8, <1>9, <1>10 DEF CellIInv, CellShape, SensorPart

LEMMA QuerySensorKeeps ==
    ASSUME NEW k, NEW b, CellIInv, task = Idle, QuerySensor(k, b)
    PROVE  CellIInv'
<1>1. UNCHANGED <<now, task, torn, probe, armed, activity>> /\ task.at = "idle"
  BY DEF QuerySensor, Idle
<1>2. /\ DOMAIN sensor' = SensorFields /\ DOMAIN chip' = ChipFields
      /\ sensor'.flags = {} /\ chip'.ready = FALSE
      /\ \/ sensor'.time = now + RestTicks /\ chip'.next = now + PERIOD
         \/ sensor'.time = Off /\ chip'.next = Off
  BY DEF QuerySensor, SensorFields, ChipFields
<1>3. /\ now \in Int /\ now + RestTicks \in Int /\ now + PERIOD \in Int
      /\ now + RestTicks <= now + PERIOD /\ now <= now + RestTicks
  BY Ticks DEF CellIInv, CellNumbers, PERIOD
<1>4. CellNumbers' /\ OnTime'
  BY <1>1, <1>2, <1>3, Ticks, OffIsNoTime DEF CellIInv, CellNumbers, OnTime
<1>5. Watched'
  BY <1>1 DEF CellIInv, Watched
<1>6. InStep'
  BY <1>2, <1>3, Ticks DEF InStep, Pending
<1>7. Reading' /\ NeverTorn'
  BY <1>1, <1>2 DEF Reading, NeverTorn
<1> QED
  BY <1>1, <1>2, <1>4, <1>5, <1>6, <1>7 DEF CellIInv, CellShape, SensorPart

LEMMA CaptureTaskKeeps == CellIInv /\ CaptureTask => CellIInv'
<1> SUFFICES ASSUME CellIInv, CaptureTask  PROVE CellIInv'
  OBVIOUS
<1>1. UNCHANGED <<now, sensor, chip, probe, armed, activity>> /\ torn' = FALSE
  BY DEF CaptureTask
<1>2. task'.at = "read" => sensor.flags # {}
  BY DEF CaptureTask, Idle
<1>3. CellNumbers' /\ OnTime' /\ Watched' /\ InStep'
  BY <1>1 DEF CellIInv, SensorPart, CellNumbers, OnTime, Watched, InStep, Fresh, Hx,
     Pending, Overflow
<1>4. Reading' /\ NeverTorn'
  BY <1>1, <1>2 DEF CellIInv, SensorPart, Reading, NeverTorn, Pending
<1> QED
  BY <1>1, <1>3, <1>4 DEF CellIInv, CellShape, SensorPart

LEMMA ReadAdcKeeps == CellIInv /\ ReadAdc => CellIInv'
<1> SUFFICES ASSUME CellIInv, ReadAdc  PROVE CellIInv'
  OBVIOUS
<1>1. PICK desync \in BOOLEAN :
          /\ sensor' = [sensor EXCEPT !.flags = {}, !.error = Error(desync)]
          /\ task' = [at |-> IF Error(desync) THEN "add" ELSE "update"]
  BY DEF ReadAdc
<1>2. /\ UNCHANGED <<now, torn, probe, armed, activity>> /\ task.at = "read"
      /\ chip' = [chip EXCEPT !.ready = FALSE]
  BY DEF ReadAdc
<1>3. /\ DOMAIN sensor' = SensorFields /\ DOMAIN chip' = ChipFields
      /\ sensor'.kind = sensor.kind /\ sensor'.time = sensor.time
      /\ sensor'.flags = {} /\ sensor'.error = Error(desync)
      /\ chip'.next = chip.next /\ chip'.ready = FALSE
  BY <1>1, <1>2, Zenon DEF CellIInv, CellShape, SensorFields, ChipFields
<1>4. /\ task'.at \in {"add", "update"}
      /\ task'.at = "update" => ~Error(desync)
  BY <1>1
<1>5. Hx /\ ~Error(desync) => Fresh
  BY DEF Error, Fresh, Hx, Overflow
<1>6. Fresh' => Fresh
  BY <1>3, <1>5, Zenon DEF Fresh, Hx
<1>7. CellNumbers' /\ OnTime' /\ Watched'
  BY <1>2, <1>3 DEF CellIInv, CellNumbers, OnTime, Watched
<1>8. InStep'
  BY <1>3, <1>6 DEF CellIInv, SensorPart, InStep, Pending
<1>9. Reading'
  BY <1>3, <1>4 DEF Reading
<1>10. NeverTorn'
  BY <1>2, <1>3, <1>4, <1>5 DEF CellIInv, SensorPart, Reading, NeverTorn, Hx
<1> QED
  BY <1>2, <1>3, <1>7, <1>8, <1>9, <1>10 DEF CellIInv, CellShape, SensorPart

LEMMA AddSampleKeeps == CellIInv /\ AddSample => CellIInv'
BY DEF AddSample, cellVars, Idle, CellIInv, CellShape, CellNumbers, OnTime, Watched,
   SensorPart, InStep, Reading, NeverTorn, Fresh, Hx, Pending, Overflow

-----------------------------------------------------------------------------
LEMMA SensorRests ==
    ASSUME CellIInv, UNCHANGED <<sensor, chip, torn>>,
           task' = task \/ (task.at = "update" /\ task'.at = "check")
                        \/ task'.at = "add"
    PROVE  SensorPart'
<1>1. task'.at \in {"read", "update"} => task' = task
  OBVIOUS
<1>2. task'.at = "check" => task.at \in {"check", "update"}
  OBVIOUS
<1> QED
  BY <1>1, <1>2 DEF CellIInv, SensorPart, InStep, Reading, NeverTorn, Fresh, Hx,
     Pending, Overflow

LEMMA TriggerAnalogUpdateKeeps == CellIInv /\ TriggerAnalogUpdate => CellIInv'
<1> SUFFICES ASSUME CellIInv, TriggerAnalogUpdate  PROVE CellIInv'
  OBVIOUS
<1>1. /\ UNCHANGED <<now, sensor, chip, torn, armed>> /\ task.at = "update"
      /\ task'.at \in {"check", "add"}
  BY DEF TriggerAnalogUpdate
<1>2. /\ DOMAIN probe' = ProbeFields
      /\ probe'.time = probe.time /\ probe'.flags = probe.flags
      /\ \/ probe'.count = 0 /\ activity' = (IF armed THEN now ELSE activity)
         \/ probe'.count = probe.count /\ activity' = activity
  BY Zenon DEF TriggerAnalogUpdate, CellIInv, CellShape, ProbeFields
<1>3. CellNumbers' /\ OnTime'
  BY <1>1, <1>2 DEF CellIInv, CellNumbers, OnTime
<1>4. Watched'
  BY <1>1, <1>2, Ticks DEF CellIInv, CellNumbers, Watched
<1> QED
  BY <1>1, <1>2, <1>3, <1>4, SensorRests DEF CellIInv, CellShape

LEMMA CheckSampleKeeps == CellIInv /\ CheckSample => CellIInv'
<1> SUFFICES ASSUME CellIInv, CheckSample  PROVE CellIInv'
  OBVIOUS
<1>1. /\ UNCHANGED <<now, sensor, chip, torn>> /\ task'.at = "add"
      /\ armed' = FALSE \/ (armed' = armed /\ activity' = activity)
      /\ activity' \in {0, activity}
  BY DEF CheckSample, DoTrigger
<1>2. /\ DOMAIN probe' = ProbeFields
      /\ probe'.time = probe.time /\ probe'.count = probe.count
      /\ armed' = FALSE \/ "CAN_TRIGGER" \in probe'.flags
  <2>1. CASE probe' = [probe EXCEPT !.flags = {}] /\ armed' = FALSE
    BY <2>1, Zenon DEF CellIInv, CellShape, ProbeFields
  <2>2. CASE probe' = [probe EXCEPT !.flags = {"CAN_TRIGGER"}]
    BY <2>2, Zenon DEF CellIInv, CellShape, ProbeFields
  <2> QED
    BY <2>1, <2>2 DEF CheckSample, DoTrigger
<1>3. CellNumbers' /\ OnTime' /\ Watched'
  BY <1>1, <1>2 DEF CellIInv, CellNumbers, OnTime, Watched
<1> QED
  BY <1>1, <1>2, <1>3, SensorRests DEF CellIInv, CellShape

LEMMA MonitorEventKeeps == CellIInv /\ MonitorEvent => CellIInv'
<1> SUFFICES ASSUME CellIInv, MonitorEvent  PROVE CellIInv'
  OBVIOUS
<1> DEFINE can == "CAN_TRIGGER" \in probe.flags
<1>1. /\ UNCHANGED <<now, task, sensor, chip, torn>>
      /\ probe.time # Off /\ probe.time <= now
      /\ probe.time \in Int /\ now \in Int /\ activity \in Int /\ probe.count \in Nat
  BY DEF MonitorEvent, Runs, CellIInv, CellNumbers
<1>2. /\ DOMAIN probe' = ProbeFields /\ probe'.flags = probe.flags
      /\ \/ /\ can /\ ~Missed(probe) /\ armed' = armed /\ activity' = activity
            /\ probe'.count = (probe.count + 1) % 256
            /\ probe'.time = probe.time + MonitorTicks
         \/ /\ ~can /\ armed' = armed /\ activity' = activity
            /\ probe'.count = probe.count /\ probe'.time = Off
         \/ /\ armed' = FALSE /\ activity' = 0
            /\ probe'.count = probe.count /\ probe'.time = Off
  BY Zenon DEF MonitorEvent, DoTrigger, CellIInv, CellShape, ProbeFields
<1>3. CASE /\ can /\ ~Missed(probe) /\ armed' = armed /\ activity' = activity
           /\ probe'.count = (probe.count + 1) % 256
           /\ probe'.time = probe.time + MonitorTicks
  <2>4. /\ probe'.count \in Nat /\ probe'.count <= MonitorMax + 1
        /\ MonitorMax < 255 => probe'.count = probe.count + 1
    <3>1. probe.count <= MonitorMax
      BY <1>1, <1>3, Ticks DEF Missed
    <3>2. probe.count + 1 \in Nat /\ probe'.count = (probe.count + 1) % 256
      BY <1>1, <1>3
    <3>3. probe'.count \in Nat /\ probe'.count <= probe.count + 1
      BY <3>2
    <3>4. ASSUME MonitorMax < 255 PROVE probe'.count = probe.count + 1
      <4>1. probe.count + 1 < 256
        BY <1>1, <3>1, <3>4, Ticks
      <4> QED
        BY <3>2, <4>1
    <3> QED
      BY <1>1, <3>1, <3>3, <3>4, Ticks
  <2>1. /\ probe'.time \in Int /\ probe'.count \in Nat
        /\ probe.time <= probe'.time /\ probe'.time <= now + MonitorTicks
    BY <1>1, <1>3, <2>4, Ticks
  <2>2. CellNumbers' /\ OnTime'
    BY <1>1, <1>3, <2>1, OffIsNoTime, Ticks DEF CellIInv, CellNumbers, OnTime
  <2>3. Watched'
    <3> SUFFICES ASSUME armed  PROVE Watched'
      BY <1>3 DEF Watched
    <3>1. ASSUME MonitorMax < 255
          PROVE  probe'.time <= activity' + (probe'.count + 1) * MonitorTicks
      <4> DEFINE p == (probe.count + 1) * MonitorTicks
      <4>1. probe.time <= activity + p
        BY <3>1 DEF CellIInv, Watched
      <4>2. probe.count + 1 \in Int /\ probe'.count = probe.count + 1
        BY <1>1, <2>4, <3>1
      <4>3. (probe'.count + 1) * MonitorTicks = p + MonitorTicks /\ p \in Int
        BY <4>2, Intervals
      <4> HIDE DEF p
      <4> QED
        BY <1>1, <1>3, <4>1, <4>3, Ticks
    <3> QED
      BY <1>1, <1>2, <1>3, <2>1, <2>4, <3>1, OffIsNoTime DEF Watched
  <2> QED
    BY <1>1, <1>2, <2>2, <2>3, SensorRests DEF CellIInv, CellShape
<1>4. CASE /\ armed' = FALSE \/ (~can /\ armed' = armed)
           /\ activity' \in {0, activity}
           /\ probe'.count = probe.count /\ probe'.time = Off
  <2>1. ~armed'
    BY <1>4 DEF CellIInv, Watched
  <2>2. CellNumbers' /\ OnTime' /\ Watched'
    BY <1>1, <1>4, <2>1 DEF CellIInv, CellNumbers, OnTime, Watched
  <2> QED
    BY <1>1, <1>2, <2>2, SensorRests DEF CellIInv, CellShape
<1> QED
  BY <1>2, <1>3, <1>4

LEMMA TriggerAnalogHomeKeeps == CellIInv /\ TriggerAnalogHome(now + 1) => CellIInv'
<1> SUFFICES ASSUME CellIInv, TriggerAnalogHome(now + 1)  PROVE CellIInv'
  OBVIOUS
<1>1. /\ UNCHANGED <<now, task, sensor, chip, torn>> /\ now \in Int
      /\ DOMAIN probe' = ProbeFields /\ probe'.time = now + 1
      /\ "CAN_TRIGGER" \in probe'.flags /\ probe'.count = 0
      /\ activity' = now + 1
  BY DEF TriggerAnalogHome, ProbeFields, CellIInv, CellNumbers
<1>2. CellNumbers' /\ OnTime'
  BY <1>1, OffIsNoTime, Ticks DEF CellIInv, CellNumbers, OnTime
<1>3. Watched'
  <2>1. (probe'.count + 1) * MonitorTicks = MonitorTicks
    BY <1>1, Ticks
  <2> QED
    BY <1>1, <2>1, OffIsNoTime, Ticks DEF Watched
<1> QED
  BY <1>1, <1>2, <1>3, SensorRests DEF CellIInv, CellShape

LEMMA TriggerAnalogEndKeeps == CellIInv /\ TriggerAnalogEnd => CellIInv'
<1> SUFFICES ASSUME CellIInv, TriggerAnalogEnd  PROVE CellIInv'
  OBVIOUS
<1>1. /\ UNCHANGED <<now, task, sensor, chip, torn>>
      /\ DOMAIN probe' = ProbeFields /\ probe'.time = Off
      /\ probe'.count = probe.count /\ armed' = FALSE /\ activity' = 0
  BY Zenon DEF TriggerAnalogEnd, CellIInv, CellShape, ProbeFields
<1>2. CellNumbers' /\ OnTime' /\ Watched'
  BY <1>1 DEF CellIInv, CellNumbers, OnTime, Watched
<1> QED
  BY <1>1, <1>2, SensorRests DEF CellIInv, CellShape

-----------------------------------------------------------------------------
(* Every step of the sensor, the trigger, the chip and the clock keeps it.  *)
THEOREM CellStep == CellIInv /\ [LoadCellNext]_CellAll => CellIInv'
<1> SUFFICES ASSUME CellIInv, [LoadCellNext]_CellAll  PROVE CellIInv'
  OBVIOUS
<1>1. ASSUME NEW k \in {"hx71x", "ads1220"}, NEW b \in BOOLEAN, Command,
             QuerySensor(k, b)
      PROVE  CellIInv'
  BY <1>1, QuerySensorKeeps DEF Command, AnyCommand
<1>2. CASE TriggerAnalogHome(now + 1)
  BY <1>2, TriggerAnalogHomeKeeps
<1>3. CASE TriggerAnalogEnd
  BY <1>3, TriggerAnalogEndKeeps
<1>4. CASE CellTick
  BY <1>4, CellTickKeeps
<1>5. CASE ChipConverts
  BY <1>5, CellChipKeeps
<1>6. CASE SensorEvent
  BY <1>6, SensorEventKeeps
<1>7. CASE MonitorEvent
  BY <1>7, MonitorEventKeeps
<1>8. CASE CaptureTask
  BY <1>8, CaptureTaskKeeps
<1>9. CASE ReadAdc
  BY <1>9, ReadAdcKeeps
<1>10. CASE AddSample
  BY <1>10, AddSampleKeeps
<1>11. CASE TriggerAnalogUpdate
  BY <1>11, TriggerAnalogUpdateKeeps
<1>12. CASE CheckSample
  BY <1>12, CheckSampleKeeps
<1>13. CASE UNCHANGED CellAll
  BY <1>13 DEF CellAll, cellVars, CellIInv, CellShape, CellNumbers, OnTime, Watched,
     SensorPart, InStep, Reading, NeverTorn, Fresh, Hx, Pending, Overflow
<1> QED
  BY <1>1, <1>2, <1>3, <1>4, <1>5, <1>6, <1>7, <1>8, <1>9, <1>10, <1>11,
     <1>12, <1>13 DEF LoadCellNext

LEMMA LongestSilence ==
    ASSUME NEW n \in Nat, n <= MonitorMax + 1
    PROVE  (n + 1) * MonitorTicks <= (MonitorMax + 2) * MonitorTicks
<1>1. /\ MonitorMax + 2 = (n + 1) + (MonitorMax + 1 - n)
      /\ MonitorMax + 1 - n \in Nat
  BY Ticks
<1>2. ASSUME NEW d \in Nat
      PROVE  (n + 1) * MonitorTicks <= ((n + 1) + d) * MonitorTicks
  BY Ticks
<1> QED
  BY <1>1, <1>2

LEMMA SilenceIsBounded == CellIInv => SilenceCaught
<1> SUFFICES ASSUME CellIInv, armed, MonitorMax < 255
             PROVE  now <= activity + (MonitorMax + 2) * MonitorTicks + MaxLate
  BY DEF SilenceCaught
<1> DEFINE n == probe.count
           p == (n + 1) * MonitorTicks
           q == (MonitorMax + 2) * MonitorTicks
<1>1. /\ probe.time \in Int /\ now <= probe.time + MaxLate
      /\ probe.time <= activity + p /\ activity \in Int /\ now \in Int
      /\ n \in Nat /\ n <= MonitorMax + 1
  BY DEF CellIInv, CellNumbers, OnTime, Watched
<1>2. p <= q
  BY <1>1, LongestSilence
<1>3. p \in Int /\ q \in Int
  BY <1>1, Ticks
<1> HIDE DEF n, p, q
<1>4. now <= activity + q + MaxLate
  BY <1>1, <1>2, <1>3, Ticks
<1> QED
  BY <1>4 DEF q

(* A chip, a task or a bus that gives no good sample stops the probing move *)
(* in time, and no sample that changed while it was read has a part in it.  *)
THEOREM NoSampleIsTrusted == CellSpec => []ProbeSound
<1>1. BoardInit /\ LoadCellInit => CellIInv
  BY CellInitial
<1>2. CellIInv /\ [LoadCellNext]_CellAll => CellIInv'
  BY CellStep
<1>3. CellIInv => ProbeSound
  BY SilenceIsBounded DEF ProbeSound, CellIInv, SensorPart
<1> QED
  BY <1>1, <1>2, <1>3, PTL DEF CellSpec

===============================================================================
