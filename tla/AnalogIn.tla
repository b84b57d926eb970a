------------------------------- MODULE AnalogIn -------------------------------
(***************************************************************************)
(* Analog inputs: the sampling and reporting of src/adccmds.c over the one *)
(* converter of src/esp32/gpio/gpio_adc.c, whose state is the pin of the   *)
(* conversion that runs, if one does.                                      *)
(*                                                                         *)
(* Inputs are numbered by their oids.  How long a conversion takes is left *)
(* open.  rest_ticks is longer than a group of samples takes, and a report *)
(* holds at least one sample and at most what data[] does.                 *)
(***************************************************************************)
EXTENDS Board

CONSTANTS
    InputCount,    \* the oids 1 .. InputCount are configured as analog_in
    SampleTicks,   \* the sample_ticks the host sends
    AnalogRest,    \* the rest_ticks it sends
    AnalogCounts,  \* the sample_counts it sends
    PerReport,     \* how many samples the bytes_per_report it sends hold
    Readings,      \* what a conversion gives
    MaxValue,      \* max_value
    RangeChecks    \* range_check_count

Input == 1 .. InputCount
NoPin == 0

ASSUME AnalogAssumption ==
    /\ InputCount \in Nat \ {0} /\ SampleTicks \in Nat /\ AnalogRest \in Nat
    /\ AnalogCounts \subseteq Nat /\ PerReport \subseteq Nat \ {0}
    /\ Readings \subseteq Nat /\ MaxValue \in Nat /\ RangeChecks \in Nat

VARIABLES
    analog,  \* struct analog_in
    running, \* running_conversion_pin
    group    \* the samples of each input since it began its current group,
             \* and those of the last group that ended
analogVars == <<analog, running, group>>

NoSamples == [begin |-> 0, number |-> 0, sum |-> 0]
AnalogInit ==
    /\ analog = [i \in Input |->
           [time |-> Off, begin |-> 0, count |-> 0, state |-> 1, value |-> 0,
            invalid |-> 0, per |-> 1, data |-> <<>>]]
    /\ running = NoPin
    /\ group = [i \in Input |-> [now |-> NoSamples, last |-> NoSamples]]

Analogtimes == {analog[i].time : i \in Input}
AnalogTick ==
    /\ Scheduled(Analogtimes) /\ Tick(Analogtimes)
    /\ UNCHANGED <<shutdown, task, wake, analogVars>>

-----------------------------------------------------------------------------
(* A shutdown: run_shutdown resets the timers and calls analog_in_shutdown. *)
AnalogStops(pin) ==
    /\ shutdown' = TRUE /\ task' = [at |-> "shutdown"]
    /\ analog' = [i \in Input |-> [analog[i] EXCEPT !.time = Off]]
    /\ running' = pin /\ UNCHANGED <<now, group>>
AnalogShutDown == AnalogStops(running)

(* gpio_adc_read ends the conversion, and shuts down on a value that is     *)
(* over the reference.                                                      *)
OverReference(i) == running = i /\ AnalogStops(NoPin)

(* gpio_adc_cancel_sample fails in gpio_adc_sample when the conversion that *)
(* runs is another input's, and in gpio_adc_read when the value is over the *)
(* reference: shutdown() is called again, from the handler.                 *)
CannotCancel == running # NoPin /\ running # 1
AnalogInShutdown ==
    /\ task.at = "shutdown"
    /\ UNCHANGED <<now, shutdown, wake>>
    /\ \/ /\ CannotCancel
          /\ task' = [at |-> "longjmp"] /\ UNCHANGED analogVars
       \/ /\ running = 1 /\ running' = NoPin
          /\ task' = [at |-> "longjmp"] /\ UNCHANGED <<analog, group>>
       \/ /\ ~CannotCancel
          /\ running' = NoPin
          /\ analog' = [i \in Input |->
                 IF analog[i].count = 0 THEN analog[i]
                 ELSE [analog[i] EXCEPT !.state = analog[i].count + 1,
                                        !.begin = @ + AnalogRest,
                                        !.time = analog[i].begin + AnalogRest]]
          /\ group' = [i \in Input |-> [group[i] EXCEPT !.now = NoSamples]]
          /\ task' = Idle

(* sched_main, back at its setjmp, calls run_shutdown again.                *)
ShutdownAgain ==
    /\ task.at = "longjmp" /\ task' = [at |-> "shutdown"]
    /\ UNCHANGED <<now, shutdown, wake, analogVars>>

-----------------------------------------------------------------------------
(* analog_in_event.                                                         *)
Conversion(i) ==
    /\ \/ running = NoPin /\ running' = i
       \/ running = i /\ UNCHANGED running
    /\ analog' = [analog EXCEPT ![i].time = @ + 1]
    /\ UNCHANGED <<now, shutdown, task, wake, group>>

(* The value after a reading v, as the sum of the samples of a group.       *)
Restarts(a) == a.state >= a.count
Summing(a, v) ==
    [a EXCEPT !.value = IF Restarts(a) THEN v ELSE @ + v,
              !.state = IF Restarts(a) THEN 1 ELSE @ + 1]
Counted(samples, a, v) ==
    [samples EXCEPT !.number = @ + 1, !.sum = @ + v, !.begin = a.begin]
Sampled(i, v) ==
    LET a == analog[i]
        b == Summing(a, v)
        g == Counted(group[i].now, a, v)
        more == b.state < b.count
        invalid == IF b.value <= MaxValue THEN 0 ELSE b.invalid + 1
        out == ~more /\ invalid >= RangeChecks /\ b.value > MaxValue
    IN /\ running' = NoPin
       /\ \/ /\ more
             /\ analog' = [analog EXCEPT ![i] = [b EXCEPT !.time = @ + SampleTicks]]
             /\ group' = [group EXCEPT ![i].now = g]
             /\ UNCHANGED <<now, shutdown, task, wake>>
          \/ /\ ~more /\ (~out \/ shutdown)
             /\ analog' = [analog EXCEPT ![i] =
                    [b EXCEPT !.begin = @ + AnalogRest,
                              !.time = a.begin + AnalogRest,
                              !.invalid = IF out THEN 0 ELSE invalid]]
             /\ group' = [group EXCEPT ![i] = [now |-> NoSamples, last |-> g]]
             /\ wake' = TRUE
             /\ UNCHANGED <<now, shutdown, task>>
          \/ /\ out /\ ~shutdown
             /\ shutdown' = TRUE /\ task' = [at |-> "shutdown"]
             /\ analog' = [j \in Input |->
                    [(IF j = i THEN [b EXCEPT !.invalid = invalid]
                      ELSE analog[j]) EXCEPT !.time = Off]]
             /\ UNCHANGED <<now, wake, group>>

AnalogInEvent(i) ==
    /\ Runs(analog[i].time, Analogtimes)
    /\ \/ Conversion(i)
       \/ running = i /\ \E v \in Readings : Sampled(i, v)
       \/ OverReference(i) /\ UNCHANGED wake
       \/ running \notin {NoPin, i} /\ AnalogShutDown /\ UNCHANGED wake

-----------------------------------------------------------------------------
(* query_analog_in, up to gpio_adc_cancel_sample, which waits for a         *)
(* conversion with interrupts enabled, and from there on.                   *)
Queried(a, clock, count, per) ==
    [a EXCEPT !.begin = clock, !.count = count, !.state = count + 1,
              !.per = per, !.data = <<>>, !.time = IF count = 0 THEN Off ELSE clock]
QueryAnalogIn(i, clock, count, per) ==
    /\ analog' = [analog EXCEPT ![i].time = Off]
    /\ task' = [at |-> "query", oid |-> i, clock |-> clock, count |-> count,
                per |-> per]
    /\ UNCHANGED <<now, shutdown, wake, running, group>>

AnalogCancel(i) ==
    /\ task.at = "query" /\ task.oid = i
    /\ UNCHANGED wake
    /\ \/ /\ running \in {NoPin, i}
          /\ running' = NoPin
          /\ analog' = [analog EXCEPT ![i] =
                 Queried(@, task.clock, task.count, task.per)]
          /\ group' = [group EXCEPT ![i] = [now |-> NoSamples, last |-> NoSamples]]
          /\ task' = Idle
          /\ UNCHANGED <<now, shutdown>>
       \/ running \notin {NoPin, i} /\ AnalogShutDown
       \/ OverReference(i)
       \/ /\ task.count # 0
          /\ MayBeTooClose(task.clock, {analog[j].time : j \in Input \ {i}})
          /\ AnalogShutDown

-----------------------------------------------------------------------------
(* analog_in_task: the test of each input, and the same test masked.        *)
ScanFrom(i) == IF i > InputCount THEN Idle ELSE [at |-> "scan", oid |-> i]

AnalogInTask ==
    /\ Woken /\ task' = ScanFrom(1)
    /\ UNCHANGED <<now, shutdown, analogVars>>

AnalogTest(i) ==
    /\ task = [at |-> "scan", oid |-> i]
    /\ task' = IF analog[i].state # analog[i].count THEN ScanFrom(i + 1)
               ELSE [at |-> "take", oid |-> i]
    /\ UNCHANGED <<now, shutdown, wake, analogVars>>

(* Mutant: the test is not repeated with interrupts disabled.               *)
IsWholeAlready(a) == TRUE
IsWhole(a) == a.state = a.count
(* A report that was full was sent with the last sample in it.              *)
AnalogTake(i) ==
    LET a == analog[i]
        d == IF Len(a.data) >= a.per THEN <<>> ELSE a.data
        sample == [value |-> a.value, next |-> a.begin, of |-> group[i].last]
    IN /\ task = [at |-> "take", oid |-> i]
       /\ task' = ScanFrom(i + 1)
       /\ analog' = IF IsWhole(a)
                    THEN [analog EXCEPT ![i].state = @ + 1,
                                        ![i].data = Append(d, sample)]
                    ELSE analog
       /\ UNCHANGED <<now, shutdown, wake, running, group>>

AnalogNext ==
    \/ /\ Command
       /\ \/ \E i \in Input, count \in AnalogCounts, per \in PerReport :
                 QueryAnalogIn(i, now + 1, count, per)
          \/ AnalogShutDown /\ UNCHANGED wake
    \/ ClearShutdown /\ UNCHANGED <<now, task, wake, analogVars>>
    \/ /\ UNCHANGED commands
       /\ \/ AnalogTick \/ AnalogInShutdown \/ ShutdownAgain
          \/ AnalogInTask
          \/ \E i \in Input :
                 AnalogInEvent(i) \/ AnalogCancel(i) \/ AnalogTest(i) \/ AnalogTake(i)

AnalogAll == <<now, shutdown, task, wake, commands, analogVars>>
AnalogSpec == BoardInit /\ AnalogInit /\ [][AnalogNext]_AnalogAll

-----------------------------------------------------------------------------
(* Each value in a report is the sum of one whole group of samples, the     *)
(* last that ended, and next_clock, where it is sent with the report, is    *)
(* rest_ticks after that group began: whatever interrupts come between the  *)
(* task's tests, and whatever query or shutdown came before.                *)
ReportIsSum ==
    \A i \in Input : \A k \in DOMAIN analog[i].data :
        LET r == analog[i].data[k]
        IN /\ r.of.number = analog[i].count
           /\ r.value = r.of.sum
           /\ r.next = r.of.begin + AnalogRest

(* A shutdown comes to its end: gpio_adc_cancel_sample "can be called from  *)
(* an ongoing-shutdown state".                                              *)
ShutdownEnds == task.at \in {"shutdown", "longjmp"} ~> task = Idle
===============================================================================
