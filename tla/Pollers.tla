-------------------------------- MODULE Pollers -------------------------------
(***************************************************************************)
(* The pulse counter of src/pulse_counter.c and the thermocouple readers   *)
(* of src/thermocouple.c: a timer at a fixed rate takes or requests a      *)
(* sample, and a task reports it with the time of the next event, however  *)
(* late the task is.                                                       *)
(*                                                                         *)
(* The host queries the counter once; the pin it counts changes slower     *)
(* than it is polled.  Of a reading of a chip it is modelled whether it is *)
(* bad: a fault, or outside the limits of the query.                       *)
(***************************************************************************)
EXTENDS Board

CONSTANTS
    PollTicks,    \* the poll_ticks of the counter
    SampleEvery,  \* its sample_ticks
    ThermoRest,   \* the rest_time of a thermocouple
    MaxInvalid    \* its max_invalid

ASSUME PollersAssumption ==
    {PollTicks, SampleEvery, ThermoRest, MaxInvalid} \subseteq Nat \ {0}

VARIABLES
    counter, \* struct counter, whether it was queried, and whether its timer
             \* is on the list: a shutdown takes it off, and leaves waketime
    pulses,  \* the times at which its pin changed
    thermo,  \* struct thermocouple_spi
    bad      \* the bad results since a good one, a query or a shutdown
pollerVars == <<counter, pulses, thermo, bad>>

PollersInit ==
    /\ counter = [on |-> FALSE, time |-> 0, count |-> 0, last_count_time |-> 0,
                  next_sample_time |-> 0, pending |-> FALSE, queried |-> FALSE]
    /\ pulses = {}
    /\ thermo = [time |-> Off, pending |-> FALSE, invalid_count |-> 0]
    /\ bad = 0

CounterTime == IF counter.on THEN counter.time ELSE Off
PollTimes == {CounterTime, thermo.time}
PollersTick ==
    /\ Scheduled(PollTimes) /\ Tick(PollTimes)
    /\ UNCHANGED <<shutdown, task, wake, pollerVars>>

PinChanges ==
    /\ counter.on
    /\ \A t \in pulses : now - t > PollTicks + MaxLate
    /\ pulses' = pulses \cup {now}
    /\ UNCHANGED <<now, shutdown, task, wake, counter, thermo, bad>>

(* counter_event                                                            *)
Level == Cardinality(pulses) % 2
CounterEvent ==
    LET differs == counter.count % 2 # Level
        due == counter.next_sample_time < counter.time
    IN /\ Runs(CounterTime, PollTimes)
       /\ counter' = [counter EXCEPT
              !.count = @ + (IF differs THEN 1 ELSE 0),
              !.last_count_time = IF differs THEN counter.time ELSE @,
              !.pending = @ \/ due,
              !.next_sample_time = IF due THEN counter.time + SampleEvery ELSE @,
              !.time = @ + PollTicks]
       /\ wake' = (wake \/ due)
       /\ UNCHANGED <<now, shutdown, task, pulses, thermo, bad>>

(* command_query_counter                                                    *)
QueryCounter ==
    /\ ~counter.queried
    /\ counter' = [counter EXCEPT !.time = now + 1, !.next_sample_time = now + 1,
                                  !.queried = TRUE, !.on = TRUE]
    /\ UNCHANGED <<now, shutdown, task, wake, pulses, thermo, bad>>

(* thermocouple_event                                                       *)
ThermoEvent ==
    /\ Runs(thermo.time, PollTimes)
    /\ thermo' = [thermo EXCEPT !.pending = TRUE, !.time = @ + ThermoRest]
    /\ wake' = TRUE
    /\ UNCHANGED <<now, shutdown, task, counter, pulses, bad>>

(* command_query_thermocouple, to begin and to end.                         *)
QueryThermo ==
    /\ thermo' = [thermo EXCEPT !.time = now + 1, !.invalid_count = 0] /\ bad' = 0
    /\ UNCHANGED <<now, shutdown, task, wake, counter, pulses>>
EndThermo ==
    /\ thermo' = [thermo EXCEPT !.time = Off]
    /\ UNCHANGED <<now, shutdown, task, wake, counter, pulses, bad>>

-----------------------------------------------------------------------------
(* counter_task and thermocouple_task, which have a wake each ...           *)
PollersTask ==
    /\ Woken
    /\ task' = IF counter.pending \/ thermo.pending THEN [at |-> "take"] ELSE Idle
    /\ UNCHANGED <<now, shutdown, pollerVars>>

(* ... the masked section of the first: what it will tell of the counter.   *)
(* Mutant: the count is told with the time of the event it was made at.     *)
LastClock(c) == c.time - PollTicks
NextClock(c) == c.time
TakeCount ==
    /\ task.at = "take" /\ counter.pending
    /\ counter' = [counter EXCEPT !.pending = FALSE]
    /\ task' = [at |-> "tell", next_clock |-> NextClock(counter),
                count |-> counter.count, count_clock |-> counter.last_count_time]
    /\ UNCHANGED <<now, shutdown, wake, pulses, thermo, bad>>
TellCount ==
    /\ task.at = "tell"
    /\ task' = IF thermo.pending THEN [at |-> "take"] ELSE Idle
    /\ UNCHANGED <<now, shutdown, wake, pollerVars>>

(* ... that of the second, and the read of the chip.                        *)
TakeThermo ==
    /\ task.at = "take" /\ ~counter.pending /\ thermo.pending
    /\ thermo' = [thermo EXCEPT !.pending = FALSE]
    /\ task' = [at |-> "respond"]
    /\ UNCHANGED <<now, shutdown, wake, counter, pulses, bad>>

(* thermocouple_respond; a shutdown does not come back to reset the count.  *)
ThermoRespond ==
    \E isBad \in BOOLEAN :
        LET count == IF isBad THEN thermo.invalid_count + 1 ELSE 0
            stop == isBad /\ count >= MaxInvalid
            stops == stop /\ ~shutdown
        IN /\ task.at = "respond" /\ task' = Idle
           /\ thermo' = [thermo EXCEPT
                  !.invalid_count = IF stop /\ ~stops THEN 0 ELSE count,
                  !.time = IF stops THEN Off ELSE @]
           /\ counter' = [counter EXCEPT !.on = @ /\ ~stops]
           /\ shutdown' = (shutdown \/ stop)
           /\ bad' = IF isBad /\ ~stop THEN bad + 1 ELSE 0
           /\ UNCHANGED <<now, wake, pulses>>

PollersNext ==
    \/ Command /\ (QueryCounter \/ QueryThermo \/ EndThermo)
    \/ ClearShutdown /\ UNCHANGED <<now, task, wake, pollerVars>>
    \/ /\ UNCHANGED commands
       /\ \/ PollersTick \/ PinChanges \/ CounterEvent \/ ThermoEvent
          \/ PollersTask \/ TakeCount \/ TellCount \/ TakeThermo \/ ThermoRespond

PollersAll == <<now, shutdown, task, wake, commands, pollerVars>>
PollersSpec == BoardInit /\ PollersInit /\ [][PollersNext]_PollersAll

-----------------------------------------------------------------------------
(* What the host is told of the counter is right, however late the task: as *)
(* many pulses as there were up to the poll before next_clock, which may    *)
(* itself have been late, and the time of the poll that saw the last.       *)
CountTold ==
    task.at = "tell" =>
        LET poll == task.next_clock - PollTicks
            Seen(until) == {t \in pulses : t <= until}
        IN /\ Cardinality(Seen(poll - 1)) <= task.count
           /\ task.count <= Cardinality(Seen(poll + MaxLate))
           /\ task.count_clock <= poll
           /\ \A t \in Seen(poll - 1) : task.count_clock >= t - MaxLate

(* A reader that fails as often in a row as the host allows has shut the    *)
(* printer down, through queries, late tasks and cleared shutdowns.         *)
FaultsStop == ~shutdown => bad < MaxInvalid

PollersSound == CountTold /\ FaultsStop
===============================================================================
