-------------------------------- MODULE Outputs -------------------------------
(***************************************************************************)
(* Scheduled outputs: the digital pins of src/gpiocmds.c, software pwm     *)
(* included, and the hardware pwm pins of src/pwmcmds.c, whose updates     *)
(* wait in queues linked through one pool of moves, that of src/basecmd.c. *)
(*                                                                         *)
(* A hardware pwm pin is off or on, for what matters is whether its value  *)
(* is the default.  The host sends updates of an output in the order of    *)
(* their times, and configures an output that has a max_duration with its  *)
(* default value.                                                          *)
(***************************************************************************)
EXTENDS Board

CONSTANTS
    Digital, Pwm,  \* the oids configured as such
    DefaultOn,     \* those whose default is on
    Guarded,       \* those with a max_duration
    MAX_DURATION,  \* which is this one
    MoveCount,     \* move_count: how many nodes the pool has
    OnTicks,       \* the on_ticks the host sends; 0 turns the pin off
    CycleTicks,    \* the cycle_ticks it sends
    Leads          \* how far ahead it sends an update

Output == Digital \cup Pwm
Node == 1 .. MoveCount
NULL == 0

ASSUME OutputsAssumption ==
    /\ Digital \cap Pwm = {}
    /\ DefaultOn \subseteq Output /\ Guarded \subseteq Output
    /\ MAX_DURATION \in Nat \ {0} /\ MoveCount \in Nat \ {0}
    /\ OnTicks \subseteq Nat /\ CycleTicks \subseteq Nat /\ Leads \subseteq Nat

VARIABLES
    out,       \* struct digital_out_s and struct pwm_out_s
    move,      \* struct digital_move and struct pwm_move, without the link
    next,      \* the link of each node
    move_free, \* move_free_list
    since      \* when each output was last set, by the times of its updates

pool == <<move, next, move_free>>
outputVars == <<out, pool, since>>

(* move_reset: the nodes in the order of their addresses.                   *)
Linked == [n \in Node |-> IF n = MoveCount THEN NULL ELSE n + 1]

Flag(f, set) == IF set THEN {f} ELSE {}
Default(o) == Flag("ON", o \in DefaultOn)
OutputsInit ==
    /\ out = [o \in Output |->
           [time |-> Off, func |-> "load", flags |-> Default(o), end |-> 0,
            on |-> 0, off |-> 0, cycle |-> 0, first |-> NULL, last |-> NULL]]
    /\ move = [n \in Node |-> [time |-> 0, ticks |-> 0]]
    /\ next = Linked /\ move_free = 1
    /\ since = [o \in Output |-> 0]

Outputtimes == {out[o].time : o \in Output}
(* A command in progress is not held up past the time it is about.          *)
OutputsTick ==
    /\ Tick(Outputtimes \cup (IF task = Idle THEN {} ELSE {move[task.node].time}))
    /\ UNCHANGED <<shutdown, task, outputVars>>

(* digital_out_shutdown, pwm_shutdown and move_reset, after all timers were *)
(* taken off.                                                               *)
OutputsShutDown ==
    /\ shutdown' = TRUE /\ task' = Idle
    /\ out' = [o \in Output |->
           [out[o] EXCEPT !.time = Off, !.flags = Default(o), !.first = NULL,
                          !.func = IF o \in Pwm THEN "load" ELSE @]]
    /\ next' = Linked /\ move_free' = 1
    /\ UNCHANGED <<now, move, since>>

-----------------------------------------------------------------------------
(* The pool.                                                                *)

(* move_queue_push of n: the output as x, first and last as they become.    *)
(* Mutant: the node keeps the link it had when it was free.                 *)
PushedUnlinked(x, n) ==
    /\ next' = IF x.first # NULL THEN [next EXCEPT ![x.last] = n] ELSE next
    /\ UNCHANGED move_free
Pushed(x, n) ==
    /\ next' = IF x.first # NULL
               THEN [next EXCEPT ![n] = NULL, ![x.last] = n]
               ELSE [next EXCEPT ![n] = NULL]
    /\ UNCHANGED move_free
WithLast(x, n) ==
    [x EXCEPT !.first = IF @ = NULL THEN n ELSE @, !.last = n]

(* move_queue_pop and move_free of the first node, by a callback that       *)
(* leaves the output as x otherwise.                                        *)
PopTo(o, x) ==
    LET n == out[o].first
    IN /\ out' = [out EXCEPT ![o] = [x EXCEPT !.first = next[n]]]
       /\ next' = [next EXCEPT ![n] = move_free] /\ move_free' = n
       /\ since' = [since EXCEPT ![o] = out[o].time]
       /\ UNCHANGED <<now, shutdown, task, move>>

-----------------------------------------------------------------------------
(* The callbacks.                                                           *)
DigitalToggleEvent(o) ==
    LET x == out[o]
        on == "ON" \notin x.flags
        later == x.time + (IF on THEN x.on ELSE x.off)
        ends == "CHECK_END" \in x.flags /\ later >= x.end
    IN /\ x.func = "toggle"
       /\ out' = [out EXCEPT ![o] =
              [x EXCEPT !.flags = IF on THEN @ \cup {"ON"} ELSE @ \ {"ON"},
                        !.func = IF ends THEN "load" ELSE @,
                        !.time = IF ends THEN x.end ELSE later]]
       /\ UNCHANGED <<now, shutdown, task, pool, since>>

(* What is common to digital_load_event and pwm_event: what is first and    *)
(* second in the queue, and whether the setting must not last.              *)
Ticks(o) == move[out[o].first].ticks
Second(o) == next[out[o].first]
Toggles(o) == o \in Digital /\ Ticks(o) # 0 /\ Ticks(o) < out[o].cycle
Limited(o) ==
    o \in Guarded /\ (Toggles(o) \/ (Ticks(o) # 0) # (o \in DefaultOn))
Limit(o) == out[o].time + MAX_DURATION
ExceedsLimit(o) ==
    Second(o) # NULL /\ Limited(o) /\ Limit(o) < move[Second(o)].time

DigitalLoadEvent(o) ==
    LET x == out[o]
        checks == Limited(o) \/ Second(o) # NULL
        end == IF Second(o) # NULL THEN move[Second(o)].time
               ELSE IF Limited(o) THEN Limit(o) ELSE 0
        pulse == x.time + Ticks(o)
        flags == Flag("ON", Ticks(o) # 0) \cup Flag("TOGGLING", Toggles(o))
                 \cup Flag("CHECK_END", checks)
        pulses == Toggles(o) /\ ~(checks /\ pulse >= end)
    IN /\ o \in Digital /\ x.func = "load"
       /\ x.first # NULL /\ ~ExceedsLimit(o)
       /\ PopTo(o, [x EXCEPT
              !.flags = flags, !.end = end,
              !.func = IF pulses THEN "toggle" ELSE @,
              !.on = IF pulses THEN Ticks(o) ELSE @,
              !.off = IF pulses THEN x.cycle - Ticks(o) ELSE @,
              !.time = IF pulses THEN pulse ELSE IF checks THEN end ELSE Off])

PwmEvent(o) ==
    /\ o \in Pwm /\ out[o].func = "load"
    /\ ~ExceedsLimit(o)
    /\ PopTo(o, [out[o] EXCEPT
           !.flags = Flag("ON", Ticks(o) # 0),
           !.func = IF Second(o) = NULL /\ Limited(o) THEN "end" ELSE @,
           !.time = IF Second(o) # NULL THEN move[Second(o)].time
                    ELSE IF Limited(o) THEN Limit(o) ELSE Off])

(* "Missed scheduling of next ... event", also by pwm_end_event, and        *)
(* "Scheduled ... event will exceed max_duration".                          *)
EventFails(o) ==
    /\ \/ out[o].func = "end"
       \/ out[o].func = "load" /\ o \in Digital /\ out[o].first = NULL
       \/ out[o].func = "load" /\ out[o].first # NULL /\ ExceedsLimit(o)
    /\ OutputsShutDown

OutputEvent(o) ==
    /\ Runs(out[o].time, Outputtimes)
    /\ \/ DigitalToggleEvent(o) \/ DigitalLoadEvent(o) \/ PwmEvent(o)
       \/ EventFails(o)

-----------------------------------------------------------------------------
(* The commands.                                                            *)

(* Up to the masked section: move_alloc, or "Move queue overflow".          *)
LastTime(o) == IF out[o].first # NULL THEN move[out[o].last].time ELSE since[o]
QueueOutput(o, time, ticks) ==
    /\ time > LastTime(o)
    /\ \/ /\ move_free # NULL
          /\ move' = [move EXCEPT ![move_free] = [time |-> time, ticks |-> ticks]]
          /\ move_free' = next[move_free]
          /\ task' = [at |-> "push", oid |-> o, node |-> move_free]
          /\ UNCHANGED <<now, shutdown, out, next, since>>
       \/ move_free = NULL /\ OutputsShutDown

(* The masked section of command_queue_digital_out.                         *)
(* Mutant: an update is taken however late it is.                           *)
NeverTooLate(x, time) == FALSE
TooLate(x, time) == "CHECK_END" \in x.flags /\ x.end < time
(* Mutant: a pin that toggles always waits for its next edge.               *)
WaitsAlways(x, time) == "TOGGLING" \in x.flags
WaitsForToggle(x, time) == "TOGGLING" \in x.flags /\ x.time < time
PushDigital(o, n) ==
    LET x == out[o]
        time == move[n].time
        checked == [x EXCEPT !.end = time, !.flags = @ \cup {"CHECK_END"}]
        y == IF x.first # NULL THEN x
             ELSE IF WaitsForToggle(x, time) THEN checked
             ELSE [checked EXCEPT !.time = time, !.func = "load"]
        others == {out[p].time : p \in Output \ {o}}
    IN /\ task = [at |-> "push", oid |-> o, node |-> n] /\ o \in Digital
       /\ \/ /\ x.first = NULL => ~TooLate(x, time)
             /\ out' = [out EXCEPT ![o] = WithLast(y, n)]
             /\ Pushed(x, n)
             /\ task' = Idle
             /\ UNCHANGED <<now, shutdown, move, since>>
          \/ /\ x.first = NULL
             /\ \/ TooLate(x, time)
                \/ ~WaitsForToggle(x, time) /\ MayBeTooClose(time, others)
             /\ OutputsShutDown

(* command_queue_pwm_out masks the push only.                               *)
PushPwm(o, n) ==
    /\ task = [at |-> "push", oid |-> o, node |-> n] /\ o \in Pwm
    /\ out' = [out EXCEPT ![o] = WithLast(@, n)]
    /\ Pushed(out[o], n)
    /\ task' = IF out[o].first # NULL THEN Idle ELSE [task EXCEPT !.at = "start"]
    /\ UNCHANGED <<now, shutdown, move, since>>

StartPwm(o, n) ==
    LET x == out[o]
        time == move[n].time
        others == {out[p].time : p \in Output \ {o}}
        tooLate == x.func = "end" /\ x.time < time
    IN /\ task = [at |-> "start", oid |-> o, node |-> n]
       /\ \/ /\ ~tooLate
             /\ out' = [out EXCEPT ![o] = [x EXCEPT !.func = "load", !.time = time]]
             /\ task' = Idle
             /\ UNCHANGED <<now, shutdown, pool, since>>
          \/ (tooLate \/ MayBeTooClose(time, others)) /\ OutputsShutDown

UpdateDigitalOut(o, value) ==
    LET limited == o \in Guarded /\ value # (o \in DefaultOn)
        end == now + MAX_DURATION
        on == Flag("ON", value)
    IN \/ out[o].first # NULL /\ OutputsShutDown
       \/ /\ out[o].first = NULL
          /\ out' = [out EXCEPT ![o] =
                 IF limited
                 THEN [@ EXCEPT !.time = end, !.end = end, !.func = "load",
                                !.flags = on \cup {"CHECK_END"}]
                 ELSE [@ EXCEPT !.time = Off, !.flags = on]]
          /\ since' = [since EXCEPT ![o] = now]
          /\ UNCHANGED <<now, shutdown, task, pool>>

SetDigitalOutPwmCycle(o, ticks) ==
    \/ out[o].first # NULL /\ OutputsShutDown
    \/ /\ out[o].first = NULL
       /\ out' = [out EXCEPT ![o].cycle = ticks]
       /\ UNCHANGED <<now, shutdown, task, pool, since>>

OutputsNext ==
    \/ /\ Command /\ UNCHANGED wake
       /\ \/ \E o \in Output, lead \in Leads, ticks \in OnTicks :
                 QueueOutput(o, now + lead, ticks)
          \/ \E o \in Digital, value \in BOOLEAN : UpdateDigitalOut(o, value)
          \/ \E o \in Digital, ticks \in CycleTicks : SetDigitalOutPwmCycle(o, ticks)
    \/ ClearShutdown /\ UNCHANGED <<now, task, wake, outputVars>>
    \/ /\ UNCHANGED <<commands, wake>>
       /\ \/ OutputsTick
          \/ \E o \in Output : OutputEvent(o)
          \/ \E o \in Output, n \in Node :
                 PushDigital(o, n) \/ PushPwm(o, n) \/ StartPwm(o, n)

OutputsAll == <<now, shutdown, task, wake, commands, outputVars>>
OutputsSpec == BoardInit /\ OutputsInit /\ [][OutputsNext]_OutputsAll

-----------------------------------------------------------------------------
(* From n on, over at most k links, the nodes of a list.                    *)
Chain[k \in 0 .. MoveCount] ==
    [n \in 0 .. MoveCount |->
        IF k = 0 \/ n = NULL THEN <<>> ELSE <<n>> \o Chain[k - 1][next[n]]]
Nodes(n) == Chain[MoveCount][n]

(* Through pushes cut by interrupts, pops and shutdowns with a node in a    *)
(* command's hand, the links make first-in first-out queues and one list of *)
(* free nodes, and every node is in one place.                              *)
Moves == INSTANCE MoveQueue WITH
    Queue <- Output, All <- [i \in Node |-> i], None <- NULL,
    queue <- [o \in Output |-> Nodes(out[o].first)],
    free <- Nodes(move_free),
    held <- IF task.at = "push" THEN task.node ELSE NULL
ImplementsQueues == Moves!Spec

(* An output with a max_duration is away from its default, or toggles, no   *)
(* longer than that after it was last set, but for the lateness of the      *)
(* interrupt, whatever is queued for it and whenever.                       *)
Active(o) == "TOGGLING" \in out[o].flags \/ (out[o].flags \cap {"ON"}) # Default(o)
KeepsMaxDuration ==
    \A o \in Guarded : Active(o) => now <= since[o] + MAX_DURATION + MaxLate

(* An update takes effect at its time: not before, late by no more than the *)
(* interrupt is, and with its own time as the base of the next.             *)
UpdatesOnTime ==
    [][\A o \in Output :
           out[o].first # NULL /\ out'[o].first # out[o].first /\ ~shutdown'
               => LET time == move[out[o].first].time
                  IN since'[o] = time /\ time <= now /\ now <= time + MaxLate]_outputVars
===============================================================================
