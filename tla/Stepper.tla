------------------------------- MODULE Stepper -------------------------------
(***************************************************************************)
(* One stepper of src/stepper.c as a value, and what its timer event, the  *)
(* load of a move and a stop make of it.  The build has no inline hack, so *)
(* every stepper runs stepper_event_full; one configured to step on both   *)
(* edges (SF_SINGLE_SCHED) has one event for a step, any other has two.    *)
(*                                                                         *)
(* `position` is kept as in the code, negative while the direction is      *)
(* reversed, with all the steps of the current move already in it.         *)
(***************************************************************************)
EXTENDS Integers, Sequences

CONSTANTS
    Stepper,      \* the oids configured as steppers
    BothEdges,    \* those with SF_SINGLE_SCHED
    PULSE,        \* step_pulse_ticks
    BIAS,         \* POSITION_BIAS
    Off           \* the waketime of a timer that is not on the list

ASSUME StepperAssumption ==
    /\ BothEdges \subseteq Stepper
    /\ PULSE \in Nat \ {0} /\ BIAS \in Nat \ {0} /\ Off \notin Int

Move == [interval : Int, count : Nat \ {0}, add : Int, dir : BOOLEAN]

StepperState ==
    [time : Int \cup {Off}, interval : Int, add : Int, count : Nat,
     next_step_time : Int, position : Int, mq : Seq(Move),
     last_dir : BOOLEAN, next_dir : BOOLEAN, need_reset : BOOLEAN,
     step_pin : BOOLEAN, dir_pin : BOOLEAN]

Configured ==
    [time |-> Off, interval |-> 0, add |-> 0, count |-> 0,
     next_step_time |-> 0, position |-> -BIAS, mq |-> <<>>,
     last_dir |-> FALSE, next_dir |-> FALSE, need_reset |-> FALSE,
     step_pin |-> FALSE, dir_pin |-> FALSE]

Later(a, b) == IF a >= b THEN a ELSE b

(* stepper_get_position.                                                    *)
Position(s, st) ==
    LET left == IF s \in BothEdges THEN st.count ELSE st.count \div 2
        p == st.position - left
    IN IF p < 0 THEN -p ELSE p

(* stepper_stop, back in the direction of dir_pin = 0, which counts down.   *)
(* Mutant: the position is kept as one that counts up.                      *)
StoppedCountsUp(s, st) ==
    [st EXCEPT !.time = Off, !.next_step_time = 0, !.count = 0,
               !.position = Position(s, st), !.mq = <<>>,
               !.last_dir = FALSE, !.next_dir = FALSE, !.need_reset = TRUE,
               !.dir_pin = FALSE,
               !.step_pin = IF s \in BothEdges THEN @ ELSE FALSE]
Stopped(s, st) ==
    [st EXCEPT !.time = Off, !.next_step_time = 0, !.count = 0,
               !.position = -Position(s, st), !.mq = <<>>,
               !.last_dir = FALSE, !.next_dir = FALSE, !.need_reset = TRUE,
               !.dir_pin = FALSE,
               !.step_pin = IF s \in BothEdges THEN @ ELSE FALSE]

(* What stepper_load_next takes from the first move of a non-empty queue.   *)
Popped(s, st) ==
    LET m == Head(st.mq)
    IN [st EXCEPT !.mq = Tail(@), !.add = m.add,
                  !.interval = m.interval + m.add,
                  !.next_step_time = @ + m.interval,
                  !.time = st.next_step_time + m.interval,
                  !.position = (IF m.dir THEN -@ ELSE @) + m.count,
                  !.count = IF s \in BothEdges THEN m.count ELSE 2 * m.count]

(* The load of an idle stepper: the direction changes at once.              *)
LoadedIdle(s, st) ==
    [Popped(s, st) EXCEPT !.dir_pin = IF Head(st.mq).dir THEN ~@ ELSE @]

(* The load at the end of a move, when the pins may change again at `min`:  *)
(* a change of direction waits for it (two-edge steppers did at the unstep) *)
(* and is kept for PULSE before the next step.                              *)
TurnTime(s, st, cur, min) == IF s \in BothEdges THEN Later(cur, min) ELSE cur
(* Mutant: the first step of a move may follow a change of direction.       *)
LoadedNoSetup(s, st, cur, min) ==
    LET next == Popped(s, st)
    IN [next EXCEPT !.time = Later(@, min),
                    !.dir_pin = IF Head(st.mq).dir THEN ~@ ELSE @]
LoadedActive(s, st, cur, min) ==
    LET next == Popped(s, st)
        wake == Later(next.time, min)
    IN IF Head(st.mq).dir
       THEN [next EXCEPT !.dir_pin = ~@,
                         !.time = Later(wake, TurnTime(s, st, cur, min) + PULSE)]
       ELSE [next EXCEPT !.time = wake]

(* stepper_event_full up to the load: the edge itself, ...                  *)
Toggled(st) == [st EXCEPT !.step_pin = ~@]
TakesStep(s, st) == s \in BothEdges \/ ~st.step_pin
(* ... one that begins a pulse, to be ended by the next event, ...          *)
BeginsPulse(s, st) == s \notin BothEdges /\ st.count % 2 = 0
Pulsed(st, min) == [Toggled(st) EXCEPT !.count = @ - 1, !.time = min]
(* ... and one between two steps of a move.                                 *)
MoreSteps(st, min) ==
    [Toggled(st) EXCEPT
        !.count = @ - 1, !.next_step_time = @ + st.interval,
        !.interval = @ + st.add,
        !.time = Later(st.next_step_time + st.interval, min)]
=============================================================================
