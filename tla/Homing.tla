-------------------------------- MODULE Homing --------------------------------
(***************************************************************************)
(* A homing move on the ESP32: src/trsync.c, src/endstop.c and             *)
(* src/stepper.c together, under the commands of a host that may send them *)
(* in any order and late.                                                  *)
(*                                                                         *)
(* Timer callbacks run with interrupts disabled and are one step each;     *)
(* commands and the trsync task run in the task loop, a step for each      *)
(* section an interrupt cannot enter.  Sched gives what is used of the     *)
(* timers: a callback runs in the order of waketimes, not before its own.  *)
(* Times do not wrap here.  The state begins after the configuration.      *)
(***************************************************************************)
EXTENDS Stepper, FiniteSets, FiniteSetsExt

CONSTANTS
    Trsync, Endstop, \* the oids configured as such
    Null,            \* the null pointer
    PAST,            \* timer_from_us(1000)
    MoveCount,       \* move_count: the size of the pool of moves
    Moves,           \* what the host queues, as [interval, count, add]
    Clocks,          \* how far from now the clocks are that the host sends
    ReportTicks,     \* the report_ticks it sends
    SampleCounts,    \* the sample_counts it sends
    SAMPLE, REST,    \* its sample_ticks and rest_ticks
    EXPIRED, HIT, ASKED, \* the reasons it has given for the three triggers
    MaxCommands,     \* bound: the commands the host sends
    MaxTime,         \* bound: the clock stops here
    MaxLate          \* bound: how late the timer interrupt may be

Reason == {EXPIRED, HIT, ASKED}

ASSUME HomingAssumption ==
    /\ IsFiniteSet(Stepper) /\ Null \notin Trsync
    /\ PAST \in Nat /\ MoveCount \in Nat
    /\ Moves \subseteq [interval : Int, count : Nat \ {0}, add : Int]
    /\ Clocks \subseteq Int
    /\ ReportTicks \subseteq Nat /\ SampleCounts \subseteq Nat
    /\ SAMPLE \in Nat /\ REST \in Nat
    /\ Reason \subseteq Nat \ {0}
    /\ MaxTime \in Nat /\ MaxLate \in Nat /\ MaxCommands \in Nat

(* A position is counted from -POSITION_BIAS, so that its sign can say      *)
(* which way it counts: what the host queues must not take a stepper as far *)
(* back as that.                                                            *)
ASSUME PositionsFit ==
    \E longest \in 0..BIAS :
        /\ \A m \in Moves : m.count <= longest
        /\ MaxCommands * longest <= BIAS

VARIABLES
    now,      \* timer_read_time
    stepper,  \* struct stepper, with the pins it drives
    active,   \* the steppers whose stop_signal.func is set
    trsync,   \* struct trsync
    endstop,  \* struct endstop
    wake,     \* trsync_wake
    task,     \* where the task loop is in a command or in trsync_task
    shutdown, \* sched_is_shutdown
    motor,    \* how far each motor has turned
    hold,     \* until when the pins of each stepper may not change again
    commands, \* what MaxCommands counts
    streak,   \* how many samples in a row matched at each endstop
    told      \* whether the host has been told that a trigger fired, and why

motors == <<stepper, motor, hold>>
vars == <<now, motors, active, trsync, endstop, wake, task, shutdown, commands,
          streak, told>>

Idle == [at |-> "idle"]
QueueingAt(s, m) == [at |-> "queue_step", oid |-> s, move |-> m]
Scanning(T) == [at |-> "trsync_task", left |-> T]

Init ==
    /\ now = 0
    /\ stepper = [s \in Stepper |-> Configured]
    /\ active = {}
    /\ trsync = [t \in Trsync |->
           [can |-> FALSE, report |-> FALSE, reason |-> 0, expire_reason |-> 0,
            signals |-> {}, report_time |-> Off, report_ticks |-> 0,
            expire_time |-> Off]]
    /\ endstop = [e \in Endstop |->
           [time |-> Off, func |-> "endstop_event", nextwake |-> 0,
            sample_count |-> 0, trigger_count |-> 0, ts |-> Null]]
    /\ wake = FALSE /\ task = Idle /\ shutdown = FALSE
    /\ commands = 0
    /\ motor = [s \in Stepper |-> 0] /\ hold = [s \in Stepper |-> 0]
    /\ streak = [e \in Endstop |-> 0]
    /\ told = [t \in Trsync |-> FALSE]

-----------------------------------------------------------------------------
(* The timers, and the shutdown.                                            *)
Waketimes ==
    {stepper[s].time : s \in Stepper} \cup {endstop[e].time : e \in Endstop}
    \cup {trsync[t].report_time : t \in Trsync}
    \cup {trsync[t].expire_time : t \in Trsync}
Runs(w) ==
    w # Off /\ w <= now /\ \A v \in Waketimes : v # Off => w <= v

Tick ==
    /\ now < MaxTime
    /\ \A v \in Waketimes : v # Off => now - v < MaxLate
    /\ now' = now + 1
    /\ UNCHANGED <<motors, active, trsync, endstop, wake, task, shutdown,
                   streak, told>>

(* trsync_clear.  Mutant: the signals stay registered.                      *)
ClearedTimers(ts) ==
    [ts EXCEPT !.can = FALSE, !.report = FALSE, !.reason = 0,
               !.expire_reason = 0, !.report_time = Off, !.expire_time = Off]
Cleared(ts) ==
    [ts EXCEPT !.can = FALSE, !.report = FALSE, !.reason = 0,
               !.expire_reason = 0, !.report_time = Off, !.expire_time = Off,
               !.signals = {}]

(* shutdown() with the steppers at st and the endstops at es: no timer is   *)
(* left, the handlers of stepper.c (which forget the queues: move_reset has *)
(* all moves) and trsync.c run, and the task loop starts anew.              *)
ShutDown(st, es) ==
    /\ shutdown' = TRUE
    /\ stepper' = [s \in Stepper |-> Stopped(s, [st[s] EXCEPT !.mq = <<>>])]
    /\ hold' = [s \in Stepper |-> 0]
    /\ endstop' = [e \in Endstop |-> [es[e] EXCEPT !.time = Off]]
    /\ trsync' = [t \in Trsync |-> Cleared(trsync[t])]
    /\ active' = active \ UNION {trsync[t].signals : t \in Trsync}
    /\ task' = Idle
    /\ told' = [t \in Trsync |-> FALSE]
    /\ UNCHANGED <<now, wake, streak>>
Fail == ShutDown(stepper, endstop) /\ UNCHANGED motor

(* sched_add_timer: a time that has passed shuts down when no other timer,  *)
(* of this module or of another, comes before it.                           *)
MayBeTooClose(w) == w < now /\ \A v \in Waketimes : v # Off => w < v

-----------------------------------------------------------------------------
(* trsync_do_trigger: on t as it is in ts, with what its signals stop.      *)
(* Mutant: the report is left to the report timer.                          *)
TriggeredSilently(ts, r) ==
    IF ts.can THEN [ts EXCEPT !.reason = r, !.can = FALSE, !.signals = {}]
    ELSE ts
Triggered(ts, r) ==
    IF ts.can
    THEN [ts EXCEPT !.reason = r, !.can = FALSE, !.report = TRUE, !.signals = {}]
    ELSE ts
Signalled(ts) == IF ts.can THEN ts.signals ELSE {}
Stop(S) ==
    /\ stepper' = [s \in Stepper |->
                      IF s \in S THEN Stopped(s, stepper[s]) ELSE stepper[s]]
    /\ hold' = [s \in Stepper |-> IF s \in S THEN 0 ELSE hold[s]]
    /\ active' = active \ S
    /\ UNCHANGED motor

TrsyncExpireEvent(t) ==
    LET ts == [trsync[t] EXCEPT !.expire_time = Off]
    IN /\ Runs(trsync[t].expire_time)
       /\ trsync' = [trsync EXCEPT ![t] = Triggered(ts, ts.expire_reason)]
       /\ Stop(Signalled(ts))
       /\ wake' = (wake \/ ts.can)
       /\ UNCHANGED <<now, endstop, task, shutdown, streak, told>>

TrsyncReportEvent(t) ==
    /\ Runs(trsync[t].report_time)
    /\ trsync' = [trsync EXCEPT ![t].report = TRUE,
                                ![t].report_time = @ + trsync[t].report_ticks]
    /\ wake' = TRUE
    /\ UNCHANGED <<now, motors, active, endstop, task, shutdown, streak, told>>

(* A sample that does not match, from either callback; oversampling starts  *)
(* over at the time endstop_event noted.                                    *)
(* Mutant: the samples counted so far are kept.                             *)
MismatchKept(e) == [e EXCEPT !.func = "endstop_event", !.time = e.nextwake]
Mismatch(e) ==
    [e EXCEPT !.func = "endstop_event", !.time = e.nextwake,
              !.trigger_count = e.sample_count]

(* endstop_oversample_event for an endstop at x: the pin is read (once      *)
(* more, when endstop_event calls it).                                      *)
Oversample(e, x) ==
    \/ /\ endstop' = [endstop EXCEPT ![e] = Mismatch(x)]
       /\ streak' = [streak EXCEPT ![e] = 0]
       /\ UNCHANGED <<motors, active, trsync, wake>>
    \/ /\ x.trigger_count # 1
       /\ endstop' = [endstop EXCEPT ![e] =
              [x EXCEPT !.trigger_count = @ - 1, !.time = @ + SAMPLE]]
       /\ streak' = [streak EXCEPT ![e] = @ + 1]
       /\ UNCHANGED <<motors, active, trsync, wake>>
    \/ /\ x.trigger_count = 1
       /\ endstop' = [endstop EXCEPT ![e] = [x EXCEPT !.time = Off]]
       /\ streak' = [streak EXCEPT ![e] = @ + 1]
       /\ trsync' = [trsync EXCEPT ![x.ts] = Triggered(@, HIT)]
       /\ Stop(Signalled(trsync[x.ts]))
       /\ wake' = (wake \/ trsync[x.ts].can)

EndstopMiss(e) ==
    /\ endstop[e].func = "endstop_event"
    /\ endstop' = [endstop EXCEPT ![e].time = @ + REST]
    /\ UNCHANGED <<motors, active, trsync, wake, streak>>

EndstopEvent(e) ==
    /\ Runs(endstop[e].time)
    /\ UNCHANGED <<now, task, shutdown, told>>
    /\ \/ EndstopMiss(e)
       \/ /\ endstop[e].func = "endstop_event"
          /\ Oversample(e, [endstop[e] EXCEPT !.func = "endstop_oversample_event",
                                              !.nextwake = endstop[e].time + REST])
       \/ /\ endstop[e].func = "endstop_oversample_event"
          /\ Oversample(e, endstop[e])

-----------------------------------------------------------------------------
(* stepper_event_full, by where its branches end.                           *)
Turned(s) ==
    motor' = IF TakesStep(s, stepper[s])
             THEN [motor EXCEPT ![s] = @ + (IF stepper[s].dir_pin THEN 1 ELSE -1)]
             ELSE motor
Becomes(s, st) == stepper' = [stepper EXCEPT ![s] = st]
KeepPins(s) == hold' = [hold EXCEPT ![s] = now' + PULSE]

StepperPulse(s) ==
    /\ BeginsPulse(s, stepper[s])
    /\ Becomes(s, Pulsed(stepper[s], now + PULSE))
    /\ UNCHANGED now /\ KeepPins(s)

StepperNext(s) ==
    /\ ~BeginsPulse(s, stepper[s]) /\ stepper[s].count > 1
    /\ Becomes(s, MoreSteps(stepper[s], now + PULSE))
    /\ UNCHANGED now /\ KeepPins(s)

AtEnd(s) == ~BeginsPulse(s, stepper[s]) /\ stepper[s].count = 1
StepperDone(s) ==
    /\ AtEnd(s) /\ stepper[s].mq = <<>>
    /\ Becomes(s, [Toggled(stepper[s]) EXCEPT !.count = 0, !.time = Off])
    /\ UNCHANGED now /\ KeepPins(s)

(* "Stepper too far in past"                                                *)
TooFarInPast(s) ==
    Popped(s, stepper[s]).next_step_time - (now + PULSE) < -PAST

(* The load may wait for the pin: time passes in the interrupt.             *)
StepperLoad(s) ==
    /\ AtEnd(s) /\ stepper[s].mq # <<>> /\ ~TooFarInPast(s)
    /\ Becomes(s, LoadedActive(s, Toggled(stepper[s]), now, now + PULSE))
    /\ now' = IF Head(stepper[s].mq).dir
              THEN TurnTime(s, stepper[s], now, now + PULSE) ELSE now
    /\ KeepPins(s)

StepperFails(s) ==
    /\ AtEnd(s) /\ stepper[s].mq # <<>> /\ TooFarInPast(s)
    /\ ShutDown([stepper EXCEPT ![s] = Popped(s, Toggled(stepper[s]))], endstop)

StepperEvent(s) ==
    /\ Runs(stepper[s].time)
    /\ Turned(s)
    /\ \/ /\ StepperPulse(s) \/ StepperNext(s) \/ StepperDone(s) \/ StepperLoad(s)
          /\ UNCHANGED <<active, trsync, endstop, wake, task, shutdown, streak,
                         told>>
       \/ StepperFails(s)

-----------------------------------------------------------------------------
(* Commands of stepper.c.                                                   *)
Accepts == task = Idle /\ ~shutdown
Soon == {now + d : d \in Clocks}

(* The moves of the pool that are neither queued nor in hand.               *)
Free ==
    MoveCount - MapThenSumSet(LAMBDA s : Len(stepper[s].mq), Stepper)
              - (IF task.at = "queue_step" THEN 1 ELSE 0)

(* command_queue_step up to the masked section: move_alloc, or "Move queue  *)
(* overflow".                                                               *)
QueueStep(s, m) ==
    /\ Accepts
    /\ \/ /\ Free > 0 /\ task' = QueueingAt(s, m)
          /\ UNCHANGED <<now, motors, active, trsync, endstop, wake, shutdown,
                         streak, told>>
       \/ Free <= 0 /\ Fail

(* The masked section: the move is queued, dropped after a stop, or starts  *)
(* an idle stepper, if its time has not passed.                             *)
Turns(st) == st.last_dir # st.next_dir
WithMove(st, m) ==
    [st EXCEPT !.last_dir = st.next_dir,
               !.mq = Append(@, [interval |-> m.interval, count |-> m.count,
                                 add |-> m.add, dir |-> Turns(st)])]
(* Mutant: a stopped stepper takes moves again at once.                     *)
DropsNothing(st) == FALSE
Drops(st) == st.need_reset

QueueStepPush(s, m) ==
    LET st == stepper[s]
        started == LoadedIdle(s, WithMove(st, m))
    IN /\ task = QueueingAt(s, m)
       /\ UNCHANGED motor
       /\ \/ /\ \/ st.count # 0 /\ Becomes(s, WithMove(st, m)) /\ UNCHANGED hold
                \/ st.count = 0 /\ Drops(st) /\ UNCHANGED <<stepper, hold>>
                \/ /\ st.count = 0 /\ ~Drops(st)
                   /\ Becomes(s, started) /\ hold' = [hold EXCEPT ![s] = 0]
             /\ task' = Idle
             /\ UNCHANGED <<now, active, trsync, endstop, wake, shutdown, streak,
                            told>>
          \/ /\ st.count = 0 /\ ~Drops(st) /\ MayBeTooClose(started.time)
             /\ ShutDown([stepper EXCEPT ![s] = [started EXCEPT !.time = Off]],
                         endstop)

SetNextStepDir(s, dir) ==
    /\ Accepts
    /\ stepper' = [stepper EXCEPT ![s].next_dir = dir]
    /\ UNCHANGED <<now, motor, hold, active, trsync, endstop, wake, task,
                   shutdown, streak, told>>

ResetStepClock(s, clock) ==
    /\ Accepts
    /\ \/ stepper[s].count # 0 /\ Fail
       \/ /\ stepper[s].count = 0
          /\ stepper' = [stepper EXCEPT ![s].next_step_time = clock,
                                        ![s].need_reset = FALSE]
          /\ UNCHANGED <<now, motor, hold, active, trsync, endstop, wake, task,
                         shutdown, streak, told>>

StopOnTrigger(s, t) ==
    /\ Accepts
    /\ \/ s \in active /\ Fail
       \/ /\ s \notin active
          /\ active' = active \cup {s}
          /\ trsync' = [trsync EXCEPT ![t].signals = @ \cup {s}]
          /\ UNCHANGED <<now, motors, endstop, wake, task, shutdown, streak, told>>

-----------------------------------------------------------------------------
(* Commands of trsync.c and endstop.c.                                      *)
TrsyncStart(t, clock, ticks) ==
    LET ts == [Cleared(trsync[t]) EXCEPT
                  !.can = TRUE, !.report_ticks = ticks, !.expire_reason = EXPIRED]
    IN /\ Accepts
       /\ \/ /\ trsync' = [trsync EXCEPT ![t] =
                    [ts EXCEPT !.report_time = IF ticks = 0 THEN Off ELSE clock]]
             /\ active' = active \ trsync[t].signals
             /\ told' = [told EXCEPT ![t] = FALSE]
             /\ UNCHANGED <<now, motors, endstop, wake, task, shutdown, streak>>
          \/ ticks # 0 /\ MayBeTooClose(clock) /\ Fail

TrsyncSetTimeout(t, clock) ==
    /\ Accepts /\ trsync[t].can
    /\ \/ /\ trsync' = [trsync EXCEPT ![t].expire_time = clock]
          /\ UNCHANGED <<now, motors, active, endstop, wake, task, shutdown,
                         streak, told>>
       \/ MayBeTooClose(clock) /\ Fail

(* It reports by itself.                                                    *)
TrsyncTrigger(t) ==
    /\ Accepts
    /\ trsync' = [trsync EXCEPT ![t] =
           [Triggered(trsync[t], ASKED) EXCEPT
               !.can = FALSE, !.report = FALSE,
               !.report_time = Off, !.expire_time = Off]]
    /\ Stop(Signalled(trsync[t]))
    /\ wake' = (wake \/ trsync[t].can)
    /\ told' = [told EXCEPT ![t] = TRUE]
    /\ UNCHANGED <<now, endstop, task, shutdown, streak>>

(* The endstop's timer is deleted first, so that no callback sees the rest  *)
(* of the command half done.                                                *)
EndstopHome(e, clock, samples, t) ==
    LET es == [endstop EXCEPT ![e] =
            IF samples = 0
            THEN [@ EXCEPT !.time = Off, !.sample_count = 0, !.ts = Null]
            ELSE [@ EXCEPT !.time = clock, !.func = "endstop_event",
                           !.sample_count = samples, !.trigger_count = samples,
                           !.ts = t]]
    IN /\ Accepts
       /\ \/ /\ endstop' = es
             /\ streak' = [streak EXCEPT ![e] = 0]
             /\ UNCHANGED <<now, motors, active, trsync, wake, task, shutdown, told>>
          \/ /\ samples # 0 /\ MayBeTooClose(clock)
             /\ ShutDown(stepper, es) /\ UNCHANGED motor

-----------------------------------------------------------------------------
(* trsync_task.                                                             *)
TrsyncTask ==
    /\ task = Idle /\ wake
    /\ wake' = FALSE
    /\ task' = Scanning(Trsync)
    /\ UNCHANGED <<now, motors, active, trsync, endstop, shutdown, streak, told>>

TrsyncReport(t) ==
    /\ task.at = "trsync_task" /\ t \in task.left
    /\ task' = IF task.left = {t} THEN Idle ELSE Scanning(task.left \ {t})
    /\ IF trsync[t].report
       THEN /\ trsync' = [trsync EXCEPT ![t].report = FALSE]
            /\ told' = [told EXCEPT ![t] = @ \/ ~trsync[t].can]
       ELSE UNCHANGED <<trsync, told>>
    /\ UNCHANGED <<now, motors, active, endstop, wake, shutdown, streak>>

(* emergency_stop and clear_shutdown; any shutdown of another part is like  *)
(* the first.                                                               *)
EmergencyStop == Fail
ClearShutdown ==
    /\ shutdown /\ task = Idle
    /\ shutdown' = FALSE
    /\ UNCHANGED <<now, motors, active, trsync, endstop, wake, task, streak, told>>

-----------------------------------------------------------------------------
StepperCommand(s) ==
    \/ \E m \in Moves : QueueStep(s, m)
    \/ \E dir \in BOOLEAN : SetNextStepDir(s, dir)
    \/ \E clock \in Soon : ResetStepClock(s, clock)
    \/ \E t \in Trsync : StopOnTrigger(s, t)

TrsyncCommand(t) ==
    \/ \E clock \in Soon, ticks \in ReportTicks : TrsyncStart(t, clock, ticks)
    \/ \E clock \in Soon : TrsyncSetTimeout(t, clock)
    \/ TrsyncTrigger(t)

EndstopCommand(e) ==
    \E clock \in Soon, samples \in SampleCounts, t \in Trsync :
        EndstopHome(e, clock, samples, t)

TimerEvent ==
    \/ \E t \in Trsync : TrsyncExpireEvent(t) \/ TrsyncReportEvent(t)
    \/ \E e \in Endstop : EndstopEvent(e)
    \/ \E s \in Stepper : StepperEvent(s)

Command ==
    /\ commands < MaxCommands /\ commands' = commands + 1
    /\ \/ \E s \in Stepper : StepperCommand(s)
       \/ \E t \in Trsync : TrsyncCommand(t)
       \/ \E e \in Endstop : EndstopCommand(e)
       \/ EmergencyStop \/ ClearShutdown

Next ==
    \/ Command
    \/ /\ UNCHANGED commands
       /\ \/ Tick \/ TimerEvent \/ TrsyncTask
          \/ \E t \in Trsync : TrsyncReport(t)
          \/ \E s \in Stepper, m \in Moves : QueueStepPush(s, m)

Spec == Init /\ [][Next]_vars

-----------------------------------------------------------------------------
Clock == Int \cup {Off}
TrsyncState ==
    [can : BOOLEAN, report : BOOLEAN, reason : Nat, expire_reason : Nat,
     signals : SUBSET Stepper, report_time : Clock, report_ticks : Nat,
     expire_time : Clock]
EndstopState ==
    [time : Clock, func : {"endstop_event", "endstop_oversample_event"},
     nextwake : Int, sample_count : Nat, trigger_count : Nat,
     ts : Trsync \cup {Null}]

(* The types; among them, that an endstop whose callbacks can run has a     *)
(* trsync and samples to count, and that a registered signal is one whose   *)
(* func is set.                                                             *)
TypeOK ==
    /\ now \in Nat
    /\ stepper \in [Stepper -> StepperState]
    /\ trsync \in [Trsync -> TrsyncState]
    /\ endstop \in [Endstop -> EndstopState]
    /\ \A e \in Endstop : endstop[e].time # Off =>
           /\ endstop[e].ts \in Trsync
           /\ endstop[e].trigger_count > 0 /\ endstop[e].sample_count > 0
    /\ active = UNION {trsync[t].signals : t \in Trsync}
    /\ wake \in BOOLEAN /\ shutdown \in BOOLEAN
    /\ motor \in [Stepper -> Int] /\ hold \in [Stepper -> Int]
    /\ streak \in [Endstop -> Nat] /\ told \in [Trsync -> BOOLEAN]

(* What stepper_get_position answers at any time, in the middle of a move,  *)
(* a pulse or a change of direction, and after a stop, is where the motor   *)
(* is.                                                                      *)
PositionIsMotor == \A s \in Stepper : Position(s, stepper[s]) - BIAS = motor[s]

(* While a stepper goes from step to step and from move to move, its step   *)
(* pin keeps each level for step_pulse_ticks, and its direction is stable   *)
(* for as long before a step and after it ("Must ensure minimum time        *)
(* between step change and dir change"), however late the interrupt is.     *)
PulseTimes ==
    [][\A s \in Stepper : stepper[s].count # 0 /\ ~stepper'[s].need_reset =>
           /\ stepper'[s].step_pin # stepper[s].step_pin => now >= hold[s]
           /\ stepper'[s].dir_pin # stepper[s].dir_pin /\ s \in BothEdges
                  => now' >= now + PULSE]_vars

(* An endstop's sampling ends by itself only after as many samples in a row *)
(* as the host asked for.                                                   *)
SamplesAgree ==
    [][\A e \in Endstop :
           endstop[e].time # Off /\ endstop'[e].time = Off
           /\ endstop'[e].sample_count # 0 /\ ~shutdown'
               => streak'[e] = endstop[e].sample_count]_vars

(* A trigger that fires stops all that follow it at once, keeps its first   *)
(* reason, and nothing stopped moves before reset_step_clock, whatever      *)
(* commands are still under way.                                            *)
Trigger == INSTANCE TriggerSync WITH
    armed <- {t \in Trsync : trsync[t].can},
    reason <- [t \in Trsync |-> trsync[t].reason],
    following <- [t \in Trsync |-> trsync[t].signals],
    halted <- {s \in Stepper : stepper[s].need_reset}
ImplementsTrigger == Trigger!Spec

(* The host is told of a trigger, whoever fired it and wherever the task    *)
(* was: when trsync_task has nothing more to do, no trigger is untold.      *)
NoTriggerUntold ==
    task.at # "trsync_task" /\ ~wake =>
        \A t \in Trsync : trsync[t].reason # 0 => told[t]
=============================================================================
