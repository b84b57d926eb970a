----------------------------- MODULE HomingProofs -----------------------------
(***************************************************************************)
(* Six theorems about Homing, for all steppers, endstops, triggers, moves  *)
(* and times: it implements TriggerSync, the host is told of triggers, the *)
(* state is well formed, a position is where the motor is, the pins keep   *)
(* their times, and the samples are counted.                               *)
(*                                                                         *)
(* What makes the first inductive is Live: a timer that is on belongs to a *)
(* stepper that was not stopped, or was released since.  For the second it *)
(* is Owed: a trigger not yet told of has its report flag up, and the task *)
(* is still to come to it.  The other four rest on HInv, of which the heart*)
(* is Tracked, how the position, the edges left and the pins of a stepper  *)
(* go together at every edge, and Reaches, that the moves sent so far do   *)
(* not pay for a way to where the sign of a position would be misread.     *)
(***************************************************************************)
EXTENDS Homing, SequenceTheorems, TLAPS

(* The shape of the state, as far as the proof looks into it.               *)
StepperFields ==
    {"time", "interval", "add", "count", "next_step_time", "position", "mq",
     "last_dir", "next_dir", "need_reset", "step_pin", "dir_pin"}
TrsyncFields ==
    {"can", "report", "reason", "expire_reason", "signals", "report_time",
     "report_ticks", "expire_time"}
EndstopFields ==
    {"time", "func", "nextwake", "sample_count", "trigger_count", "ts"}

IsStepper(st) == DOMAIN st = StepperFields /\ st.need_reset \in BOOLEAN
IsTrsync(ts) ==
    /\ DOMAIN ts = TrsyncFields
    /\ ts.can \in BOOLEAN /\ ts.signals \subseteq Stepper

Live(st) == st.time # Off => ~st.need_reset
Expires(ts) == ts.can => ts.expire_reason = EXPIRED
Homes(es) == DOMAIN es = EndstopFields /\ (es.time # Off => es.ts \in Trsync)

Steppers(f) ==
    DOMAIN f = Stepper /\ \A s \in Stepper : IsStepper(f[s]) /\ Live(f[s])
Trsyncs(f) ==
    DOMAIN f = Trsync /\ \A t \in Trsync : IsTrsync(f[t]) /\ Expires(f[t])
Endstops(f) == DOMAIN f = Endstop /\ \A e \in Endstop : Homes(f[e])
IInv == Steppers(stepper) /\ Trsyncs(trsync) /\ Endstops(endstop)

-----------------------------------------------------------------------------
(* What the operators of Stepper make of one: only a stop sets need_reset.  *)
Keeps(st, r) == DOMAIN r = StepperFields /\ r.need_reset = st.need_reset

LEMMA StoppedFields ==
    ASSUME NEW s, NEW st, DOMAIN st = StepperFields
    PROVE  LET r == Stopped(s, st)
           IN DOMAIN r = StepperFields /\ r.time = Off /\ r.need_reset = TRUE
  BY Zenon DEF Stopped, StepperFields

LEMMA ToggledFields ==
    ASSUME NEW st, DOMAIN st = StepperFields
    PROVE  Keeps(st, Toggled(st))
  BY Zenon DEF Toggled, Keeps, StepperFields

LEMMA PulsedFields ==
    ASSUME NEW st, DOMAIN st = StepperFields, NEW min
    PROVE  Keeps(st, Pulsed(st, min))
  BY Zenon DEF Pulsed, Toggled, Keeps, StepperFields

LEMMA MoreStepsFields ==
    ASSUME NEW st, DOMAIN st = StepperFields, NEW min
    PROVE  Keeps(st, MoreSteps(st, min))
  BY Zenon DEF MoreSteps, Toggled, Keeps, StepperFields

LEMMA DoneFields ==
    ASSUME NEW st, DOMAIN st = StepperFields
    PROVE  Keeps(st, [Toggled(st) EXCEPT !.count = 0, !.time = Off])
  BY Zenon DEF Toggled, Keeps, StepperFields

LEMMA PoppedFields ==
    ASSUME NEW s, NEW st, DOMAIN st = StepperFields
    PROVE  Keeps(st, Popped(s, st))
  BY Zenon DEF Popped, Keeps, StepperFields

LEMMA LoadedIdleFields ==
    ASSUME NEW s, NEW st, DOMAIN st = StepperFields
    PROVE  Keeps(st, LoadedIdle(s, st))
  BY PoppedFields, Zenon DEF LoadedIdle, Keeps, StepperFields

LEMMA LoadedActiveFields ==
    ASSUME NEW s, NEW st, DOMAIN st = StepperFields, NEW cur, NEW min
    PROVE  Keeps(st, LoadedActive(s, st, cur, min))
  BY PoppedFields, Zenon DEF LoadedActive, Keeps, StepperFields

LEMMA WithMoveFields ==
    ASSUME NEW st, DOMAIN st = StepperFields, NEW m
    PROVE  Keeps(st, WithMove(st, m)) /\ WithMove(st, m).time = st.time
  BY Zenon DEF WithMove, Keeps, StepperFields

(* What the operators of Homing make of a trsync.                           *)
LEMMA ClearedFields ==
    ASSUME NEW ts, DOMAIN ts = TrsyncFields
    PROVE  LET r == Cleared(ts)
           IN /\ DOMAIN r = TrsyncFields /\ r.can = FALSE
              /\ r.reason = 0 /\ r.signals = {}
  BY Zenon DEF Cleared, TrsyncFields

LEMMA TriggeredFields ==
    ASSUME NEW ts, DOMAIN ts = TrsyncFields, ts.can \in BOOLEAN, NEW r
    PROVE  LET u == Triggered(ts, r)
           IN /\ DOMAIN u = TrsyncFields /\ u.can = FALSE
              /\ ts.can => u.reason = r /\ u.signals = {}
              /\ ~ts.can => u.reason = ts.reason /\ u.signals = ts.signals
<1>1. CASE ts.can
  BY <1>1, Zenon DEF Triggered, TrsyncFields
<1>2. CASE ~ts.can
  BY <1>2, Zenon DEF Triggered
<1> QED
  BY <1>1, <1>2

-----------------------------------------------------------------------------
(* The variables of TriggerSync, and its steps in terms of them.            *)
Armed == {t \in Trsync : trsync[t].can}
Why == [t \in Trsync |-> trsync[t].reason]
Following == [t \in Trsync |-> trsync[t].signals]
Halted == {s \in Stepper : stepper[s].need_reset}

SameTrsyncs == Armed' = Armed /\ Why' = Why /\ Following' = Following
SameSteppers == Halted' = Halted /\ motor' = motor
Abstract == [Trigger!Next]_(Trigger!vars)

LEMMA KeptTrsyncs ==
    ASSUME \A t \in Trsync : /\ trsync'[t].can = trsync[t].can
                             /\ trsync'[t].reason = trsync[t].reason
                             /\ trsync'[t].signals = trsync[t].signals
    PROVE  SameTrsyncs
  BY Zenon DEF SameTrsyncs, Armed, Why, Following

LEMMA KeptSteppers ==
    ASSUME \A s \in Stepper : stepper'[s].need_reset = stepper[s].need_reset
    PROVE  Halted' = Halted
  BY Zenon DEF Halted

LEMMA Stutters ==
    ASSUME SameTrsyncs, SameSteppers
    PROVE  Abstract
  BY Zenon DEF Abstract, Trigger!vars, SameTrsyncs, SameSteppers, Armed, Why,
               Following, Halted

LEMMA Starts ==
    ASSUME NEW t \in Trsync, SameSteppers,
           Armed' = Armed \cup {t}, Why' = [Why EXCEPT ![t] = 0],
           Following' = [Following EXCEPT ![t] = {}]
    PROVE  Abstract
  BY Zenon DEF Abstract, Trigger!Next, Trigger!Start, SameSteppers, Armed, Why,
               Following, Halted

LEMMA Follows ==
    ASSUME NEW t \in Trsync, NEW s \in Stepper, SameSteppers,
           Armed' = Armed, Why' = Why,
           Following' = [Following EXCEPT ![t] = @ \cup {s}]
    PROVE  Abstract
  BY Zenon DEF Abstract, Trigger!Next, Trigger!Follow, SameSteppers, Armed, Why,
               Following, Halted

LEMMA Fires ==
    ASSUME NEW t \in Trsync, NEW r \in Reason, t \in Armed, motor' = motor,
           Armed' = Armed \ {t}, Why' = [Why EXCEPT ![t] = r],
           Following' = [Following EXCEPT ![t] = {}],
           Halted' = Halted \cup Following[t]
    PROVE  Abstract
  BY Zenon DEF Abstract, Trigger!Next, Trigger!Fire, Armed, Why, Following,
               Halted

TurnsOnce(s) ==
    s \notin Halted /\ \E d \in {-1, 1} : motor' = [motor EXCEPT ![s] = @ + d]

LEMMA Steps ==
    ASSUME NEW s \in Stepper, TurnsOnce(s), SameTrsyncs, Halted' = Halted
    PROVE  Abstract
  BY Zenon DEF Abstract, Trigger!Next, Trigger!Step, Trigger!Turn, TurnsOnce,
               SameTrsyncs, Armed, Why, Following, Halted

LEMMA Releases ==
    ASSUME NEW s \in Stepper, SameTrsyncs, motor' = motor,
           Halted' = Halted \ {s}
    PROVE  Abstract
  BY Zenon DEF Abstract, Trigger!Next, Trigger!Release, SameTrsyncs, Armed, Why,
               Following, Halted

LEMMA AllStop ==
    ASSUME motor' = motor \/ \E s \in Stepper : TurnsOnce(s),
           Armed' = {}, Why' = [t \in Trsync |-> 0],
           Following' = [t \in Trsync |-> {}], Halted' = Stepper
    PROVE  Abstract
  BY Zenon DEF Abstract, Trigger!Next, Trigger!StopAll, Trigger!Turn, TurnsOnce,
               Armed, Why, Following, Halted

(* One trsync changes.                                                      *)
LEMMA ChangedTrsync ==
    ASSUME NEW t \in Trsync, \A v \in Trsync \ {t} : trsync'[v] = trsync[v]
    PROVE  /\ Why' = [Why EXCEPT ![t] = trsync'[t].reason]
           /\ Following' = [Following EXCEPT ![t] = trsync'[t].signals]
<1>1. Why' = [Why EXCEPT ![t] = trsync'[t].reason]
  BY Zenon DEF Why
<1>2. Following' = [Following EXCEPT ![t] = trsync'[t].signals]
  BY Zenon DEF Following
<1> QED
  BY <1>1, <1>2

-----------------------------------------------------------------------------
(* What several actions have in common.                                     *)
Step == IInv' /\ Abstract

(* A shutdown, whatever the callback or command did before it.              *)
LEMMA ShutDownStep ==
    ASSUME IInv, NEW st, NEW es, ShutDown(st, es),
           \A s \in Stepper : DOMAIN st[s] = StepperFields,
           \A e \in Endstop : DOMAIN es[e] = EndstopFields,
           motor' = motor \/ \E s \in Stepper : TurnsOnce(s)
    PROVE  Step
<1>1. ASSUME NEW s \in Stepper
      PROVE  /\ IsStepper(stepper'[s]) /\ Live(stepper'[s])
             /\ stepper'[s].need_reset = TRUE
  <2>1. DOMAIN [st[s] EXCEPT !.mq = <<>>] = StepperFields
    BY Zenon
  <2> QED
    BY <2>1, StoppedFields, Zenon DEF ShutDown, IsStepper, Live
<1>2. ASSUME NEW t \in Trsync
      PROVE  /\ IsTrsync(trsync'[t]) /\ Expires(trsync'[t])
             /\ trsync'[t].can = FALSE /\ trsync'[t].reason = 0
             /\ trsync'[t].signals = {}
  BY ClearedFields, Zenon DEF ShutDown, IInv, Trsyncs, IsTrsync, Expires
<1>3. ASSUME NEW e \in Endstop
      PROVE  Homes(endstop'[e])
  BY Zenon DEF ShutDown, Homes, EndstopFields
<1>4. DOMAIN stepper' = Stepper /\ DOMAIN trsync' = Trsync /\ DOMAIN endstop' = Endstop
  BY Zenon DEF ShutDown
<1>5. IInv'
  BY <1>1, <1>2, <1>3, <1>4, Zenon DEF IInv, Steppers, Trsyncs, Endstops
<1>6. /\ Armed' = {} /\ Why' = [t \in Trsync |-> 0]
      /\ Following' = [t \in Trsync |-> {}] /\ Halted' = Stepper
  BY <1>1, <1>2, Zenon DEF Armed, Why, Following, Halted
<1> QED
  BY <1>5, <1>6, AllStop, Zenon DEF Step

LEMMA FailStep ==
    ASSUME IInv, Fail
    PROVE  Step
  BY ShutDownStep, ZenonT(60) DEF Fail, IInv, Steppers, Endstops, IsStepper, Homes

(* A trigger that becomes u, fired with reason r if it could.               *)
LEMMA FireStep ==
    ASSUME IInv, NEW t \in Trsync, NEW r \in Reason, NEW u,
           DOMAIN u = TrsyncFields, u.can = FALSE,
           trsync[t].can => u.reason = r /\ u.signals = {},
           ~trsync[t].can => /\ u.reason = trsync[t].reason
                             /\ u.signals = trsync[t].signals,
           trsync' = [trsync EXCEPT ![t] = u],
           Stop(Signalled(trsync[t]))
    PROVE  Steppers(stepper)' /\ Trsyncs(trsync)' /\ Abstract
<1> DEFINE S == Signalled(trsync[t])
<1>1. ASSUME NEW s \in Stepper
      PROVE  /\ IsStepper(stepper'[s]) /\ Live(stepper'[s])
             /\ s \in S => stepper'[s].need_reset = TRUE
             /\ s \notin S => stepper'[s] = stepper[s]
  BY StoppedFields, Zenon DEF Stop, IInv, Steppers, IsStepper, Live
<1>2. trsync'[t] = u /\ \A v \in Trsync \ {t} : trsync'[v] = trsync[v]
  BY Zenon DEF IInv, Trsyncs
<1>3. DOMAIN stepper' = Stepper /\ DOMAIN trsync' = Trsync /\ motor' = motor
  BY Zenon DEF Stop, IInv, Trsyncs
<1>4. IsTrsync(u) /\ Expires(u)
  BY Zenon DEF IInv, Trsyncs, IsTrsync, Expires
<1>5. Steppers(stepper)' /\ Trsyncs(trsync)'
  BY <1>1, <1>2, <1>3, <1>4, Zenon DEF IInv, Steppers, Trsyncs
<1>6. Halted' = Halted \cup S
  BY <1>1, Zenon DEF Halted, IInv, Trsyncs, IsTrsync, Signalled
<1>7. CASE trsync[t].can
  <2>1. S = Following[t] /\ t \in Armed
    BY <1>7, Zenon DEF Signalled, Following, Armed
  <2>2. Armed' = Armed \ {t}
    BY <1>2, Zenon DEF Armed
  <2>3. trsync'[t].reason = r /\ trsync'[t].signals = {}
    BY <1>2, <1>7, Zenon
  <2>4. Why' = [Why EXCEPT ![t] = r] /\ Following' = [Following EXCEPT ![t] = {}]
    BY <1>2, <2>3, ChangedTrsync
  <2> QED
    BY <1>3, <1>5, <1>6, <2>1, <2>2, <2>3, <2>4, Fires, Zenon
<1>8. CASE ~trsync[t].can
  <2>1. trsync[t].can = FALSE
    BY <1>8, Zenon DEF IInv, Trsyncs, IsTrsync
  <2>2. SameTrsyncs
    BY <1>2, <1>8, <2>1, KeptTrsyncs, Zenon
  <2>3. SameSteppers
    BY <1>3, <1>6, <1>8, Zenon DEF SameSteppers, Signalled
  <2> QED
    BY <1>5, <2>2, <2>3, Stutters, Zenon
<1> QED
  BY <1>7, <1>8

(* One stepper becomes st, none of the others changes.                      *)
LEMMA StepperStep ==
    ASSUME IInv, NEW s \in Stepper, NEW st, Becomes(s, st),
           Keeps(stepper[s], st), Live(st), UNCHANGED <<trsync, endstop>>,
           motor' = motor \/ TurnsOnce(s)
    PROVE  Step
<1>1. stepper'[s] = st /\ \A v \in Stepper \ {s} : stepper'[v] = stepper[v]
  BY Zenon DEF Becomes, IInv, Steppers
<1>2. DOMAIN stepper' = Stepper
  BY Zenon DEF Becomes, IInv, Steppers
<1>3. IInv'
  BY <1>1, <1>2, Zenon DEF IInv, Steppers, Trsyncs, Endstops, IsStepper, Keeps
<1>4. Halted' = Halted
  BY <1>1, KeptSteppers, Zenon DEF Keeps
<1>5. SameTrsyncs
  BY KeptTrsyncs, Zenon
<1> QED
  BY <1>3, <1>4, <1>5, Stutters, Steps, Zenon DEF Step, SameSteppers

(* No trsync changes but in its timers, its report flag and its ticks.      *)
LEMMA QuietStep ==
    ASSUME IInv, UNCHANGED <<stepper, motor>>, Endstops(endstop)',
           DOMAIN trsync' = Trsync,
           \A t \in Trsync :
               /\ DOMAIN trsync'[t] = TrsyncFields
               /\ trsync'[t].can = trsync[t].can
               /\ trsync'[t].reason = trsync[t].reason
               /\ trsync'[t].expire_reason = trsync[t].expire_reason
               /\ trsync'[t].signals = trsync[t].signals
    PROVE  Step
<1>1. IInv'
  BY Zenon DEF IInv, Steppers, Trsyncs, IsTrsync, Expires
<1>2. SameTrsyncs
  BY KeptTrsyncs, Zenon
<1>3. SameSteppers
  BY KeptSteppers, Zenon DEF SameSteppers
<1> QED
  BY <1>1, <1>2, <1>3, Stutters, Zenon DEF Step

LEMMA UntouchedStep ==
    ASSUME IInv, UNCHANGED <<stepper, motor, trsync, endstop>>
    PROVE  Step
  BY QuietStep, Zenon DEF IInv, Trsyncs, IsTrsync, Endstops

-----------------------------------------------------------------------------
(* The timer callbacks.                                                     *)
LEMMA TrsyncExpireEventStep ==
    ASSUME IInv, NEW t \in Trsync, TrsyncExpireEvent(t)
    PROVE  Step
<1> DEFINE ts == [trsync[t] EXCEPT !.expire_time = Off]
           u == Triggered(ts, ts.expire_reason)
<1>1. /\ DOMAIN ts = TrsyncFields /\ ts.can \in BOOLEAN
      /\ ts.can = trsync[t].can /\ ts.reason = trsync[t].reason
      /\ ts.signals = trsync[t].signals
      /\ ts.can => ts.expire_reason = EXPIRED
  BY Zenon DEF IInv, Trsyncs, IsTrsync, TrsyncFields, Expires
<1>2. Signalled(ts) = Signalled(trsync[t])
  BY <1>1, Zenon DEF Signalled
<1>3. trsync' = [trsync EXCEPT ![t] = u] /\ Stop(Signalled(trsync[t]))
  BY <1>2, Zenon DEF TrsyncExpireEvent
<1> HIDE DEF ts
<1>4. DOMAIN u = TrsyncFields /\ u.can = FALSE
  BY <1>1, TriggeredFields, ZenonT(60)
<1>5. /\ trsync[t].can => u.reason = EXPIRED /\ u.signals = {}
      /\ ~trsync[t].can => /\ u.reason = trsync[t].reason
                           /\ u.signals = trsync[t].signals
  BY <1>1, TriggeredFields, ZenonT(60)
<1> HIDE DEF u
<1>6. EXPIRED \in Reason
  BY Zenon DEF Reason
<1>7. Steppers(stepper)' /\ Trsyncs(trsync)' /\ Abstract
  BY <1>3, <1>4, <1>5, <1>6, FireStep
<1> QED
  BY <1>7, Zenon DEF Step, IInv, Endstops, TrsyncExpireEvent

LEMMA TrsyncReportEventStep ==
    ASSUME IInv, NEW t \in Trsync, TrsyncReportEvent(t)
    PROVE  Step
<1>1. DOMAIN trsync' = Trsync
  BY Zenon DEF TrsyncReportEvent, IInv, Trsyncs
<1>2. ASSUME NEW v \in Trsync
      PROVE  /\ DOMAIN trsync'[v] = TrsyncFields
             /\ trsync'[v].can = trsync[v].can
             /\ trsync'[v].reason = trsync[v].reason
             /\ trsync'[v].expire_reason = trsync[v].expire_reason
             /\ trsync'[v].signals = trsync[v].signals
  BY Zenon DEF TrsyncReportEvent, IInv, Trsyncs, IsTrsync, TrsyncFields
<1> QED
  BY <1>1, <1>2, QuietStep, Zenon DEF TrsyncReportEvent, motors, IInv, Endstops

LEMMA OversampleStep ==
    ASSUME IInv, NEW e \in Endstop, NEW x, DOMAIN x = EndstopFields,
           x.ts \in Trsync, Oversample(e, x)
    PROVE  Step
<1>1. ASSUME NEW y, endstop' = [endstop EXCEPT ![e] = y], Homes(y)
      PROVE  Endstops(endstop)'
  BY <1>1, Zenon DEF IInv, Endstops
<1>2. CASE /\ endstop' = [endstop EXCEPT ![e] = Mismatch(x)]
           /\ UNCHANGED <<motors, trsync>>
  <2>1. Homes(Mismatch(x))
    BY Zenon DEF Mismatch, Homes, EndstopFields
  <2> QED
    BY <1>1, <1>2, <2>1, QuietStep, Zenon DEF motors, IInv, Trsyncs, IsTrsync
<1>3. CASE /\ endstop' = [endstop EXCEPT ![e] =
                   [x EXCEPT !.trigger_count = @ - 1, !.time = @ + SAMPLE]]
           /\ UNCHANGED <<motors, trsync>>
  <2>1. Homes([x EXCEPT !.trigger_count = @ - 1, !.time = @ + SAMPLE])
    BY Zenon DEF Homes, EndstopFields
  <2> QED
    BY <1>1, <1>3, <2>1, QuietStep, Zenon DEF motors, IInv, Trsyncs, IsTrsync
<1>4. CASE /\ endstop' = [endstop EXCEPT ![e] = [x EXCEPT !.time = Off]]
           /\ trsync' = [trsync EXCEPT ![x.ts] = Triggered(@, HIT)]
           /\ Stop(Signalled(trsync[x.ts]))
  <2> DEFINE t == x.ts
             u == Triggered(trsync[t], HIT)
  <2>1. Homes([x EXCEPT !.time = Off])
    BY Zenon DEF Homes, EndstopFields
  <2>0. DOMAIN trsync[t] = TrsyncFields /\ trsync[t].can \in BOOLEAN
    BY Zenon DEF IInv, Trsyncs, IsTrsync
  <2>2. /\ DOMAIN u = TrsyncFields /\ u.can = FALSE
        /\ trsync[t].can => u.reason = HIT /\ u.signals = {}
        /\ ~trsync[t].can => /\ u.reason = trsync[t].reason
                             /\ u.signals = trsync[t].signals
    BY <2>0, TriggeredFields, Zenon
  <2>3. trsync' = [trsync EXCEPT ![t] = u] /\ HIT \in Reason
    BY <1>4, Zenon DEF Reason
  <2>4. Steppers(stepper)' /\ Trsyncs(trsync)' /\ Abstract
    <3> HIDE DEF u
    <3> QED
      BY <1>4, <2>2, <2>3, FireStep
  <2> QED
    BY <1>1, <1>4, <2>1, <2>4, Zenon DEF Step, IInv
<1> QED
  BY <1>2, <1>3, <1>4, Zenon DEF Oversample

LEMMA EndstopEventStep ==
    ASSUME IInv, NEW e \in Endstop, EndstopEvent(e)
    PROVE  Step
<1>1. DOMAIN endstop[e] = EndstopFields /\ endstop[e].ts \in Trsync
  BY Zenon DEF EndstopEvent, Runs, IInv, Endstops, Homes
<1>2. CASE EndstopMiss(e)
  <2>1. Homes([endstop[e] EXCEPT !.time = @ + REST])
    BY <1>1, Zenon DEF Homes, EndstopFields
  <2>2. endstop' = [endstop EXCEPT ![e] = [endstop[e] EXCEPT !.time = @ + REST]]
    BY <1>2, Zenon DEF EndstopMiss
  <2>3. Endstops(endstop)'
    BY <2>1, <2>2, Zenon DEF IInv, Endstops
  <2> QED
    BY <1>2, <2>3, QuietStep, Zenon DEF EndstopMiss, motors, IInv, Trsyncs, IsTrsync
<1>3. CASE Oversample(e, [endstop[e] EXCEPT !.func = "endstop_oversample_event",
                                            !.nextwake = endstop[e].time + REST])
  <2> DEFINE x == [endstop[e] EXCEPT !.func = "endstop_oversample_event",
                                     !.nextwake = endstop[e].time + REST]
  <2>1. DOMAIN x = EndstopFields /\ x.ts \in Trsync
    BY <1>1, Zenon DEF EndstopFields
  <2> HIDE DEF x
  <2> QED
    BY <1>3, <2>1, OversampleStep, Zenon DEF x
<1>4. CASE Oversample(e, endstop[e])
  BY <1>1, <1>4, OversampleStep, Zenon
<1> QED
  BY <1>2, <1>3, <1>4, Zenon DEF EndstopEvent

(* The stepper's event: it turns the motor of a live stepper at most once.  *)
LEMMA StepperEventStep ==
    ASSUME IInv, NEW s \in Stepper, StepperEvent(s)
    PROVE  Step
<1> DEFINE st == stepper[s]
<1>1. DOMAIN st = StepperFields /\ ~st.need_reset
  BY Zenon DEF StepperEvent, Runs, IInv, Steppers, IsStepper, Live
<1>2. motor' = motor \/ TurnsOnce(s)
  <2>1. s \notin Halted
    BY <1>1, Zenon DEF Halted
  <2>2. motor' = motor \/ motor' = [motor EXCEPT ![s] = @ + 1]
                       \/ motor' = [motor EXCEPT ![s] = @ + -1]
    BY Zenon DEF StepperEvent, Turned
  <2> QED
    BY <2>1, <2>2, Zenon DEF TurnsOnce
<1>3. ASSUME NEW r, Becomes(s, r), Keeps(st, r), UNCHANGED <<trsync, endstop>>
      PROVE  Step
  <2>1. Live(r)
    BY <1>1, <1>3, Zenon DEF Live, Keeps
  <2> QED
    BY <1>2, <1>3, <2>1, StepperStep
<1>4. CASE StepperPulse(s) /\ UNCHANGED <<trsync, endstop>>
  BY <1>1, <1>3, <1>4, PulsedFields, Zenon DEF StepperPulse
<1>5. CASE StepperNext(s) /\ UNCHANGED <<trsync, endstop>>
  BY <1>1, <1>3, <1>5, MoreStepsFields, Zenon DEF StepperNext
<1>6. CASE StepperDone(s) /\ UNCHANGED <<trsync, endstop>>
  BY <1>1, <1>3, <1>6, DoneFields, Zenon DEF StepperDone
<1>7. CASE StepperLoad(s) /\ UNCHANGED <<trsync, endstop>>
  <2> DEFINE tog == Toggled(st)
             next == LoadedActive(s, tog, now, now + PULSE)
  <2>1. DOMAIN tog = StepperFields /\ tog.need_reset = st.need_reset
    BY <1>1, ToggledFields DEF Keeps
  <2>2. Becomes(s, next) /\ UNCHANGED <<trsync, endstop>>
    BY <1>7 DEF StepperLoad
  <2> HIDE DEF tog
  <2>3. Keeps(tog, next)
    BY <2>1, LoadedActiveFields
  <2>4. Keeps(st, next)
    BY <2>1, <2>3, Zenon DEF Keeps
  <2> QED
    BY <1>3, <2>2, <2>4
<1>8. CASE StepperFails(s)
  <2> DEFINE sts == [stepper EXCEPT ![s] = Popped(s, Toggled(st))]
  <2>1. DOMAIN Popped(s, Toggled(st)) = StepperFields
    BY <1>1, ToggledFields, PoppedFields, Zenon DEF Keeps
  <2>2. \A v \in Stepper : DOMAIN sts[v] = StepperFields
    BY <2>1, Zenon DEF IInv, Steppers, IsStepper
  <2>3. ShutDown(sts, endstop)
    BY <1>8, Zenon DEF StepperFails
  <2> HIDE DEF sts
  <2> QED
    BY <1>2, <2>2, <2>3, ShutDownStep, Zenon DEF IInv, Endstops, Homes
<1> QED
  BY <1>4, <1>5, <1>6, <1>7, <1>8, Zenon DEF StepperEvent

-----------------------------------------------------------------------------
(* The commands of stepper.c.                                               *)
LEMMA QueueStepStep ==
    ASSUME IInv, NEW s \in Stepper, NEW m, QueueStep(s, m)
    PROVE  Step
  BY UntouchedStep, FailStep, Zenon DEF QueueStep, motors

LEMMA QueueStepPushStep ==
    ASSUME IInv, NEW s \in Stepper, NEW m, QueueStepPush(s, m)
    PROVE  Step
<1> DEFINE st == stepper[s]
           with == WithMove(st, m)
           started == LoadedIdle(s, with)
<1>1. DOMAIN st = StepperFields /\ Live(st) /\ motor' = motor
  BY Zenon DEF IInv, Steppers, IsStepper, QueueStepPush
<1>2. Keeps(st, with) /\ with.time = st.time
  BY <1>1, WithMoveFields, Zenon
<1>3. Keeps(st, started)
  BY <1>2, LoadedIdleFields, Zenon DEF Keeps
<1>4. CASE Becomes(s, with) /\ UNCHANGED <<trsync, endstop>>
  <2>1. Live(with)
    BY <1>1, <1>2, Zenon DEF Live, Keeps
  <2> QED
    BY <1>1, <1>2, <1>4, <2>1, StepperStep
<1>5. CASE UNCHANGED <<stepper, trsync, endstop>>
  BY <1>1, <1>5, UntouchedStep
<1>6. CASE ~Drops(st) /\ Becomes(s, started) /\ UNCHANGED <<trsync, endstop>>
  <2>1. Live(started)
    BY <1>3, <1>6, Zenon DEF Live, Keeps, Drops
  <2> QED
    BY <1>1, <1>3, <1>6, <2>1, StepperStep
<1>7. CASE ShutDown([stepper EXCEPT ![s] = [started EXCEPT !.time = Off]], endstop)
  <2> DEFINE sts == [stepper EXCEPT ![s] = [started EXCEPT !.time = Off]]
  <2>1. DOMAIN [started EXCEPT !.time = Off] = StepperFields
    BY <1>3, Zenon DEF Keeps
  <2>2. \A v \in Stepper : DOMAIN sts[v] = StepperFields
    BY <2>1, Zenon DEF IInv, Steppers, IsStepper
  <2>3. ShutDown(sts, endstop)
    BY <1>7, Zenon
  <2> HIDE DEF sts
  <2> QED
    BY <1>1, <2>2, <2>3, ShutDownStep, Zenon DEF IInv, Endstops, Homes
<1> QED
  BY <1>4, <1>5, <1>6, <1>7, Zenon DEF QueueStepPush

LEMMA SetNextStepDirStep ==
    ASSUME IInv, NEW s \in Stepper, NEW dir, SetNextStepDir(s, dir)
    PROVE  Step
<1> DEFINE r == [stepper[s] EXCEPT !.next_dir = dir]
<1>1. Becomes(s, r)
  BY Zenon DEF SetNextStepDir, Becomes
<1>2. Keeps(stepper[s], r) /\ Live(r)
  BY Zenon DEF IInv, Steppers, IsStepper, Live, Keeps, StepperFields
<1> QED
  BY <1>1, <1>2, StepperStep, Zenon DEF SetNextStepDir

(* The only command that releases a stopped stepper.                        *)
LEMMA ResetStepClockStep ==
    ASSUME IInv, NEW s \in Stepper, NEW clock, ResetStepClock(s, clock)
    PROVE  Step
<1> DEFINE r == [stepper[s] EXCEPT !.next_step_time = clock, !.need_reset = FALSE]
<1>1. CASE stepper' = [stepper EXCEPT ![s].next_step_time = clock,
                                      ![s].need_reset = FALSE]
           /\ UNCHANGED <<motor, trsync, endstop>>
  <2>1. stepper' = [stepper EXCEPT ![s] = r]
    BY <1>1, Zenon DEF IInv, Steppers
  <2>2. DOMAIN r = StepperFields /\ r.need_reset = FALSE
    BY Zenon DEF IInv, Steppers, IsStepper, StepperFields
  <2>3. DOMAIN stepper' = Stepper /\ stepper'[s] = r
        /\ \A v \in Stepper \ {s} : stepper'[v] = stepper[v]
    BY <2>1, Zenon DEF IInv, Steppers
  <2>4. IInv'
    BY <1>1, <2>2, <2>3, Zenon DEF IInv, Steppers, IsStepper, Live, Trsyncs, Endstops
  <2>5. Halted' = Halted \ {s}
    BY <2>2, <2>3, Zenon DEF Halted
  <2>6. SameTrsyncs
    BY <1>1, KeptTrsyncs, Zenon
  <2> QED
    BY <1>1, <2>4, <2>5, <2>6, Releases, Zenon DEF Step
<1> QED
  BY <1>1, FailStep, Zenon DEF ResetStepClock

LEMMA StopOnTriggerStep ==
    ASSUME IInv, NEW s \in Stepper, NEW t \in Trsync, StopOnTrigger(s, t)
    PROVE  Step
<1>1. CASE /\ trsync' = [trsync EXCEPT ![t].signals = @ \cup {s}]
           /\ UNCHANGED <<motors, endstop>>
  <2>1. /\ DOMAIN trsync' = Trsync /\ DOMAIN trsync'[t] = TrsyncFields
        /\ trsync'[t].can = trsync[t].can /\ trsync'[t].reason = trsync[t].reason
        /\ trsync'[t].expire_reason = trsync[t].expire_reason
        /\ trsync'[t].signals = trsync[t].signals \cup {s}
        /\ \A v \in Trsync \ {t} : trsync'[v] = trsync[v]
    BY <1>1, Zenon DEF IInv, Trsyncs, IsTrsync, TrsyncFields
  <2>2. IInv'
    BY <1>1, <2>1, Zenon DEF motors, IInv, Steppers, Trsyncs, Endstops, IsTrsync,
                             Expires
  <2>3. Armed' = Armed
    BY <2>1, Zenon DEF Armed
  <2>4. Why' = Why
    BY <2>1, Zenon DEF Why
  <2>5. Following' = [Following EXCEPT ![t] = trsync[t].signals \cup {s}]
    BY <2>1, ChangedTrsync
  <2>6. Following' = [Following EXCEPT ![t] = @ \cup {s}]
    BY <2>5, Zenon DEF Following
  <2>7. SameSteppers
    BY <1>1, KeptSteppers, Zenon DEF SameSteppers, motors
  <2> QED
    BY <2>2, <2>3, <2>4, <2>6, <2>7, Follows, Zenon DEF Step
<1> QED
  BY <1>1, FailStep, Zenon DEF StopOnTrigger

-----------------------------------------------------------------------------
(* The commands of trsync.c and endstop.c, and the task.                    *)
LEMMA TrsyncStartStep ==
    ASSUME IInv, NEW t \in Trsync, NEW clock, NEW ticks,
           TrsyncStart(t, clock, ticks)
    PROVE  Step
<1> DEFINE cleared == Cleared(trsync[t])
           ts == [cleared EXCEPT
                     !.can = TRUE, !.report_ticks = ticks, !.expire_reason = EXPIRED]
           u == [ts EXCEPT !.report_time = IF ticks = 0 THEN Off ELSE clock]
<1>1. CASE trsync' = [trsync EXCEPT ![t] = u] /\ UNCHANGED <<motors, endstop>>
  <2>1. /\ DOMAIN cleared = TrsyncFields /\ cleared.reason = 0
        /\ cleared.signals = {}
    BY ClearedFields, Zenon DEF IInv, Trsyncs, IsTrsync
  <2>2. /\ DOMAIN u = TrsyncFields /\ u.can = TRUE /\ u.reason = 0
        /\ u.signals = {} /\ u.expire_reason = EXPIRED
    <3> HIDE DEF cleared
    <3> QED
      BY <2>1, Zenon DEF TrsyncFields
  <2> HIDE DEF u
  <2>3. /\ DOMAIN trsync' = Trsync /\ trsync'[t] = u
        /\ \A v \in Trsync \ {t} : trsync'[v] = trsync[v]
    BY <1>1, Zenon DEF IInv, Trsyncs
  <2>4. IInv'
    BY <1>1, <2>2, <2>3, Zenon DEF motors, IInv, Steppers, Trsyncs, Endstops,
                                   IsTrsync, Expires
  <2>5. Armed' = Armed \cup {t}
    BY <2>2, <2>3, Zenon DEF Armed
  <2>6. Why' = [Why EXCEPT ![t] = 0] /\ Following' = [Following EXCEPT ![t] = {}]
    BY <2>2, <2>3, ChangedTrsync
  <2>7. SameSteppers
    BY <1>1, KeptSteppers, Zenon DEF SameSteppers, motors
  <2> QED
    BY <2>4, <2>5, <2>6, <2>7, Starts, Zenon DEF Step
<1> QED
  BY <1>1, FailStep, Zenon DEF TrsyncStart

LEMMA TrsyncSetTimeoutStep ==
    ASSUME IInv, NEW t \in Trsync, NEW clock, TrsyncSetTimeout(t, clock)
    PROVE  Step
<1>1. CASE /\ trsync' = [trsync EXCEPT ![t].expire_time = clock]
           /\ UNCHANGED <<motors, endstop>>
  <2>1. DOMAIN trsync' = Trsync
    BY <1>1, Zenon DEF IInv, Trsyncs
  <2>2. ASSUME NEW v \in Trsync
        PROVE  /\ DOMAIN trsync'[v] = TrsyncFields
               /\ trsync'[v].can = trsync[v].can
               /\ trsync'[v].reason = trsync[v].reason
               /\ trsync'[v].expire_reason = trsync[v].expire_reason
               /\ trsync'[v].signals = trsync[v].signals
    BY <1>1, Zenon DEF IInv, Trsyncs, IsTrsync, TrsyncFields
  <2> QED
    BY <1>1, <2>1, <2>2, QuietStep, Zenon DEF motors, IInv, Endstops
<1> QED
  BY <1>1, FailStep, Zenon DEF TrsyncSetTimeout

LEMMA TrsyncTriggerStep ==
    ASSUME IInv, NEW t \in Trsync, TrsyncTrigger(t)
    PROVE  Step
<1> DEFINE fired == Triggered(trsync[t], ASKED)
           u == [fired EXCEPT !.can = FALSE, !.report = FALSE,
                              !.report_time = Off, !.expire_time = Off]
<1>1. DOMAIN trsync[t] = TrsyncFields /\ trsync[t].can \in BOOLEAN
  BY Zenon DEF IInv, Trsyncs, IsTrsync
<1>2. /\ DOMAIN fired = TrsyncFields
      /\ trsync[t].can => fired.reason = ASKED /\ fired.signals = {}
      /\ ~trsync[t].can => /\ fired.reason = trsync[t].reason
                           /\ fired.signals = trsync[t].signals
  BY <1>1, TriggeredFields, Zenon
<1>3. trsync' = [trsync EXCEPT ![t] = u] /\ Stop(Signalled(trsync[t]))
  BY Zenon DEF TrsyncTrigger
<1> HIDE DEF fired
<1>4. /\ DOMAIN u = TrsyncFields /\ u.can = FALSE
      /\ u.reason = fired.reason /\ u.signals = fired.signals
  BY <1>2, Zenon DEF TrsyncFields
<1> HIDE DEF u
<1>5. Steppers(stepper)' /\ Trsyncs(trsync)' /\ Abstract
  <2>1. ASKED \in Reason
    BY Zenon DEF Reason
  <2>2. /\ trsync[t].can => u.reason = ASKED /\ u.signals = {}
        /\ ~trsync[t].can => /\ u.reason = trsync[t].reason
                             /\ u.signals = trsync[t].signals
    BY <1>2, <1>4, Zenon
  <2> QED
    BY <1>3, <1>4, <2>1, <2>2, FireStep
<1> QED
  BY <1>5, Zenon DEF Step, IInv, Endstops, TrsyncTrigger

LEMMA EndstopHomeStep ==
    ASSUME IInv, NEW e \in Endstop, NEW clock, NEW samples, NEW t \in Trsync,
           EndstopHome(e, clock, samples, t)
    PROVE  Step
<1> DEFINE off == [endstop[e] EXCEPT !.time = Off, !.sample_count = 0, !.ts = Null]
           on == [endstop[e] EXCEPT !.time = clock, !.func = "endstop_event",
                                    !.sample_count = samples,
                                    !.trigger_count = samples, !.ts = t]
           es == [endstop EXCEPT ![e] = IF samples = 0 THEN off ELSE on]
<1>1. Homes(off) /\ Homes(on)
  BY Zenon DEF IInv, Endstops, Homes, EndstopFields
<1> HIDE DEF off, on
<1>2. Endstops(es)
  BY <1>1, Zenon DEF IInv, Endstops
<1>3. CASE endstop' = es /\ UNCHANGED <<motors, trsync>>
  BY <1>2, <1>3, QuietStep, Zenon DEF motors, IInv, Endstops, Trsyncs, IsTrsync
<1>4. CASE ShutDown(stepper, es) /\ UNCHANGED motor
  BY <1>2, <1>4, ShutDownStep, ZenonT(60) DEF IInv, Steppers, IsStepper, Endstops, Homes
<1> QED
  BY <1>3, <1>4, Zenon DEF EndstopHome, off, on

LEMMA TrsyncReportStep ==
    ASSUME IInv, NEW t \in Trsync, TrsyncReport(t)
    PROVE  Step
<1>1. CASE trsync' = [trsync EXCEPT ![t].report = FALSE]
  <2>1. DOMAIN trsync' = Trsync
    BY <1>1, Zenon DEF IInv, Trsyncs
  <2>2. ASSUME NEW v \in Trsync
        PROVE  /\ DOMAIN trsync'[v] = TrsyncFields
               /\ trsync'[v].can = trsync[v].can
               /\ trsync'[v].reason = trsync[v].reason
               /\ trsync'[v].expire_reason = trsync[v].expire_reason
               /\ trsync'[v].signals = trsync[v].signals
    BY <1>1, Zenon DEF IInv, Trsyncs, IsTrsync, TrsyncFields
  <2> QED
    BY <2>1, <2>2, QuietStep, Zenon DEF TrsyncReport, motors, IInv, Endstops
<1>2. CASE UNCHANGED trsync
  BY <1>2, UntouchedStep, Zenon DEF TrsyncReport, motors
<1> QED
  BY <1>1, <1>2, Zenon DEF TrsyncReport

-----------------------------------------------------------------------------
(* The initial states, the actions together, and the first theorem.          *)
LEMMA InitIInv == Init => IInv /\ Trigger!Init
<1> SUFFICES ASSUME Init
             PROVE  IInv /\ Trigger!Init
  OBVIOUS
<1>1. Steppers(stepper)
  BY Zenon DEF Init, Configured, Steppers, IsStepper, StepperFields, Live
<1>2. Trsyncs(trsync)
  BY Zenon DEF Init, Trsyncs, IsTrsync, TrsyncFields, Expires
<1>3. Endstops(endstop)
  BY Zenon DEF Init, Endstops, Homes, EndstopFields
<1>4. Trigger!Init
  BY Zenon DEF Init, Trigger!Init, Configured
<1> QED
  BY <1>1, <1>2, <1>3, <1>4 DEF IInv

LEMMA CommandStep ==
    ASSUME IInv, Command
    PROVE  Step
<1>1. ASSUME NEW s \in Stepper, StepperCommand(s)
      PROVE  Step
  BY <1>1, QueueStepStep, SetNextStepDirStep, ResetStepClockStep,
     StopOnTriggerStep, Zenon DEF StepperCommand
<1>2. ASSUME NEW t \in Trsync, TrsyncCommand(t)
      PROVE  Step
  BY <1>2, TrsyncStartStep, TrsyncSetTimeoutStep, TrsyncTriggerStep,
     Zenon DEF TrsyncCommand
<1>3. ASSUME NEW e \in Endstop, EndstopCommand(e)
      PROVE  Step
  BY <1>3, EndstopHomeStep, Zenon DEF EndstopCommand
<1>4. CASE EmergencyStop
  BY <1>4, FailStep DEF EmergencyStop
<1>5. CASE ClearShutdown
  BY <1>5, UntouchedStep, Zenon DEF ClearShutdown, motors
<1> QED
  BY <1>1, <1>2, <1>3, <1>4, <1>5, Zenon DEF Command

LEMMA TimerEventStep ==
    ASSUME IInv, TimerEvent
    PROVE  Step
  BY TrsyncExpireEventStep, TrsyncReportEventStep, EndstopEventStep,
     StepperEventStep, Zenon DEF TimerEvent

LEMMA NextStep ==
    ASSUME IInv, [Next]_vars
    PROVE  Step
<1>1. CASE Tick
  BY <1>1, UntouchedStep, Zenon DEF Tick, motors
<1>2. CASE TrsyncTask
  BY <1>2, UntouchedStep, Zenon DEF TrsyncTask, motors
<1>3. CASE UNCHANGED vars
  BY <1>3, UntouchedStep, Zenon DEF vars, motors
<1> QED
  BY <1>1, <1>2, <1>3, CommandStep, TimerEventStep, TrsyncReportStep,
     QueueStepPushStep, Zenon DEF Next

(* For any steppers, endstops, triggers, moves and commands, a homing move  *)
(* is one of TriggerSync: the trigger that fires (trsync_do_trigger) stops  *)
(* all that follow it in the same step and keeps its first reason, and what *)
(* stepper_stop stopped does not move before reset_step_clock.              *)
THEOREM TriggerImplemented == Spec => ImplementsTrigger
<1>1. Init => IInv /\ Trigger!Init
  BY InitIInv
<1>2. IInv /\ [Next]_vars => IInv' /\ [Trigger!Next]_(Trigger!vars)
  BY NextStep DEF Step, Abstract
<1> QED
  BY <1>1, <1>2, PTL DEF Spec, ImplementsTrigger, Trigger!Spec

-----------------------------------------------------------------------------
(* The host is told.  A trigger with a reason was told, or its report flag  *)
(* is up and trsync_task will come to see it, in this scan or the next.     *)
Coming(t) == wake \/ (task.at = "trsync_task" /\ t \in task.left)
Owed(t) ==
    trsync[t].reason # 0 =>
        trsync[t].can = FALSE /\ (told[t] \/ (trsync[t].report /\ Coming(t)))
ReportInv == DOMAIN told = Trsync /\ \A t \in Trsync : Owed(t)

(* A step that takes no report back.                                        *)
LEMMA SilentReport ==
    ASSUME ReportInv, told' = told,
           \A t \in Trsync : /\ trsync'[t].can = trsync[t].can
                             /\ trsync'[t].reason = trsync[t].reason
                             /\ trsync[t].report => trsync'[t].report
                             /\ Coming(t) => Coming(t)'
    PROVE  ReportInv'
  BY Zenon DEF ReportInv, Owed

LEMMA SameReport ==
    ASSUME ReportInv, UNCHANGED <<told, trsync, wake>>,
           \A t \in Trsync : t \in task.left /\ task.at = "trsync_task"
                                 => t \in task'.left /\ task'.at = "trsync_task"
    PROVE  ReportInv'
  BY SilentReport, Zenon DEF Coming

LEMMA ShutDownReport ==
    ASSUME IInv, NEW st, NEW es, ShutDown(st, es)
    PROVE  ReportInv'
<1>1. ASSUME NEW t \in Trsync
      PROVE  trsync'[t].reason = 0
  BY ClearedFields, Zenon DEF ShutDown, IInv, Trsyncs, IsTrsync
<1>2. DOMAIN told' = Trsync
  BY Zenon DEF ShutDown
<1> QED
  BY <1>1, <1>2, Zenon DEF ReportInv, Owed

(* trsync_do_trigger, from either callback.                                 *)
LEMMA TriggeredReport ==
    ASSUME IInv, ReportInv, NEW t \in Trsync, NEW ts, NEW r,
           DOMAIN ts = TrsyncFields, ts.can = trsync[t].can,
           ts.reason = trsync[t].reason, ts.report = trsync[t].report,
           trsync' = [trsync EXCEPT ![t] = Triggered(ts, r)],
           wake' = (wake \/ trsync[t].can), UNCHANGED <<told, task>>
    PROVE  ReportInv'
<1>1. trsync'[t] = Triggered(ts, r) /\ \A v \in Trsync \ {t} : trsync'[v] = trsync[v]
  BY Zenon DEF IInv, Trsyncs
<1>2. \A v \in Trsync : Coming(v) => Coming(v)'
  BY Zenon DEF Coming
<1>3. \A v \in Trsync \ {t} : Owed(v)'
  BY <1>1, <1>2, Zenon DEF ReportInv, Owed
<1>4. CASE trsync[t].can
  <2>1. Triggered(ts, r).can = FALSE /\ Triggered(ts, r).report = TRUE
    BY <1>4, Zenon DEF Triggered, TrsyncFields
  <2>2. Coming(t)'
    BY <1>4, Zenon DEF Coming
  <2>3. Owed(t)'
    BY <1>1, <2>1, <2>2, Zenon DEF Owed
  <2> QED
    BY <1>3, <2>3, Zenon DEF ReportInv
<1>5. CASE ~trsync[t].can
  <2>1. Triggered(ts, r) = ts
    BY <1>5, Zenon DEF Triggered
  <2>2. Owed(t)'
    BY <1>1, <1>2, <2>1, Zenon DEF ReportInv, Owed
  <2> QED
    BY <1>3, <2>2, Zenon DEF ReportInv
<1> QED
  BY <1>4, <1>5

LEMMA TimerEventReport ==
    ASSUME IInv, ReportInv, TimerEvent
    PROVE  ReportInv'
<1>1. ASSUME NEW t \in Trsync, TrsyncExpireEvent(t)
      PROVE  ReportInv'
  <2> DEFINE ts == [trsync[t] EXCEPT !.expire_time = Off]
  <2>1. /\ DOMAIN ts = TrsyncFields /\ ts.can = trsync[t].can
        /\ ts.reason = trsync[t].reason /\ ts.report = trsync[t].report
    BY Zenon DEF IInv, Trsyncs, IsTrsync, TrsyncFields
  <2>2. /\ trsync' = [trsync EXCEPT ![t] = Triggered(ts, ts.expire_reason)]
        /\ wake' = (wake \/ trsync[t].can) /\ UNCHANGED <<told, task>>
    BY <1>1, <2>1, Zenon DEF TrsyncExpireEvent
  <2> HIDE DEF ts
  <2> QED
    BY <2>1, <2>2, TriggeredReport
<1>2. ASSUME NEW t \in Trsync, TrsyncReportEvent(t)
      PROVE  ReportInv'
  <2>1. ASSUME NEW v \in Trsync
        PROVE  /\ trsync'[v].can = trsync[v].can
               /\ trsync'[v].reason = trsync[v].reason
               /\ trsync[v].report => trsync'[v].report
               /\ Coming(v) => Coming(v)'
    BY <1>2, Zenon DEF TrsyncReportEvent, IInv, Trsyncs, IsTrsync, TrsyncFields, Coming
  <2> QED
    BY <1>2, <2>1, SilentReport, Zenon DEF TrsyncReportEvent
<1>3. ASSUME NEW e \in Endstop, EndstopEvent(e)
      PROVE  ReportInv'
  <2>1. endstop[e].ts \in Trsync
    BY <1>3, Zenon DEF EndstopEvent, Runs, IInv, Endstops, Homes
  <2>2. CASE UNCHANGED <<trsync, wake>>
    BY <1>3, <2>2, SameReport, Zenon DEF EndstopEvent
  <2>3. CASE /\ trsync' = [trsync EXCEPT ![endstop[e].ts] = Triggered(@, HIT)]
             /\ wake' = (wake \/ trsync[endstop[e].ts].can)
    <3>1. DOMAIN trsync[endstop[e].ts] = TrsyncFields
      BY <2>1, Zenon DEF IInv, Trsyncs, IsTrsync
    <3> QED
      BY <1>3, <2>1, <2>3, <3>1, TriggeredReport, Zenon DEF EndstopEvent
  <2>4. [endstop[e] EXCEPT !.func = "endstop_oversample_event",
                           !.nextwake = endstop[e].time + REST].ts = endstop[e].ts
    BY <1>3, Zenon DEF EndstopEvent, Runs, IInv, Endstops, Homes, EndstopFields
  <2> QED
    BY <1>3, <2>2, <2>3, <2>4, Zenon DEF EndstopEvent, EndstopMiss, Oversample
<1>4. ASSUME NEW s \in Stepper, StepperEvent(s)
      PROVE  ReportInv'
  BY <1>4, SameReport, ShutDownReport, Zenon DEF StepperEvent, StepperFails
<1> QED
  BY <1>1, <1>2, <1>3, <1>4, Zenon DEF TimerEvent

LEMMA FailReport ==
    ASSUME IInv, Fail
    PROVE  ReportInv'
  BY ShutDownReport, Zenon DEF Fail

(* In a command the task loop is not in trsync_task.                        *)
LEMMA CommandKeepsReport ==
    ASSUME ReportInv, task.at # "trsync_task", UNCHANGED <<told, trsync, wake>>
    PROVE  ReportInv'
  BY SameReport, Zenon

LEMMA StepperCommandReport ==
    ASSUME IInv, ReportInv, NEW s \in Stepper, StepperCommand(s)
    PROVE  ReportInv'
<1>1. ASSUME NEW m, QueueStep(s, m)
      PROVE  ReportInv'
  BY <1>1, FailReport, CommandKeepsReport, Zenon DEF QueueStep, Accepts, Idle
<1>2. ASSUME NEW dir, SetNextStepDir(s, dir)
      PROVE  ReportInv'
  BY <1>2, CommandKeepsReport, Zenon DEF SetNextStepDir, Accepts, Idle
<1>3. ASSUME NEW clock, ResetStepClock(s, clock)
      PROVE  ReportInv'
  BY <1>3, FailReport, CommandKeepsReport, Zenon DEF ResetStepClock, Accepts, Idle
<1>4. ASSUME NEW t \in Trsync, StopOnTrigger(s, t)
      PROVE  ReportInv'
  <2>1. CASE /\ trsync' = [trsync EXCEPT ![t].signals = @ \cup {s}]
             /\ UNCHANGED <<told, wake, task>>
    <3>1. ASSUME NEW v \in Trsync
          PROVE  /\ trsync'[v].can = trsync[v].can
                 /\ trsync'[v].reason = trsync[v].reason
                 /\ trsync[v].report => trsync'[v].report
                 /\ Coming(v) => Coming(v)'
      BY <2>1, Zenon DEF IInv, Trsyncs, IsTrsync, TrsyncFields, Coming
    <3> QED
      BY <2>1, <3>1, SilentReport, Zenon
  <2> QED
    BY <1>4, <2>1, FailReport, Zenon DEF StopOnTrigger
<1> QED
  BY <1>1, <1>2, <1>3, <1>4, Zenon DEF StepperCommand

(* A trsync that becomes u, with no trigger to tell of, or a told one.      *)
LEMMA SettledReport ==
    ASSUME IInv, ReportInv, NEW t \in Trsync, NEW u,
           trsync' = [trsync EXCEPT ![t] = u],
           u.reason # 0 => u.can = FALSE /\ told'[t],
           DOMAIN told' = Trsync,
           \A v \in Trsync \ {t} : told'[v] = told[v],
           wake => wake', task' = task
    PROVE  ReportInv'
<1>1. trsync'[t] = u /\ \A v \in Trsync \ {t} : trsync'[v] = trsync[v]
  BY Zenon DEF IInv, Trsyncs
<1>2. \A v \in Trsync \ {t} : Owed(v)'
  BY <1>1, Zenon DEF ReportInv, Owed, Coming
<1>3. Owed(t)'
  BY <1>1, Zenon DEF Owed
<1> QED
  BY <1>2, <1>3, Zenon DEF ReportInv

LEMMA TrsyncCommandReport ==
    ASSUME IInv, ReportInv, NEW t \in Trsync, TrsyncCommand(t)
    PROVE  ReportInv'
<1>1. ASSUME NEW clock, NEW ticks, TrsyncStart(t, clock, ticks)
      PROVE  ReportInv'
  <2> DEFINE cleared == Cleared(trsync[t])
             u == [[cleared EXCEPT !.can = TRUE, !.report_ticks = ticks,
                                   !.expire_reason = EXPIRED]
                      EXCEPT !.report_time = IF ticks = 0 THEN Off ELSE clock]
  <2>1. CASE trsync' = [trsync EXCEPT ![t] = u]
             /\ told' = [told EXCEPT ![t] = FALSE] /\ UNCHANGED <<wake, task>>
    <3>1. DOMAIN cleared = TrsyncFields /\ cleared.reason = 0
      BY ClearedFields, Zenon DEF IInv, Trsyncs, IsTrsync
    <3>2. u.reason = 0
      <4> HIDE DEF cleared
      <4> QED
        BY <3>1, Zenon DEF TrsyncFields
    <3> HIDE DEF u
    <3> QED
      BY <2>1, <3>2, SettledReport, Zenon DEF ReportInv
  <2> QED
    BY <1>1, <2>1, FailReport, Zenon DEF TrsyncStart
<1>2. ASSUME NEW clock, TrsyncSetTimeout(t, clock)
      PROVE  ReportInv'
  <2>1. CASE /\ trsync' = [trsync EXCEPT ![t].expire_time = clock]
             /\ UNCHANGED <<told, wake, task>>
    <3>1. ASSUME NEW v \in Trsync
          PROVE  /\ trsync'[v].can = trsync[v].can
                 /\ trsync'[v].reason = trsync[v].reason
                 /\ trsync[v].report => trsync'[v].report
                 /\ Coming(v) => Coming(v)'
      BY <2>1, Zenon DEF IInv, Trsyncs, IsTrsync, TrsyncFields, Coming
    <3> QED
      BY <2>1, <3>1, SilentReport, Zenon
  <2> QED
    BY <1>2, <2>1, FailReport, Zenon DEF TrsyncSetTimeout
<1>3. ASSUME TrsyncTrigger(t)
      PROVE  ReportInv'
  <2> DEFINE fired == Triggered(trsync[t], ASKED)
             u == [fired EXCEPT !.can = FALSE, !.report = FALSE,
                                !.report_time = Off, !.expire_time = Off]
  <2>1. DOMAIN fired = TrsyncFields
    BY TriggeredFields, Zenon DEF IInv, Trsyncs, IsTrsync
  <2>2. u.can = FALSE
    <3> HIDE DEF fired
    <3> QED
      BY <2>1, Zenon DEF TrsyncFields
  <2>3. /\ trsync' = [trsync EXCEPT ![t] = u]
        /\ told' = [told EXCEPT ![t] = TRUE]
        /\ (wake => wake') /\ task' = task
    BY <1>3, Zenon DEF TrsyncTrigger
  <2> HIDE DEF u
  <2> QED
    BY <2>2, <2>3, SettledReport, Zenon DEF ReportInv
<1> QED
  BY <1>1, <1>2, <1>3, Zenon DEF TrsyncCommand

LEMMA EndstopCommandReport ==
    ASSUME IInv, ReportInv, NEW e \in Endstop, EndstopCommand(e)
    PROVE  ReportInv'
<1>1. PICK es : \/ UNCHANGED <<trsync, wake, task, told>>
                \/ ShutDown(stepper, es)
  BY Zenon DEF EndstopCommand, EndstopHome
<1>2. CASE UNCHANGED <<trsync, wake, task, told>>
  BY <1>2, SameReport, Zenon
<1>3. CASE ShutDown(stepper, es)
  BY <1>3, ShutDownReport, Zenon
<1> QED
  BY <1>1, <1>2, <1>3

(* The task lowers the flag of a trsync in the step that tells of it.       *)
LEMMA TrsyncReportReport ==
    ASSUME IInv, ReportInv, NEW t \in Trsync, TrsyncReport(t)
    PROVE  ReportInv'
<1>1. ASSUME NEW v \in Trsync, v # t, Coming(v)
      PROVE  Coming(v)'
  <2>1. CASE wake
    BY <2>1, Zenon DEF TrsyncReport, Coming
  <2>2. CASE v \in task.left
    <3>1. task' = Scanning(task.left \ {t})
      BY <1>1, <2>2, Zenon DEF TrsyncReport
    <3> QED
      BY <1>1, <2>2, <3>1, Zenon DEF Coming, Scanning
  <2> QED
    BY <1>1, <2>1, <2>2, Zenon DEF Coming
<1>2. ASSUME NEW v \in Trsync, v # t
      PROVE  trsync'[v] = trsync[v] /\ told'[v] = told[v]
  BY <1>2, Zenon DEF TrsyncReport, IInv, Trsyncs, ReportInv
<1>3. \A v \in Trsync \ {t} : Owed(v)'
  BY <1>1, <1>2, Zenon DEF ReportInv, Owed
<1>4. CASE trsync[t].report
  <2>1. /\ trsync'[t].can = trsync[t].can /\ trsync'[t].reason = trsync[t].reason
        /\ trsync[t].can = FALSE => told'[t]
    BY <1>4, ZenonT(60) DEF TrsyncReport, IInv, Trsyncs, IsTrsync, TrsyncFields, ReportInv
  <2> QED
    BY <1>3, <2>1, Zenon DEF ReportInv, Owed, TrsyncReport
<1>5. CASE ~trsync[t].report
  <2>1. UNCHANGED <<trsync, told>>
    BY <1>5, Zenon DEF TrsyncReport
  <2> QED
    BY <1>3, <1>5, <2>1, Zenon DEF ReportInv, Owed
<1> QED
  BY <1>4, <1>5

LEMMA NextReport ==
    ASSUME IInv, ReportInv, [Next]_vars
    PROVE  ReportInv'
<1>1. CASE Command
  <2>1. CASE ClearShutdown
    BY <2>1, SameReport, Zenon DEF ClearShutdown
  <2> QED
    BY <1>1, <2>1, StepperCommandReport, TrsyncCommandReport,
       EndstopCommandReport, FailReport, Zenon DEF Command, EmergencyStop
<1>2. CASE Tick
  BY <1>2, SameReport, Zenon DEF Tick
<1>3. CASE TrsyncTask
  <2>1. \A t \in Trsync : Coming(t)'
    BY <1>3, Zenon DEF TrsyncTask, Coming, Scanning
  <2> QED
    BY <1>3, <2>1, Zenon DEF TrsyncTask, ReportInv, Owed
<1>4. ASSUME NEW s \in Stepper, NEW m \in Moves, QueueStepPush(s, m)
      PROVE  ReportInv'
  BY <1>4, ShutDownReport, CommandKeepsReport, Zenon DEF QueueStepPush, QueueingAt
<1>5. CASE UNCHANGED vars
  BY <1>5, SameReport, Zenon DEF vars
<1> QED
  BY <1>1, <1>2, <1>3, <1>4, <1>5, TimerEventReport, TrsyncReportReport, Zenon
     DEF Next

(* For any steppers, endstops, triggers and commands, the host has been     *)
(* told of each trigger that fired when trsync_task has nothing left to do, *)
(* whatever interrupts came between its reads of the flags.                 *)
THEOREM HostIsTold == Spec => []NoTriggerUntold
<1>1. Init => IInv /\ ReportInv
  <2>1. ASSUME Init, NEW t \in Trsync
        PROVE  trsync[t].reason = 0
    BY <2>1, SMT DEF Init
  <2>2. Init => DOMAIN told = Trsync
    BY Zenon DEF Init
  <2> QED
    BY <2>1, <2>2, InitIInv, Zenon DEF ReportInv, Owed
<1>2. IInv /\ ReportInv /\ [Next]_vars => IInv' /\ ReportInv'
  BY NextStep, NextReport DEF Step
<1>3. IInv /\ ReportInv => NoTriggerUntold
  BY Zenon DEF NoTriggerUntold, ReportInv, Owed, Coming
<1> QED
  BY <1>1, <1>2, <1>3, PTL DEF Spec

-----------------------------------------------------------------------------
(* The longest move, and how far n moves take a stepper at most.            *)
Longest ==
    CHOOSE longest \in Nat :
        (\A m \in Moves : m.count <= longest) /\ MaxCommands * longest <= BIAS
Paid(n) == Longest * n

LEMMA NotIsBool == ASSUME NEW b PROVE (~b) \in BOOLEAN
OBVIOUS

LEMMA Numbers ==
    /\ BIAS \in Nat /\ PULSE \in Nat /\ Off \notin Int
    /\ MaxCommands \in Nat /\ SAMPLE \in Nat /\ REST \in Nat
    /\ Clocks \subseteq Int /\ ReportTicks \subseteq Nat
    /\ SampleCounts \subseteq Nat /\ Reason \subseteq Nat \ {0}
    /\ 0 \notin Reason
  BY StepperAssumption, HomingAssumption

LEMMA LongestIs ==
    /\ Longest \in Nat /\ \A m \in Moves : m.count <= Longest
    /\ MaxCommands * Longest <= BIAS
<1>1. PICK longest \in 0..BIAS : /\ \A m \in Moves : m.count <= longest
                                 /\ MaxCommands * longest <= BIAS
  BY PositionsFit
<1>2. longest \in Nat
  BY Numbers
<1>3. \E n \in Nat : (\A m \in Moves : m.count <= n) /\ MaxCommands * n <= BIAS
  BY <1>1, <1>2, Zenon
<1> QED
  BY <1>3, Zenon DEF Longest

LEMMA PaidIsInt == ASSUME NEW n \in Int
                   PROVE  Paid(n) \in Int /\ Paid(n + 1) = Paid(n) + Longest
<1>1. Longest \in Int
  BY LongestIs
<1>2. \A a, b \in Int : a * b \in Int /\ a * (b + 1) = a * b + a
  OBVIOUS
<1> QED
  BY <1>1, <1>2, Zenon DEF Paid

LEMMA PaidGrows == ASSUME NEW n \in Int, NEW k \in Int, n <= k
                   PROVE  Paid(n) <= Paid(k)
<1>1. Longest \in Nat
  BY LongestIs
<1>2. \A a, d \in Nat, b \in Int : a * (b + d) = a * b + a * d /\ a * d \in Nat /\ a * b \in Int
  OBVIOUS
<1>3. k - n \in Nat /\ k = n + (k - n)
  OBVIOUS
<1>4. Longest * k = Longest * n + Longest * (k - n) /\ Longest * (k - n) \in Nat /\ Longest * n \in Int
  BY <1>1, <1>2, <1>3
<1> QED
  BY <1>4 DEF Paid

LEMMA PaidInAll == ASSUME NEW n \in Int, n <= MaxCommands
                   PROVE  Paid(n) <= BIAS
<1>1. Paid(n) <= Paid(MaxCommands) /\ Paid(n) \in Int /\ Paid(MaxCommands) \in Int
  BY Numbers, PaidGrows, PaidIsInt
<1>2. \A a, b \in Nat : a * b = b * a
  OBVIOUS
<1>3. Paid(MaxCommands) = MaxCommands * Longest
  BY <1>2, LongestIs, Numbers DEF Paid
<1>4. Paid(MaxCommands) <= BIAS
  BY <1>3, LongestIs
<1> QED
  BY <1>1, <1>4, Numbers

-----------------------------------------------------------------------------
(* What is true of a stepper st whose motor is at m, with pins that are to  *)
(* stay until h, when n moves were allocated and have left its queue.       *)
ShortMove == {m \in Move : m.count <= Longest}
Left(s, st) == IF s \in BothEdges THEN st.count ELSE st.count \div 2
Phase(s, st) == s \notin BothEdges => (st.step_pin <=> st.count % 2 = 1)
Counts(s, st, m) ==
    st.position - Left(s, st) = (IF st.dir_pin THEN BIAS + m ELSE -(BIAS + m))
Held(st, h) == st.time # Off => st.count > 0 /\ (h <= st.time \/ h <= 0)
Reaches(s, st, m, n) == m - Left(s, st) >= -Paid(n)
Tracked(s, st, m, h) ==
    /\ st \in StepperState /\ st.mq \in Seq(ShortMove)
    /\ Phase(s, st) /\ Counts(s, st, m) /\ Held(st, h)
Good(s, st, m, h, n) ==
    Tracked(s, st, m, h) /\ Reaches(s, st, m, n - Len(st.mq))

LEMMA LeftIsNat ==
    ASSUME NEW s, NEW st \in StepperState
    PROVE  Left(s, st) \in Nat
<1>1. st.count \in Nat
  BY Zenon DEF StepperState
<1>2. \A c \in Nat : c \div 2 \in Nat
  OBVIOUS
<1> QED
  BY <1>1, <1>2, Zenon DEF Left

(* A stop keeps the position, whichever way it counted.                     *)
LEMMA StopTracks ==
    ASSUME NEW s, NEW st \in StepperState, NEW m \in Int, BIAS + m >= 0,
           \/ st.position - Left(s, st) = BIAS + m
           \/ st.position - Left(s, st) = -(BIAS + m)
    PROVE  LET r == Stopped(s, st)
           IN Tracked(s, r, m, 0) /\ r.mq = <<>> /\ Left(s, r) = 0
<1> DEFINE r == Stopped(s, st)
<1>1. Position(s, st) = BIAS + m
  BY LeftIsNat, Numbers DEF Position, Left, StepperState
<1>2. -Position(s, st) \in Int
  BY <1>1, Numbers
<1>3. (IF s \in BothEdges THEN st.step_pin ELSE FALSE) \in BOOLEAN
  BY Zenon DEF StepperState
<1>4. 0 \in Int /\ 0 \in Nat /\ <<>> \in Seq(Move) /\ <<>> \in Seq(ShortMove)
  OBVIOUS
<1>5. r \in StepperState
  BY <1>2, <1>3, <1>4, Zenon DEF Stopped, StepperState
<1>6. /\ r.position = -Position(s, st) /\ r.count = 0 /\ r.mq = <<>>
      /\ r.dir_pin = FALSE /\ r.time = Off
      /\ r.step_pin = IF s \in BothEdges THEN st.step_pin ELSE FALSE
  BY Zenon DEF Stopped, StepperState
<1>7. Left(s, r) = 0
  BY <1>6 DEF Left
<1>8. Counts(s, r, m)
  BY <1>1, <1>2, <1>6, <1>7, Numbers DEF Counts
<1>9. Phase(s, r)
  <2>1. ~(0 % 2 = 1)
    OBVIOUS
  <2> QED
    BY <1>6, <2>1, Zenon DEF Phase
<1>10. Held(r, 0)
  BY <1>6, Zenon DEF Held
<1> QED
  BY <1>4, <1>5, <1>6, <1>7, <1>8, <1>9, <1>10, Zenon DEF Tracked

(* The edge that an event makes, and what it makes of the motor.            *)
Moved(s, st, m) ==
    IF TakesStep(s, st) THEN m + (IF st.dir_pin THEN 1 ELSE -1) ELSE m

LEMMA MovedIsInt ==
    ASSUME NEW s, NEW st, NEW m \in Int
    PROVE  Moved(s, st, m) \in Int /\ Moved(s, st, m) >= m - 1
           /\ (~TakesStep(s, st) => Moved(s, st, m) = m)
  BY DEF Moved

(* An event takes the number of steps left down by one if it takes a step.  *)
LEMMA EventCounts ==
    ASSUME NEW s, NEW st \in StepperState, NEW m \in Int, NEW h,
           Tracked(s, st, m, h), st.count > 0,
           NEW r, r.position = st.position, r.dir_pin = st.dir_pin,
           r.count = st.count - 1
    PROVE  /\ Counts(s, r, Moved(s, st, m))
           /\ Moved(s, st, m) - Left(s, r) >= m - Left(s, st)
<1>1. st.position \in Int /\ st.count \in Nat /\ Left(s, st) \in Nat
  BY LeftIsNat, Zenon DEF StepperState
<1>2. \/ /\ Left(s, r) = Left(s, st) - 1
         /\ Moved(s, st, m) = m + (IF st.dir_pin THEN 1 ELSE -1)
      \/ Left(s, r) = Left(s, st) /\ Moved(s, st, m) = m
  <2>1. CASE s \in BothEdges
    BY <1>1, <2>1 DEF Left, Moved, TakesStep
  <2>2. CASE s \notin BothEdges /\ st.step_pin
    <3>1. st.count % 2 = 1
      BY <2>2, Zenon DEF Tracked, Phase
    <3>2. (st.count - 1) \div 2 = st.count \div 2
      BY <3>1, <1>1
    <3> QED
      BY <2>2, <3>2, Zenon DEF Left, Moved, TakesStep
  <2>3. CASE s \notin BothEdges /\ ~st.step_pin
    <3>1. st.count % 2 # 1
      BY <2>3, Zenon DEF Tracked, Phase
    <3>2. (st.count - 1) \div 2 = (st.count \div 2) - 1
      BY <3>1, <1>1
    <3> QED
      BY <2>3, <3>2, Zenon DEF Left, Moved, TakesStep
  <2> QED
    BY <2>1, <2>2, <2>3, Zenon
<1>3. st.position - Left(s, st) = (IF st.dir_pin THEN BIAS + m ELSE -(BIAS + m))
  BY Zenon DEF Tracked, Counts
<1>4. CASE st.dir_pin
  <2>1. /\ st.position - Left(s, r) = BIAS + Moved(s, st, m)
        /\ Moved(s, st, m) - Left(s, r) >= m - Left(s, st)
    BY <1>1, <1>2, <1>3, <1>4, Numbers
  <2> QED
    BY <1>4, <2>1, Zenon DEF Counts
<1>5. CASE ~st.dir_pin
  <2>1. /\ st.position - Left(s, r) = -(BIAS + Moved(s, st, m))
        /\ Moved(s, st, m) - Left(s, r) >= m - Left(s, st)
    BY <1>1, <1>2, <1>3, <1>5, Numbers
  <2> QED
    BY <1>5, <2>1, Zenon DEF Counts
<1> QED
  BY <1>4, <1>5

(* The first event of a pulse, ...                                          *)
LEMMA PulsedTracks ==
    ASSUME NEW s, NEW st, NEW m \in Int, NEW h, NEW n, Tracked(s, st, m, h),
           Reaches(s, st, m, n), Paid(n) \in Int, st.count > 0,
           BeginsPulse(s, st), NEW min \in Int
    PROVE  LET r == Pulsed(st, min)
           IN /\ Tracked(s, r, Moved(s, st, m), min) /\ r.mq = st.mq
              /\ Reaches(s, r, Moved(s, st, m), n)
<1> DEFINE r == Pulsed(st, min)
<1>1. st \in StepperState /\ st.count \in Nat /\ st.count % 2 = 0 /\ s \notin BothEdges
  BY Zenon DEF Tracked, StepperState, BeginsPulse
<1>2. st.count - 1 \in Nat /\ st.count > 1 /\ (st.count - 1) % 2 = 1
  BY <1>1
<1>3. ~st.step_pin
  <2>1. ~(st.count % 2 = 1)
    BY <1>1
  <2> QED
    BY <1>1, <2>1, Zenon DEF Tracked, Phase
<1>4. r \in StepperState
  BY <1>1, <1>2, NotIsBool, Zenon DEF Pulsed, Toggled, StepperState
<1>5. /\ r.time = min /\ r.count = st.count - 1 /\ r.position = st.position
      /\ r.mq = st.mq /\ r.dir_pin = st.dir_pin /\ r.step_pin = ~st.step_pin
  BY <1>1, Zenon DEF Pulsed, Toggled, StepperState
<1>6. Phase(s, r)
  BY <1>2, <1>3, <1>5, Zenon DEF Phase
<1>7. Held(r, min)
  BY <1>2, <1>5 DEF Held
<1>8. /\ Counts(s, r, Moved(s, st, m))
      /\ Moved(s, st, m) - Left(s, r) >= m - Left(s, st)
  BY <1>1, <1>5, EventCounts
<1>9. Reaches(s, r, Moved(s, st, m), n)
  BY <1>1, <1>4, <1>8, LeftIsNat, MovedIsInt DEF Reaches
<1> QED
  BY <1>4, <1>5, <1>6, <1>7, <1>8, <1>9, Zenon DEF Tracked

LEMMA LaterIs == ASSUME NEW a \in Int, NEW b \in Int
                 PROVE  Later(a, b) \in Int /\ Later(a, b) >= a /\ Later(a, b) >= b
  BY DEF Later

(* ... one between two steps, ...                                           *)
LEMMA MoreStepsTracks ==
    ASSUME NEW s, NEW st, NEW m \in Int, NEW h, NEW n, Tracked(s, st, m, h),
           Reaches(s, st, m, n), Paid(n) \in Int, st.count > 1,
           ~BeginsPulse(s, st), NEW min \in Int
    PROVE  LET r == MoreSteps(st, min)
           IN /\ Tracked(s, r, Moved(s, st, m), min) /\ r.mq = st.mq
              /\ Reaches(s, r, Moved(s, st, m), n)
<1> DEFINE r == MoreSteps(st, min)
<1>1. /\ st \in StepperState /\ st.count \in Nat /\ st.next_step_time \in Int
      /\ st.interval \in Int /\ st.add \in Int
  BY Zenon DEF Tracked, StepperState
<1>2. /\ st.count - 1 \in Nat /\ st.count > 0 /\ st.count - 1 > 0
      /\ st.next_step_time + st.interval \in Int /\ st.interval + st.add \in Int
  BY <1>1
<1>3. /\ Later(st.next_step_time + st.interval, min) \in Int
      /\ Later(st.next_step_time + st.interval, min) >= min
  BY <1>2, LaterIs
<1>4. r \in StepperState
  BY <1>1, <1>2, <1>3, NotIsBool, Zenon DEF MoreSteps, Toggled, StepperState
<1>5. /\ r.time = Later(st.next_step_time + st.interval, min)
      /\ r.count = st.count - 1 /\ r.position = st.position
      /\ r.mq = st.mq /\ r.dir_pin = st.dir_pin /\ r.step_pin = ~st.step_pin
  BY <1>1, Zenon DEF MoreSteps, Toggled, StepperState
<1>6. Phase(s, r)
  <2>1. CASE s \notin BothEdges
    <3>1. st.count % 2 # 0
      BY <2>1, Zenon DEF BeginsPulse
    <3>2. st.count % 2 = 1 /\ ~((st.count - 1) % 2 = 1)
      BY <1>1, <3>1
    <3>3. st.step_pin
      BY <2>1, <3>2, Zenon DEF Tracked, Phase
    <3> QED
      BY <1>5, <3>2, <3>3, Zenon DEF Phase
  <2> QED
    BY <2>1, Zenon DEF Phase
<1>7. Held(r, min)
  BY <1>2, <1>3, <1>5 DEF Held
<1>8. /\ Counts(s, r, Moved(s, st, m))
      /\ Moved(s, st, m) - Left(s, r) >= m - Left(s, st)
  BY <1>1, <1>2, <1>5, EventCounts
<1>9. Reaches(s, r, Moved(s, st, m), n)
  BY <1>1, <1>4, <1>8, LeftIsNat, MovedIsInt DEF Reaches
<1> QED
  BY <1>4, <1>5, <1>6, <1>7, <1>8, <1>9, Zenon DEF Tracked

(* ... and the last one of a move.                                          *)
Ended(st) == [Toggled(st) EXCEPT !.count = 0, !.time = Off]
LEMMA EndedTracks ==
    ASSUME NEW s, NEW st, NEW m \in Int, NEW h, NEW n, Tracked(s, st, m, h),
           Reaches(s, st, m, n), Paid(n) \in Int, st.count = 1,
           ~BeginsPulse(s, st), NEW min
    PROVE  LET r == Ended(st)
           IN /\ Tracked(s, r, Moved(s, st, m), min) /\ r.mq = st.mq
              /\ Reaches(s, r, Moved(s, st, m), n)
              /\ Left(s, r) = 0
<1> DEFINE r == Ended(st)
<1>1. st \in StepperState /\ st.count > 0 /\ 0 \in Nat /\ st.count - 1 = 0
  BY DEF Tracked
<1>4. r \in StepperState
  BY <1>1, NotIsBool, Zenon DEF Ended, Toggled, StepperState
<1>5. /\ r.time = Off
      /\ r.count = 0 /\ r.position = st.position
      /\ r.mq = st.mq /\ r.dir_pin = st.dir_pin /\ r.step_pin = ~st.step_pin
  BY <1>1, Zenon DEF Ended, Toggled, StepperState
<1>6. Phase(s, r)
  <2>1. CASE s \notin BothEdges
    <3>2. st.count % 2 = 1 /\ ~(0 % 2 = 1)
      OBVIOUS
    <3>3. st.step_pin
      BY <2>1, <3>2, Zenon DEF Tracked, Phase
    <3> QED
      BY <1>5, <3>2, <3>3, Zenon DEF Phase
  <2> QED
    BY <2>1, Zenon DEF Phase
<1>7. Held(r, min)
  BY <1>5, Zenon DEF Held
<1>8. /\ Counts(s, r, Moved(s, st, m))
      /\ Moved(s, st, m) - Left(s, r) >= m - Left(s, st)
  BY <1>1, <1>5, EventCounts
<1>9. Reaches(s, r, Moved(s, st, m), n)
  BY <1>1, <1>4, <1>8, LeftIsNat, MovedIsInt DEF Reaches
<1>10. Left(s, r) = 0
  BY <1>5 DEF Left
<1> QED
  BY <1>4, <1>5, <1>6, <1>7, <1>8, <1>9, <1>10, Zenon DEF Tracked

-----------------------------------------------------------------------------
(* A load: u has no step left and a move to load.                           *)
Loads(s, u, m, n) ==
    /\ u \in StepperState /\ u.mq \in Seq(ShortMove) /\ u.mq # <<>>
    /\ s \notin BothEdges => ~u.step_pin
    /\ u.position = (IF u.dir_pin THEN BIAS + m ELSE -(BIAS + m))
    /\ m >= -Paid(n)

LEMMA FirstMove ==
    ASSUME NEW s, NEW u, NEW m, NEW n, Loads(s, u, m, n)
    PROVE  /\ Head(u.mq) \in ShortMove /\ Tail(u.mq) \in Seq(ShortMove)
           /\ Tail(u.mq) \in Seq(Move) /\ Len(Tail(u.mq)) = Len(u.mq) - 1
           /\ Len(u.mq) \in Nat
<1>1. u.mq \in Seq(ShortMove) /\ u.mq # <<>> /\ u.mq \in Seq(Move)
  BY Zenon DEF Loads, StepperState
<1> QED
  BY <1>1, HeadTailProperties, LenProperties

LEMMA PoppedIs ==
    ASSUME NEW s, NEW u, NEW m \in Int, NEW n \in Int, Loads(s, u, m, n)
    PROVE  LET r == Popped(s, u)
               f == Head(u.mq)
           IN /\ r \in StepperState /\ r.mq = Tail(u.mq) /\ r.count > 0
              /\ Left(s, r) = f.count /\ r.time \in Int
              /\ r.position - f.count = (IF f.dir THEN -u.position ELSE u.position)
              /\ r.dir_pin = u.dir_pin /\ r.step_pin = u.step_pin
              /\ Phase(s, r) /\ Reaches(s, r, m, n + 1)
<1> DEFINE r == Popped(s, u)
           f == Head(u.mq)
           p == (IF f.dir THEN -u.position ELSE u.position) + f.count
           c == IF s \in BothEdges THEN f.count ELSE 2 * f.count
<1>1. /\ f \in Move /\ f.count <= Longest /\ Tail(u.mq) \in Seq(Move)
  BY FirstMove, Zenon DEF ShortMove
<1>2. /\ f.interval \in Int /\ f.add \in Int /\ f.count \in Nat \ {0}
      /\ u.next_step_time \in Int /\ u.position \in Int /\ u \in StepperState
  BY <1>1, Zenon DEF Move, Loads, StepperState
<1>3. /\ f.interval + f.add \in Int /\ u.next_step_time + f.interval \in Int
      /\ c \in Nat /\ c > 0
  BY <1>2
<1>4. p \in Int
  BY <1>2
<1>5. r \in StepperState
  <2> HIDE DEF p, c
  <2>1. r = [u EXCEPT !.mq = Tail(@), !.add = f.add,
                  !.interval = f.interval + f.add,
                  !.next_step_time = @ + f.interval,
                  !.time = u.next_step_time + f.interval,
                  !.position = p, !.count = c]
    BY Zenon DEF Popped, p, c
  <2> QED
    BY <2>1, <1>1, <1>2, <1>3, <1>4, ZenonT(60) DEF StepperState
<1>6. /\ r.mq = Tail(u.mq) /\ r.time = u.next_step_time + f.interval
      /\ r.position = p /\ r.count = c
      /\ r.dir_pin = u.dir_pin /\ r.step_pin = u.step_pin
  BY <1>2, Zenon DEF Popped, StepperState
<1>7. Left(s, r) = f.count
  BY <1>2, <1>6 DEF Left
<1>8. Phase(s, r)
  <2>1. \A k \in Nat : ~((2 * k) % 2 = 1)
    OBVIOUS
  <2>2. CASE s \notin BothEdges
    <3>1. ~(r.count % 2 = 1)
      BY <1>2, <1>6, <2>1, <2>2
    <3> QED
      BY <1>6, <2>2, <3>1, Zenon DEF Loads, Phase
  <2> QED
    BY <2>2, Zenon DEF Phase
<1>9. Reaches(s, r, m, n + 1)
  <2>1. Longest \in Nat /\ m >= -Paid(n)
    BY LongestIs DEF Loads
  <2>2. Paid(n) \in Int /\ Paid(n + 1) = Paid(n) + Longest
    BY PaidIsInt
  <2>3. f.count \in Int /\ f.count <= Longest
    BY <1>1, <1>2
  <2> HIDE DEF r, f
  <2> QED
    BY <1>7, <2>1, <2>2, <2>3 DEF Reaches
<1>10. r.position - f.count = (IF f.dir THEN -u.position ELSE u.position)
  BY <1>2, <1>6
<1> QED
  BY <1>3, <1>5, <1>6, <1>7, <1>8, <1>9, <1>10, Zenon

(* The direction turns with the sign of the position.                       *)
LEMMA TurnCounts ==
    ASSUME NEW s, NEW u, NEW m \in Int, NEW n, Loads(s, u, m, n), NEW r,
           r.position - Left(s, r) =
               (IF Head(u.mq).dir THEN -u.position ELSE u.position),
           r.dir_pin = (IF Head(u.mq).dir THEN ~u.dir_pin ELSE u.dir_pin)
    PROVE  Counts(s, r, m)
<1>1. u.position = (IF u.dir_pin THEN BIAS + m ELSE -(BIAS + m))
  BY Zenon DEF Loads
<1>2. -(-(BIAS + m)) = BIAS + m
  BY Numbers
<1> QED
  BY <1>1, <1>2, Zenon DEF Counts

LEMMA LoadedIdleTracks ==
    ASSUME NEW s, NEW u, NEW m \in Int, NEW n \in Int, Loads(s, u, m, n)
    PROVE  LET r == LoadedIdle(s, u)
           IN /\ Tracked(s, r, m, 0) /\ r.mq = Tail(u.mq)
              /\ Reaches(s, r, m, n + 1)
              /\ r.time \in Int
<1> DEFINE p == Popped(s, u)
           r == LoadedIdle(s, u)
           f == Head(u.mq)
<1> HIDE DEF p
<1>1. /\ p \in StepperState /\ p.mq = Tail(u.mq) /\ p.count > 0
      /\ Left(s, p) = f.count /\ p.time \in Int
      /\ p.position - f.count = (IF f.dir THEN -u.position ELSE u.position)
      /\ p.dir_pin = u.dir_pin /\ p.step_pin = u.step_pin
      /\ Phase(s, p) /\ Reaches(s, p, m, n + 1)
  BY PoppedIs DEF p
<1>2. r = [p EXCEPT !.dir_pin = IF f.dir THEN ~@ ELSE @]
  BY Zenon DEF LoadedIdle, p
<1>3. (IF f.dir THEN ~p.dir_pin ELSE p.dir_pin) \in BOOLEAN
  BY <1>1, NotIsBool, Zenon DEF StepperState
<1> HIDE DEF r
<1>4. r \in StepperState
  BY <1>1, <1>2, <1>3, Zenon DEF StepperState
<1>5. /\ r.mq = Tail(u.mq) /\ r.time = p.time /\ r.position = p.position
      /\ r.count = p.count /\ r.step_pin = p.step_pin
      /\ r.dir_pin = (IF f.dir THEN ~p.dir_pin ELSE p.dir_pin)
  BY <1>1, <1>2, Zenon DEF StepperState
<1>6. Left(s, r) = Left(s, p)
  BY <1>5, Zenon DEF Left
<1>7. Counts(s, r, m)
  BY <1>1, <1>5, <1>6, TurnCounts, Zenon
<1>8. Phase(s, r) /\ Reaches(s, r, m, n + 1)
  BY <1>1, <1>5, <1>6, Zenon DEF Phase, Reaches
<1>9. Held(r, 0)
  <2>1. 0 <= 0
    OBVIOUS
  <2> QED
    BY <1>1, <1>5, <2>1, Zenon DEF Held
<1>10. Tail(u.mq) \in Seq(ShortMove)
  BY FirstMove
<1> QED
  BY <1>1, <1>4, <1>5, <1>7, <1>8, <1>9, <1>10, Zenon DEF Tracked, r

LEMMA LoadedActiveTracks ==
    ASSUME NEW s, NEW u, NEW m \in Int, NEW n \in Int, Loads(s, u, m, n),
           NEW cur \in Int, NEW min \in Int, min >= cur, NEW k \in Int,
           k = min \/ (Head(u.mq).dir /\ k = TurnTime(s, u, cur, min) + PULSE)
    PROVE  LET r == LoadedActive(s, u, cur, min)
           IN /\ Tracked(s, r, m, k) /\ r.mq = Tail(u.mq)
              /\ Reaches(s, r, m, n + 1)
<1> DEFINE p == Popped(s, u)
           r == LoadedActive(s, u, cur, min)
           f == Head(u.mq)
           w == Later(p.time, min)
           x == Later(w, TurnTime(s, u, cur, min) + PULSE)
           y == IF f.dir THEN x ELSE w
<1> HIDE DEF p
<1>1. /\ p \in StepperState /\ p.mq = Tail(u.mq) /\ p.count > 0
      /\ Left(s, p) = f.count /\ p.time \in Int
      /\ p.position - f.count = (IF f.dir THEN -u.position ELSE u.position)
      /\ p.dir_pin = u.dir_pin /\ p.step_pin = u.step_pin
      /\ Phase(s, p) /\ Reaches(s, p, m, n + 1)
  BY PoppedIs DEF p
<1>2. TurnTime(s, u, cur, min) \in Int /\ w \in Int /\ w >= min
  BY <1>1, LaterIs DEF TurnTime
<1>3. x \in Int /\ x >= w /\ x >= TurnTime(s, u, cur, min) + PULSE
  <2>1. TurnTime(s, u, cur, min) + PULSE \in Int
    BY <1>2, Numbers
  <2> HIDE DEF w
  <2> QED
    BY <1>2, <2>1, LaterIs
<1>4. y \in Int /\ y >= k
  <2> HIDE DEF w, x
  <2> QED
    BY <1>2, <1>3, Numbers
<1>5. r = [p EXCEPT !.dir_pin = (IF f.dir THEN ~p.dir_pin ELSE p.dir_pin), !.time = y]
  <2>1. CASE f.dir
    BY <2>1, Zenon DEF LoadedActive, p
  <2>2. CASE ~f.dir
    <3>1. p = [p EXCEPT !.dir_pin = p.dir_pin]
      BY <1>1, Zenon DEF StepperState
    <3>2. [p EXCEPT !.time = w] = [[p EXCEPT !.dir_pin = p.dir_pin] EXCEPT !.time = w]
      BY <3>1, Zenon
    <3> QED
      BY <2>2, <3>2, Zenon DEF LoadedActive, p
  <2> QED
    BY <2>1, <2>2
<1>6. (IF f.dir THEN ~p.dir_pin ELSE p.dir_pin) \in BOOLEAN
  BY <1>1, NotIsBool, Zenon DEF StepperState
<1> HIDE DEF r, y
<1>7. r \in StepperState
  BY <1>1, <1>4, <1>5, <1>6, Zenon DEF StepperState
<1>8. /\ r.mq = Tail(u.mq) /\ r.time = y /\ r.position = p.position
      /\ r.count = p.count /\ r.step_pin = p.step_pin
      /\ r.dir_pin = (IF f.dir THEN ~p.dir_pin ELSE p.dir_pin)
  BY <1>1, <1>5, Zenon DEF StepperState
<1>9. Left(s, r) = Left(s, p)
  BY <1>8, Zenon DEF Left
<1>10. Counts(s, r, m)
  BY <1>1, <1>8, <1>9, TurnCounts, Zenon
<1>11. Phase(s, r) /\ Reaches(s, r, m, n + 1)
  BY <1>1, <1>8, <1>9, Zenon DEF Phase, Reaches
<1>12. Held(r, k)
  BY <1>1, <1>4, <1>8 DEF Held
<1>13. Tail(u.mq) \in Seq(ShortMove)
  BY FirstMove
<1> QED
  BY <1>7, <1>8, <1>10, <1>11, <1>12, <1>13, Zenon DEF Tracked, r

(* A move joins the queue.                                                  *)
LEMMA WithMoveTracks ==
    ASSUME NEW s, NEW st, NEW m \in Int, NEW h, Tracked(s, st, m, h),
           NEW k \in Moves
    PROVE  LET r == WithMove(st, k)
           IN /\ Tracked(s, r, m, h) /\ Len(r.mq) = Len(st.mq) + 1
              /\ Len(st.mq) \in Nat /\ r.mq # <<>>
              /\ r.count = st.count /\ r.position = st.position
              /\ r.step_pin = st.step_pin /\ r.dir_pin = st.dir_pin
              /\ r.time = st.time /\ Left(s, r) = Left(s, st)
<1> DEFINE r == WithMove(st, k)
           a == [interval |-> k.interval, count |-> k.count, add |-> k.add,
                 dir |-> Turns(st)]
<1>1. st \in StepperState /\ st.mq \in Seq(ShortMove)
  BY Zenon DEF Tracked
<1>2. Turns(st) \in BOOLEAN
  BY Zenon DEF Turns
<1>3. a \in Move
  BY <1>2, HomingAssumption, Zenon DEF Move
<1>4. a \in ShortMove
  BY <1>3, LongestIs, Zenon DEF ShortMove
<1> HIDE DEF a
<1>5. /\ Append(st.mq, a) \in Seq(ShortMove) /\ Append(st.mq, a) \in Seq(Move)
      /\ Len(Append(st.mq, a)) = Len(st.mq) + 1 /\ Len(st.mq) \in Nat
      /\ Append(st.mq, a) # <<>>
  <2>1. st.mq \in Seq(Move)
    BY <1>1, Zenon DEF StepperState
  <2>2. Len(Append(st.mq, a)) = Len(st.mq) + 1 /\ Len(st.mq) \in Nat
    BY <1>1, <1>4
  <2>3. Append(st.mq, a) # <<>>
    BY <2>2
  <2> QED
    BY <1>1, <1>3, <1>4, <2>1, <2>2, <2>3
<1>6. r = [st EXCEPT !.last_dir = st.next_dir, !.mq = Append(@, a)]
  BY Zenon DEF WithMove, a
<1> HIDE DEF r
<1>7. r \in StepperState
  BY <1>1, <1>5, <1>6, Zenon DEF StepperState
<1>8. /\ r.mq = Append(st.mq, a)
      /\ r.count = st.count /\ r.position = st.position
      /\ r.step_pin = st.step_pin /\ r.dir_pin = st.dir_pin
      /\ r.time = st.time
  BY <1>1, <1>6, Zenon DEF StepperState
<1>9. Left(s, r) = Left(s, st)
  BY <1>8, Zenon DEF Left
<1>10. Phase(s, r) /\ Counts(s, r, m) /\ Held(r, h)
  BY <1>8, <1>9, Zenon DEF Tracked, Phase, Counts, Held
<1> QED
  BY <1>5, <1>7, <1>8, <1>9, <1>10, Zenon DEF Tracked, r

-----------------------------------------------------------------------------
(* The invariant, in the parts that a step changes or leaves alone.         *)
Budget == commands - (IF task.at = "queue_step" THEN 1 ELSE 0)
StepPart ==
    /\ stepper \in [Stepper -> StepperState]
    /\ motor \in [Stepper -> Int] /\ hold \in [Stepper -> Int]
    /\ \A s \in Stepper : Good(s, stepper[s], motor[s], hold[s], Budget)
(* A stepper follows one trsync, or none.                                   *)
TrigPart ==
    /\ trsync \in [Trsync -> TrsyncState]
    /\ active = UNION {trsync[t].signals : t \in Trsync}
    /\ \A t, v \in Trsync, s \in Stepper :
           s \in trsync[t].signals /\ s \in trsync[v].signals => t = v
(* The samples that matched and those to come are as many as were asked for.*)
Samples(es, k) ==
    es.time # Off =>
        /\ es.ts \in Trsync /\ es.trigger_count > 0 /\ es.sample_count > 0
        /\ k + es.trigger_count = es.sample_count
        /\ es.func = "endstop_event" => k = 0
EndPart ==
    /\ endstop \in [Endstop -> EndstopState] /\ streak \in [Endstop -> Nat]
    /\ \A e \in Endstop : Samples(endstop[e], streak[e])
RestPart ==
    /\ now \in Nat /\ commands \in Nat /\ commands <= MaxCommands
    /\ wake \in BOOLEAN /\ shutdown \in BOOLEAN /\ told \in [Trsync -> BOOLEAN]
HInv == StepPart /\ TrigPart /\ EndPart /\ RestPart

(* Budgets only grow, and never beyond what the host sends.                 *)
Spends == Budget' \in Int /\ Budget' >= Budget

LEMMA BudgetIs == RestPart => Budget \in Int /\ Budget <= MaxCommands
  BY Numbers DEF RestPart, Budget

(* No motor is as far back as the start of the count.                       *)
LEMMA NotTooFar ==
    ASSUME NEW m \in Int, NEW n \in Int, n <= MaxCommands, m >= -Paid(n)
    PROVE  BIAS + m >= 0
  BY PaidIsInt, PaidInAll, Numbers

LEMMA MotorIsNear ==
    ASSUME StepPart, RestPart, NEW s \in Stepper
    PROVE  /\ stepper[s] \in StepperState /\ motor[s] \in Int /\ hold[s] \in Int
           /\ Len(stepper[s].mq) \in Nat /\ Budget - Len(stepper[s].mq) \in Int
           /\ motor[s] >= -Paid(Budget) /\ BIAS + motor[s] >= 0
<1>1. /\ stepper[s] \in StepperState /\ motor[s] \in Int /\ hold[s] \in Int
      /\ Good(s, stepper[s], motor[s], hold[s], Budget)
  BY Zenon DEF StepPart
<1>2. Budget \in Int /\ Budget <= MaxCommands
  BY BudgetIs
<1>3. Len(stepper[s].mq) \in Nat
  BY <1>1 DEF StepperState
<1>4. Left(s, stepper[s]) \in Nat
  BY <1>1, LeftIsNat
<1>5. motor[s] - Left(s, stepper[s]) >= -Paid(Budget - Len(stepper[s].mq))
  BY <1>1, Zenon DEF Good, Reaches
<1>6. /\ Budget - Len(stepper[s].mq) \in Int
      /\ Budget - Len(stepper[s].mq) <= Budget
  BY <1>2, <1>3
<1>7. /\ Paid(Budget - Len(stepper[s].mq)) <= Paid(Budget)
      /\ Paid(Budget) \in Int /\ Paid(Budget - Len(stepper[s].mq)) \in Int
  BY <1>2, <1>6, PaidGrows, PaidIsInt
<1>8. motor[s] >= -Paid(Budget)
  BY <1>1, <1>4, <1>5, <1>7
<1> QED
  BY <1>1, <1>2, <1>3, <1>6, <1>8, NotTooFar

(* More may be spent on a stepper that stays as it is.                      *)
LEMMA GoodLater ==
    ASSUME NEW s, NEW st \in StepperState, NEW m \in Int, NEW h, NEW n \in Int,
           NEW k \in Int, n <= k, Good(s, st, m, h, n)
    PROVE  Good(s, st, m, h, k)
<1>1. Len(st.mq) \in Nat /\ Left(s, st) \in Nat
  BY LeftIsNat DEF StepperState
<1>2. n - Len(st.mq) \in Int /\ k - Len(st.mq) \in Int /\ n - Len(st.mq) <= k - Len(st.mq)
  BY <1>1
<1>3. /\ Paid(n - Len(st.mq)) <= Paid(k - Len(st.mq))
      /\ Paid(n - Len(st.mq)) \in Int /\ Paid(k - Len(st.mq)) \in Int
  BY <1>2, PaidGrows, PaidIsInt
<1>4. m - Left(s, st) >= -Paid(n - Len(st.mq))
  BY Zenon DEF Good, Reaches
<1>5. m - Left(s, st) >= -Paid(k - Len(st.mq))
  BY <1>1, <1>3, <1>4
<1> QED
  BY <1>5, Zenon DEF Good, Reaches

LEMMA SteppersStay ==
    ASSUME HInv, UNCHANGED motors, Spends
    PROVE  StepPart'
<1>1. Budget \in Int
  BY BudgetIs DEF HInv
<1>2. ASSUME NEW s \in Stepper
      PROVE  Good(s, stepper[s], motor[s], hold[s], Budget')
  <2>1. /\ stepper[s] \in StepperState /\ motor[s] \in Int
        /\ Good(s, stepper[s], motor[s], hold[s], Budget)
    BY Zenon DEF HInv, StepPart
  <2> QED
    BY <1>1, <2>1, GoodLater DEF Spends
<1>3. stepper' = stepper /\ motor' = motor /\ hold' = hold
  BY Zenon DEF motors
<1> QED
  BY <1>2, <1>3, Zenon DEF HInv, StepPart

(* One stepper changes.                                                     *)
LEMMA StepperChanges ==
    ASSUME HInv, NEW s \in Stepper, NEW st \in StepperState, NEW m \in Int,
           NEW h \in Int, stepper' = [stepper EXCEPT ![s] = st],
           motor' = [motor EXCEPT ![s] = m], hold' = [hold EXCEPT ![s] = h],
           Spends, Good(s, st, m, h, Budget')
    PROVE  StepPart'
<1>1. Budget \in Int
  BY BudgetIs DEF HInv
<1>2. ASSUME NEW v \in Stepper
      PROVE  Good(v, stepper'[v], motor'[v], hold'[v], Budget')
  <2>1. /\ stepper[v] \in StepperState /\ motor[v] \in Int
        /\ Good(v, stepper[v], motor[v], hold[v], Budget)
    BY Zenon DEF HInv, StepPart
  <2>2. Good(v, stepper[v], motor[v], hold[v], Budget')
    BY <1>1, <2>1, GoodLater DEF Spends
  <2> QED
    BY <2>2, Zenon DEF HInv, StepPart
<1>3. /\ stepper' \in [Stepper -> StepperState]
      /\ motor' \in [Stepper -> Int] /\ hold' \in [Stepper -> Int]
  BY Zenon DEF HInv, StepPart
<1> QED
  BY <1>2, <1>3, Zenon DEF StepPart

(* Some of them, or all, stop.                                              *)
LEMMA StoppedIsGood ==
    ASSUME NEW s, NEW st \in StepperState, NEW m \in Int, NEW n \in Int,
           BIAS + m >= 0, m >= -Paid(n),
           \/ st.position - Left(s, st) = BIAS + m
           \/ st.position - Left(s, st) = -(BIAS + m)
    PROVE  /\ Stopped(s, st) \in StepperState
           /\ Good(s, Stopped(s, st), m, 0, n)
<1>1. /\ Tracked(s, Stopped(s, st), m, 0) /\ Stopped(s, st).mq = <<>>
      /\ Left(s, Stopped(s, st)) = 0
  BY StopTracks
<1>2. n - Len(<<>>) = n /\ m - 0 = m
  OBVIOUS
<1>3. Reaches(s, Stopped(s, st), m, n - Len(Stopped(s, st).mq))
  BY <1>1, <1>2, Zenon DEF Reaches
<1> QED
  BY <1>1, <1>3, Zenon DEF Good, Tracked

LEMMA StopKeeps ==
    ASSUME HInv, NEW S, Stop(S), Spends
    PROVE  StepPart'
<1>1. Budget \in Int
  BY BudgetIs DEF HInv
<1>2. ASSUME NEW s \in Stepper
      PROVE  /\ stepper'[s] \in StepperState /\ hold'[s] \in Int
             /\ Good(s, stepper'[s], motor[s], hold'[s], Budget')
  <2>1. /\ stepper[s] \in StepperState /\ motor[s] \in Int /\ hold[s] \in Int
        /\ Good(s, stepper[s], motor[s], hold[s], Budget)
    BY Zenon DEF HInv, StepPart
  <2>2. motor[s] >= -Paid(Budget) /\ BIAS + motor[s] >= 0
    BY MotorIsNear DEF HInv
  <2>3. CASE s \in S
    <3>1. \/ stepper[s].position - Left(s, stepper[s]) = BIAS + motor[s]
          \/ stepper[s].position - Left(s, stepper[s]) = -(BIAS + motor[s])
      BY <2>1, Zenon DEF Good, Tracked, Counts
    <3>2. /\ Stopped(s, stepper[s]) \in StepperState
          /\ Good(s, Stopped(s, stepper[s]), motor[s], 0, Budget)
      BY <1>1, <2>1, <2>2, <3>1, StoppedIsGood
    <3>3. Good(s, Stopped(s, stepper[s]), motor[s], 0, Budget')
      BY <1>1, <2>1, <3>2, GoodLater DEF Spends
    <3>4. stepper'[s] = Stopped(s, stepper[s]) /\ hold'[s] = 0
      BY <2>3, Zenon DEF Stop
    <3>5. 0 \in Int
      OBVIOUS
    <3> QED
      BY <3>2, <3>3, <3>4, <3>5, Zenon
  <2>4. CASE s \notin S
    <3>1. stepper'[s] = stepper[s] /\ hold'[s] = hold[s]
      BY <2>4, Zenon DEF Stop
    <3>2. Good(s, stepper[s], motor[s], hold[s], Budget')
      BY <1>1, <2>1, GoodLater DEF Spends
    <3> QED
      BY <2>1, <3>1, <3>2, Zenon
  <2> QED
    BY <2>3, <2>4
<1>3. motor' = motor /\ motor \in [Stepper -> Int]
  BY Zenon DEF Stop, HInv, StepPart
<1>4. stepper' \in [Stepper -> StepperState] /\ hold' \in [Stepper -> Int]
  <2>1. /\ stepper' = [s \in Stepper |-> stepper'[s]]
        /\ hold' = [s \in Stepper |-> hold'[s]]
    BY Zenon DEF Stop
  <2> QED
    BY <1>2, <2>1, Zenon
<1> QED
  BY <1>2, <1>3, <1>4, Zenon DEF StepPart

(* What the operators make of a trsync.                                     *)
LEMMA ClearedIs ==
    ASSUME NEW ts \in TrsyncState
    PROVE  Cleared(ts) \in TrsyncState /\ Cleared(ts).signals = {}
<1>1. 0 \in Nat /\ {} \in SUBSET Stepper /\ Off \in Clock
  BY DEF Clock
<1> QED
  BY <1>1, Zenon DEF Cleared, TrsyncState

LEMMA TriggeredIs ==
    ASSUME NEW ts \in TrsyncState, NEW r \in Nat
    PROVE  /\ Triggered(ts, r) \in TrsyncState
           /\ Triggered(ts, r).signals = ts.signals \ Signalled(ts)
<1>1. {} \in SUBSET Stepper /\ ts.signals \ ts.signals = {} /\ ts.signals \ {} = ts.signals
  OBVIOUS
<1>2. CASE ts.can
  BY <1>1, <1>2, Zenon DEF Triggered, Signalled, TrsyncState
<1>3. CASE ~ts.can
  BY <1>1, <1>3, Zenon DEF Triggered, Signalled, TrsyncState
<1> QED
  BY <1>2, <1>3

(* One trsync loses some of its signals, which are active no more.          *)
LEMMA SignalsLost ==
    ASSUME TrigPart, NEW t \in Trsync, NEW u \in TrsyncState, NEW S,
           trsync' = [trsync EXCEPT ![t] = u], S \subseteq trsync[t].signals,
           u.signals = trsync[t].signals \ S, active' = active \ S
    PROVE  TrigPart'
<1>1. trsync' \in [Trsync -> TrsyncState]
  BY Zenon DEF TrigPart
<1>2. /\ trsync'[t] = u
      /\ \A v \in Trsync : v # t => trsync'[v] = trsync[v]
      /\ \A v \in Trsync : trsync[v].signals \subseteq Stepper
  BY Zenon DEF TrigPart, TrsyncState
<1>3. \A v, w \in Trsync, s \in Stepper :
          s \in trsync'[v].signals /\ s \in trsync'[w].signals => v = w
  BY <1>2, Zenon DEF TrigPart
<1>4. active' = UNION {trsync'[v].signals : v \in Trsync}
  <2>1. \A s : s \in active <=> \E v \in Trsync : s \in trsync[v].signals
    BY Zenon DEF TrigPart
  <2>2. \A s : s \in active' <=> s \in active /\ s \notin S
    BY Zenon
  <2>3. \A s : (\E v \in Trsync : s \in trsync'[v].signals)
             <=> (\E v \in Trsync : s \in trsync[v].signals) /\ s \notin S
    BY <1>2, Zenon DEF TrigPart
  <2> QED
    BY <2>1, <2>2, <2>3, Zenon
<1> QED
  BY <1>1, <1>3, <1>4, Zenon DEF TrigPart

(* One trsync changes but for its signals.                                  *)
LEMMA SignalsStay ==
    ASSUME TrigPart, NEW t \in Trsync, NEW u \in TrsyncState,
           trsync' = [trsync EXCEPT ![t] = u], active' = active,
           u.signals = trsync[t].signals
    PROVE  TrigPart'
<1>1. {} \subseteq trsync[t].signals /\ trsync[t].signals \ {} = trsync[t].signals
      /\ active \ {} = active
  OBVIOUS
<1> QED
  BY <1>1, SignalsLost, Zenon

LEMMA SignalledIs ==
    ASSUME TrigPart, NEW t \in Trsync
    PROVE  trsync[t] \in TrsyncState /\ Signalled(trsync[t]) \subseteq trsync[t].signals
  BY Zenon DEF TrigPart, Signalled

(* Nothing that TrigPart or EndPart is about changes.                       *)
LEMMA TrigStays == TrigPart /\ UNCHANGED <<trsync, active>> => TrigPart'
  BY Zenon DEF TrigPart
LEMMA EndStays == EndPart /\ UNCHANGED <<endstop, streak>> => EndPart'
  BY Zenon DEF EndPart

(* A shutdown, whatever was done before it.                                 *)
LEMMA ShutDownKeepsAll ==
    ASSUME HInv, NEW st \in [Stepper -> StepperState], NEW es \in [Endstop -> EndstopState],
           ShutDown(st, es), motor' \in [Stepper -> Int],
           commands' \in Nat, commands' <= MaxCommands,
           \A s \in Stepper :
               /\ BIAS + motor'[s] >= 0 /\ motor'[s] >= -Paid(commands')
               /\ \/ st[s].position - Left(s, st[s]) = BIAS + motor'[s]
                  \/ st[s].position - Left(s, st[s]) = -(BIAS + motor'[s])
    PROVE  HInv'
<1>1. Budget' = commands' /\ commands' \in Int
  BY DEF ShutDown, Idle, Budget
<1>2. ASSUME NEW s \in Stepper
      PROVE  /\ stepper'[s] \in StepperState /\ hold'[s] = 0
             /\ Good(s, stepper'[s], motor'[s], hold'[s], Budget')
  <2> DEFINE x == [st[s] EXCEPT !.mq = <<>>]
  <2>1. <<>> \in Seq(Move) /\ st[s] \in StepperState /\ motor'[s] \in Int
    BY Zenon, EmptySeq
  <2>2. x \in StepperState /\ x.position = st[s].position /\ x.count = st[s].count
    BY <2>1, Zenon DEF StepperState
  <2> HIDE DEF x
  <2>3. Left(s, x) = Left(s, st[s])
    BY <2>2, Zenon DEF Left
  <2>4. /\ BIAS + motor'[s] >= 0 /\ motor'[s] >= -Paid(commands')
        /\ \/ x.position - Left(s, x) = BIAS + motor'[s]
           \/ x.position - Left(s, x) = -(BIAS + motor'[s])
    BY <2>2, <2>3, Zenon
  <2>5. /\ Stopped(s, x) \in StepperState
        /\ Good(s, Stopped(s, x), motor'[s], 0, commands')
    BY <1>1, <2>1, <2>2, <2>4, StoppedIsGood
  <2>6. stepper'[s] = Stopped(s, x) /\ hold'[s] = 0
    BY Zenon DEF ShutDown, x
  <2> QED
    BY <1>1, <2>5, <2>6, Zenon
<1>3. stepper' \in [Stepper -> StepperState] /\ hold' \in [Stepper -> Int]
  <2>1. /\ stepper' = [s \in Stepper |-> stepper'[s]]
        /\ hold' = [s \in Stepper |-> 0]
    BY Zenon DEF ShutDown
  <2>2. 0 \in Int
    OBVIOUS
  <2> QED
    BY <1>2, <2>1, <2>2, Zenon
<1>4. StepPart'
  BY <1>2, <1>3, Zenon DEF StepPart
<1>5. ASSUME NEW t \in Trsync
      PROVE  trsync'[t] \in TrsyncState /\ trsync'[t].signals = {}
  BY ClearedIs, Zenon DEF ShutDown, HInv, TrigPart
<1>6. TrigPart'
  <2>1. trsync' = [t \in Trsync |-> trsync'[t]]
    BY Zenon DEF ShutDown
  <2>2. trsync' \in [Trsync -> TrsyncState]
    BY <1>5, <2>1, Zenon
  <2>3. active' = {}
    BY Zenon DEF ShutDown, HInv, TrigPart
  <2>4. UNION {trsync'[t].signals : t \in Trsync} = {}
    BY <1>5, Zenon
  <2> QED
    BY <1>5, <2>2, <2>3, <2>4, Zenon DEF TrigPart
<1>7. ASSUME NEW e \in Endstop
      PROVE  endstop'[e] \in EndstopState /\ endstop'[e].time = Off
  BY Zenon DEF ShutDown, EndstopState, Clock
<1>8. EndPart'
  <2>1. endstop' = [e \in Endstop |-> endstop'[e]] /\ streak' = streak
    BY Zenon DEF ShutDown
  <2>2. endstop' \in [Endstop -> EndstopState]
    BY <1>7, <2>1, Zenon
  <2> QED
    BY <1>7, <2>1, <2>2, Zenon DEF EndPart, HInv, Samples
<1>9. RestPart'
  BY Zenon DEF ShutDown, HInv, RestPart
<1> QED
  BY <1>4, <1>6, <1>8, <1>9, Zenon DEF HInv

(* A command is counted; an event is not.                                   *)
Commanded == commands' = commands + 1 /\ commands' <= MaxCommands
Uncommanded == commands' = commands

LEMMA CommandedIs ==
    ASSUME RestPart, Commanded \/ Uncommanded
    PROVE  /\ commands' \in Nat /\ commands' <= MaxCommands
           /\ commands' >= commands
  BY Numbers DEF RestPart, Commanded, Uncommanded

(* The budget of a step that leaves the task as it is or ends a command.    *)
LEMMA SpendsIs ==
    ASSUME RestPart, Commanded \/ Uncommanded,
           task' = task \/ task'.at # "queue_step"
           \/ (task = Idle /\ Commanded)
    PROVE  Spends
<1>1. /\ commands \in Nat /\ commands' \in Nat /\ commands' >= commands
      /\ Commanded => commands' = commands + 1
  BY CommandedIs DEF RestPart, Commanded
<1>2. Idle.at # "queue_step"
  BY DEF Idle
<1> DEFINE hand == IF task.at = "queue_step" THEN 1 ELSE 0
<1>0. /\ hand \in {0, 1} /\ Budget = commands - hand
      /\ Budget' = commands' - hand'
  BY Zenon DEF Budget
<1> HIDE DEF hand
<1>6. \A x, y \in Nat, h \in {0, 1} :
          y >= x => /\ y - h \in Int /\ y - h >= x - h
                    /\ y - 0 \in Int /\ y - 0 >= x - h
  OBVIOUS
<1>3. CASE task' = task
  <2>1. hand' = hand
    BY <1>3, Zenon DEF hand
  <2> QED
    BY <1>0, <1>1, <1>6, <2>1, Zenon DEF Spends
<1>4. CASE task'.at # "queue_step"
  <2>1. hand' = 0
    BY <1>4, Zenon DEF hand
  <2> QED
    BY <1>0, <1>1, <1>6, <2>1, Zenon DEF Spends
<1>5. CASE task = Idle /\ Commanded
  <2>1. task.at # "queue_step" /\ commands' = commands + 1
    BY <1>1, <1>2, <1>5, Zenon
  <2>2. Budget = commands
    BY <1>1, <2>1 DEF Budget
  <2> QED
    BY <1>1, <2>1, <2>2 DEF Spends, Budget
<1> QED
  BY <1>3, <1>4, <1>5

LEMMA HaltKeeps ==
    ASSUME HInv, NEW es \in [Endstop -> EndstopState], ShutDown(stepper, es),
           UNCHANGED motor, Commanded \/ Uncommanded
    PROVE  HInv'
<1>1. /\ stepper \in [Stepper -> StepperState]
      /\ motor' = motor /\ motor \in [Stepper -> Int]
  BY Zenon DEF HInv, StepPart
<1>2. commands' \in Nat /\ commands' <= MaxCommands /\ commands \in Nat /\ commands' >= commands
  BY CommandedIs DEF HInv, RestPart
<1>3. ASSUME NEW s \in Stepper
      PROVE  /\ BIAS + motor[s] >= 0 /\ motor[s] >= -Paid(commands')
             /\ \/ stepper[s].position - Left(s, stepper[s]) = BIAS + motor[s]
                \/ stepper[s].position - Left(s, stepper[s]) = -(BIAS + motor[s])
  <2>1. motor[s] \in Int /\ motor[s] >= -Paid(Budget) /\ BIAS + motor[s] >= 0
    BY MotorIsNear DEF HInv
  <2>2. Budget \in Int /\ Budget <= commands'
    BY <1>2 DEF Budget
  <2>3. Paid(Budget) <= Paid(commands') /\ Paid(Budget) \in Int /\ Paid(commands') \in Int
    BY <1>2, <2>2, PaidGrows, PaidIsInt
  <2>4. \/ stepper[s].position - Left(s, stepper[s]) = BIAS + motor[s]
        \/ stepper[s].position - Left(s, stepper[s]) = -(BIAS + motor[s])
    BY Zenon DEF HInv, StepPart, Good, Tracked, Counts
  <2> QED
    BY <2>1, <2>3, <2>4
<1> QED
  BY <1>1, <1>2, <1>3, ShutDownKeepsAll, Zenon

LEMMA FailKeeps ==
    ASSUME HInv, Fail, Commanded \/ Uncommanded
    PROVE  HInv'
  BY HaltKeeps, Zenon DEF Fail, HInv, EndPart

-----------------------------------------------------------------------------
(* The events, one by one.                                                  *)
LEMMA TickKeeps == ASSUME HInv, Tick, Uncommanded PROVE HInv'
<1>1. Spends
  BY SpendsIs, Zenon DEF HInv, Tick
<1>2. StepPart'
  BY <1>1, SteppersStay, Zenon DEF Tick
<1>3. TrigPart' /\ EndPart'
  BY TrigStays, EndStays, Zenon DEF Tick, HInv
<1>4. now' \in Nat
  BY DEF Tick, HInv, RestPart
<1>5. RestPart'
  BY <1>4, Zenon DEF Tick, Uncommanded, HInv, RestPart
<1> QED
  BY <1>2, <1>3, <1>5, Zenon DEF HInv

LEMMA ExpireKeeps ==
    ASSUME HInv, NEW t \in Trsync, TrsyncExpireEvent(t), Uncommanded PROVE HInv'
<1> DEFINE ts == [trsync[t] EXCEPT !.expire_time = Off]
           u == Triggered(ts, ts.expire_reason)
           S == Signalled(ts)
<1>1. Spends
  BY SpendsIs, Zenon DEF HInv, TrsyncExpireEvent
<1>2. /\ ts \in TrsyncState /\ ts.expire_reason \in Nat /\ ts.can \in BOOLEAN
      /\ ts.signals = trsync[t].signals
  BY Zenon DEF HInv, TrigPart, TrsyncState, Clock
<1>3. /\ trsync' = [trsync EXCEPT ![t] = u] /\ Stop(S) /\ wake' = (wake \/ ts.can)
      /\ UNCHANGED <<now, endstop, task, shutdown, streak, told>>
  BY Zenon DEF TrsyncExpireEvent
<1> HIDE DEF ts
<1>4. u \in TrsyncState /\ u.signals = ts.signals \ S /\ S \subseteq ts.signals
  BY <1>2, TriggeredIs, Zenon DEF Signalled
<1> HIDE DEF u, S
<1>5. StepPart'
  BY <1>1, <1>3, StopKeeps, Zenon
<1>6. active' = active \ S
  BY <1>3, Zenon DEF Stop
<1>7. TrigPart'
  BY <1>2, <1>3, <1>4, <1>6, SignalsLost, Zenon DEF HInv
<1>8. EndPart'
  BY <1>3, EndStays, Zenon DEF HInv
<1>9. RestPart'
  BY <1>2, <1>3, Zenon DEF HInv, RestPart, Uncommanded
<1> QED
  BY <1>5, <1>7, <1>8, <1>9, Zenon DEF HInv

LEMMA ReportKeeps ==
    ASSUME HInv, NEW t \in Trsync, TrsyncReportEvent(t), Uncommanded PROVE HInv'
<1> DEFINE ts == trsync[t]
           u == [ts EXCEPT !.report = TRUE, !.report_time = @ + ts.report_ticks]
<1>1. Spends
  BY SpendsIs, Zenon DEF HInv, TrsyncReportEvent
<1>2. /\ ts \in TrsyncState /\ ts.report_time \in Clock /\ ts.report_ticks \in Nat
  BY Zenon DEF HInv, TrigPart, TrsyncState
<1>3. ts.report_time + ts.report_ticks \in Clock
  BY <1>2 DEF TrsyncReportEvent, Runs, Clock
<1>4. /\ trsync' = [trsync EXCEPT ![t] = u] /\ wake' = TRUE
      /\ UNCHANGED <<now, motors, active, endstop, task, shutdown, streak, told>>
  BY <1>2, Zenon DEF TrsyncReportEvent, HInv, TrigPart, TrsyncState
<1>5. u \in TrsyncState /\ u.signals = ts.signals
  BY <1>2, <1>3, Zenon DEF TrsyncState
<1> HIDE DEF u
<1>6. StepPart'
  BY <1>1, <1>4, SteppersStay, Zenon
<1>7. TrigPart'
  BY <1>4, <1>5, SignalsStay, Zenon DEF HInv
<1>8. EndPart'
  BY <1>4, EndStays, Zenon DEF HInv
<1>9. RestPart'
  BY <1>4, Zenon DEF HInv, RestPart, Uncommanded
<1> QED
  BY <1>6, <1>7, <1>8, <1>9, Zenon DEF HInv

(* One endstop changes, and its streak.                                     *)
LEMMA EndstopChanges ==
    ASSUME EndPart, NEW e \in Endstop, NEW x \in EndstopState, NEW k \in Nat,
           Samples(x, k), endstop' = [endstop EXCEPT ![e] = x],
           streak' = [streak EXCEPT ![e] = k]
    PROVE  EndPart'
  BY Zenon DEF EndPart

LEMMA EndstopIs ==
    ASSUME EndPart, NEW e \in Endstop
    PROVE  endstop[e] \in EndstopState /\ streak[e] \in Nat
           /\ Samples(endstop[e], streak[e])
  BY Zenon DEF EndPart

(* A sample at an endstop that is at x.                                     *)
LEMMA OversampleKeeps ==
    ASSUME HInv, NEW e \in Endstop, NEW x \in EndstopState, x.time # Off,
           Samples(x, streak[e]), x.func = "endstop_oversample_event",
           Oversample(e, x), Spends
    PROVE  StepPart' /\ TrigPart' /\ EndPart' /\ wake' \in BOOLEAN
<1> DEFINE y == [x EXCEPT !.trigger_count = @ - 1, !.time = @ + SAMPLE]
           z == [x EXCEPT !.time = Off]
           k == streak[e]
<1>1. /\ x.time \in Int /\ x.trigger_count \in Nat /\ x.sample_count \in Nat
      /\ x.nextwake \in Int /\ k \in Nat /\ x.ts \in Trsync
      /\ x.trigger_count > 0 /\ x.sample_count > 0
      /\ k + x.trigger_count = x.sample_count
  <2>1. x.time \in Int
    BY Zenon DEF EndstopState, Clock
  <2> QED
    BY <2>1, EndstopIs, Zenon DEF EndstopState, Samples, HInv
<1>2. wake \in BOOLEAN
  BY Zenon DEF HInv, RestPart
<1>3. CASE /\ endstop' = [endstop EXCEPT ![e] = Mismatch(x)]
           /\ streak' = [streak EXCEPT ![e] = 0]
           /\ UNCHANGED <<motors, active, trsync, wake>>
  <2> DEFINE m == Mismatch(x)
  <2>1. x.nextwake \in Clock /\ x.sample_count \in Nat
    BY <1>1 DEF Clock
  <2>2. /\ m \in EndstopState /\ m.ts = x.ts /\ m.sample_count = x.sample_count
        /\ m.trigger_count = x.sample_count
    BY <2>1, Zenon DEF Mismatch, EndstopState
  <2>3. 0 \in Nat /\ 0 + x.sample_count = x.sample_count
    BY <1>1
  <2>4. Samples(m, 0)
    BY <1>1, <2>2, <2>3, Zenon DEF Samples
  <2> HIDE DEF m
  <2>5. EndPart'
    BY <1>3, <2>2, <2>3, <2>4, EndstopChanges, Zenon DEF HInv, m
  <2> QED
    BY <1>2, <1>3, <2>5, SteppersStay, TrigStays, Zenon DEF HInv
<1>4. CASE /\ x.trigger_count # 1
           /\ endstop' = [endstop EXCEPT ![e] = y]
           /\ streak' = [streak EXCEPT ![e] = @ + 1]
           /\ UNCHANGED <<motors, active, trsync, wake>>
  <2>1. /\ x.trigger_count - 1 \in Nat /\ x.trigger_count - 1 > 0
        /\ x.time + SAMPLE \in Clock /\ k + 1 \in Nat
        /\ (k + 1) + (x.trigger_count - 1) = x.sample_count
    BY <1>1, <1>4, Numbers DEF Clock
  <2>2. /\ y \in EndstopState /\ y.ts = x.ts /\ y.sample_count = x.sample_count
        /\ y.trigger_count = x.trigger_count - 1
        /\ y.func = "endstop_oversample_event"
    BY <2>1, Zenon DEF EndstopState
  <2>3. "endstop_oversample_event" # "endstop_event"
    OBVIOUS
  <2>4. Samples(y, k + 1)
    BY <1>1, <2>1, <2>2, <2>3, Zenon DEF Samples
  <2>5. streak' = [streak EXCEPT ![e] = k + 1]
    BY <1>4, Zenon
  <2> HIDE DEF y
  <2>6. EndPart'
    BY <1>4, <2>1, <2>2, <2>4, <2>5, EndstopChanges, Zenon DEF HInv
  <2> QED
    BY <1>2, <1>4, <2>6, SteppersStay, TrigStays, Zenon DEF HInv
<1>5. CASE /\ endstop' = [endstop EXCEPT ![e] = z]
           /\ streak' = [streak EXCEPT ![e] = @ + 1]
           /\ trsync' = [trsync EXCEPT ![x.ts] = Triggered(@, HIT)]
           /\ Stop(Signalled(trsync[x.ts]))
           /\ wake' = (wake \/ trsync[x.ts].can)
  <2> DEFINE t == x.ts
             u == Triggered(trsync[t], HIT)
             S == Signalled(trsync[t])
  <2>1. k + 1 \in Nat /\ Off \in Clock /\ HIT \in Nat
    BY <1>1, Numbers DEF Clock, Reason
  <2>2. z \in EndstopState /\ z.time = Off
    BY <2>1, Zenon DEF EndstopState
  <2>3. Samples(z, k + 1)
    BY <2>2, Zenon DEF Samples
  <2>4. streak' = [streak EXCEPT ![e] = k + 1]
    BY <1>5, Zenon
  <2> HIDE DEF z
  <2>5. EndPart'
    BY <1>5, <2>1, <2>2, <2>3, <2>4, EndstopChanges, Zenon DEF HInv
  <2>6. trsync[t] \in TrsyncState /\ S \subseteq trsync[t].signals /\ t \in Trsync
    BY <1>1, SignalledIs, Zenon DEF HInv
  <2>7. u \in TrsyncState /\ u.signals = trsync[t].signals \ S
    BY <2>1, <2>6, TriggeredIs, Zenon
  <2>8. trsync' = [trsync EXCEPT ![t] = u] /\ Stop(S) /\ active' = active \ S
    BY <1>5, Zenon DEF Stop
  <2> HIDE DEF u, S, t
  <2>9. TrigPart'
    BY <2>6, <2>7, <2>8, SignalsLost, Zenon DEF HInv
  <2>10. StepPart'
    BY <2>8, StopKeeps, Zenon
  <2>11. wake' \in BOOLEAN
    BY <1>2, <1>5, Zenon
  <2> QED
    BY <2>5, <2>9, <2>10, <2>11
<1> QED
  BY <1>3, <1>4, <1>5, Zenon DEF Oversample

LEMMA EndstopEventKeeps ==
    ASSUME HInv, NEW e \in Endstop, EndstopEvent(e), Uncommanded PROVE HInv'
<1> DEFINE es == endstop[e]
           x == [es EXCEPT !.func = "endstop_oversample_event",
                           !.nextwake = es.time + REST]
<1>1. Spends
  BY SpendsIs, Zenon DEF HInv, EndstopEvent
<1>2. /\ es \in EndstopState /\ streak[e] \in Nat /\ Samples(es, streak[e])
      /\ es.time # Off /\ es.time \in Clock
  BY EndstopIs, Zenon DEF HInv, EndstopEvent, Runs, EndstopState
<1>3. es.time \in Int /\ es.time + REST \in Int /\ es.time + REST \in Clock
  BY <1>2, Numbers DEF Clock
<1>4. StepPart' /\ TrigPart' /\ EndPart' /\ wake' \in BOOLEAN
  <2>1. CASE EndstopMiss(e)
    <3> DEFINE y == [es EXCEPT !.time = @ + REST]
    <3>1. /\ y \in EndstopState /\ y.func = es.func /\ y.ts = es.ts
          /\ y.trigger_count = es.trigger_count /\ y.sample_count = es.sample_count
      BY <1>2, <1>3, Zenon DEF EndstopState
    <3>2. Samples(y, streak[e])
      BY <1>2, <3>1, Zenon DEF Samples
    <3>3. endstop' = [endstop EXCEPT ![e] = y]
      BY <2>1, <1>2, Zenon DEF EndstopMiss, HInv, EndPart, EndstopState
    <3>4. streak' = [streak EXCEPT ![e] = streak[e]]
      BY <2>1, Zenon DEF EndstopMiss, HInv, EndPart
    <3> HIDE DEF y
    <3>5. EndPart'
      BY <1>2, <3>1, <3>2, <3>3, <3>4, EndstopChanges, Zenon DEF HInv
    <3> QED
      BY <1>1, <2>1, <3>5, SteppersStay, TrigStays, Zenon
         DEF EndstopMiss, HInv, RestPart
  <2>2. CASE es.func = "endstop_event" /\ Oversample(e, x)
    <3>1. /\ x \in EndstopState /\ x.time = es.time /\ x.ts = es.ts
          /\ x.trigger_count = es.trigger_count /\ x.sample_count = es.sample_count
          /\ x.func = "endstop_oversample_event"
      BY <1>2, <1>3, Zenon DEF EndstopState
    <3>2. "endstop_oversample_event" # "endstop_event"
      OBVIOUS
    <3>3. Samples(x, streak[e])
      BY <1>2, <3>1, <3>2, Zenon DEF Samples
    <3> HIDE DEF x
    <3> QED
      BY <1>1, <1>2, <2>2, <3>1, <3>3, OversampleKeeps, Zenon
  <2>3. CASE es.func = "endstop_oversample_event" /\ Oversample(e, es)
    BY <1>1, <1>2, <2>3, OversampleKeeps, Zenon
  <2> QED
    BY <2>1, <2>2, <2>3, Zenon DEF EndstopEvent
<1>5. RestPart'
  BY <1>4, Zenon DEF EndstopEvent, HInv, RestPart, Uncommanded
<1> QED
  BY <1>4, <1>5, Zenon DEF HInv

(* What a stepper's event begins with.                                      *)
Event(s, m) ==
    LET st == stepper[s]
        n == Budget - Len(st.mq)
    IN /\ st \in StepperState /\ m \in Int /\ hold[s] \in Int /\ n \in Int
       /\ Paid(n) \in Int /\ now \in Int
       /\ Tracked(s, st, m, hold[s]) /\ Reaches(s, st, m, n) /\ st.count > 0
       /\ Moved(s, st, m) \in Int
       /\ motor' = [motor EXCEPT ![s] = Moved(s, st, m)]

LEMMA EventIs ==
    ASSUME HInv, NEW s \in Stepper, Runs(stepper[s].time), Turned(s)
    PROVE  Event(s, motor[s])
<1> DEFINE st == stepper[s]
           m == motor[s]
<1>1. /\ st \in StepperState /\ m \in Int /\ hold[s] \in Int
      /\ Budget - Len(st.mq) \in Int /\ Good(s, st, m, hold[s], Budget)
  BY MotorIsNear, Zenon DEF HInv, StepPart
<1>2. Paid(Budget - Len(st.mq)) \in Int /\ Moved(s, st, m) \in Int
  BY <1>1, PaidIsInt, MovedIsInt
<1>3. st.count > 0
  BY <1>1, Zenon DEF Good, Tracked, Held, Runs
<1>4. motor' = [motor EXCEPT ![s] = Moved(s, st, m)]
  <2>1. CASE TakesStep(s, st)
    BY <2>1, Zenon DEF Turned, Moved
  <2>2. CASE ~TakesStep(s, st)
    <3>1. motor = [motor EXCEPT ![s] = m]
      BY Zenon DEF HInv, StepPart
    <3> QED
      BY <2>2, <3>1, Zenon DEF Turned, Moved
  <2> QED
    BY <2>1, <2>2
<1>5. now \in Int
  BY DEF HInv, RestPart
<1> QED
  BY <1>1, <1>2, <1>3, <1>4, <1>5, Zenon DEF Event, Good

(* The stepper becomes r, and has moves or none the fewer.                  *)
LEMMA EventChanges ==
    ASSUME HInv, NEW s \in Stepper, Event(s, motor[s]), Spends, UNCHANGED <<commands, task>>,
           NEW r, NEW h \in Int, Becomes(s, r), hold' = [hold EXCEPT ![s] = h],
           Tracked(s, r, Moved(s, stepper[s], motor[s]), h),
           Reaches(s, r, Moved(s, stepper[s], motor[s]), Budget - Len(r.mq))
    PROVE  StepPart'
<1>1. Budget' = Budget
  BY Zenon DEF Budget
<1>2. Good(s, r, Moved(s, stepper[s], motor[s]), h, Budget')
  BY <1>1, Zenon DEF Good
<1>3. r \in StepperState
  BY Zenon DEF Tracked
<1> QED
  BY <1>2, <1>3, StepperChanges, Zenon DEF Event, Becomes

(* The last edge of a move, with the move that comes after it.              *)
LEMMA LoadIs ==
    ASSUME HInv, NEW s \in Stepper, Event(s, motor[s]), AtEnd(s), stepper[s].mq # <<>>
    PROVE  LET u == Toggled(stepper[s])
           IN /\ Loads(s, u, Moved(s, stepper[s], motor[s]), Budget - Len(stepper[s].mq))
              /\ u.mq = stepper[s].mq
<1> DEFINE st == stepper[s]
           u == Toggled(st)
           e == Ended(st)
           k == Moved(s, st, motor[s])
           n == Budget - Len(st.mq)
<1>1. /\ Tracked(s, e, k, now) /\ e.mq = st.mq /\ Reaches(s, e, k, n) /\ Left(s, e) = 0
  BY EndedTracks DEF AtEnd, Event
<1>2. st \in StepperState
  BY Zenon DEF Event
<1>3. /\ u \in StepperState /\ u.position = st.position /\ u.mq = st.mq
      /\ u.dir_pin = st.dir_pin /\ u.step_pin = ~st.step_pin
  BY <1>2, NotIsBool, Zenon DEF Toggled, StepperState
<1>4. /\ e.position = st.position /\ e.dir_pin = st.dir_pin /\ e.step_pin = ~st.step_pin
      /\ e.count = 0
  BY <1>2, Zenon DEF Ended, Toggled, StepperState
<1>5. u.position = (IF u.dir_pin THEN BIAS + k ELSE -(BIAS + k))
  <2>1. e.position - 0 = (IF e.dir_pin THEN BIAS + k ELSE -(BIAS + k))
    BY <1>1, Zenon DEF Tracked, Counts
  <2>2. e.position - 0 = e.position
    BY <1>1 DEF Tracked, StepperState
  <2> QED
    BY <1>3, <1>4, <2>1, <2>2, Zenon
<1>6. s \notin BothEdges => ~u.step_pin
  <2>1. ~(0 % 2 = 1)
    OBVIOUS
  <2> QED
    BY <1>1, <1>3, <1>4, <2>1, Zenon DEF Tracked, Phase
<1>7. k >= -Paid(n)
  <2>1. k \in Int /\ k - 0 = k
    BY DEF Event
  <2> QED
    BY <1>1, <2>1, Zenon DEF Reaches
<1>8. u.mq \in Seq(ShortMove) /\ u.mq # <<>>
  BY <1>1, <1>3, Zenon DEF Tracked
<1> QED
  BY <1>3, <1>5, <1>6, <1>7, <1>8, Zenon DEF Loads

LEMMA StepperFailsKeeps ==
    ASSUME HInv, NEW s \in Stepper, Event(s, motor[s]), StepperFails(s), Uncommanded
    PROVE  HInv'
<1> DEFINE st == stepper[s]
           u == Toggled(st)
           k == Moved(s, st, motor[s])
           n == Budget - Len(st.mq)
           p == Popped(s, u)
           f == [stepper EXCEPT ![s] = p]
<1>1. Loads(s, u, k, n) /\ k \in Int /\ n \in Int /\ u.mq = st.mq
  BY LoadIs, Zenon DEF StepperFails, Event
<1>2. /\ p \in StepperState /\ Left(s, p) = Head(u.mq).count
      /\ p.position - Head(u.mq).count = (IF Head(u.mq).dir THEN -u.position ELSE u.position)
  BY <1>1, PoppedIs
<1>3. motor' = [motor EXCEPT ![s] = k] /\ ShutDown(f, endstop)
  BY Zenon DEF Event, StepperFails
<1>4. /\ f \in [Stepper -> StepperState] /\ motor' \in [Stepper -> Int]
      /\ endstop \in [Endstop -> EndstopState]
  BY <1>1, <1>2, <1>3, Zenon DEF HInv, StepPart, EndPart
<1>5. /\ commands' \in Nat /\ commands' <= MaxCommands /\ commands' = commands
      /\ Budget \in Int /\ Budget <= commands' /\ Budget <= MaxCommands
  BY CommandedIs, BudgetIs DEF HInv, RestPart, Uncommanded, Budget
<1>6. /\ Paid(Budget) \in Int /\ Paid(commands') \in Int
      /\ Paid(Budget) <= Paid(commands')
  BY <1>5, PaidGrows, PaidIsInt
<1>7. BIAS + k >= 0 /\ k >= -Paid(Budget)
  <2>1. n <= Budget /\ Paid(n) \in Int
    <3>1. Len(st.mq) \in Nat
      BY MotorIsNear DEF HInv
    <3>2. Budget - Len(st.mq) <= Budget
      BY <1>5, <3>1
    <3> QED
      BY <1>1, <3>2, PaidIsInt
  <2>2. Paid(n) <= Paid(Budget)
    BY <1>1, <1>5, <2>1, PaidGrows
  <2>3. k >= -Paid(n)
    BY <1>1, Zenon DEF Loads
  <2>4. k >= -Paid(Budget)
    BY <1>1, <1>6, <2>1, <2>2, <2>3
  <2> QED
    BY <1>1, <1>5, <2>4, NotTooFar
<1>8. ASSUME NEW v \in Stepper
      PROVE  /\ BIAS + motor'[v] >= 0 /\ motor'[v] >= -Paid(commands')
             /\ \/ f[v].position - Left(v, f[v]) = BIAS + motor'[v]
                \/ f[v].position - Left(v, f[v]) = -(BIAS + motor'[v])
  <2>1. CASE v = s
    <3>1. motor'[v] = k /\ f[v] = p
      BY <1>3, <2>1, Zenon DEF HInv, StepPart
    <3>2. k >= -Paid(commands')
      BY <1>1, <1>6, <1>7
    <3>3. u.position = BIAS + k \/ u.position = -(BIAS + k)
      BY <1>1, Zenon DEF Loads
    <3>4. -(-(BIAS + k)) = BIAS + k
      BY <1>1, Numbers
    <3>5. \/ p.position - Left(s, p) = BIAS + k
          \/ p.position - Left(s, p) = -(BIAS + k)
      BY <1>2, <3>3, <3>4, Zenon
    <3> QED
      BY <1>7, <2>1, <3>1, <3>2, <3>5, Zenon
  <2>2. CASE v # s
    <3>1. motor'[v] = motor[v] /\ f[v] = stepper[v]
      BY <1>3, <2>2, Zenon DEF HInv, StepPart
    <3>2. motor[v] >= -Paid(Budget) /\ BIAS + motor[v] >= 0 /\ motor[v] \in Int
      BY MotorIsNear DEF HInv
    <3>3. motor[v] >= -Paid(commands')
      BY <1>6, <3>2
    <3>4. \/ stepper[v].position - Left(v, stepper[v]) = BIAS + motor[v]
          \/ stepper[v].position - Left(v, stepper[v]) = -(BIAS + motor[v])
      BY Zenon DEF HInv, StepPart, Good, Tracked, Counts
    <3> QED
      BY <3>1, <3>2, <3>3, <3>4, Zenon
  <2> QED
    BY <2>1, <2>2
<1> HIDE DEF f
<1> QED
  BY <1>3, <1>4, <1>5, <1>8, ShutDownKeepsAll, Zenon

LEMMA StepperEventKeeps ==
    ASSUME HInv, NEW s \in Stepper, StepperEvent(s), Uncommanded PROVE HInv'
<1> DEFINE st == stepper[s]
           k == Moved(s, st, motor[s])
           n == Budget - Len(st.mq)
           Rest == UNCHANGED <<active, trsync, endstop, wake, task, shutdown,
                               streak, told>>
<1>1. Event(s, motor[s])
  BY EventIs, Zenon DEF StepperEvent
<1>2. now + PULSE \in Int /\ now \in Nat
  BY Numbers DEF HInv, RestPart
<1>3. CASE StepperFails(s)
  BY <1>1, <1>3, StepperFailsKeeps
<1>4. ASSUME StepPart', Rest, now' \in Nat
      PROVE  HInv'
  <2>1. TrigPart' /\ EndPart'
    BY <1>4, TrigStays, EndStays, Zenon DEF HInv
  <2>2. RestPart'
    BY <1>4, Zenon DEF HInv, RestPart, Uncommanded
  <2> QED
    BY <1>4, <2>1, <2>2, Zenon DEF HInv
<1>5. Rest => Spends /\ UNCHANGED <<commands, task>>
  BY SpendsIs, Zenon DEF HInv, Uncommanded
<1>6. CASE StepperPulse(s) /\ Rest
  <2> DEFINE r == Pulsed(st, now + PULSE)
  <2>1. /\ Tracked(s, r, k, now + PULSE) /\ r.mq = st.mq /\ Reaches(s, r, k, n)
    BY <1>1, <1>2, <1>6, PulsedTracks DEF Event, StepperPulse
  <2>2. Becomes(s, r) /\ hold' = [hold EXCEPT ![s] = now + PULSE] /\ now' = now
    BY <1>6, Zenon DEF StepperPulse, KeepPins
  <2> HIDE DEF r
  <2>3. StepPart'
    BY <1>1, <1>2, <1>5, <1>6, <2>1, <2>2, EventChanges, Zenon
  <2> QED
    BY <1>2, <1>4, <1>6, <2>2, <2>3, Zenon
<1>7. CASE StepperNext(s) /\ Rest
  <2> DEFINE r == MoreSteps(st, now + PULSE)
  <2>1. /\ Tracked(s, r, k, now + PULSE) /\ r.mq = st.mq /\ Reaches(s, r, k, n)
    BY <1>1, <1>2, <1>7, MoreStepsTracks DEF Event, StepperNext
  <2>2. Becomes(s, r) /\ hold' = [hold EXCEPT ![s] = now + PULSE] /\ now' = now
    BY <1>7, Zenon DEF StepperNext, KeepPins
  <2> HIDE DEF r
  <2>3. StepPart'
    BY <1>1, <1>2, <1>5, <1>7, <2>1, <2>2, EventChanges, Zenon
  <2> QED
    BY <1>2, <1>4, <1>7, <2>2, <2>3, Zenon
<1>8. CASE StepperDone(s) /\ Rest
  <2> DEFINE r == Ended(st)
  <2>1. /\ Tracked(s, r, k, now + PULSE) /\ r.mq = st.mq /\ Reaches(s, r, k, n)
    BY <1>1, <1>2, <1>8, EndedTracks DEF Event, StepperDone, AtEnd
  <2>2. Becomes(s, r) /\ hold' = [hold EXCEPT ![s] = now + PULSE] /\ now' = now
    BY <1>8, Zenon DEF StepperDone, KeepPins, Ended
  <2> HIDE DEF r
  <2>3. StepPart'
    BY <1>1, <1>2, <1>5, <1>8, <2>1, <2>2, EventChanges, Zenon
  <2> QED
    BY <1>2, <1>4, <1>8, <2>2, <2>3, Zenon
<1>9. CASE StepperLoad(s) /\ Rest
  <2> DEFINE u == Toggled(st)
             r == LoadedActive(s, u, now, now + PULSE)
             h == now' + PULSE
  <2>1. Loads(s, u, k, n) /\ k \in Int /\ n \in Int /\ u.mq = st.mq
    BY <1>1, <1>9, LoadIs, Zenon DEF StepperLoad, Event
  <2>2. /\ now + PULSE >= now
        /\ TurnTime(s, u, now, now + PULSE) = TurnTime(s, st, now, now + PULSE)
        /\ TurnTime(s, st, now, now + PULSE) \in Nat
    BY <1>2, Numbers DEF TurnTime, Later
  <2>3. /\ now' = IF Head(u.mq).dir THEN TurnTime(s, u, now, now + PULSE) ELSE now
        /\ now' \in Nat
    BY <1>2, <1>9, <2>1, <2>2, Zenon DEF StepperLoad
  <2>4. h \in Int
    BY <2>3, Numbers
  <2>5. \/ h = now + PULSE
        \/ Head(u.mq).dir /\ h = TurnTime(s, u, now, now + PULSE) + PULSE
    <3>1. CASE Head(u.mq).dir
      BY <2>3, <3>1, Zenon
    <3>2. CASE ~Head(u.mq).dir
      <4>1. now' = now
        BY <2>3, <3>2, Zenon
      <4> QED
        BY <4>1
    <3> QED
      BY <3>1, <3>2
  <2>6. /\ Becomes(s, r) /\ hold' = [hold EXCEPT ![s] = h]
    BY <1>9, Zenon DEF StepperLoad, KeepPins
  <2> HIDE DEF h
  <2>7. Tracked(s, r, k, h) /\ r.mq = Tail(u.mq) /\ Reaches(s, r, k, n + 1)
    <3>1. now \in Int
      BY <1>2
    <3> QED
      BY <1>2, <2>1, <2>2, <2>4, <2>5, <3>1, LoadedActiveTracks
  <2> HIDE DEF r
  <2>8. n + 1 = Budget - Len(r.mq)
    <3>1. Len(r.mq) = Len(st.mq) - 1 /\ Len(st.mq) \in Nat
      BY <2>1, <2>7, FirstMove, Zenon
    <3>2. Budget \in Int
      BY BudgetIs DEF HInv
    <3> QED
      BY <3>1, <3>2
  <2>9. Reaches(s, r, k, Budget - Len(r.mq))
    BY <2>7, <2>8, Zenon
  <2>10. StepPart'
    BY <1>1, <1>5, <1>9, <2>4, <2>6, <2>7, <2>9, EventChanges, Zenon
  <2> QED
    BY <1>4, <1>9, <2>3, <2>10, Zenon
<1> QED
  BY <1>3, <1>6, <1>7, <1>8, <1>9, Zenon DEF StepperEvent

-----------------------------------------------------------------------------
(* The commands, one by one.                                                *)
LEMMA IdleSpends ==
    ASSUME RestPart, Accepts, Commanded
    PROVE  Spends
  BY SpendsIs, Zenon DEF Accepts

LEMMA QueueStepKeeps ==
    ASSUME HInv, NEW s \in Stepper, NEW m, QueueStep(s, m), Commanded PROVE HInv'
<1>1. CASE Fail
  BY <1>1, FailKeeps
<1>2. CASE UNCHANGED <<now, motors, active, trsync, endstop, wake, shutdown,
                       streak, told>>
  <2>1. StepPart'
    BY <1>2, IdleSpends, SteppersStay, Zenon DEF HInv, QueueStep
  <2>2. TrigPart' /\ EndPart'
    BY <1>2, TrigStays, EndStays, Zenon DEF HInv
  <2>3. RestPart'
    BY <1>2, CommandedIs, Zenon DEF HInv, RestPart
  <2> QED
    BY <2>1, <2>2, <2>3, Zenon DEF HInv
<1> QED
  BY <1>1, <1>2, Zenon DEF QueueStep

LEMMA PushIs ==
    ASSUME HInv, NEW s \in Stepper, NEW m \in Moves, task = QueueingAt(s, m),
           Uncommanded, task' = Idle
    PROVE  Budget' = Budget + 1 /\ Spends /\ Budget \in Int /\ Budget' = commands'
<1>1. task.at = "queue_step" /\ task'.at # "queue_step"
  BY DEF QueueingAt, Idle
<1>2. commands \in Nat /\ commands' = commands
  BY Zenon DEF HInv, RestPart, Uncommanded
<1>3. Budget = commands - 1 /\ Budget' = commands' - 0
  BY <1>1, Zenon DEF Budget
<1> QED
  BY <1>2, <1>3 DEF Spends

(* The move that starts an idle stepper.                                    *)
LEMMA StartIs ==
    ASSUME HInv, NEW s \in Stepper, NEW m \in Moves, stepper[s].count = 0
    PROVE  LET r == LoadedIdle(s, WithMove(stepper[s], m))
               n == Budget - Len(stepper[s].mq)
           IN /\ Tracked(s, r, motor[s], 0) /\ Len(r.mq) = Len(stepper[s].mq)
              /\ Reaches(s, r, motor[s], n + 1)
<1> DEFINE st == stepper[s]
           k == motor[s]
           w == WithMove(st, m)
           n == Budget - Len(st.mq)
           r == LoadedIdle(s, w)
<1>1. /\ st \in StepperState /\ k \in Int /\ n \in Int /\ Len(st.mq) \in Nat
      /\ Good(s, st, k, hold[s], Budget)
  BY MotorIsNear, Zenon DEF HInv, StepPart
<1> HIDE DEF n
<1>2. /\ Tracked(s, w, k, hold[s]) /\ Len(w.mq) = Len(st.mq) + 1 /\ w.mq # <<>>
      /\ w.count = 0 /\ w.position = st.position
      /\ w.step_pin = st.step_pin /\ w.dir_pin = st.dir_pin
  BY <1>1, WithMoveTracks DEF Good
<1> HIDE DEF w
<1>3. Left(s, st) = 0 /\ Left(s, w) = 0
  BY <1>2 DEF Left
<1>4. k >= -Paid(n)
  <2>1. k - 0 >= -Paid(n)
    BY <1>1, <1>3, Zenon DEF Good, Reaches, n
  <2>2. Paid(n) \in Int
    BY <1>1, PaidIsInt, Zenon
  <2>3. k \in Int
    BY <1>1, Zenon
  <2> HIDE DEF k
  <2> QED
    BY <2>1, <2>2, <2>3
<1>5. w.position = (IF w.dir_pin THEN BIAS + k ELSE -(BIAS + k))
  <2>1. w.position - 0 = (IF w.dir_pin THEN BIAS + k ELSE -(BIAS + k))
    BY <1>2, <1>3, Zenon DEF Tracked, Counts
  <2>2. w.position - 0 = w.position
    BY <1>2 DEF Tracked, StepperState
  <2> QED
    BY <2>1, <2>2, Zenon
<1>6. s \notin BothEdges => ~w.step_pin
  <2>1. ~(0 % 2 = 1)
    OBVIOUS
  <2> QED
    BY <1>2, <2>1, Zenon DEF Tracked, Phase
<1>7. Loads(s, w, k, n)
  BY <1>2, <1>4, <1>5, <1>6, Zenon DEF Loads, Tracked
<1>8. Tracked(s, r, k, 0) /\ r.mq = Tail(w.mq) /\ Reaches(s, r, k, n + 1)
  BY <1>1, <1>7, LoadedIdleTracks
<1>9. Len(r.mq) = Len(st.mq)
  BY <1>1, <1>2, <1>7, <1>8, FirstMove
<1> QED
  BY <1>8, <1>9, Zenon DEF n, w

LEMMA PushKeeps ==
    ASSUME HInv, NEW s \in Stepper, NEW m \in Moves, QueueStepPush(s, m), Uncommanded
    PROVE  HInv'
<1> DEFINE st == stepper[s]
           k == motor[s]
           w == WithMove(st, m)
           r == LoadedIdle(s, w)
           n == Budget - Len(st.mq)
<1>1. /\ st \in StepperState /\ k \in Int /\ n \in Int /\ Len(st.mq) \in Nat
      /\ hold[s] \in Int /\ Good(s, st, k, hold[s], Budget)
  BY MotorIsNear, Zenon DEF HInv, StepPart
<1>2. task = QueueingAt(s, m) /\ motor' = motor /\ task' = Idle
  BY Zenon DEF QueueStepPush, ShutDown
<1>3. Budget' = Budget + 1 /\ Spends /\ Budget \in Int /\ Budget' = commands'
  BY <1>2, PushIs, Zenon
<1>4. motor' = [motor EXCEPT ![s] = k]
  BY <1>2, Zenon DEF HInv, StepPart
<1>5. ASSUME StepPart', UNCHANGED <<now, active, trsync, endstop, wake, shutdown, streak,
                                    told>>
      PROVE  HInv'
  <2>1. TrigPart' /\ EndPart'
    BY <1>5, TrigStays, EndStays, Zenon DEF HInv
  <2>2. RestPart'
    BY <1>5, Zenon DEF HInv, RestPart, Uncommanded
  <2> QED
    BY <1>5, <2>1, <2>2, Zenon DEF HInv
<1>6. CASE /\ UNCHANGED <<now, active, trsync, endstop, wake, shutdown, streak, told>>
           /\ st.count # 0 /\ Becomes(s, w) /\ UNCHANGED hold
  <2>1. /\ Tracked(s, w, k, hold[s]) /\ Len(w.mq) = Len(st.mq) + 1
        /\ Left(s, w) = Left(s, st)
    BY <1>1, WithMoveTracks DEF Good
  <2> HIDE DEF w
  <2>2. Budget' - Len(w.mq) = Budget - Len(st.mq)
    BY <1>1, <1>3, <2>1
  <2>3. Good(s, w, k, hold[s], Budget')
    BY <1>1, <2>1, <2>2, Zenon DEF Good, Reaches
  <2>4. hold' = [hold EXCEPT ![s] = hold[s]]
    BY <1>6, Zenon DEF HInv, StepPart
  <2>5. w \in StepperState
    BY <2>1, Zenon DEF Tracked
  <2>6. StepPart'
    BY <1>1, <1>3, <1>4, <1>6, <2>3, <2>4, <2>5, StepperChanges, Zenon DEF Becomes
  <2> QED
    BY <1>5, <1>6, <2>6, Zenon
<1>7. CASE /\ UNCHANGED <<now, active, trsync, endstop, wake, shutdown, streak, told>>
           /\ UNCHANGED <<stepper, hold>>
  <2>1. StepPart'
    BY <1>2, <1>3, <1>7, SteppersStay, Zenon DEF motors
  <2> QED
    BY <1>5, <1>7, <2>1, Zenon
<1>8. CASE /\ UNCHANGED <<now, active, trsync, endstop, wake, shutdown, streak, told>>
           /\ st.count = 0 /\ Becomes(s, r) /\ hold' = [hold EXCEPT ![s] = 0]
  <2>1. /\ Tracked(s, r, k, 0) /\ Len(r.mq) = Len(st.mq) /\ Reaches(s, r, k, n + 1)
    BY <1>8, StartIs
  <2> HIDE DEF r
  <2>2. Budget' - Len(r.mq) = n + 1 /\ 0 \in Int
    BY <1>1, <1>3, <2>1
  <2>3. Good(s, r, k, 0, Budget') /\ r \in StepperState
    BY <2>1, <2>2, Zenon DEF Good, Tracked
  <2>4. StepPart'
    BY <1>1, <1>3, <1>4, <1>8, <2>2, <2>3, StepperChanges, Zenon DEF Becomes
  <2> QED
    BY <1>5, <1>8, <2>4, Zenon
<1>9. CASE /\ st.count = 0
           /\ ShutDown([stepper EXCEPT ![s] = [r EXCEPT !.time = Off]], endstop)
  <2> DEFINE p == [r EXCEPT !.time = Off]
             f == [stepper EXCEPT ![s] = p]
  <2>1. Tracked(s, r, k, 0)
    BY <1>9, StartIs
  <2> HIDE DEF r
  <2>2. /\ p \in StepperState /\ p.position = r.position /\ p.count = r.count
    BY <2>1, Zenon DEF Tracked, StepperState
  <2> HIDE DEF p
  <2>3. p.position - Left(s, p) = BIAS + k \/ p.position - Left(s, p) = -(BIAS + k)
    BY <2>1, <2>2, Zenon DEF Tracked, Counts, Left
  <2>4. ShutDown(f, endstop)
    BY <1>9, Zenon DEF p
  <2>5. /\ f \in [Stepper -> StepperState] /\ motor' \in [Stepper -> Int]
        /\ endstop \in [Endstop -> EndstopState]
    BY <1>2, <2>2, Zenon DEF HInv, StepPart, EndPart
  <2>6. commands' \in Nat /\ commands' <= MaxCommands
    BY CommandedIs DEF HInv
  <2>7. ASSUME NEW v \in Stepper
        PROVE  /\ BIAS + motor'[v] >= 0 /\ motor'[v] >= -Paid(commands')
               /\ \/ f[v].position - Left(v, f[v]) = BIAS + motor'[v]
                  \/ f[v].position - Left(v, f[v]) = -(BIAS + motor'[v])
    <3>1. motor[v] >= -Paid(Budget) /\ BIAS + motor[v] >= 0 /\ motor[v] \in Int
      BY MotorIsNear DEF HInv
    <3>2. Paid(Budget) <= Paid(commands') /\ Paid(Budget) \in Int /\ Paid(commands') \in Int
      BY <1>3, PaidGrows, PaidIsInt DEF Spends
    <3>3. motor[v] >= -Paid(commands')
      BY <3>1, <3>2
    <3>4. \/ f[v].position - Left(v, f[v]) = BIAS + motor[v]
          \/ f[v].position - Left(v, f[v]) = -(BIAS + motor[v])
      <4>1. CASE v = s
        <5>1. f[v] = p
          BY <4>1, Zenon DEF HInv, StepPart
        <5> QED
          BY <2>3, <4>1, <5>1, Zenon
      <4>2. CASE v # s
        <5>1. f[v] = stepper[v]
          BY <4>2, Zenon DEF HInv, StepPart
        <5> QED
          BY <5>1, Zenon DEF HInv, StepPart, Good, Tracked, Counts
      <4> QED
        BY <4>1, <4>2
    <3> QED
      BY <1>2, <3>1, <3>3, <3>4, Zenon
  <2> HIDE DEF f
  <2> QED
    BY <2>4, <2>5, <2>6, <2>7, ShutDownKeepsAll, Zenon
<1> QED
  BY <1>6, <1>7, <1>8, <1>9, Zenon DEF QueueStepPush

(* A command that changes a field of one stepper that the invariant does    *)
(* not look at.                                                             *)
LEMMA FieldKeeps ==
    ASSUME HInv, NEW s \in Stepper, NEW st \in StepperState, Accepts, Commanded,
           stepper' = [stepper EXCEPT ![s] = st],
           st.position = stepper[s].position, st.count = stepper[s].count,
           st.time = stepper[s].time, st.mq = stepper[s].mq,
           st.step_pin = stepper[s].step_pin, st.dir_pin = stepper[s].dir_pin,
           UNCHANGED <<now, motor, hold, active, trsync, endstop, wake, task,
                       shutdown, streak, told>>
    PROVE  HInv'
<1>1. Spends
  BY IdleSpends DEF HInv
<1>2. /\ motor[s] \in Int /\ hold[s] \in Int /\ Budget \in Int
      /\ Good(s, stepper[s], motor[s], hold[s], Budget)
  BY BudgetIs, Zenon DEF HInv, StepPart
<1>3. Left(s, st) = Left(s, stepper[s])
  BY Zenon DEF Left
<1>4. Good(s, st, motor[s], hold[s], Budget)
  BY <1>2, <1>3, Zenon DEF Good, Tracked, Phase, Counts, Held, Reaches
<1>5. Good(s, st, motor[s], hold[s], Budget')
  BY <1>1, <1>2, <1>4, GoodLater DEF Spends
<1>6. motor' = [motor EXCEPT ![s] = motor[s]] /\ hold' = [hold EXCEPT ![s] = hold[s]]
  BY Zenon DEF HInv, StepPart
<1>7. StepPart'
  BY <1>1, <1>2, <1>5, <1>6, StepperChanges, Zenon
<1>8. TrigPart' /\ EndPart'
  BY TrigStays, EndStays, Zenon DEF HInv
<1>9. RestPart'
  BY CommandedIs, Zenon DEF HInv, RestPart
<1> QED
  BY <1>7, <1>8, <1>9, Zenon DEF HInv

LEMMA SetNextStepDirKeeps ==
    ASSUME HInv, NEW s \in Stepper, NEW dir \in BOOLEAN, SetNextStepDir(s, dir), Commanded
    PROVE  HInv'
<1> DEFINE st == [stepper[s] EXCEPT !.next_dir = dir]
<1>1. stepper[s] \in StepperState
  BY Zenon DEF HInv, StepPart
<1>2. /\ st \in StepperState
      /\ st.position = stepper[s].position /\ st.count = stepper[s].count
      /\ st.time = stepper[s].time /\ st.mq = stepper[s].mq
      /\ st.step_pin = stepper[s].step_pin /\ st.dir_pin = stepper[s].dir_pin
  BY <1>1, Zenon DEF StepperState
<1>3. stepper' = [stepper EXCEPT ![s] = st]
  BY Zenon DEF SetNextStepDir, HInv, StepPart, StepperState
<1> HIDE DEF st
<1> QED
  BY <1>2, <1>3, FieldKeeps, Zenon DEF SetNextStepDir

LEMMA SoonIs == RestPart => Soon \subseteq Int
  BY Numbers DEF RestPart, Soon

LEMMA ResetStepClockKeeps ==
    ASSUME HInv, NEW s \in Stepper, NEW clock \in Soon, ResetStepClock(s, clock), Commanded
    PROVE  HInv'
<1> DEFINE st == [stepper[s] EXCEPT !.next_step_time = clock, !.need_reset = FALSE]
<1>1. stepper[s] \in StepperState /\ clock \in Int
  BY SoonIs, Zenon DEF HInv, StepPart
<1>2. /\ st \in StepperState
      /\ st.position = stepper[s].position /\ st.count = stepper[s].count
      /\ st.time = stepper[s].time /\ st.mq = stepper[s].mq
      /\ st.step_pin = stepper[s].step_pin /\ st.dir_pin = stepper[s].dir_pin
  BY <1>1, Zenon DEF StepperState
<1>3. CASE Fail
  BY <1>3, FailKeeps
<1>4. CASE ~Fail
  <2>1. stepper' = [stepper EXCEPT ![s] = st]
    <3>1. stepper' = [stepper EXCEPT ![s].next_step_time = clock, ![s].need_reset = FALSE]
      BY <1>4, Zenon DEF ResetStepClock
    <3> QED
      BY <3>1, <1>1 DEF HInv, StepPart, StepperState
  <2> HIDE DEF st
  <2> QED
    BY <1>2, <1>4, <2>1, FieldKeeps, Zenon DEF ResetStepClock
<1> QED
  BY <1>3, <1>4

LEMMA StopOnTriggerKeeps ==
    ASSUME HInv, NEW s \in Stepper, NEW t \in Trsync, StopOnTrigger(s, t), Commanded
    PROVE  HInv'
<1> DEFINE ts == trsync[t]
           u == [ts EXCEPT !.signals = @ \cup {s}]
<1>1. CASE Fail
  BY <1>1, FailKeeps
<1>2. CASE ~Fail
  <2>1. /\ s \notin active /\ active' = active \cup {s}
        /\ trsync' = [trsync EXCEPT ![t].signals = @ \cup {s}]
        /\ UNCHANGED <<now, motors, endstop, wake, task, shutdown, streak, told>>
    BY <1>2, Zenon DEF StopOnTrigger
  <2>2. ts \in TrsyncState /\ ts.signals \cup {s} \in SUBSET Stepper
    BY Zenon DEF HInv, TrigPart, TrsyncState
  <2>3. u \in TrsyncState /\ u.signals = ts.signals \cup {s} /\ trsync' = [trsync EXCEPT ![t] = u]
    BY <2>1, <2>2, Zenon DEF TrsyncState, HInv, TrigPart
  <2> HIDE DEF u
  <2>4. /\ trsync' \in [Trsync -> TrsyncState] /\ trsync'[t].signals = ts.signals \cup {s}
        /\ \A v \in Trsync : v # t => trsync'[v] = trsync[v]
    BY <2>3, Zenon DEF HInv, TrigPart
  <2>5. \A v \in Trsync : s \notin trsync[v].signals
    BY <2>1, Zenon DEF HInv, TrigPart
  <2>6. \A v, w \in Trsync, x \in Stepper :
            x \in trsync'[v].signals /\ x \in trsync'[w].signals => v = w
    BY <2>4, <2>5, Zenon DEF HInv, TrigPart
  <2>7. active' = UNION {trsync'[v].signals : v \in Trsync}
    <3>1. \A x : x \in active <=> \E v \in Trsync : x \in trsync[v].signals
      BY Zenon DEF HInv, TrigPart
    <3>2. \A x : x \in active' <=> x \in active \/ x = s
      BY <2>1, Zenon
    <3>3. \A x : (\E v \in Trsync : x \in trsync'[v].signals)
               <=> (\E v \in Trsync : x \in trsync[v].signals) \/ x = s
      BY <2>4, Zenon
    <3> QED
      BY <3>1, <3>2, <3>3, Zenon
  <2>8. TrigPart'
    BY <2>4, <2>6, <2>7, Zenon DEF TrigPart
  <2>9. StepPart'
    BY <2>1, IdleSpends, SteppersStay, Zenon DEF HInv, StopOnTrigger
  <2>10. EndPart'
    BY <2>1, EndStays, Zenon DEF HInv
  <2>11. RestPart'
    BY <2>1, CommandedIs, Zenon DEF HInv, RestPart
  <2> QED
    BY <2>8, <2>9, <2>10, <2>11, Zenon DEF HInv
<1> QED
  BY <1>1, <1>2

LEMMA TrsyncStartKeeps ==
    ASSUME HInv, NEW t \in Trsync, NEW clock \in Soon, NEW ticks \in ReportTicks,
           TrsyncStart(t, clock, ticks), Commanded
    PROVE  HInv'
<1> DEFINE c == Cleared(trsync[t])
           ts == [c EXCEPT !.can = TRUE, !.report_ticks = ticks, !.expire_reason = EXPIRED]
           at == IF ticks = 0 THEN Off ELSE clock
           u == [ts EXCEPT !.report_time = at]
<1>1. CASE Fail
  BY <1>1, FailKeeps
<1>2. CASE ~Fail
  <2>1. /\ trsync' = [trsync EXCEPT ![t] = u]
        /\ active' = active \ trsync[t].signals
        /\ told' = [told EXCEPT ![t] = FALSE]
        /\ UNCHANGED <<now, motors, endstop, wake, task, shutdown, streak>>
    BY <1>2, Zenon DEF TrsyncStart
  <2>2. c \in TrsyncState /\ c.signals = {} /\ trsync[t] \in TrsyncState
    BY ClearedIs, Zenon DEF HInv, TrigPart
  <2>3. clock \in Int /\ clock \in Clock /\ Off \in Clock
    BY SoonIs DEF HInv, Clock
  <2>4. EXPIRED \in Nat /\ ticks \in Nat /\ at \in Clock
    <3>1. at \in Clock
      BY <2>3, Zenon
    <3>2. EXPIRED \in Reason
      BY DEF Reason
    <3> QED
      BY <3>1, <3>2, Numbers
  <2> HIDE DEF c, at
  <2>5. ts \in TrsyncState /\ ts.signals = {}
    BY <2>2, <2>4, Zenon DEF TrsyncState
  <2> HIDE DEF ts
  <2>6. u \in TrsyncState /\ u.signals = {}
    BY <2>4, <2>5, Zenon DEF TrsyncState
  <2> HIDE DEF u
  <2>7. trsync[t].signals \ trsync[t].signals = {}
    OBVIOUS
  <2>8. TrigPart'
    BY <2>1, <2>6, <2>7, SignalsLost, Zenon DEF HInv
  <2>9. StepPart'
    BY <2>1, IdleSpends, SteppersStay, Zenon DEF HInv, TrsyncStart
  <2>10. EndPart'
    BY <2>1, EndStays, Zenon DEF HInv
  <2>11. RestPart'
    BY <2>1, CommandedIs, Zenon DEF HInv, RestPart
  <2> QED
    BY <2>8, <2>9, <2>10, <2>11, Zenon DEF HInv
<1> QED
  BY <1>1, <1>2

LEMMA SetTimeoutKeeps ==
    ASSUME HInv, NEW t \in Trsync, NEW clock \in Soon, TrsyncSetTimeout(t, clock), Commanded
    PROVE  HInv'
<1> DEFINE u == [trsync[t] EXCEPT !.expire_time = clock]
<1>1. CASE Fail
  BY <1>1, FailKeeps
<1>2. CASE ~Fail
  <2>1. /\ trsync' = [trsync EXCEPT ![t].expire_time = clock]
        /\ UNCHANGED <<now, motors, active, endstop, wake, task, shutdown, streak, told>>
    BY <1>2, Zenon DEF TrsyncSetTimeout
  <2>2. clock \in Clock /\ trsync[t] \in TrsyncState
    BY SoonIs DEF HInv, Clock, TrigPart
  <2>3. u \in TrsyncState /\ u.signals = trsync[t].signals /\ trsync' = [trsync EXCEPT ![t] = u]
    BY <2>1, <2>2, Zenon DEF TrsyncState, HInv, TrigPart
  <2> HIDE DEF u
  <2>4. TrigPart'
    BY <2>1, <2>3, SignalsStay, Zenon DEF HInv
  <2>5. StepPart'
    BY <2>1, IdleSpends, SteppersStay, Zenon DEF HInv, TrsyncSetTimeout
  <2>6. EndPart'
    BY <2>1, EndStays, Zenon DEF HInv
  <2>7. RestPart'
    BY <2>1, CommandedIs, Zenon DEF HInv, RestPart
  <2> QED
    BY <2>4, <2>5, <2>6, <2>7, Zenon DEF HInv
<1> QED
  BY <1>1, <1>2

LEMMA TrsyncTriggerKeeps ==
    ASSUME HInv, NEW t \in Trsync, TrsyncTrigger(t), Commanded PROVE HInv'
<1> DEFINE ts == Triggered(trsync[t], ASKED)
           u == [ts EXCEPT !.can = FALSE, !.report = FALSE,
                           !.report_time = Off, !.expire_time = Off]
           S == Signalled(trsync[t])
<1>1. /\ trsync' = [trsync EXCEPT ![t] = u] /\ Stop(S)
      /\ wake' = (wake \/ trsync[t].can) /\ told' = [told EXCEPT ![t] = TRUE]
      /\ UNCHANGED <<now, endstop, task, shutdown, streak>> /\ Accepts
  BY Zenon DEF TrsyncTrigger
<1>2. trsync[t] \in TrsyncState /\ S \subseteq trsync[t].signals
  BY SignalledIs, Zenon DEF HInv
<1>3. ASKED \in Nat /\ Off \in Clock
  <2>1. ASKED \in Reason /\ Off \in Clock
    BY DEF Reason, Clock
  <2> QED
    BY <2>1, Numbers
<1>4. ts \in TrsyncState /\ ts.signals = trsync[t].signals \ S
  BY <1>2, <1>3, TriggeredIs
<1> HIDE DEF ts
<1>5. u \in TrsyncState /\ u.signals = trsync[t].signals \ S
  BY <1>3, <1>4, Zenon DEF TrsyncState
<1> HIDE DEF u, S
<1>6. active' = active \ S
  BY <1>1, Zenon DEF Stop
<1>7. TrigPart'
  BY <1>1, <1>2, <1>5, <1>6, SignalsLost, Zenon DEF HInv
<1>8. StepPart'
  BY <1>1, IdleSpends, StopKeeps, Zenon DEF HInv
<1>9. EndPart'
  BY <1>1, EndStays, Zenon DEF HInv
<1>10. RestPart'
  <2>1. wake' \in BOOLEAN
    BY <1>1, <1>2, Zenon DEF HInv, RestPart, TrsyncState
  <2> QED
    BY <1>1, <2>1, CommandedIs, Zenon DEF HInv, RestPart
<1> QED
  BY <1>7, <1>8, <1>9, <1>10, Zenon DEF HInv

LEMMA EndstopHomeKeeps ==
    ASSUME HInv, NEW e \in Endstop, NEW clock \in Soon, NEW samples \in SampleCounts,
           NEW t \in Trsync, EndstopHome(e, clock, samples, t), Commanded
    PROVE  HInv'
<1> DEFINE x == IF samples = 0
                THEN [endstop[e] EXCEPT !.time = Off, !.sample_count = 0, !.ts = Null]
                ELSE [endstop[e] EXCEPT !.time = clock, !.func = "endstop_event",
                         !.sample_count = samples, !.trigger_count = samples, !.ts = t]
           es == [endstop EXCEPT ![e] = x]
<1>1. endstop[e] \in EndstopState /\ endstop \in [Endstop -> EndstopState]
  BY Zenon DEF HInv, EndPart
<1>2. clock \in Clock /\ Off \in Clock /\ samples \in Nat /\ 0 \in Nat
  BY SoonIs, Numbers DEF HInv, Clock
<1>3. x \in EndstopState /\ Samples(x, 0)
  <2>1. CASE samples = 0
    BY <1>1, <1>2, <2>1, Zenon DEF EndstopState, Samples
  <2>2. CASE samples # 0
    <3> DEFINE y == [endstop[e] EXCEPT !.time = clock, !.func = "endstop_event",
                         !.sample_count = samples, !.trigger_count = samples, !.ts = t]
    <3>1. /\ y \in EndstopState /\ y.ts = t /\ y.sample_count = samples
          /\ y.trigger_count = samples
      BY <1>1, <1>2, Zenon DEF EndstopState
    <3>2. samples > 0 /\ 0 + samples = samples
      BY <1>2, <2>2
    <3>3. Samples(y, 0)
      BY <3>1, <3>2, Zenon DEF Samples
    <3> QED
      BY <2>2, <3>1, <3>3, Zenon
  <2> QED
    BY <2>1, <2>2
<1>4. \/ /\ endstop' = es /\ streak' = [streak EXCEPT ![e] = 0]
         /\ UNCHANGED <<now, motors, active, trsync, wake, task, shutdown, told>>
      \/ ShutDown(stepper, es) /\ UNCHANGED motor
  BY Zenon DEF EndstopHome
<1> HIDE DEF x
<1>5. CASE /\ endstop' = es /\ streak' = [streak EXCEPT ![e] = 0]
           /\ UNCHANGED <<now, motors, active, trsync, wake, task, shutdown, told>>
  <2>1. EndPart'
    BY <1>2, <1>3, <1>5, EndstopChanges, Zenon DEF HInv
  <2>2. StepPart'
    BY <1>5, IdleSpends, SteppersStay, Zenon DEF HInv, EndstopHome
  <2>3. TrigPart'
    BY <1>5, TrigStays, Zenon DEF HInv
  <2>4. RestPart'
    BY <1>5, CommandedIs, Zenon DEF HInv, RestPart
  <2> QED
    BY <2>1, <2>2, <2>3, <2>4, Zenon DEF HInv
<1>6. CASE ShutDown(stepper, es) /\ UNCHANGED motor
  <2>1. es \in [Endstop -> EndstopState]
    BY <1>1, <1>3, Zenon
  <2> HIDE DEF es
  <2> QED
    BY <1>6, <2>1, HaltKeeps, Zenon
<1> QED
  BY <1>4, <1>5, <1>6

LEMMA TaskKeeps == ASSUME HInv, TrsyncTask, Uncommanded PROVE HInv'
<1>1. Spends
  BY SpendsIs, Zenon DEF HInv, TrsyncTask, Scanning
<1>2. StepPart' /\ TrigPart' /\ EndPart'
  BY <1>1, SteppersStay, TrigStays, EndStays, Zenon DEF TrsyncTask, HInv
<1>3. RestPart'
  BY Zenon DEF TrsyncTask, HInv, RestPart, Uncommanded
<1> QED
  BY <1>2, <1>3, Zenon DEF HInv

LEMMA TrsyncReportKeeps ==
    ASSUME HInv, NEW t \in Trsync, TrsyncReport(t), Uncommanded PROVE HInv'
<1> DEFINE u == [trsync[t] EXCEPT !.report = FALSE]
<1>1. /\ \/ /\ trsync' = [trsync EXCEPT ![t].report = FALSE]
            /\ told' = [told EXCEPT ![t] = @ \/ ~trsync[t].can]
         \/ UNCHANGED <<trsync, told>>
      /\ UNCHANGED <<now, motors, active, endstop, wake, shutdown, streak>>
  BY Zenon DEF TrsyncReport
<1>2. Spends
  <2>1. task'.at # "queue_step"
    BY Zenon DEF TrsyncReport, Idle, Scanning
  <2> QED
    BY <2>1, SpendsIs, Zenon DEF HInv
<1>3. trsync[t] \in TrsyncState /\ u \in TrsyncState /\ u.signals = trsync[t].signals
  BY Zenon DEF HInv, TrigPart, TrsyncState
<1>4. TrigPart'
  <2>1. CASE trsync' = [trsync EXCEPT ![t].report = FALSE]
    <3>1. trsync' = [trsync EXCEPT ![t] = u]
      BY <2>1, Zenon DEF HInv, TrigPart, TrsyncState
    <3> HIDE DEF u
    <3> QED
      BY <1>1, <1>3, <3>1, SignalsStay, Zenon DEF HInv
  <2>2. CASE UNCHANGED trsync
    BY <1>1, <2>2, TrigStays, Zenon DEF HInv
  <2> QED
    BY <1>1, <2>1, <2>2, Zenon
<1>5. StepPart' /\ EndPart'
  BY <1>1, <1>2, SteppersStay, EndStays, Zenon DEF HInv
<1>6. told' \in [Trsync -> BOOLEAN]
  <2>1. CASE told' = [told EXCEPT ![t] = @ \/ ~trsync[t].can]
    <3>1. (told[t] \/ ~trsync[t].can) \in BOOLEAN
      OBVIOUS
    <3>2. told' = [told EXCEPT ![t] = told[t] \/ ~trsync[t].can]
      BY <2>1, Zenon
    <3> QED
      BY <3>1, <3>2, Zenon DEF HInv, RestPart
  <2>2. CASE told' = told
    BY <2>2, Zenon DEF HInv, RestPart
  <2> QED
    BY <1>1, <2>1, <2>2, Zenon
<1>7. RestPart'
  BY <1>1, <1>6, Zenon DEF HInv, RestPart, Uncommanded
<1> QED
  BY <1>4, <1>5, <1>7, Zenon DEF HInv

LEMMA ClearShutdownKeeps == ASSUME HInv, ClearShutdown, Commanded PROVE HInv'
<1>1. Spends
  BY SpendsIs, Zenon DEF HInv, ClearShutdown
<1>2. StepPart' /\ TrigPart' /\ EndPart'
  BY <1>1, SteppersStay, TrigStays, EndStays, Zenon DEF ClearShutdown, HInv
<1>3. RestPart'
  BY CommandedIs, Zenon DEF ClearShutdown, HInv, RestPart
<1> QED
  BY <1>2, <1>3, Zenon DEF HInv

-----------------------------------------------------------------------------
LEMMA CommandKeeps == ASSUME HInv, Command PROVE HInv'
<1>1. Commanded
  BY Numbers DEF Command, Commanded, HInv, RestPart
<1>2. ASSUME NEW s \in Stepper, StepperCommand(s) PROVE HInv'
  BY <1>1, <1>2, QueueStepKeeps, SetNextStepDirKeeps, ResetStepClockKeeps,
     StopOnTriggerKeeps, Zenon DEF StepperCommand
<1>3. ASSUME NEW t \in Trsync, TrsyncCommand(t) PROVE HInv'
  BY <1>1, <1>3, TrsyncStartKeeps, SetTimeoutKeeps, TrsyncTriggerKeeps, Zenon
     DEF TrsyncCommand
<1>4. ASSUME NEW e \in Endstop, EndstopCommand(e) PROVE HInv'
  BY <1>1, <1>4, EndstopHomeKeeps, Zenon DEF EndstopCommand
<1>5. EmergencyStop \/ ClearShutdown => HInv'
  BY <1>1, FailKeeps, ClearShutdownKeeps, Zenon DEF EmergencyStop
<1> QED
  BY <1>2, <1>3, <1>4, <1>5, Zenon DEF Command

LEMMA TimerEventKeeps == ASSUME HInv, TimerEvent, Uncommanded PROVE HInv'
  BY ExpireKeeps, ReportKeeps, EndstopEventKeeps, StepperEventKeeps, Zenon
     DEF TimerEvent

LEMMA StutterKeeps == ASSUME HInv, UNCHANGED vars PROVE HInv'
<1>1. UNCHANGED <<now, motors, active, trsync, endstop, wake, task, shutdown,
                  commands, streak, told>>
  BY Zenon DEF vars
<1>2. Spends
  BY <1>1, SpendsIs, Zenon DEF HInv, Uncommanded
<1>3. StepPart' /\ TrigPart' /\ EndPart'
  BY <1>1, <1>2, SteppersStay, TrigStays, EndStays, Zenon DEF HInv
<1>4. RestPart'
  BY <1>1, Zenon DEF HInv, RestPart
<1> QED
  BY <1>3, <1>4, Zenon DEF HInv

LEMMA HomingKeeps == HInv /\ [Next]_vars => HInv'
<1> SUFFICES ASSUME HInv, [Next]_vars PROVE HInv'
  OBVIOUS
<1>1. CASE Command
  BY <1>1, CommandKeeps
<1>2. CASE TimerEvent /\ UNCHANGED commands
  BY <1>2, TimerEventKeeps, Zenon DEF Uncommanded
<1>3. CASE Tick /\ UNCHANGED commands
  BY <1>3, TickKeeps, Zenon DEF Uncommanded
<1>4. CASE TrsyncTask /\ UNCHANGED commands
  BY <1>4, TaskKeeps, Zenon DEF Uncommanded
<1>5. CASE UNCHANGED commands /\ \E t \in Trsync : TrsyncReport(t)
  BY <1>5, TrsyncReportKeeps, Zenon DEF Uncommanded
<1>6. CASE /\ UNCHANGED commands
           /\ \E s \in Stepper, m \in Moves : QueueStepPush(s, m)
  BY <1>6, PushKeeps, Zenon DEF Uncommanded
<1>7. CASE UNCHANGED vars
  BY <1>7, StutterKeeps
<1> QED
  BY <1>1, <1>2, <1>3, <1>4, <1>5, <1>6, <1>7, Zenon DEF Next

LEMMA HomingBegins == Init => HInv
<1> SUFFICES ASSUME Init PROVE HInv
  OBVIOUS
<1>1. /\ 0 \in Int /\ 0 \in Nat /\ -BIAS \in Int /\ Off \in Clock
      /\ <<>> \in Seq(Move) /\ <<>> \in Seq(ShortMove) /\ {} \in SUBSET Stepper
  BY Numbers DEF Clock
<1>2. Budget = 0
  <2>1. Idle.at # "queue_step"
    BY DEF Idle
  <2>2. commands = 0 /\ task.at # "queue_step"
    BY <2>1, Zenon DEF Init
  <2>3. 0 - 0 = 0
    OBVIOUS
  <2> QED
    BY <2>2, <2>3, Zenon DEF Budget
<1>3. Configured \in StepperState
  BY <1>1, Zenon DEF Configured, StepperState
<1>4. ASSUME NEW s \in Stepper PROVE Good(s, Configured, 0, 0, 0)
  <2>1. /\ Configured.time = Off /\ Configured.count = 0 /\ Configured.position = -BIAS
        /\ Configured.mq = <<>> /\ Configured.step_pin = FALSE
        /\ Configured.dir_pin = FALSE
    BY Zenon DEF Configured
  <2>2. Left(s, Configured) = 0
    BY <2>1 DEF Left
  <2>3. Phase(s, Configured)
    <3>1. ~(0 % 2 = 1)
      OBVIOUS
    <3> QED
      BY <2>1, <3>1, Zenon DEF Phase
  <2>4. Counts(s, Configured, 0)
    <3>1. -BIAS - 0 = -(BIAS + 0)
      BY Numbers
    <3> QED
      BY <2>1, <2>2, <3>1, Zenon DEF Counts
  <2>5. Held(Configured, 0)
    BY <2>1, Zenon DEF Held
  <2>6. Reaches(s, Configured, 0, 0 - Len(Configured.mq))
    <3>0. Len(<<>>) = 0
      OBVIOUS
    <3>1. Len(<<>>) = 0 /\ 0 - Len(<<>>) = 0
      <4>1. 0 - 0 = 0
        OBVIOUS
      <4> QED
        BY <3>0, <4>1, Zenon
    <3>2. \A a \in Nat : a * 0 = 0 /\ 0 - 0 >= -0
      OBVIOUS
    <3>3. Paid(0) = 0
      BY <3>2, LongestIs, Zenon DEF Paid
    <3> QED
      BY <2>1, <2>2, <3>1, <3>2, <3>3, LongestIs, Zenon DEF Reaches
  <2> QED
    BY <1>1, <1>3, <2>1, <2>3, <2>4, <2>5, <2>6, Zenon DEF Good, Tracked
<1>5. StepPart
  BY <1>1, <1>2, <1>3, <1>4, Zenon DEF Init, StepPart
<1>6. TrigPart
  <2> DEFINE ts == [can |-> FALSE, report |-> FALSE, reason |-> 0, expire_reason |-> 0,
                    signals |-> {}, report_time |-> Off, report_ticks |-> 0,
                    expire_time |-> Off]
  <2>1. ts \in TrsyncState /\ ts.signals = {}
    BY <1>1, Zenon DEF TrsyncState
  <2>2. trsync = [t \in Trsync |-> ts] /\ active = {}
    BY Zenon DEF Init
  <2> HIDE DEF ts
  <2>3. trsync \in [Trsync -> TrsyncState] /\ \A t \in Trsync : trsync[t].signals = {}
    BY <2>1, <2>2, Zenon
  <2>4. UNION {trsync[t].signals : t \in Trsync} = {}
    BY <2>3, Zenon
  <2> QED
    BY <2>2, <2>3, <2>4, Zenon DEF TrigPart
<1>7. EndPart
  <2> DEFINE es == [time |-> Off, func |-> "endstop_event", nextwake |-> 0,
                    sample_count |-> 0, trigger_count |-> 0, ts |-> Null]
  <2>1. es \in EndstopState /\ es.time = Off
    BY <1>1, Zenon DEF EndstopState
  <2>2. endstop = [e \in Endstop |-> es] /\ streak = [e \in Endstop |-> 0]
    BY Zenon DEF Init
  <2> HIDE DEF es
  <2> QED
    BY <1>1, <2>1, <2>2, Zenon DEF EndPart, Samples
<1>8. RestPart
  <2>1. 0 \in Nat /\ 0 <= MaxCommands
    BY Numbers
  <2> QED
    BY <2>1, Zenon DEF Init, RestPart
<1> QED
  BY <1>5, <1>6, <1>7, <1>8, Zenon DEF HInv

(* The state of a homing move is well formed whatever the host sends and    *)
(* whenever the interrupts come; an endstop that samples has a trsync and   *)
(* samples to count, and what is registered to stop is what has its         *)
(* stop_signal set.                                                         *)
THEOREM HomingTypes == Spec => []TypeOK
<1>1. HInv => TypeOK
  <2> SUFFICES ASSUME HInv PROVE TypeOK
    OBVIOUS
  <2>1. \A e \in Endstop : endstop[e].time # Off =>
           /\ endstop[e].ts \in Trsync
           /\ endstop[e].trigger_count > 0 /\ endstop[e].sample_count > 0
    BY Zenon DEF HInv, EndPart, Samples
  <2> QED
    BY <2>1, Zenon DEF HInv, StepPart, TrigPart, EndPart, RestPart, TypeOK
<1> QED
  BY <1>1, HomingBegins, HomingKeeps, PTL DEF Spec

(* stepper_get_position answers where the motor is, in the middle of a      *)
(* move, of a pulse or of a change of direction, and after a stop, as long  *)
(* as the host keeps within POSITION_BIAS.                                  *)
THEOREM PositionIsKnown == Spec => []PositionIsMotor
<1>1. HInv => PositionIsMotor
  <2> SUFFICES ASSUME HInv, NEW s \in Stepper
               PROVE  Position(s, stepper[s]) - BIAS = motor[s]
    BY DEF PositionIsMotor
  <2>1. stepper[s] \in StepperState /\ motor[s] \in Int /\ BIAS + motor[s] >= 0
    BY MotorIsNear DEF HInv
  <2>2. \/ stepper[s].position - Left(s, stepper[s]) = BIAS + motor[s]
        \/ stepper[s].position - Left(s, stepper[s]) = -(BIAS + motor[s])
    BY Zenon DEF HInv, StepPart, Good, Tracked, Counts
  <2>3. Position(s, stepper[s]) = BIAS + motor[s]
    BY <2>1, <2>2, LeftIsNat, Numbers DEF Position, Left, StepperState
  <2> QED
    BY <2>1, <2>3, Numbers
<1> QED
  BY <1>1, HomingBegins, HomingKeeps, PTL DEF Spec

-----------------------------------------------------------------------------
(* Which steps move the pins of a stepper that goes on.                     *)
Quiet(s) ==
    \/ stepper'[s].need_reset
    \/ /\ stepper'[s].step_pin = stepper[s].step_pin
       /\ stepper'[s].dir_pin = stepper[s].dir_pin

LEMMA SameIsQuiet ==
    ASSUME NEW s, stepper'[s] = stepper[s]
    PROVE  Quiet(s)
  BY Zenon DEF Quiet

LEMMA StoppedIsQuiet ==
    ASSUME NEW s, NEW st, st \in StepperState, stepper'[s] = Stopped(s, st)
    PROVE  Quiet(s)
  BY Zenon DEF Quiet, Stopped, StepperState

LEMMA StopIsQuiet ==
    ASSUME HInv, NEW S, Stop(S), NEW s \in Stepper
    PROVE  Quiet(s)
<1>1. stepper'[s] = (IF s \in S THEN Stopped(s, stepper[s]) ELSE stepper[s])
  BY Zenon DEF Stop
<1>2. stepper[s] \in StepperState
  BY Zenon DEF HInv, StepPart
<1> QED
  BY <1>1, <1>2, SameIsQuiet, StoppedIsQuiet, Zenon

LEMMA ShutDownIsQuiet ==
    ASSUME NEW st, NEW es, ShutDown(st, es), NEW s \in Stepper, st[s] \in StepperState
    PROVE  Quiet(s)
<1> DEFINE x == [st[s] EXCEPT !.mq = <<>>]
<1>1. <<>> \in Seq(Move)
  OBVIOUS
<1>2. x \in StepperState
  BY <1>1, Zenon DEF StepperState
<1> QED
  BY <1>2, StoppedIsQuiet, Zenon DEF ShutDown

LEMMA FailIsQuiet ==
    ASSUME HInv, Fail, NEW s \in Stepper
    PROVE  Quiet(s)
  BY ShutDownIsQuiet, Zenon DEF Fail, HInv, StepPart

(* A change of one stepper is one of its fields but the pins.               *)
LEMMA FieldIsQuiet ==
    ASSUME HInv, NEW v \in Stepper, NEW st, stepper' = [stepper EXCEPT ![v] = st],
           st.step_pin = stepper[v].step_pin, st.dir_pin = stepper[v].dir_pin,
           NEW s \in Stepper
    PROVE  Quiet(s)
<1>1. stepper'[s] = (IF s = v THEN st ELSE stepper[s])
  BY Zenon DEF HInv, StepPart
<1> QED
  BY <1>1, Zenon DEF Quiet

LEMMA CommandIsQuiet ==
    ASSUME HInv, Command, NEW s \in Stepper
    PROVE  Quiet(s)
<1>1. ASSUME NEW v \in Stepper, StepperCommand(v) PROVE Quiet(s)
  <2>1. ASSUME NEW m, QueueStep(v, m) PROVE Quiet(s)
    BY <2>1, FailIsQuiet, SameIsQuiet, Zenon DEF QueueStep, motors
  <2>2. ASSUME NEW dir, SetNextStepDir(v, dir) PROVE Quiet(s)
    <3> DEFINE st == [stepper[v] EXCEPT !.next_dir = dir]
    <3>1. /\ stepper' = [stepper EXCEPT ![v] = st]
          /\ st.step_pin = stepper[v].step_pin /\ st.dir_pin = stepper[v].dir_pin
      BY <2>2, Zenon DEF SetNextStepDir, HInv, StepPart, StepperState
    <3> QED
      BY <3>1, FieldIsQuiet
  <2>3. ASSUME NEW clock, ResetStepClock(v, clock) PROVE Quiet(s)
    <3> DEFINE st == [stepper[v] EXCEPT !.next_step_time = clock, !.need_reset = FALSE]
    <3>1. CASE Fail
      BY <3>1, FailIsQuiet
    <3>2. CASE ~Fail
      <4>1. stepper' = [stepper EXCEPT ![v].next_step_time = clock, ![v].need_reset = FALSE]
        BY <2>3, <3>2, Zenon DEF ResetStepClock
      <4>2. stepper' = [stepper EXCEPT ![v] = st]
        BY <4>1 DEF HInv, StepPart, StepperState
      <4>3. st.step_pin = stepper[v].step_pin /\ st.dir_pin = stepper[v].dir_pin
        BY Zenon DEF HInv, StepPart, StepperState
      <4> QED
        BY <4>2, <4>3, FieldIsQuiet
    <3> QED
      BY <3>1, <3>2
  <2>4. ASSUME NEW t, StopOnTrigger(v, t) PROVE Quiet(s)
    BY <2>4, FailIsQuiet, SameIsQuiet, Zenon DEF StopOnTrigger, motors
  <2> QED
    BY <1>1, <2>1, <2>2, <2>3, <2>4, Zenon DEF StepperCommand
<1>2. ASSUME NEW t \in Trsync, TrsyncCommand(t) PROVE Quiet(s)
  <2>1. ASSUME NEW clock, NEW ticks, TrsyncStart(t, clock, ticks) PROVE Quiet(s)
    BY <2>1, FailIsQuiet, SameIsQuiet, Zenon DEF TrsyncStart, motors
  <2>2. ASSUME NEW clock, TrsyncSetTimeout(t, clock) PROVE Quiet(s)
    BY <2>2, FailIsQuiet, SameIsQuiet, Zenon DEF TrsyncSetTimeout, motors
  <2>3. ASSUME TrsyncTrigger(t) PROVE Quiet(s)
    BY <2>3, StopIsQuiet, Zenon DEF TrsyncTrigger
  <2> QED
    BY <1>2, <2>1, <2>2, <2>3, Zenon DEF TrsyncCommand
<1>3. ASSUME NEW e \in Endstop, EndstopCommand(e) PROVE Quiet(s)
  <2>1. ASSUME NEW clock, NEW samples, NEW t, EndstopHome(e, clock, samples, t)
        PROVE  Quiet(s)
    <3>1. stepper' = stepper \/ \E es : ShutDown(stepper, es)
      BY <2>1, Zenon DEF EndstopHome, motors
    <3>2. stepper[s] \in StepperState
      BY Zenon DEF HInv, StepPart
    <3> QED
      BY <3>1, <3>2, ShutDownIsQuiet, SameIsQuiet, Zenon
  <2> QED
    BY <1>3, <2>1, Zenon DEF EndstopCommand
<1>4. CASE EmergencyStop
  BY <1>4, FailIsQuiet, Zenon DEF EmergencyStop
<1>5. CASE ClearShutdown
  BY <1>5, SameIsQuiet, Zenon DEF ClearShutdown, motors
<1> QED
  BY <1>1, <1>2, <1>3, <1>4, <1>5, Zenon DEF Command

(* The pins of a stepper whose event runs.                                  *)
PinsInTime(s) ==
    /\ stepper'[s].step_pin # stepper[s].step_pin => now >= hold[s]
    /\ stepper'[s].dir_pin # stepper[s].dir_pin /\ s \in BothEdges
           => now' >= now + PULSE

LEMMA EventInTime ==
    ASSUME HInv, NEW s \in Stepper, StepperEvent(s)
    PROVE  Quiet(s) \/ PinsInTime(s)
<1> DEFINE st == stepper[s]
           Rest == UNCHANGED <<active, trsync, endstop, wake, task, shutdown,
                               streak, told>>
<1>1. Event(s, motor[s])
  BY EventIs, Zenon DEF StepperEvent
<1>2. now >= hold[s]
  <2>1. st.time \in Int /\ st.time <= now /\ hold[s] \in Int /\ now \in Nat
    BY DEF StepperEvent, Runs, HInv, StepPart, RestPart, StepperState
  <2>2. hold[s] <= st.time \/ hold[s] <= 0
    BY <1>1, <2>1, Numbers DEF Event, Tracked, Held
  <2> QED
    BY <2>1, <2>2
<1>3. st \in StepperState
  BY Zenon DEF HInv, StepPart
<1>4. CASE StepperFails(s)
  <2> DEFINE f == [stepper EXCEPT ![s] = Popped(s, Toggled(st))]
  <2>1. Popped(s, Toggled(st)) \in StepperState
    <3>1. /\ Loads(s, Toggled(st), Moved(s, st, motor[s]), Budget - Len(st.mq))
          /\ Moved(s, st, motor[s]) \in Int /\ Budget - Len(st.mq) \in Int
      BY <1>1, <1>4, LoadIs, Zenon DEF StepperFails, Event
    <3> QED
      BY <3>1, PoppedIs
  <2>2. f[s] \in StepperState
    BY <2>1, Zenon DEF HInv, StepPart
  <2>3. ShutDown(f, endstop)
    BY <1>4, Zenon DEF StepperFails
  <2> HIDE DEF f
  <2> QED
    BY <2>2, <2>3, ShutDownIsQuiet
<1>5. ASSUME NEW r, Becomes(s, r), r.dir_pin = st.dir_pin PROVE PinsInTime(s)
  <2>1. stepper'[s] = r
    BY <1>5, Zenon DEF Becomes, HInv, StepPart
  <2> QED
    BY <1>2, <1>5, <2>1, Zenon DEF PinsInTime
<1>6. CASE StepperPulse(s)
  <2>1. Pulsed(st, now + PULSE).dir_pin = st.dir_pin
    BY <1>3, Zenon DEF Pulsed, Toggled, StepperState
  <2> QED
    BY <1>5, <1>6, <2>1, Zenon DEF StepperPulse
<1>7. CASE StepperNext(s)
  <2>1. MoreSteps(st, now + PULSE).dir_pin = st.dir_pin
    BY <1>3, Zenon DEF MoreSteps, Toggled, StepperState
  <2> QED
    BY <1>5, <1>7, <2>1, Zenon DEF StepperNext
<1>8. CASE StepperDone(s)
  <2>1. [Toggled(st) EXCEPT !.count = 0, !.time = Off].dir_pin = st.dir_pin
    BY <1>3, Zenon DEF Toggled, StepperState
  <2> QED
    BY <1>5, <1>8, <2>1, Zenon DEF StepperDone
<1>9. CASE StepperLoad(s)
  <2> DEFINE u == Toggled(st)
             p == Popped(s, u)
             r == LoadedActive(s, u, now, now + PULSE)
  <2>1. /\ Loads(s, u, Moved(s, st, motor[s]), Budget - Len(st.mq)) /\ u.mq = st.mq
        /\ Moved(s, st, motor[s]) \in Int /\ Budget - Len(st.mq) \in Int
    BY <1>1, <1>9, LoadIs, Zenon DEF StepperLoad, Event
  <2>2. p \in StepperState /\ p.dir_pin = u.dir_pin
    BY <2>1, PoppedIs
  <2>3. u.dir_pin = st.dir_pin
    BY <1>3, Zenon DEF Toggled, StepperState
  <2>4. CASE ~Head(st.mq).dir
    <3> HIDE DEF u, p
    <3>1. r = [p EXCEPT !.time = Later(p.time, now + PULSE)]
      BY <2>1, <2>4, Zenon DEF LoadedActive, p
    <3>2. r.dir_pin = st.dir_pin
      BY <2>2, <2>3, <3>1, Zenon DEF StepperState
    <3> QED
      BY <1>5, <1>9, <3>2, Zenon DEF StepperLoad, u
  <2>5. CASE Head(st.mq).dir
    <3>1. now' = TurnTime(s, st, now, now + PULSE)
      BY <1>9, <2>5, Zenon DEF StepperLoad
    <3>2. s \in BothEdges => now' >= now + PULSE
      <4>1. now + PULSE >= now /\ now + PULSE \in Int /\ now \in Int
        BY Numbers DEF HInv, RestPart
      <4>2. Later(now, now + PULSE) >= now + PULSE
        BY <4>1, LaterIs
      <4> QED
        BY <3>1, <4>2, Zenon DEF TurnTime
    <3> QED
      BY <1>2, <3>2, Zenon DEF PinsInTime
  <2> QED
    BY <2>4, <2>5
<1> QED
  BY <1>4, <1>6, <1>7, <1>8, <1>9, Zenon DEF StepperEvent

LEMMA OthersAreQuiet ==
    ASSUME HInv, NEW v \in Stepper, StepperEvent(v), NEW s \in Stepper, s # v
    PROVE  Quiet(s)
<1>1. CASE StepperFails(v)
  <2> DEFINE f == [stepper EXCEPT ![v] = Popped(v, Toggled(stepper[v]))]
  <2>1. f[s] \in StepperState
    BY Zenon DEF HInv, StepPart
  <2>2. ShutDown(f, endstop)
    BY <1>1, Zenon DEF StepperFails
  <2> HIDE DEF f
  <2> QED
    BY <2>1, <2>2, ShutDownIsQuiet
<1>2. CASE \E r : Becomes(v, r)
  <2>1. stepper'[s] = stepper[s]
    BY <1>2, Zenon DEF Becomes, HInv, StepPart
  <2> QED
    BY <2>1, SameIsQuiet
<1> QED
  BY <1>1, <1>2, Zenon
     DEF StepperEvent, StepperPulse, StepperNext, StepperDone, StepperLoad

(* A step pin keeps each level, and a direction is stable before a step and *)
(* after it, for step_pulse_ticks, however late the interrupt is.           *)
THEOREM PinsKeepTimes == Spec => PulseTimes
<1> DEFINE Times == \A s \in Stepper : stepper[s].count # 0 /\ ~stepper'[s].need_reset =>
                       /\ stepper'[s].step_pin # stepper[s].step_pin => now >= hold[s]
                       /\ stepper'[s].dir_pin # stepper[s].dir_pin /\ s \in BothEdges
                              => now' >= now + PULSE
<1>1. HInv /\ [Next]_vars => [Times]_vars
  <2> SUFFICES ASSUME HInv, Next, NEW s \in Stepper, stepper[s].count # 0
               PROVE  Quiet(s) \/ PinsInTime(s)
    BY Zenon DEF Quiet, PinsInTime
  <2>1. CASE Command
    BY <2>1, CommandIsQuiet
  <2>2. ASSUME NEW v \in Stepper, StepperEvent(v) PROVE Quiet(s) \/ PinsInTime(s)
    BY <2>2, EventInTime, OthersAreQuiet, Zenon
  <2>3. ASSUME NEW t \in Trsync, TrsyncExpireEvent(t) \/ TrsyncReportEvent(t)
        PROVE  Quiet(s)
    BY <2>3, StopIsQuiet, SameIsQuiet, Zenon
       DEF TrsyncExpireEvent, TrsyncReportEvent, motors
  <2>4. ASSUME NEW e \in Endstop, EndstopEvent(e) PROVE Quiet(s)
    BY <2>4, StopIsQuiet, SameIsQuiet, Zenon
       DEF EndstopEvent, EndstopMiss, Oversample, motors
  <2>5. ASSUME NEW v \in Stepper, NEW m \in Moves, QueueStepPush(v, m) PROVE Quiet(s)
    <3> DEFINE st == stepper[v]
               w == WithMove(st, m)
               r == LoadedIdle(v, w)
    <3>1. CASE st.count # 0 /\ Becomes(v, w)
      <4>1. w.step_pin = st.step_pin /\ w.dir_pin = st.dir_pin
        BY Zenon DEF WithMove, HInv, StepPart, StepperState
      <4> HIDE DEF w
      <4> QED
        BY <3>1, <4>1, FieldIsQuiet, Zenon DEF Becomes
    <3>2. CASE UNCHANGED stepper
      BY <3>2, SameIsQuiet, Zenon
    <3>3. CASE st.count = 0 /\ Becomes(v, r)
      <4>1. s # v
        BY <3>3, Zenon
      <4>2. stepper'[s] = stepper[s]
        BY <3>3, <4>1, Zenon DEF Becomes, HInv, StepPart
      <4> QED
        BY <4>2, SameIsQuiet
    <3>4. CASE st.count = 0 /\ ShutDown([stepper EXCEPT ![v] = [r EXCEPT !.time = Off]], endstop)
      <4> DEFINE f == [stepper EXCEPT ![v] = [r EXCEPT !.time = Off]]
      <4>1. s # v
        BY <3>4, Zenon
      <4>2. f[s] \in StepperState
        BY <4>1, Zenon DEF HInv, StepPart
      <4>3. ShutDown(f, endstop)
        BY <3>4, Zenon
      <4> HIDE DEF f
      <4> QED
        BY <4>2, <4>3, ShutDownIsQuiet
    <3> QED
      BY <2>5, <3>1, <3>2, <3>3, <3>4, Zenon DEF QueueStepPush
  <2>6. CASE Tick \/ TrsyncTask \/ \E t \in Trsync : TrsyncReport(t)
    BY <2>6, SameIsQuiet, Zenon DEF Tick, TrsyncTask, TrsyncReport, motors
  <2> QED
    BY <2>1, <2>2, <2>3, <2>4, <2>5, <2>6, Zenon DEF Next, TimerEvent
<1> QED
  BY <1>1, HomingBegins, HomingKeeps, PTL DEF Spec, PulseTimes

-----------------------------------------------------------------------------
(* Which steps end the sampling of an endstop, and what they have counted.  *)
Sampled(e) ==
    endstop[e].time # Off /\ endstop'[e].time = Off
    /\ endstop'[e].sample_count # 0 /\ ~shutdown'
        => streak'[e] = endstop[e].sample_count

LEMMA SameIsSampled ==
    ASSUME NEW e, endstop'[e].time = endstop[e].time \/ endstop'[e].time # Off
    PROVE  Sampled(e)
  BY Zenon DEF Sampled

LEMMA KeptIsSampled ==
    ASSUME NEW e, UNCHANGED endstop
    PROVE  Sampled(e)
<1>1. endstop'[e] = endstop[e]
  BY Zenon
<1> QED
  BY <1>1, SameIsSampled, Zenon

LEMMA ShutDownIsSampled ==
    ASSUME NEW e, NEW st, NEW es, ShutDown(st, es)
    PROVE  Sampled(e)
  BY Zenon DEF Sampled, ShutDown

LEMMA OversampleIsSampled ==
    ASSUME HInv, NEW e \in Endstop, NEW x \in EndstopState,
           x.time = endstop[e].time, x.time # Off, Samples(x, streak[e]),
           x.sample_count = endstop[e].sample_count, Oversample(e, x)
    PROVE  Sampled(e)
<1> DEFINE y == [x EXCEPT !.trigger_count = @ - 1, !.time = @ + SAMPLE]
<1>1. /\ x.time \in Int /\ x.trigger_count \in Nat /\ x.sample_count \in Nat
      /\ x.nextwake \in Int /\ streak[e] \in Nat
      /\ streak[e] + x.trigger_count = x.sample_count
  BY Zenon DEF HInv, EndPart, Samples, EndstopState, Clock
<1>2. CASE endstop' = [endstop EXCEPT ![e] = Mismatch(x)]
  <2>1. endstop'[e] = Mismatch(x)
    BY <1>2, Zenon DEF HInv, EndPart
  <2>2. Mismatch(x).time = x.nextwake
    BY Zenon DEF Mismatch, EndstopState
  <2>3. x.nextwake # Off
    BY <1>1, Numbers, Zenon
  <2> QED
    BY <2>1, <2>2, <2>3, SameIsSampled, Zenon
<1>3. CASE endstop' = [endstop EXCEPT ![e] =
              [x EXCEPT !.trigger_count = @ - 1, !.time = @ + SAMPLE]]
  <2>1. endstop'[e] = y
    BY <1>3, Zenon DEF HInv, EndPart
  <2>2. y.time = x.time + SAMPLE
    BY Zenon DEF EndstopState
  <2>3. x.time + SAMPLE \in Int
    BY <1>1, Numbers
  <2>4. x.time + SAMPLE # Off
    BY <2>3, Numbers, Zenon
  <2> HIDE DEF y
  <2> QED
    BY <2>1, <2>2, <2>4, SameIsSampled, Zenon
<1>4. CASE x.trigger_count = 1 /\ streak' = [streak EXCEPT ![e] = @ + 1]
  <2>1. streak'[e] = streak[e] + 1
    BY <1>4, Zenon DEF HInv, EndPart
  <2>2. streak[e] + 1 = x.sample_count
    BY <1>1, <1>4
  <2> QED
    BY <2>1, <2>2, Zenon DEF Sampled
<1> QED
  BY <1>2, <1>3, <1>4, Zenon DEF Oversample

LEMMA EndstopEventIsSampled ==
    ASSUME HInv, NEW v \in Endstop, EndstopEvent(v), NEW e \in Endstop
    PROVE  Sampled(e)
<1> DEFINE es == endstop[v]
           x == [es EXCEPT !.func = "endstop_oversample_event",
                           !.nextwake = es.time + REST]
<1>1. CASE e # v
  <2>1. endstop'[e] = endstop[e]
    BY <1>1, Zenon DEF EndstopEvent, EndstopMiss, Oversample, HInv, EndPart
  <2> QED
    BY <2>1, SameIsSampled, Zenon
<1>2. CASE e = v
  <2>1. /\ es \in EndstopState /\ es.time # Off /\ Samples(es, streak[v])
        /\ streak[v] \in Nat
    BY Zenon DEF HInv, EndPart, EndstopEvent, Runs
  <2>2. es.time \in Int /\ es.time \in Clock
    BY <2>1, Zenon DEF EndstopState, Clock
  <2>3. es.time + REST \in Int
    BY <2>2, Numbers
  <2>4. CASE EndstopMiss(v)
    <3>1. endstop'[v].time = es.time + REST
      BY <2>1, <2>4, Zenon DEF EndstopMiss, HInv, EndPart, EndstopState
    <3>2. es.time + REST # Off
      BY <2>3, Numbers, Zenon
    <3> QED
      BY <1>2, <3>1, <3>2, SameIsSampled, Zenon
  <2>5. CASE Oversample(v, es)
    BY <1>2, <2>1, <2>5, OversampleIsSampled, Zenon
  <2>6. CASE es.func = "endstop_event" /\ Oversample(v, x)
    <3>1. /\ x.time = es.time /\ x.sample_count = es.sample_count /\ x.ts = es.ts
          /\ x.trigger_count = es.trigger_count
          /\ x.func = "endstop_oversample_event"
      BY <2>1, Zenon DEF EndstopState
    <3>2. x \in EndstopState
      BY <2>1, <2>3, Zenon DEF EndstopState
    <3>3. Samples(x, streak[v])
      <4>1. x.func # "endstop_event"
        BY <3>1
      <4> HIDE DEF x
      <4> QED
        BY <2>1, <3>1, <4>1, Zenon DEF Samples
    <3> HIDE DEF x
    <3> QED
      BY <1>2, <2>1, <2>6, <3>1, <3>2, <3>3, OversampleIsSampled, Zenon
  <2> QED
    BY <2>4, <2>5, <2>6, Zenon DEF EndstopEvent
<1> QED
  BY <1>1, <1>2

LEMMA EndstopHomeIsSampled ==
    ASSUME HInv, NEW v \in Endstop, EndstopCommand(v), NEW e \in Endstop
    PROVE  Sampled(e)
<1>1. PICK clock \in Soon, samples \in SampleCounts, t \in Trsync :
          EndstopHome(v, clock, samples, t)
  BY Zenon DEF EndstopCommand
<1> DEFINE off == [endstop[v] EXCEPT !.time = Off, !.sample_count = 0, !.ts = Null]
           on == [endstop[v] EXCEPT !.time = clock, !.func = "endstop_event",
                           !.sample_count = samples, !.trigger_count = samples,
                           !.ts = t]
           es == [endstop EXCEPT ![v] = IF samples = 0 THEN off ELSE on]
<1>2. clock \in Int
  BY Numbers DEF Soon, HInv, RestPart
<1>3. off.sample_count = 0 /\ on.time = clock
  BY Zenon DEF HInv, EndPart, EndstopState
<1>4. clock # Off
  BY <1>2, Numbers, Zenon
<1>5. CASE endstop' = es
  <2>1. endstop'[e] = IF e = v THEN (IF samples = 0 THEN off ELSE on) ELSE endstop[e]
    BY <1>5, Zenon DEF HInv, EndPart
  <2> HIDE DEF off, on
  <2> QED
    BY <2>1, <1>3, <1>4, Zenon DEF Sampled
<1>6. CASE \E f : ShutDown(stepper, f)
  BY <1>6, ShutDownIsSampled, Zenon
<1> HIDE DEF off, on
<1> QED
  BY <1>1, <1>5, <1>6, Zenon DEF EndstopHome, off, on

LEMMA CommandIsSampled ==
    ASSUME HInv, Command, NEW e \in Endstop
    PROVE  Sampled(e)
<1>1. CASE Fail
  BY <1>1, ShutDownIsSampled, Zenon DEF Fail
<1>2. CASE ~Fail /\ \E s \in Stepper : StepperCommand(s)
  BY <1>2, KeptIsSampled, Zenon
     DEF StepperCommand, QueueStep, SetNextStepDir, ResetStepClock, StopOnTrigger
<1>3. CASE ~Fail /\ \E t \in Trsync : TrsyncCommand(t)
  BY <1>3, KeptIsSampled, Zenon
     DEF TrsyncCommand, TrsyncStart, TrsyncSetTimeout, TrsyncTrigger
<1>4. CASE \E v \in Endstop : EndstopCommand(v)
  BY <1>4, EndstopHomeIsSampled, Zenon
<1>5. CASE ClearShutdown
  BY <1>5, KeptIsSampled, Zenon DEF ClearShutdown
<1> QED
  BY <1>1, <1>2, <1>3, <1>4, <1>5, Zenon DEF Command, EmergencyStop

(* An endstop's sampling ends by itself only after as many samples in a row *)
(* as the host asked for, whenever its two callbacks run.                   *)
THEOREM SamplesAreCounted == Spec => SamplesAgree
<1> DEFINE Agree == \A e \in Endstop :
                        endstop[e].time # Off /\ endstop'[e].time = Off
                        /\ endstop'[e].sample_count # 0 /\ ~shutdown'
                            => streak'[e] = endstop[e].sample_count
<1>1. HInv /\ [Next]_vars => [Agree]_vars
  <2> SUFFICES ASSUME HInv, Next, NEW e \in Endstop PROVE Sampled(e)
    BY Zenon DEF Sampled
  <2>1. CASE Command
    BY <2>1, CommandIsSampled
  <2>2. ASSUME NEW v \in Endstop, EndstopEvent(v) PROVE Sampled(e)
    BY <2>2, EndstopEventIsSampled
  <2>3. ASSUME NEW t \in Trsync, TrsyncExpireEvent(t) \/ TrsyncReportEvent(t)
        PROVE  Sampled(e)
    BY <2>3, KeptIsSampled, Zenon DEF TrsyncExpireEvent, TrsyncReportEvent
  <2>4. ASSUME NEW s \in Stepper, StepperEvent(s) PROVE Sampled(e)
    BY <2>4, KeptIsSampled, ShutDownIsSampled, Zenon DEF StepperEvent, StepperFails
  <2>5. ASSUME NEW s \in Stepper, NEW m \in Moves, QueueStepPush(s, m)
        PROVE  Sampled(e)
    BY <2>5, KeptIsSampled, ShutDownIsSampled, Zenon DEF QueueStepPush
  <2>6. CASE Tick \/ TrsyncTask \/ \E t \in Trsync : TrsyncReport(t)
    BY <2>6, KeptIsSampled, Zenon DEF Tick, TrsyncTask, TrsyncReport
  <2> QED
    BY <2>1, <2>2, <2>3, <2>4, <2>5, <2>6, Zenon DEF Next, TimerEvent
<1> QED
  BY <1>1, HomingBegins, HomingKeeps, PTL DEF Spec, SamplesAgree
=============================================================================
