-------------------------------- MODULE Sched --------------------------------
(***************************************************************************)
(* The timers of src/sched.c with the interrupt that runs them             *)
(* (src/generic/timer_irq.c, src/esp32/timer.c): a linked list in the order*)
(* of waketimes, ended by a sentinel, always holding the periodic timer; a *)
(* "deleted" timer that stands in for the head when the head changes under *)
(* an armed compare register; a hint of where the last insertion went; and *)
(* the reset of the list by a shutdown.                                    *)
(*                                                                         *)
(* Times are unsigned integers of a clock that wraps at Wrap (2^32 in the  *)
(* code); the ASSUME states what the code relies on: that times compared   *)
(* with each other are less than half a turn apart.                        *)
(***************************************************************************)
EXTENDS Integers, FiniteSets

CONSTANTS
    User,          \* the timers of commands and peripherals
    Null,          \* the null pointer
    Wrap,          \* 2^32
    PERIOD,        \* timer_from_us(100000)
    KICK,          \* timer_from_us(50), esp32/timer.c
    MIN_TRY,       \* TIMER_MIN_TRY_TICKS
    DEFER,         \* TIMER_DEFER_REPEAT_TICKS
    PAST,          \* timer_from_us(1000): later than this is "in the past"
    MaxAhead,      \* bound: how far ahead callers schedule
    MaxLate,       \* bound: how late a live interrupt may run
    MaxShutdowns,  \* bound: shutdowns in one behaviour
    IsrShutdown    \* TRUE if a callback or the dispatch loop may shut down

periodic == "periodic_timer"
sentinel == "sentinel_timer"
deleted == "deleted_timer"
Static == {periodic, sentinel, deleted}
Timer == User \cup Static
Time == 0..(Wrap - 1)
Half == Wrap \div 2

ASSUME TimerAssumption ==
    User \cap Static = {} /\ Null \notin Timer /\ IsFiniteSet(User)
ASSUME ClockAssumption ==
    /\ Wrap \in Nat /\ Half > 0 /\ Wrap = 2 * Half
    /\ PERIOD \in 1..(Half - 1)
    /\ KICK \in 1..(Half - 1) /\ DEFER \in 1..(Half - 1)
    /\ MIN_TRY \in Nat /\ PAST \in Nat
    /\ MaxAhead \in Nat /\ MaxLate \in Nat /\ MaxLate > KICK
    /\ MaxShutdowns \in Nat /\ IsrShutdown \in BOOLEAN

(* What the code relies on: a timer is waited for no longer than a repeat   *)
(* is deferred (2 and 5 microseconds), and of the timers on the list, late  *)
(* by MaxLate, a deferral and a kick for each shutdown, and early by what   *)
(* callers ask for, no two are half a turn apart.  MaxLate is not below     *)
(* what the code detects as "in the past".                                  *)
Lag(n) == MaxLate + DEFER + n * KICK
ASSUME LatenessAssumption ==
    /\ MIN_TRY <= DEFER /\ PAST <= MaxLate
    /\ MaxAhead + Lag(MaxShutdowns) < Half
    /\ PERIOD + Lag(MaxShutdowns) < Half

VARIABLES
    now,             \* the cycle counter
    next, waketime,  \* the fields of every struct timer
    timer_list,      \* SchedStatus.timer_list
    last_insert,     \* SchedStatus.last_insert
    shutdown_status, \* SchedStatus.shutdown_status, 2 (in progress) left out
    ccompare,        \* the compare register
    pending,         \* the compare interrupt is raised
    irq_source,      \* the timer interrupt's source is enabled
    isr,             \* where timer_dispatch_many is
    running,         \* the timer sched_timer_dispatch last ran, until the
                     \* interrupt goes on or returns
    next_wake,       \* what it returned
    armed,           \* the user timers added and neither run out nor deleted
    shutdowns        \* what MaxShutdowns counts

list == <<next, timer_list, last_insert>>
dispatch == <<isr, running, next_wake>>
hardware == <<ccompare, pending, irq_source>>
vars == <<now, list, waketime, shutdown_status, hardware, dispatch, armed,
          shutdowns>>

-----------------------------------------------------------------------------
(* 32-bit arithmetic                                                        *)
Plus(t, d) == IF t + d >= Wrap THEN t + d - Wrap ELSE t + d
Diff(a, b) == IF a >= b THEN a - b ELSE a - b + Wrap
Signed(d) == IF d >= Half THEN d - Wrap ELSE d
timer_is_before(a, b) == Diff(a, b) >= Half

(* The nodes after pos, in order, and where insert_timer stops: the first   *)
(* of them whose waketime is after w.                                       *)
Size == Cardinality(Timer)
After(nx, pos) ==
    LET node[n \in 0..Size] ==
            IF n = 0 THEN pos
            ELSE IF node[n - 1] = Null THEN Null ELSE nx[node[n - 1]]
    IN node
StopsAt(nx, wk, pos, w, n) ==
    LET node == After(nx, pos)
    IN /\ node[n] # Null /\ timer_is_before(w, wk[node[n]])
       /\ \A k \in 1..(n - 1) :
              node[k] # Null /\ ~timer_is_before(w, wk[node[k]])
CanInsert(nx, wk, pos, w) == \E n \in 1..Size : StopsAt(nx, wk, pos, w, n)
Inserted(nx, wk, pos, t, w) ==
    LET n == CHOOSE k \in 1..Size : StopsAt(nx, wk, pos, w, k)
        node == After(nx, pos)
    IN [nx EXCEPT ![t] = node[n], ![node[n - 1]] = t]

Listed(nx, head) == {After(nx, head)[n] : n \in 0..Size} \ {Null}
OnList == Listed(next, timer_list)

(* Mutant: the timers between a deleted head and periodic_timer are dropped.*)
UnlinkedToPeriodic(del) ==
    IF timer_list = del
    THEN [next |-> [next EXCEPT ![deleted] = periodic], head |-> deleted,
          wake |-> [waketime EXCEPT ![deleted] = waketime[del]]]
    ELSE [next |-> [t \in Timer |-> IF t \in OnList /\ next[t] = del
                                    THEN next[del] ELSE next[t]],
          head |-> timer_list,
          wake |-> waketime]

(* sched_del_timer: the head is replaced by deleted_timer, another node is  *)
(* unlinked, a timer not on the list is left alone.                         *)
Unlinked(del) ==
    IF timer_list = del
    THEN [next |-> [next EXCEPT ![deleted] = next[del]], head |-> deleted,
          wake |-> [waketime EXCEPT ![deleted] = waketime[del]]]
    ELSE [next |-> [t \in Timer |-> IF t \in OnList /\ next[t] = del
                                    THEN next[del] ELSE next[t]],
          head |-> timer_list,
          wake |-> waketime]

(* Mutant: the hint survives the deletion of its timer.                     *)
HintKept(del) == last_insert
HintAfterDelete(del) == IF last_insert = del THEN periodic ELSE last_insert

Init ==
    /\ now = 0
    /\ next = [t \in Timer |-> IF t = periodic THEN sentinel ELSE Null]
    /\ waketime = [t \in Timer |-> IF t = sentinel THEN Half ELSE 0]
    /\ timer_list = periodic /\ last_insert = periodic
    /\ shutdown_status = 0
    /\ ccompare = KICK /\ pending = FALSE /\ irq_source = TRUE
    /\ isr = "off" /\ running = Null /\ next_wake = 0
    /\ armed = {} /\ shutdowns = 0

-----------------------------------------------------------------------------
(* The clock, and the compare register: equality raises the interrupt.      *)
(* An interrupt that is raised and enabled, and one that is running, do not *)
(* fall more than MaxLate behind.                                           *)
Tick ==
    /\ (pending /\ irq_source) \/ isr # "off"
         => timer_is_before(now, Plus(waketime[timer_list], MaxLate))
    /\ now' = Plus(now, 1)
    /\ pending' = (pending \/ now' = ccompare)
    /\ UNCHANGED <<list, waketime, shutdown_status, ccompare, irq_source, dispatch,
                   armed, shutdowns>>

(* timer_set_ccompare: on this processor a write of the register also       *)
(* lowers the interrupt.                                                    *)
SetCompare(t) == ccompare' = t /\ pending' = FALSE
Kick == SetCompare(Plus(now, KICK))

(* sched_timer_reset: the user timers are forgotten.                        *)
ResetTimers ==
    /\ timer_list' = deleted
    /\ waketime' = [waketime EXCEPT ![deleted] = waketime[periodic]]
    /\ next' = [next EXCEPT ![deleted] = periodic, ![periodic] = sentinel]
    /\ last_insert' = periodic
    /\ armed' = {}
    /\ Kick

(* run_shutdown; a longjmp out of the interrupt leaves its source as it is. *)
RunShutdown ==
    /\ shutdowns < MaxShutdowns
    /\ shutdowns' = shutdowns + 1
    /\ shutdown_status' = 1
    /\ ResetTimers
    /\ isr' = "off" /\ running' = Null /\ next_wake' = 0
    /\ UNCHANGED <<now, irq_source>>

-----------------------------------------------------------------------------
(* Task context: sched_add_timer, sched_del_timer (under irq_save), and the *)
(* commands that shut down and clear the shutdown.                          *)

TooClose(w) ==
    timer_is_before(w, waketime[timer_list]) /\ timer_is_before(w, now)

(* Mutant: the head is replaced without a deleted_timer before it.          *)
AddAsHead(t, w) ==
    /\ timer_is_before(w, waketime[timer_list])
    /\ timer_is_before(w, now) => shutdown_status # 0
    /\ next' = [next EXCEPT
           ![t] = IF timer_list = deleted THEN next[deleted] ELSE timer_list]
    /\ waketime' = [waketime EXCEPT ![t] = w]
    /\ timer_list' = t
    /\ Kick

AddFirst(t, w) ==
    /\ timer_is_before(w, waketime[timer_list])
    /\ timer_is_before(w, now) => shutdown_status # 0
    /\ next' = [next EXCEPT
           ![t] = IF timer_list = deleted THEN next[deleted] ELSE timer_list,
           ![deleted] = t]
    /\ waketime' = [waketime EXCEPT ![t] = w, ![deleted] = w]
    /\ timer_list' = deleted
    /\ Kick

AddLater(t, w) ==
    /\ ~timer_is_before(w, waketime[timer_list])
    /\ next' = Inserted(next, waketime, timer_list, t, w)
    /\ waketime' = [waketime EXCEPT ![t] = w]
    /\ UNCHANGED <<timer_list, ccompare, pending>>

(* Callers add timers that are not on the list (they delete them first).    *)
sched_add_timer(t, w) ==
    /\ isr = "off" /\ t \notin armed
    /\ AddFirst(t, w) \/ AddLater(t, w)
    /\ armed' = armed \cup {t}
    /\ UNCHANGED <<now, last_insert, shutdown_status, irq_source,
                   dispatch, shutdowns>>

(* "Timer too close"                                                        *)
AddTooClose(t, w) ==
    /\ isr = "off" /\ t \notin armed
    /\ TooClose(w) /\ shutdown_status = 0
    /\ RunShutdown

sched_del_timer(t) ==
    /\ isr = "off"
    /\ next' = Unlinked(t).next
    /\ timer_list' = Unlinked(t).head
    /\ waketime' = Unlinked(t).wake
    /\ last_insert' = HintAfterDelete(t)
    /\ armed' = armed \ {t}
    /\ UNCHANGED <<now, shutdown_status, hardware, dispatch, shutdowns>>

TaskShutdown == isr = "off" /\ RunShutdown

sched_clear_shutdown ==
    /\ isr = "off" /\ shutdown_status = 1
    /\ shutdown_status' = 0
    /\ UNCHANGED <<now, list, waketime, hardware, dispatch, armed,
                   shutdowns>>

-----------------------------------------------------------------------------
(* timer_isr: the source is fenced off, and timer_dispatch_many runs.       *)
EnterIsr ==
    /\ isr = "off" /\ pending /\ irq_source
    /\ irq_source' = FALSE
    /\ isr' = "dispatch"
    /\ UNCHANGED <<now, list, waketime, shutdown_status, ccompare, pending,
                   running, next_wake, armed, shutdowns>>

(* The tail of sched_timer_dispatch, on the list nx as the callback left it *)
(* and the waketimes wk, for SF_DONE and SF_RESCHEDULE.                     *)
Done(t, nx, wk, hint) ==
    /\ next' = nx /\ waketime' = wk
    /\ timer_list' = nx[t]
    /\ last_insert' = IF hint = t THEN nx[t] ELSE hint
    /\ next_wake' = wk[nx[t]]

Reschedule(t, nx, wk, hint) ==
    /\ waketime' = wk
    /\ IF timer_is_before(wk[t], wk[nx[t]])
       THEN /\ next' = nx /\ next_wake' = wk[t]
            /\ timer_list' = t /\ last_insert' = hint
       ELSE /\ next_wake' = wk[nx[t]]
            /\ timer_list' = nx[t]
            /\ next' = Inserted(nx, wk,
                   IF timer_is_before(wk[t], wk[hint]) THEN nx[t] ELSE hint,
                   t, wk[t])
            /\ last_insert' = t

InDispatch(t) ==
    /\ isr = "dispatch" /\ timer_list = t
    /\ isr' = "check" /\ running' = t
    /\ UNCHANGED <<now, shutdown_status, hardware, shutdowns>>

DeletedEvent ==
    /\ InDispatch(deleted)
    /\ Done(deleted, next, waketime, last_insert)
    /\ UNCHANGED armed

(* Mutant: the sentinel stays where it was.                                 *)
PeriodicAlone ==
    /\ InDispatch(periodic)
    /\ Reschedule(periodic, next,
           [waketime EXCEPT ![periodic] = Plus(@, PERIOD)], last_insert)
    /\ UNCHANGED armed

PeriodicEvent ==
    /\ InDispatch(periodic)
    /\ LET w == Plus(waketime[periodic], PERIOD)
       IN Reschedule(periodic, next,
              [waketime EXCEPT ![periodic] = w, ![sentinel] = Plus(w, Half)],
              last_insert)
    /\ UNCHANGED armed

(* A callback may first delete another timer (trsync_do_trigger stops the   *)
(* steppers), then is done or asks to run again at a later time.            *)
UserEvent(t, del, again, w) ==
    /\ InDispatch(t)
    /\ LET nx == IF del = t THEN next ELSE Unlinked(del).next
           hint == IF del = t THEN last_insert ELSE HintAfterDelete(del)
           left == IF del = t THEN armed ELSE armed \ {del}
       IN \/ ~again /\ w = 0 /\ Done(t, nx, waketime, hint) /\ armed' = left \ {t}
          \/ again /\ Reschedule(t, nx, [waketime EXCEPT ![t] = w], hint)
             /\ armed' = left

(* A callback shuts down; sentinel_event always does.                       *)
EventShutdown ==
    /\ IsrShutdown /\ isr = "dispatch" /\ timer_list \in User \cup {sentinel}
    /\ RunShutdown

(* timer_dispatch_many after a timer ran: return, or go on with the next    *)
(* one.  Whether the repeat limit (timer_repeat_until, tasks_busy) applies  *)
(* is left open.                                                            *)
Lateness == Signed(Diff(next_wake, now))

ReturnWith(t) ==
    /\ SetCompare(t)
    /\ irq_source' = TRUE
    /\ isr' = "off" /\ running' = Null /\ next_wake' = 0
    /\ UNCHANGED <<now, list, waketime, shutdown_status, armed, shutdowns>>

ReturnNext == isr = "check" /\ Lateness > MIN_TRY /\ ReturnWith(next_wake)

(* Deferring is cut short by the shutdown below; in shutdown, where nothing *)
(* cuts it short, by the bound MaxLate.                                     *)
ReturnDeferred ==
    /\ isr = "check" /\ Lateness <= MIN_TRY
    /\ Lateness >= IF shutdown_status = 0 THEN -PAST ELSE -MaxLate
    /\ ReturnWith(Plus(now, DEFER))

RescheduledInPast ==
    /\ IsrShutdown /\ isr = "check" /\ Lateness < -PAST
    /\ shutdown_status = 0
    /\ RunShutdown

(* Wait for the next timer to be ready, then dispatch it.                   *)
Repeat ==
    /\ isr = "check" /\ Lateness <= 0
    /\ isr' = "dispatch" /\ running' = Null /\ next_wake' = 0
    /\ UNCHANGED <<now, list, waketime, shutdown_status, hardware, armed,
                   shutdowns>>

-----------------------------------------------------------------------------
Ahead(t) == {Plus(t, d) : d \in 1..MaxAhead}
SoonOrLate == Ahead(now) \cup {now, Diff(now, 1)}

TaskStep ==
    \/ \E t \in User : \/ \E w \in SoonOrLate :
                              sched_add_timer(t, w) \/ AddTooClose(t, w)
                       \/ sched_del_timer(t)
    \/ TaskShutdown
    \/ sched_clear_shutdown

RunUser ==
    \E t, del \in User :
        \/ UserEvent(t, del, FALSE, 0)
        \/ \E w \in Ahead(waketime[t]) : UserEvent(t, del, TRUE, w)

IsrStep ==
    \/ EnterIsr
    \/ DeletedEvent \/ PeriodicEvent \/ RunUser \/ EventShutdown
    \/ ReturnNext \/ RescheduledInPast \/ Repeat

Next == Tick \/ TaskStep \/ IsrStep \/ ReturnDeferred

Spec == Init /\ [][Next]_vars

(* Time passes and the interrupt runs.                                      *)
FairSpec == Spec /\ WF_vars(Tick) /\ WF_vars(IsrStep)

-----------------------------------------------------------------------------
(* After a longjmp out of timer_isr nothing enables its source again.       *)
Dead == isr = "off" /\ ~irq_source

TypeOK ==
    /\ running \in Timer \cup {Null}
    /\ now \in Time /\ ccompare \in Time /\ next_wake \in Time
    /\ next \in [Timer -> Timer \cup {Null}]
    /\ waketime \in [Timer -> Time]
    /\ timer_list \in Timer /\ last_insert \in Timer
    /\ shutdown_status \in {0, 1}
    /\ pending \in BOOLEAN /\ irq_source \in BOOLEAN
    /\ isr \in {"off", "dispatch", "check"}
    /\ armed \subseteq User
    /\ shutdowns \in 0..MaxShutdowns

(* No timer is lost and none is left behind: whatever was added, deleted,   *)
(* rescheduled through the hint or reset, the list holds exactly the armed  *)
(* timers, the periodic timer and, last, the sentinel, so that no walk      *)
(* meets a null pointer.                                                    *)
ListComplete ==
    /\ OnList \ {deleted} = armed \cup {periodic, sentinel}
    /\ \A t \in OnList : next[t] = Null <=> t = sentinel
    /\ deleted \in OnList => timer_list = deleted

(* The list is in the order of waketimes across the wrap of the clock, and  *)
(* the sentinel, half a turn after the periodic timer, is after all.        *)
ListSorted ==
    \A t \in OnList \ {sentinel} :
        IF next[t] = sentinel
        THEN timer_is_before(waketime[t], waketime[sentinel])
        ELSE ~timer_is_before(waketime[next[t]], waketime[t])

(* The hint of the dispatch always names a node of the list: an insertion   *)
(* that starts from it cannot be lost, and finds its place.                 *)
HintListed == last_insert \in OnList

(* The list is whole, in order, and where the hint says it is.              *)
ListSound == TypeOK /\ ListComplete /\ ListSorted /\ HintListed

(* "any added timer must always have a waketime less than one of these two  *)
(* timers": an insertion never walks past the sentinel.                     *)
SentinelBounds ==
    \A w \in Time : \/ timer_is_before(w, waketime[periodic])
                    \/ timer_is_before(w, waketime[sentinel])

(* sched_timer_dispatch runs the head without looking at the clock, and the *)
(* compare register may hold the time of a timer since deleted or a kick:   *)
(* still no user callback runs before its waketime.                         *)
NeverEarly ==
    [][\A t \in User : isr = "dispatch" /\ isr' # isr /\ timer_list = t
           => ~timer_is_before(now, waketime[t])]_vars

(* Every timer added runs, unless it is deleted or the list is reset.       *)
EveryTimerRuns ==
    \A t \in User : (t \in armed) ~> (running = t \/ t \notin armed)

(* "there is always a timer not far in the future": the periodic timer goes *)
(* on for ever, through shutdowns too.                                      *)
PeriodicGoesOn == []<>(running = periodic)
=============================================================================
