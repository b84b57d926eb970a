-------------------------------- MODULE Board ---------------------------------
(***************************************************************************)
(* What the modules of the devices share: the clock, the shutdown, and the *)
(* place of the task loop in a command or a task function.                 *)
(*                                                                         *)
(* As in Homing, a timer callback is one step, a command or task function  *)
(* is one step for each section that an interrupt cannot divide, and the   *)
(* callbacks run in the order of their waketimes, which Sched is about.    *)
(* Times do not wrap.                                                      *)
(***************************************************************************)
EXTENDS Integers, Sequences, FiniteSets

CONSTANTS
    Off,      \* the waketime of a timer that is not on the list
    MaxTime,  \* bound: the clock stops here
    MaxLate,  \* bound: how late the timer interrupt may be
    MaxCommands \* bound: the commands the host sends

ASSUME BoardAssumption ==
    Off \notin Int /\ MaxTime \in Nat /\ MaxLate \in Nat /\ MaxCommands \in Nat

VARIABLES
    now,      \* timer_read_time
    shutdown, \* sched_is_shutdown
    task,     \* where the task loop is in a command or a task function
    wake,     \* the task_wake of the device's task function
    commands  \* what MaxCommands counts

Idle == [at |-> "idle"]

BoardInit ==
    now = 0 /\ shutdown = FALSE /\ task = Idle /\ wake = FALSE /\ commands = 0

(* The first timer of those with the waketimes W runs, once it is time.     *)
Runs(w, W) == w # Off /\ w <= now /\ \A v \in W : v # Off => w <= v

(* Time goes on, unless the interrupt for one of W would be too late.       *)
Tick(W) ==
    /\ now < MaxTime
    /\ \A v \in W : v # Off => now - v < MaxLate
    /\ now' = now + 1

(* While no timer is on the list, the time means nothing to most devices.   *)
Scheduled(W) == \E v \in W : v # Off

(* sched_add_timer: a time that has passed shuts down when no other timer,  *)
(* of the device or of another, comes before it.                            *)
MayBeTooClose(w, W) == w < now /\ \A v \in W : v # Off => w < v

(* A command runs, in its first step; outside shutdown, but for the few     *)
(* with HF_IN_SHUTDOWN.                                                     *)
AnyCommand == task = Idle /\ commands < MaxCommands /\ commands' = commands + 1
Command == AnyCommand /\ ~shutdown

(* A task function that begins with sched_check_wake.                       *)
Woken == task = Idle /\ wake /\ wake' = FALSE

(* clear_shutdown                                                           *)
ClearShutdown == AnyCommand /\ shutdown /\ shutdown' = FALSE
===============================================================================
