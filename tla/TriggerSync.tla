----------------------------- MODULE TriggerSync -----------------------------
(***************************************************************************)
(* What homing relies on: when a trigger fires, every motor that follows it*)
(* stops in that very step, the trigger keeps the reason that fired it     *)
(* first, and no motor that was stopped moves until the host releases it.  *)
(***************************************************************************)
EXTENDS Integers

CONSTANTS Stepper, Trsync, Reason

VARIABLES
    armed,     \* the triggers that can fire
    reason,    \* what fired each of the others, 0 if nothing did
    following, \* the motors that stop when a trigger fires
    halted,    \* the motors that were stopped and not released
    motor      \* how far each has turned

vars == <<armed, reason, following, halted, motor>>

Init ==
    /\ armed = {}
    /\ reason = [t \in Trsync |-> 0]
    /\ following = [t \in Trsync |-> {}]
    /\ halted = {}
    /\ motor = [s \in Stepper |-> 0]

Start(t) ==
    /\ armed' = armed \cup {t}
    /\ reason' = [reason EXCEPT ![t] = 0]
    /\ following' = [following EXCEPT ![t] = {}]
    /\ UNCHANGED <<halted, motor>>

Follow(t, s) ==
    /\ following' = [following EXCEPT ![t] = @ \cup {s}]
    /\ UNCHANGED <<armed, reason, halted, motor>>

Fire(t, r) ==
    /\ t \in armed
    /\ armed' = armed \ {t}
    /\ reason' = [reason EXCEPT ![t] = r]
    /\ following' = [following EXCEPT ![t] = {}]
    /\ halted' = halted \cup following[t]
    /\ UNCHANGED motor

Turn(s) ==
    /\ s \notin halted
    /\ \E d \in {-1, 1} : motor' = [motor EXCEPT ![s] = @ + d]
Step(s) == Turn(s) /\ UNCHANGED <<armed, reason, following, halted>>

Release(s) ==
    /\ halted' = halted \ {s}
    /\ UNCHANGED <<armed, reason, following, motor>>

(* A shutdown stops everything; a last step of one motor may be what caused *)
(* it.                                                                      *)
StopAll ==
    /\ armed' = {}
    /\ reason' = [t \in Trsync |-> 0]
    /\ following' = [t \in Trsync |-> {}]
    /\ halted' = Stepper
    /\ UNCHANGED motor \/ \E s \in Stepper : Turn(s)

Next ==
    \/ \E t \in Trsync : Start(t) \/ \E r \in Reason : Fire(t, r)
    \/ \E t \in Trsync, s \in Stepper : Follow(t, s)
    \/ \E s \in Stepper : Step(s) \/ Release(s)
    \/ StopAll

Spec == Init /\ [][Next]_vars
=============================================================================
