------------------------------ MODULE BmcuShim ------------------------------
(***************************************************************************)
(* What the driver of src/esp32/bmcu_fake.c promises to the printer and to *)
(* the external adapter, with the line assembler and its interrupts left   *)
(* out.  Pins latch; a trigger starts an action if none is active and sends*)
(* one request built from the pins as they are then; a DONE received ends  *)
(* the action, whichever action it answers.                                *)
(***************************************************************************)
EXTENDS Integers, Sequences

VARIABLES
    pins,     \* the three latched output pins
    active,   \* action_active
    sent,     \* the requests sent to the adapter, in order
    replies   \* DONE lines received whose effect is still to come

vars == <<pins, active, sent, replies>>

Pin == {"low", "high", "mode"}

Command(p) ==
    [command |-> IF p.mode = 1 THEN "OUTPUT" ELSE "INPUT",
     channel |-> p.low + 2 * p.high]

Init ==
    /\ pins = [p \in Pin |-> 0]
    /\ active = 0
    /\ sent = <<>>
    /\ replies = 0

SetPin(p, bit) ==
    /\ pins' = [pins EXCEPT ![p] = bit]
    /\ UNCHANGED <<active, sent, replies>>

(* A trigger while active is ignored (a stuttering step).  The start drops  *)
(* the part of a line already assembled: the head of a DONE, or what stood  *)
(* before one on its line.                                                  *)
Trigger ==
    /\ active = 0
    /\ active' = 1
    /\ sent' = Append(sent, Command(pins))
    /\ replies' \in {replies - 1, replies, replies + 1} \cap Nat
    /\ UNCHANGED pins

Arrive ==
    /\ replies' = replies + 1
    /\ UNCHANGED <<pins, active, sent>>

Complete ==
    /\ replies > 0
    /\ replies' = replies - 1
    /\ active' = 0
    /\ UNCHANGED <<pins, sent>>

Next ==
    \/ \E p \in Pin, bit \in {0, 1} : SetPin(p, bit)
    \/ Trigger \/ Arrive \/ Complete

Spec == Init /\ [][Next]_vars /\ WF_vars(Complete)
=============================================================================
