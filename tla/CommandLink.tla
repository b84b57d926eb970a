----------------------------- MODULE CommandLink -----------------------------
(***************************************************************************)
(* What the serial link promises to the host: the messages it gives are run*)
(* by the firmware once each and in order, the host learns of a message    *)
(* only once it has been run, and learns of every one in the end.          *)
(***************************************************************************)
EXTENDS Integers, Sequences

VARIABLES
    given,  \* how many messages the host has given
    ran,    \* the messages whose commands the firmware has run, in order
    known   \* how many the host knows to have been run

vars == <<given, ran, known>>

Init == given = 0 /\ ran = <<>> /\ known = 0

Give == given' = given + 1 /\ UNCHANGED <<ran, known>>

Run ==
    /\ Len(ran) < given
    /\ ran' = Append(ran, Len(ran) + 1)
    /\ UNCHANGED <<given, known>>

(* An acknowledgement covers every message before it.                       *)
Learn ==
    /\ known < Len(ran)
    /\ known' \in (known + 1)..Len(ran)
    /\ UNCHANGED <<given, ran>>

Next == Give \/ Run \/ Learn

Spec == Init /\ [][Next]_vars /\ WF_vars(Run) /\ WF_vars(Learn)
=============================================================================
