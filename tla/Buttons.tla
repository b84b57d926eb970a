-------------------------------- MODULE Buttons -------------------------------
(***************************************************************************)
(* The buttons of src/buttons.c with the host that reads them.             *)
(*                                                                         *)
(* buttons_event runs every rest_ticks; a change seen in two samples is    *)
(* stored as a report, which is sent until the host has acknowledged it.   *)
(* A response may be dropped (no room to send, an error on the wire); what *)
(* the host sends arrives, in order, at some time (CommandLink).  The host *)
(* is klippy: it counts all reports it took, of which the firmware knows   *)
(* the number modulo 256, and acknowledges the new ones of each message.   *)
(***************************************************************************)
EXTENDS Board

CONSTANTS
    Button,      \* the buttons of one oid
    REPORTS,     \* sizeof(reports), 8
    COUNTS,      \* the values of ack_count, 256
    Retransmit,  \* the retransmit_counts the host sends; from BF_NO_RETRANSMIT,
                 \* 128, on they shut down
    MaxStored,   \* bound: the reports stored
    MaxInFlight  \* bound: the responses on their way, when no more get through

ASSUME ButtonsAssumption ==
    /\ REPORTS \in Nat \ {0} /\ COUNTS \in Nat /\ 2 * REPORTS <= COUNTS
    /\ Retransmit \subseteq 0 .. 127 /\ MaxStored \in Nat /\ MaxInFlight \in Nat

VARIABLES
    buttons,  \* struct buttons
    messages, \* the buttons_state responses on their way
    acks,     \* the buttons_ack commands on their way
    taken,    \* the reports the host took
    stored    \* the reports ever stored
buttonVars == <<buttons, messages, acks, taken, stored>>

(* BF_PENDING and BF_ACKED; other values of retransmit_state count samples. *)
PENDING == 255
ACKED == 254

ButtonsInit ==
    /\ buttons = [polled |-> FALSE, pressed |-> {}, last |-> {}, reports |-> <<>>,
                  ack_count |-> 0, state |-> 0, retransmit |-> 0]
    /\ messages = <<>> /\ acks = <<>> /\ taken = <<>> /\ stored = <<>>

ButtonsQuery(retransmit, invert) ==
    /\ ~buttons.polled
    /\ buttons' = [polled |-> TRUE, pressed |-> invert, last |-> invert,
                   reports |-> <<>>, ack_count |-> 0, state |-> ACKED,
                   retransmit |-> retransmit]
    /\ UNCHANGED <<now, shutdown, task, wake, messages, acks, taken, stored>>

(* buttons_event at the pins `status`.                                      *)
Differ(s, t) == (s \ t) \cup (t \ s)
Store(b) ==
    IF Len(b.reports) < REPORTS
    THEN [b EXCEPT !.reports = Append(@, b.pressed), !.state = PENDING] ELSE b
(* Mutant: a retransmission is not passed on to the task.                   *)
TimesOutSilently(b) == FALSE
TimesOut(b) == b.state = 0
ButtonsEvent(status) ==
    LET b == buttons
        stable == Button \ Differ(status, b.last)
        changes == Differ(status, b.pressed) \cap stable # {}
        c == IF changes
             THEN Store([b EXCEPT !.pressed = (@ \ stable) \cup (status \cap stable)])
             ELSE b
    IN /\ b.polled
       /\ buttons' = [c EXCEPT !.last = status,
                               !.state = IF c.state \in {PENDING, ACKED} THEN @
                                         ELSE IF @ = 0 THEN PENDING ELSE @ - 1]
       /\ stored' = IF c.reports = b.reports THEN stored
                    ELSE Append(stored, c.pressed)
       /\ wake' = (wake \/ c.reports # b.reports \/ TimesOut(c))
       /\ UNCHANGED <<now, shutdown, task, messages, acks, taken>>

(* buttons_ack; ack_count is the task loop's alone.                         *)
Acknowledged(b, count) ==
    IF count >= Len(b.reports)
    THEN [b EXCEPT !.ack_count = (@ + count) % COUNTS,
                   !.reports = <<>>, !.state = ACKED]
    ELSE [b EXCEPT !.ack_count = (@ + count) % COUNTS,
                   !.reports = SubSeq(@, count + 1, Len(@))]
ButtonsAck ==
    /\ task = Idle /\ acks # <<>>
    /\ buttons' = Acknowledged(buttons, Head(acks))
    /\ acks' = Tail(acks)
    /\ UNCHANGED <<now, shutdown, task, wake, messages, taken, stored>>

(* buttons_task: the test, the masked section, the response.                *)
ButtonsTask ==
    /\ Woken
    /\ task' = [at |-> "test"]
    /\ UNCHANGED <<now, shutdown, buttonVars>>

ButtonsTest ==
    /\ task.at = "test"
    /\ task' = IF buttons.state # PENDING THEN Idle ELSE [at |-> "generate"]
    /\ UNCHANGED <<now, shutdown, wake, buttonVars>>

ButtonsGenerate ==
    LET empty == buttons.reports = <<>>
    IN /\ task.at = "generate"
       /\ buttons' = [buttons EXCEPT
              !.state = IF empty THEN @ ELSE buttons.retransmit]
       /\ task' = IF empty THEN Idle
                  ELSE [at |-> "send", number |-> Len(buttons.reports)]
       /\ UNCHANGED <<now, shutdown, wake, messages, acks, taken, stored>>

ButtonsSend ==
    /\ task.at = "send"
    /\ task' = Idle
    /\ \/ UNCHANGED messages
       \/ /\ Len(messages) < MaxInFlight
          /\ messages' = Append(messages,
              [ack_count |-> buttons.ack_count,
               state |-> SubSeq(buttons.reports, 1, task.number)])
    /\ UNCHANGED <<now, shutdown, wake, buttons, acks, taken, stored>>

(* The host: the number of a message, of eight bits, is taken for the       *)
(* nearest to that of the reports it has.                                   *)
Nearest(n, count) ==
    LET d == (count - n) % COUNTS
    IN n + (IF d >= COUNTS \div 2 THEN d - COUNTS ELSE d)
HostTakes ==
    LET m == Head(messages)
        new == Nearest(Len(taken), m.ack_count) + Len(m.state) - Len(taken)
    IN /\ messages # <<>>
       /\ messages' = Tail(messages)
       /\ \/ new <= 0 /\ UNCHANGED <<acks, taken>>
          \/ /\ new > 0
             /\ taken' = taken \o SubSeq(m.state, Len(m.state) - new + 1, Len(m.state))
             /\ acks' = Append(acks, new)
       /\ UNCHANGED <<now, shutdown, task, wake, buttons, stored>>

ButtonsNext ==
    /\ UNCHANGED commands
    /\ \/ task = Idle /\ \E r \in Retransmit, i \in SUBSET Button : ButtonsQuery(r, i)
       \/ \E status \in SUBSET Button : Len(stored) < MaxStored /\ ButtonsEvent(status)
       \/ ButtonsAck \/ ButtonsTask \/ ButtonsTest \/ ButtonsGenerate \/ ButtonsSend
       \/ HostTakes

ButtonsAll == <<now, shutdown, task, wake, commands, buttonVars>>
ButtonsSpec == BoardInit /\ ButtonsInit /\ [][ButtonsNext]_ButtonsAll

-----------------------------------------------------------------------------
(* Whatever responses are dropped and however late acknowledgements are,    *)
(* the host takes each stored report once, in the order in which they were  *)
(* stored; and a report not acknowledged is never left behind: the task is  *)
(* going to send it, or its retransmission is being counted.                *)
ButtonsTold ==
    /\ Len(taken) <= Len(stored) /\ taken = SubSeq(stored, 1, Len(taken))
    /\ buttons.reports # <<>> =>
           \/ buttons.state \notin {PENDING, ACKED}
           \/ buttons.state = PENDING /\ (wake \/ task.at \in {"test", "generate"})
===============================================================================
