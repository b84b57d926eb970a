------------------------------- MODULE MCSched -------------------------------
(* Instances of Sched on a clock of few ticks.                               *)
EXTENDS Sched

(* Safety runs identify states that differ only by the origin of the clock  *)
(* or by the fields of timers that are not on the list, which no step reads *)
(* before it writes them.                                                   *)
Relative ==
    << [t \in OnList |-> <<next[t], Diff(waketime[t], now)>>],
       timer_list, last_insert, shutdown_status,
       Diff(ccompare, now), pending, irq_source, isr, running,
       IF isr = "check" THEN Diff(next_wake, now) ELSE 0, armed, shutdowns >>

(* Once dead, the timer interrupt never runs again: the run stops there.    *)
Alive == ~Dead
=============================================================================
