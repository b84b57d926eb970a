-------------------------- MODULE BmcuFakeRefines ---------------------------
(***************************************************************************)
(* The driver implements BmcuShim as long as no timer interrupt polls: a   *)
(* DONE is in transit from the moment its line feed is in the FIFO until   *)
(* bmcu_fake_finish_rx_line has acted on it.                               *)
(***************************************************************************)
EXTENDS BmcuFake

(* What the assembler does with one byte, and how many DONE lines it saw.   *)
Assemble(s, b) ==
    CASE b = CR -> s
      [] b = LF -> [line |-> [s.line EXCEPT ![s.len] = NUL], len |-> 0,
                    dones |-> s.dones
                        + IF IsDoneLine([s.line EXCEPT ![s.len] = NUL])
                          THEN 1 ELSE 0]
      [] OTHER -> IF HasRoom(s.len)
                  THEN [s EXCEPT !.line[s.len] = b, !.len = @ + 1]
                  ELSE [s EXCEPT !.len = 0]

AssembleAll(s, bytes) ==
    LET after[i \in 0..Len(bytes)] ==
            IF i = 0 THEN s ELSE Assemble(after[i - 1], bytes[i])
    IN after[Len(bytes)]

(* The length of the line as the task knows it.                             *)
Held ==
    CASE pc["task"] = "finish" -> 0
      [] pc["task"] \in {"store", "index"} /\ ~Unindexed("task") -> reg["task"]
      [] OTHER -> rx_len

(* The DONE lines the task will find in the bytes it has not processed.     *)
InTransit ==
    LET start == [line |-> rx_line, len |-> Held,
                  dones |-> IF matched["task"] THEN 1 ELSE 0]
    IN AssembleAll(start, data["task"] \o fifo).dones

InFlight(c) == IF pc[c] = "send" THEN <<request[c]>> ELSE <<>>

Shim == INSTANCE BmcuShim WITH
    pins <- [low |-> channel_low, high |-> channel_high, mode |-> channel_mode],
    active <- action_active,
    sent <- sent \o InFlight("task") \o InFlight("irq"),
    replies <- InTransit

(* Every step of the driver is a step of the shim or changes nothing the    *)
(* shim shows, and a DONE received is acted upon: pins latch, a request     *)
(* carries the pins of its start, a DONE is neither invented nor lost (but  *)
(* for one cut in two by a start), whatever the task and the interrupts     *)
(* that write the pins interleave.                                          *)
ImplementsShim == Shim!Spec

(* The part of it that speaks of single steps.                              *)
ShimSteps == Shim!Init /\ [][Shim!Next]_Shim!vars
=============================================================================
