--------------------------- MODULE BmcuFakeProofs ---------------------------
(***************************************************************************)
(* Safety of the fake-pin driver for every line, buffer size and number of *)
(* lines: types and exclusion with or without timer interrupts that poll,  *)
(* then, while only the task polls, that a completion needs a DONE of the  *)
(* adapter, and that the driver is an implementation of BmcuShim.          *)
(***************************************************************************)
EXTENDS BmcuFakeRefines, SequenceTheorems, FiniteSetTheorems,
        NaturalsInduction, TLAPS

(* What makes OneOutstanding inductive: between the test of action_active   *)
(* in bmcu_fake_write and the assignment in bmcu_fake_start_action no other *)
(* context starts an action.                                                *)
Starting(c) == pc[c] \in {"start", "send"}
Exclusion ==
    /\ ~(Starting("task") /\ Starting("irq"))
    /\ toggling["irq"] = "action_trigger" => ~Starting("task")
    /\ toggling["task"] = NoPin
    /\ pc["irq"] \in {"idle", "start", "send"} => toggling["irq"] = NoPin
    /\ \A c \in Context : pc[c] = "start" => action_active = 0
    /\ pc["task"] = "boot" => pc["irq"] = "idle"

(* What makes LineFits inductive: how long the line gets, and what each     *)
(* context may still find of its length after the bounds check.             *)
LenLimit == IF Reloads /\ IrqReads THEN RX_LINE_MAX ELSE RX_LINE_MAX - 1
LineShared ==
    /\ rx_len <= LenLimit
    /\ \A c \in Context : reg[c] <= LenLimit
    /\ Unindexed("task") => rx_len < LenLimit
    /\ pc["task"] = "index" => Reloads /\ reg["task"] < LenLimit
    /\ pc["irq"] = "store" => reg["irq"] = rx_len
    /\ pc["irq"] = "index" => HasRoom(reg["irq"])
    /\ pc["irq"] \notin {"idle", "start", "send"} => IrqReads

IInv == TypeOK /\ LineShared /\ Exclusion /\ OneOutstanding

LEMMA Limit ==
    /\ LenLimit \in Nat \ {0} /\ RX_LINE_MAX \in Nat \ {0, 1}
    /\ LenLimit \in {RX_LINE_MAX - 1, RX_LINE_MAX}
    /\ Reloads /\ IrqReads => LenLimit = RX_LINE_MAX
    /\ ~IrqReads => LenLimit = RX_LINE_MAX - 1
<1>1. Len(DONE) \in Nat \ {0}
  BY BytesAssumption, LinesAssumption
<1>2. RX_LINE_MAX \in Nat /\ RX_LINE_MAX > 1
  BY <1>1, SizesAssumption
<1> QED BY <1>2, SizesAssumption DEF LenLimit

(* The initial state satisfies the inductive invariant.                     *)
LEMMA InitIInv == Init => IInv
<1> SUFFICES ASSUME Init PROVE IInv
    OBVIOUS
<1> USE BytesAssumption, SizesAssumption DEF Init
<1>0. 0 \in 0..(RX_LINE_MAX - 1)
  <2>1. Len(DONE) \in Nat
    OBVIOUS
  <2> QED BY <2>1
<1>1. TypeOK
  <2>1. PinTypes
    BY DEF PinTypes, Bit
  <2>2. AssemblerTypes
    BY <1>0 DEF AssemblerTypes
  <2>3. ControlTypes
    BY DEF ControlTypes, Label, Context, NoPin
  <2>4. LocalTypes
    BY DEF LocalTypes, Bit, Request, NoRequest
  <2>5. StreamTypes
    BY DEF StreamTypes, Context
  <2>6. GhostTypes
    BY DEF GhostTypes
  <2> QED BY <2>1, <2>2, <2>3, <2>4, <2>5, <2>6 DEF TypeOK
<1>2. Exclusion /\ LineShared
  BY Limit DEF Exclusion, Starting, Context, NoPin, LineShared, Unindexed
<1>3. OneOutstanding
  BY DEF OneOutstanding, Sending, Context
<1> QED BY <1>1, <1>2, <1>3 DEF IInv

(* The two parts of a sequence cut after its k-th element.                  *)
LEMMA Cut ==
    ASSUME NEW S, NEW s \in Seq(S), NEW k \in Nat, k <= Len(s)
    PROVE  SubSeq(s, 1, k) \in Seq(S) /\ SubSeq(s, k + 1, Len(s)) \in Seq(S)
<1>1. \A i \in 1..Len(s) : s[i] \in S
  OBVIOUS
<1>2. Len(s) \in Nat
  OBVIOUS
<1>3. SubSeq(s, 1, k) \in Seq(S)
  <2>1. \A i \in 1..k : s[i] \in S
    BY <1>1, <1>2
  <2> QED BY <2>1, SubSeqProperties
<1>4. SubSeq(s, k + 1, Len(s)) \in Seq(S)
  <2>1. \A i \in (k + 1)..Len(s) : s[i] \in S
    BY <1>1, <1>2
  <2>2. k + 1 \in Int /\ Len(s) \in Int
    BY <1>2
  <2> QED BY <2>1, <2>2, SubSeqProperties
<1> QED BY <1>3, <1>4

(* A sequence followed by n more elements.                                  *)
LEMMA Followed ==
    ASSUME NEW S, NEW s \in Seq(S), NEW n \in Nat, NEW f \in [1..n -> S]
    PROVE  s \o f \in Seq(S)
<1>1. f \in Seq(S)
  OBVIOUS
<1> QED BY <1>1

(* ReadFifo moves bytes, or junk, from the FIFO to data.                    *)
LEMMA ReadFifoTypes ==
    ASSUME TypeOK, NEW c \in Context, ReadFifo(c)
    PROVE  data' \in [Context -> Seq(Byte)] /\ fifo' \in Seq(Byte)
<1>1. /\ take[c] \in Nat /\ fifo \in Seq(Byte) /\ Len(fifo) \in Nat
      /\ data \in [Context -> Seq(Byte)]
  BY DEF TypeOK, LocalTypes, StreamTypes
<1>2. CASE take[c] <= Len(fifo)
  <2>1. /\ SubSeq(fifo, 1, take[c]) \in Seq(Byte)
        /\ SubSeq(fifo, take[c] + 1, Len(fifo)) \in Seq(Byte)
    BY <1>1, <1>2, Cut
  <2>2. /\ data' = [data EXCEPT ![c] = SubSeq(fifo, 1, take[c])]
        /\ fifo' = SubSeq(fifo, take[c] + 1, Len(fifo))
    BY <1>2 DEF ReadFifo
  <2> QED BY <1>1, <2>1, <2>2
<1>3. CASE ~(take[c] <= Len(fifo))
  <2>1. PICK junk \in [1..(take[c] - Len(fifo)) -> Byte] :
            data' = [data EXCEPT ![c] = fifo \o junk]
    BY <1>3 DEF ReadFifo
  <2>2. take[c] - Len(fifo) \in Nat
    BY <1>1, <1>3
  <2>3. fifo \o junk \in Seq(Byte)
    BY <1>1, <2>1, <2>2, Followed
  <2>4. fifo' = <<>>
    BY <1>3 DEF ReadFifo
  <2> QED BY <1>1, <2>1, <2>3, <2>4
<1> QED BY <1>2, <1>3

LEMMA Changed ==
    ASSUME NEW D, NEW S, NEW f \in [D -> S], NEW k, NEW v \in S
    PROVE  [f EXCEPT ![k] = v] \in [D -> S]
OBVIOUS

(* StoreByte changes a byte of the line, or drops the line.                 *)
LEMMA StoreByteTypes ==
    ASSUME TypeOK, NEW c \in Context, StoreByte(c)
    PROVE  AssemblerTypes' /\ data' \in [Context -> Seq(Byte)]
<1>1. /\ reg \in [Context -> Nat]
      /\ rx_line \in [0..(RX_LINE_MAX - 1) -> Byte]
      /\ data \in [Context -> Seq(Byte)] /\ data[c] # <<>>
      /\ data' = [data EXCEPT ![c] = Tail(data[c])]
      /\ reg' = [reg EXCEPT ![c] = 0]
  BY DEF TypeOK, AssemblerTypes, StreamTypes, StoreByte, At
<1>2. Head(data[c]) \in Byte /\ Tail(data[c]) \in Seq(Byte)
  <2>1. data[c] \in Seq(Byte)
    BY <1>1
  <2> QED BY <1>1, <2>1, HeadTailProperties
<1>3. \/ /\ rx_line' = [rx_line EXCEPT ![reg[c]] = Head(data[c])]
         /\ rx_len' = reg[c] + 1
      \/ rx_line' = rx_line /\ rx_len' = 0
  BY DEF StoreByte
<1>4. rx_line' \in [0..(RX_LINE_MAX - 1) -> Byte] /\ rx_len' \in Nat
  <2>1. reg[c] \in Nat
    BY <1>1
  <2>2. rx_len' \in Nat
    BY <1>3, <2>1
  <2>3. [rx_line EXCEPT ![reg[c]] = Head(data[c])] \in [0..(RX_LINE_MAX - 1) -> Byte]
    BY <1>1, <1>2, Changed
  <2> QED BY <1>1, <1>3, <2>2, <2>3
<1> QED BY <1>1, <1>2, <1>4 DEF AssemblerTypes

(* Every step of the driver and of the adapter keeps the types.             *)
LEMMA NextTypeOK == TypeOK /\ Exclusion /\ [Next]_vars => TypeOK'
<1> SUFFICES ASSUME TypeOK, Exclusion, [Next]_vars PROVE TypeOK'
    OBVIOUS
<1> USE BytesAssumption, SizesAssumption, PinsAssumption
    DEF TypeOK, PinTypes, AssemblerTypes, ControlTypes, LocalTypes, StreamTypes, GhostTypes, Context, Bit, Label
<1>1. CASE InitUart
  BY <1>1 DEF InitUart, At, Goto, pins, assembler, locals, adapter, ghosts
<1>2. CASE BeginTaskPoll
  BY <1>2 DEF BeginTaskPoll, BeginPoll, At, Goto, pins, assembler, adapter, ghosts, NoPin
<1>3. CASE BeginIrqPoll
  BY <1>3 DEF BeginIrqPoll, BeginPoll, At, Goto, pins, assembler, adapter, ghosts
<1>4. ASSUME NEW c \in Context, BeginWrite(c) PROVE TypeOK'
  BY <1>4 DEF BeginWrite, Write, WritePin, At, Goto, assembler, locals, adapter, ghosts
<1>5. ASSUME NEW c \in Context, Continue(c) PROVE TypeOK'
  <2>1. CASE LedTask(c)
    BY <2>1 DEF LedTask, At, Goto, pins, assembler, locals, adapter, ghosts
  <2>2. CASE FifoLen(c)
    BY <2>2 DEF FifoLen, At, Goto, pins, assembler, adapter, ghosts
  <2>3. CASE ReadFifo(c)
    <3>1. data' \in [Context -> Seq(Byte)] /\ fifo' \in Seq(Byte)
      BY <2>3, ReadFifoTypes
    <3>2. /\ pc[c] = "read" /\ pc' = [pc EXCEPT ![c] = "byte"]
          /\ take' = [take EXCEPT ![c] = 0]
          /\ UNCHANGED <<pins, action_active, uart_initialized, assembler,
                         led_state, led_saw, reg, matched, toggling, request,
                         sent, adapter, ghosts>>
      BY <2>3 DEF ReadFifo, At, Goto
    <3>3. \A d \in Context : pc'[d] \in {"store", "index"} => data'[d] # <<>>
      <4>1. \A d \in Context : d # c => data'[d] = data[d]
        BY <2>3 DEF ReadFifo
      <4> QED BY <3>2, <4>1
    <3> QED BY <3>1, <3>2, <3>3 DEF pins, assembler, adapter, ghosts
  <2>4. CASE EndData(c)
    BY <2>4, SMTT(20) DEF EndData, At, Goto, pins, assembler, locals, adapter, ghosts
  <2>5. CASE SkipCR(c)
    BY <2>5, SMTT(20) DEF SkipCR, At, pins, assembler, adapter, ghosts
  <2>6. CASE CompareLine(c)
    <3> USE <2>6 DEF CompareLine, IsDoneLine, At, Goto, pins, adapter, ghosts
    <3>1. PinTypes' /\ GhostTypes'
      OBVIOUS
    <3>2. AssemblerTypes'
      OBVIOUS
    <3>3. ControlTypes'
      OBVIOUS
    <3>4. LocalTypes'
      OBVIOUS
    <3>5. StreamTypes'
      BY SMTT(20)
    <3> QED BY <3>1, <3>2, <3>3, <3>4, <3>5
  <2>7. CASE FinishLine(c)
    <3> USE <2>7 DEF FinishLine, At, Goto, pins, adapter
    <3>1. PinTypes' /\ GhostTypes'
      BY SMTT(20)
    <3>2. AssemblerTypes'
      OBVIOUS
    <3>3. ControlTypes'
      OBVIOUS
    <3>4. LocalTypes'
      OBVIOUS
    <3>5. StreamTypes'
      OBVIOUS
    <3> QED BY <3>1, <3>2, <3>3, <3>4, <3>5
  <2>8. CASE LoadLen(c)
    BY <2>8 DEF LoadLen, At, Goto, pins, assembler, adapter, ghosts
  <2>13. CASE ReloadLen(c)
    BY <2>13 DEF ReloadLen, At, Goto, pins, assembler, adapter, ghosts
  <2>9. CASE StoreByte(c)
    <3>1. AssemblerTypes' /\ data' \in [Context -> Seq(Byte)]
      BY <2>9, StoreByteTypes
    <3>2. /\ pc' = [pc EXCEPT ![c] = "byte"]
          /\ data' = [data EXCEPT ![c] = Tail(data[c])]
          /\ UNCHANGED <<pins, action_active, uart_initialized, led_state, led_saw,
                         take, matched, toggling, request, fifo, sent, adapter,
                         ghosts>>
      BY <2>9 DEF StoreByte, At, Goto
    <3>3. \A d \in Context : pc'[d] \in {"store", "index"} => data'[d] # <<>>
      BY <3>2
    <3> QED BY <3>1, <3>2, <3>3 DEF pins, adapter, ghosts
  <2>10. CASE EndPoll(c)
    <3>0. ReadPin(toggling[c]) \in Bit
      BY DEF ReadPin
    <3> USE <2>10, <3>0 DEF EndPoll, WritePin, At, Goto, pins, assembler, adapter, ghosts, NoPin
    <3>1. PinTypes'
      BY SMTT(20)
    <3>2. AssemblerTypes'
      OBVIOUS
    <3>3. ControlTypes'
      BY SMTT(20)
    <3>4. LocalTypes'
      OBVIOUS
    <3>5. StreamTypes'
      OBVIOUS
    <3>6. GhostTypes'
      OBVIOUS
    <3> QED BY <3>1, <3>2, <3>3, <3>4, <3>5, <3>6
  <2>11. CASE StartAction(c)
    <3>0. 0 \in 0..(RX_LINE_MAX - 1)
      OBVIOUS
    <3> USE <2>11, <3>0 DEF StartAction, Request, At, Goto, pins, adapter
    <3>1. PinTypes'
      OBVIOUS
    <3>2. AssemblerTypes'
      OBVIOUS
    <3>3. ControlTypes'
      OBVIOUS
    <3>4. LocalTypes'
      BY SMTT(20)
    <3>5. StreamTypes'
      OBVIOUS
    <3>6. GhostTypes'
      OBVIOUS
    <3> QED BY <3>1, <3>2, <3>3, <3>4, <3>5, <3>6
  <2>12. CASE SendRequest(c)
    <3> USE <2>12 DEF SendRequest, Request, NoRequest, At, Goto, pins, assembler, adapter, ghosts
    <3>1. PinTypes' /\ GhostTypes'
      OBVIOUS
    <3>2. AssemblerTypes'
      OBVIOUS
    <3>3. ControlTypes'
      OBVIOUS
    <3>4. LocalTypes'
      OBVIOUS
    <3>5. StreamTypes'
      OBVIOUS
    <3> QED BY <3>1, <3>2, <3>3, <3>4, <3>5
  <2> QED BY <1>5, <2>1, <2>2, <2>3, <2>4, <2>5, <2>6, <2>7, <2>8, <2>9, <2>10, <2>11, <2>12, <2>13
        DEF Continue
<1>6. CASE BeginLine
  <2>0. PICK l \in Lines :
            /\ l # <<>>
            /\ line' = IF Tail(l) = <<>> THEN <<>> ELSE l
            /\ doneLines' = doneLines + (IF IsDone(l) THEN 1 ELSE 0)
            /\ Receive(Head(l), Tail(l), l)
    BY <1>6 DEF BeginLine
  <2>1. l \in Seq(Byte) /\ Head(l) \in Byte /\ Tail(l) \in Seq(Byte) /\ <<>> \in Seq(Byte)
    BY <2>0
  <2>2. PinTypes' /\ AssemblerTypes' /\ ControlTypes' /\ LocalTypes'
    BY <2>0 DEF Receive, pins, assembler, locals
  <2>3. StreamTypes'
    <3>1. fifo' \in Seq(Byte)
      <4>1. Append(fifo, Head(l)) \in Seq(Byte)
        BY <2>1
      <4> QED BY <2>0, <4>1 DEF Receive
    <3>2. wire' \in Seq(Byte) /\ line' \in Seq(Byte)
      BY <2>0, <2>1 DEF Receive
    <3> QED BY <2>0, <3>1, <3>2 DEF Receive, locals
  <2>4. GhostTypes'
    <3>1. lines' \in Nat /\ doneLines' \in Nat /\ completions' \in Nat
      BY <1>6, <2>0 DEF BeginLine, Receive
    <3>2. clean' \in BOOLEAN /\ doneSeen' \in BOOLEAN
      BY <2>0 DEF Receive
    <3> QED BY <3>1, <3>2
  <2> QED BY <2>2, <2>3, <2>4
<1>7. CASE NextWireByte
  <2>0. wire # <<>> /\ Receive(Head(wire), Tail(wire), line)
    BY <1>7 DEF NextWireByte
  <2>1. Head(wire) \in Byte /\ Tail(wire) \in Seq(Byte) /\ <<>> \in Seq(Byte)
    BY <2>0
  <2>2. PinTypes' /\ AssemblerTypes' /\ ControlTypes' /\ LocalTypes'
    BY <2>0 DEF Receive, pins, assembler, locals
  <2>3. StreamTypes'
    <3>1. fifo' \in Seq(Byte)
      <4>1. Append(fifo, Head(wire)) \in Seq(Byte)
        BY <2>1
      <4> QED BY <2>0, <4>1 DEF Receive
    <3>2. wire' \in Seq(Byte) /\ line' \in Seq(Byte)
      BY <1>7, <2>0, <2>1 DEF NextWireByte, Receive
    <3> QED BY <2>0, <3>1, <3>2 DEF Receive, locals
  <2>4. GhostTypes'
    <3>1. lines' \in Nat /\ doneLines' \in Nat /\ completions' \in Nat
      BY <1>7, <2>0 DEF NextWireByte, Receive
    <3>2. clean' \in BOOLEAN /\ doneSeen' \in BOOLEAN
      BY <2>0 DEF Receive
    <3> QED BY <3>1, <3>2
  <2> QED BY <2>2, <2>3, <2>4
<1>8. CASE UNCHANGED vars
  BY <1>8 DEF vars, pins, assembler, locals, adapter, ghosts
<1> QED BY <1>1, <1>2, <1>3, <1>4, <1>5, <1>6, <1>7, <1>8 DEF Next

(* Every step keeps starts exclusive.                                       *)
LEMMA NextExclusion == TypeOK /\ Exclusion /\ [Next]_vars => Exclusion'
<1> SUFFICES ASSUME TypeOK, Exclusion, [Next]_vars PROVE Exclusion'
    OBVIOUS
<1>0. /\ pc \in [Context -> Label] /\ action_active \in Bit
      /\ toggling \in [Context -> OutputPins \cup {NoPin}]
  BY DEF TypeOK, PinTypes, ControlTypes
<1> USE <1>0 DEF Exclusion, Starting, Context, Bit, NoPin
<1>1. CASE InitUart
  BY <1>1 DEF InitUart, At, Goto, locals
<1>2. CASE BeginTaskPoll
  BY <1>2 DEF BeginTaskPoll, BeginPoll, At, Runs, Goto
<1>3. CASE BeginIrqPoll
  BY <1>3 DEF BeginIrqPoll, BeginPoll, TimerDeleted, At, Runs, Goto
<1>4. ASSUME NEW c \in Context, BeginWrite(c) PROVE Exclusion'
  <2>1. PICK p \in DrivenPins, bit \in Bit : Write(c, p, bit)
    BY <1>4 DEF BeginWrite
  <2>2. /\ pc[c] = "idle" /\ Runs(c) /\ pc["task"] # "boot" /\ TimerDeleted(c, p)
        /\ UNCHANGED <<toggling, action_active>>
    BY <2>1 DEF Write, At, locals
  <2>3. \/ pc' = [pc EXCEPT ![c] = "idle"]
        \/ /\ pc' = [pc EXCEPT ![c] = "start"]
           /\ action_active = 0 /\ p = "action_trigger"
    BY <2>1 DEF Write, WritePin, Goto
  <2>4. CASE c = "task"
    BY <2>2, <2>3, <2>4 DEF Runs
  <2>5. CASE c = "irq"
    BY <2>2, <2>3, <2>5 DEF TimerDeleted
  <2> QED BY <2>4, <2>5
<1>5. ASSUME NEW c \in Context, Continue(c) PROVE Exclusion'
  <2>1. CASE LedTask(c) \/ FifoLen(c) \/ ReadFifo(c) \/ EndData(c)
    BY <2>1 DEF LedTask, FifoLen, ReadFifo, EndData, At, Runs, Goto, locals
  <2>2. CASE \/ SkipCR(c) \/ CompareLine(c) \/ FinishLine(c)
             \/ LoadLen(c) \/ ReloadLen(c) \/ StoreByte(c)
    BY <2>2 DEF SkipCR, CompareLine, FinishLine, LoadLen, ReloadLen, StoreByte, At, Runs,
                Goto
  <2>3. CASE EndPoll(c)
    <3>1. /\ pc[c] = "fifo" /\ Runs(c) /\ action_active' = action_active
          /\ toggling' = [toggling EXCEPT ![c] = NoPin]
      BY <2>3 DEF EndPoll, At
    <3>2. \/ pc' = [pc EXCEPT ![c] = "idle"]
          \/ /\ pc' = [pc EXCEPT ![c] = "start"]
             /\ action_active = 0 /\ toggling[c] = "action_trigger"
      BY <2>3 DEF EndPoll, WritePin, Goto
    <3>3. CASE c = "task"
      BY <3>1, <3>2, <3>3 DEF Runs
    <3>4. CASE c = "irq"
      BY <3>1, <3>2, <3>4
    <3> QED BY <3>3, <3>4
  <2>4. CASE StartAction(c)
    BY <2>4 DEF StartAction, At, Runs, Goto
  <2>5. CASE SendRequest(c)
    BY <2>5 DEF SendRequest, At, Runs, Goto
  <2> QED BY <1>5, <2>1, <2>2, <2>3, <2>4, <2>5 DEF Continue
<1>6. CASE BeginLine \/ NextWireByte
  BY <1>6 DEF BeginLine, NextWireByte, Receive, locals
<1>7. CASE UNCHANGED vars
  BY <1>7 DEF vars, locals
<1> QED BY <1>1, <1>2, <1>3, <1>4, <1>5, <1>6, <1>7 DEF Next

(* Every step keeps the line in its buffer.                                 *)
LEMMA NextLineShared == TypeOK /\ LineShared /\ [Next]_vars => LineShared'
<1> SUFFICES ASSUME TypeOK, LineShared, [Next]_vars PROVE LineShared'
    OBVIOUS
<1>0. /\ pc \in [Context -> Label] /\ rx_len \in Nat /\ reg \in [Context -> Nat]
  BY DEF TypeOK, ControlTypes, AssemblerTypes
<1> DEFINE Same == UNCHANGED <<rx_len, reg>>
<1>1. ASSUME Same, NEW c \in Context, NEW l \in Label, pc' = [pc EXCEPT ![c] = l],
             l \notin {"store", "index"},
             c = "irq" => l \in {"idle", "start", "send"} \/ IrqReads
      PROVE  LineShared'
  BY <1>0, <1>1 DEF LineShared, Unindexed, Context
<1>2. ASSUME Same, UNCHANGED pc PROVE LineShared'
  BY <1>2 DEF LineShared, Unindexed
<1>3. CASE InitUart
  <2>1. "task" \in Context /\ "idle" \in Label
    BY DEF Context, Label
  <2> QED
    BY <1>1, <1>3, <2>1 DEF InitUart, Goto, assembler, locals
<1>4. ASSUME NEW c \in Context, NEW p, BeginPoll(c, p) PROVE LineShared'
  <2>1. "led" \in Label
    BY DEF Label
  <2> QED
    BY <1>1, <1>4, <2>1 DEF BeginPoll, Goto, assembler
<1>5. ASSUME NEW c \in Context, BeginWrite(c) PROVE LineShared'
  <2>1. PICK l \in {"idle", "start"} : Same /\ pc' = [pc EXCEPT ![c] = l]
    BY <1>5 DEF BeginWrite, Write, WritePin, Goto, assembler, locals
  <2>2. l \in Label
    BY DEF Label
  <2> QED
    BY <1>1, <2>1, <2>2
<1>6. ASSUME NEW c \in Context, Continue(c) PROVE LineShared'
  <2>0. c = "irq" /\ ~IrqReads => pc["irq"] \in {"idle", "start", "send"}
    BY DEF LineShared
  <2>00. {"fifo", "read", "byte", "finish", "idle", "start", "send"} \subseteq Label
    BY DEF Label
  <2>1. CASE LedTask(c) \/ FifoLen(c) \/ ReadFifo(c) \/ EndData(c) \/ CompareLine(c)
    <3>1. PICK l \in {"fifo", "read", "byte", "finish"} :
              /\ pc[c] \notin {"idle", "start", "send"} /\ pc' = [pc EXCEPT ![c] = l]
              /\ Same
      BY <2>1 DEF LedTask, FifoLen, ReadFifo, EndData, CompareLine, At, Goto, assembler,
                  locals
    <3> QED
      BY <1>1, <2>0, <2>00, <3>1
  <2>2. CASE SkipCR(c)
    BY <1>2, <2>2 DEF SkipCR, assembler
  <2>3. CASE FinishLine(c) \/ StartAction(c)
    <3>1. PICK l \in {"byte", "send"} :
              /\ pc' = [pc EXCEPT ![c] = l] /\ rx_len' = 0 /\ reg' = reg
              /\ pc[c] \in {"finish", "start"} /\ Runs(c)
              /\ pc[c] = "finish" \/ l = "send"
      BY <2>3 DEF FinishLine, StartAction, At, Goto
    <3> QED
      BY <1>0, <2>0, <3>1, Limit DEF LineShared, Unindexed, Context, Runs
  <2>4. CASE LoadLen(c)
    <3>1. /\ pc[c] = "byte" /\ Runs(c) /\ pc' = [pc EXCEPT ![c] = "store"]
          /\ reg' = [reg EXCEPT ![c] = rx_len] /\ rx_len' = rx_len
      BY <2>4 DEF LoadLen, At, Goto, assembler
    <3> QED
      BY <1>0, <2>0, <3>1, Limit DEF LineShared, Unindexed, HasRoom, Context, Runs
  <2>5. CASE ReloadLen(c)
    <3>1. /\ Unindexed(c) /\ Runs(c) /\ pc' = [pc EXCEPT ![c] = "index"]
          /\ reg' = [reg EXCEPT ![c] = rx_len] /\ rx_len' = rx_len
      BY <2>5 DEF ReloadLen, At, Goto, assembler
    <3> QED
      BY <1>0, <2>0, <3>1, Limit DEF LineShared, Unindexed, HasRoom, Context, Runs
  <2>6. CASE StoreByte(c)
    <3>1. /\ pc[c] \in {"store", "index"} /\ Runs(c) /\ ~Unindexed(c)
          /\ pc' = [pc EXCEPT ![c] = "byte"] /\ reg' = [reg EXCEPT ![c] = 0]
          /\ IF pc[c] = "index" \/ HasRoom(reg[c]) THEN rx_len' = reg[c] + 1
                                                   ELSE rx_len' = 0
      BY <2>6 DEF StoreByte, At, Goto, Unindexed
    <3>2. rx_len' <= LenLimit
      BY <1>0, <3>1, Limit DEF LineShared, Unindexed, HasRoom, Context
    <3>3. CASE c = "task"
      BY <1>0, <3>1, <3>2, <3>3, Limit DEF LineShared, Unindexed, Context, Runs
    <3>4. CASE c = "irq"
      <4>1. IrqReads /\ rx_len' <= RX_LINE_MAX - 1
        BY <1>0, <3>1, <3>4, Limit DEF LineShared, HasRoom, Context
      <4>2. Unindexed("task")' => rx_len' < LenLimit
        BY <1>0, <3>1, <3>4, <4>1, Limit DEF Unindexed, Context
      <4> QED
        BY <1>0, <3>1, <3>2, <3>4, <4>1, <4>2, Limit DEF LineShared, Context
    <3> QED
      BY <3>3, <3>4 DEF Context
  <2>7. CASE EndPoll(c) \/ SendRequest(c)
    <3>1. PICK l \in {"idle", "start"} : Same /\ pc' = [pc EXCEPT ![c] = l]
      BY <2>7 DEF EndPoll, SendRequest, WritePin, Goto, assembler
    <3> QED
      BY <1>1, <2>00, <3>1
  <2> QED BY <1>6, <2>1, <2>2, <2>3, <2>4, <2>5, <2>6, <2>7 DEF Continue
<1>7. CASE BeginLine \/ NextWireByte
  BY <1>2, <1>7 DEF BeginLine, NextWireByte, Receive, assembler, locals
<1>8. CASE UNCHANGED vars
  BY <1>2, <1>8 DEF vars, assembler, locals
<1>9. BeginTaskPoll => BeginPoll("task", NoPin)
  BY DEF BeginTaskPoll
<1>10. BeginIrqPoll => \E p : BeginPoll("irq", p)
  BY DEF BeginIrqPoll
<1> QED BY <1>3, <1>4, <1>5, <1>6, <1>7, <1>8, <1>9, <1>10 DEF Next, Context

(* Every step keeps the count of outstanding requests.                      *)
LEMMA NextOneOutstanding == IInv /\ [Next]_vars => OneOutstanding'
<1> SUFFICES ASSUME IInv, [Next]_vars PROVE OneOutstanding'
    OBVIOUS
<1>0. /\ pc \in [Context -> Label] /\ action_active \in {0, 1}
      /\ completions \in Nat /\ Len(sent) \in Nat /\ sent \in Seq(Request)
  BY DEF IInv, TypeOK, PinTypes, ControlTypes, GhostTypes, StreamTypes, Bit
<1>00. Exclusion /\ OneOutstanding
  BY DEF IInv
<1> USE <1>0, <1>00 DEF OneOutstanding, Sending, Context
<1>1. CASE InitUart
  BY <1>1 DEF InitUart, At, Goto, ghosts
<1>2. CASE BeginTaskPoll \/ BeginIrqPoll
  BY <1>2 DEF BeginTaskPoll, BeginIrqPoll, BeginPoll, At, Goto, ghosts
<1>3. ASSUME NEW c \in Context, BeginWrite(c) PROVE OneOutstanding'
  BY <1>3 DEF BeginWrite, Write, WritePin, At, Goto, ghosts
<1>4. ASSUME NEW c \in Context, Continue(c) PROVE OneOutstanding'
  <2>1. CASE LedTask(c) \/ FifoLen(c) \/ ReadFifo(c) \/ EndData(c)
    BY <2>1 DEF LedTask, FifoLen, ReadFifo, EndData, At, Goto, ghosts
  <2>2. CASE \/ SkipCR(c) \/ CompareLine(c) \/ LoadLen(c) \/ ReloadLen(c)
             \/ StoreByte(c)
    BY <2>2 DEF SkipCR, CompareLine, LoadLen, ReloadLen, StoreByte, At, Goto, ghosts
  <2>3. CASE FinishLine(c)
    BY <2>3 DEF FinishLine, At, Goto
  <2>4. CASE EndPoll(c)
    BY <2>4 DEF EndPoll, WritePin, At, Goto, ghosts
  <2>5. CASE StartAction(c)
    BY <2>5 DEF StartAction, Exclusion, At, Goto
  <2>6. CASE SendRequest(c)
    <3>1. Len(sent') = Len(sent) + 1
      BY <2>6 DEF SendRequest
    <3> QED BY <2>6, <3>1 DEF SendRequest, At, Goto, ghosts
  <2> QED BY <1>4, <2>1, <2>2, <2>3, <2>4, <2>5, <2>6 DEF Continue
<1>5. CASE BeginLine \/ NextWireByte
  BY <1>5 DEF BeginLine, NextWireByte, Receive
<1>6. CASE UNCHANGED vars
  BY <1>6 DEF vars, ghosts
<1> QED BY <1>1, <1>2, <1>3, <1>4, <1>5, <1>6 DEF Next

(* The inductive invariant holds in every reachable state.                  *)
LEMMA Invariance == Spec => []IInv
<1>1. IInv /\ [Next]_vars => IInv'
  BY NextTypeOK, NextExclusion, NextLineShared, NextOneOutstanding DEF IInv
<1> QED BY InitIInv, <1>1, PTL DEF Spec

(* The driver's variables keep their types.                                 *)
THEOREM TypeCorrect == Spec => []TypeOK
<1>1. IInv => TypeOK
  BY DEF IInv
<1> QED BY Invariance, <1>1, PTL

(* The line stays in its buffer, although the task and the interrupt share  *)
(* rx_len and a build may read it again after the bounds check: every byte  *)
(* that bmcu_fake_poll_uart stores falls into rx_line, and so does every    *)
(* NUL that ends a line, but for one byte behind it in a build that reads   *)
(* rx_len twice while a timer interrupt polls.                              *)
THEOREM LineStaysInBounds == Spec => []LineFits
<1>1. IInv => LineFits
  <2> SUFFICES ASSUME IInv PROVE LineFits
    OBVIOUS
  <2>1. rx_len \in Nat /\ reg \in [Context -> Nat] /\ LineShared
    BY DEF IInv, TypeOK, AssemblerTypes
  <2>2. rx_len < RX_LINE_MAX \/ (rx_len = RX_LINE_MAX /\ Reloads /\ IrqReads)
    BY <2>1, Limit DEF LineShared, LenLimit
  <2>3. ASSUME NEW c \in Context, Stores(c) PROVE reg[c] < RX_LINE_MAX
    BY <2>1, <2>3, Limit DEF LineShared, Stores, HasRoom, Context
  <2> QED BY <2>2, <2>3 DEF LineFits
<1> QED BY Invariance, <1>1, PTL

(* Re-entry is blocked: whatever the interleaving of task and interrupt, at *)
(* most one request sent to the adapter is not yet matched by a fall of     *)
(* action_active, and then action_active is 1.                              *)
THEOREM ReentryBlocked == Spec => []OneOutstanding
<1>1. IInv => OneOutstanding
  BY DEF IInv
<1> QED BY Invariance, <1>1, PTL

-----------------------------------------------------------------------------
(* While only the task polls: the bytes it has not processed, and how many  *)
(* of its line it has assembled.                                            *)
Stream == data["task"] \o fifo

(* The types, and the line in its buffer with room for a NUL.               *)
Solo ==
    /\ TypeOK
    /\ rx_len \in 0..(RX_LINE_MAX - 1) /\ reg \in [Context -> 0..(RX_LINE_MAX - 1)]
    /\ pc["task"] = "index" => HasRoom(reg["task"])

LEMMA SoloIs == ~IrqReads /\ IInv => Solo
<1> SUFFICES ASSUME ~IrqReads, IInv PROVE Solo
  OBVIOUS
<1>1. /\ TypeOK /\ rx_len \in Nat /\ reg \in [Context -> Nat] /\ LineShared
      /\ LenLimit = RX_LINE_MAX - 1 /\ RX_LINE_MAX \in Nat \ {0, 1}
  BY Limit DEF IInv, TypeOK, AssemblerTypes
<1>2. rx_len \in 0..(RX_LINE_MAX - 1)
  BY <1>1 DEF LineShared
<1>3. \A c \in Context : reg[c] \in 0..(RX_LINE_MAX - 1)
  BY <1>1 DEF LineShared
<1>4. reg \in [Context -> 0..(RX_LINE_MAX - 1)]
  BY <1>1, <1>3
<1>5. pc["task"] = "index" => HasRoom(reg["task"])
  BY <1>1 DEF LineShared, HasRoom
<1> QED
  BY <1>1, <1>2, <1>4, <1>5 DEF Solo

LEMMA SoloNext == ~IrqReads /\ IInv /\ [Next]_vars => Solo'
<1>1. IInv /\ [Next]_vars => IInv'
  BY NextTypeOK, NextExclusion, NextLineShared, NextOneOutstanding DEF IInv
<1>2. (~IrqReads /\ IInv => Solo)'
  BY SoloIs, PTL
<1> QED
  BY <1>1, <1>2

Width == Len(DONE)
DoneLines == {DONE \o <<LF>>, DONE \o <<CR, LF>>}

(* The first n bytes of the DONE line L have been received: those from      *)
(* L[1 - i] on are in the stream s, and, if i is not positive, the -i bytes *)
(* before them are the k in the buffer.                                     *)
Placed(s, k, buf, L, n, i) ==
    /\ i + n <= Len(s)
    /\ \A m \in 1..n : i + m > 0 => s[i + m] = L[m]
    /\ i > 0 => s[i] = LF
    /\ i <= 0 => /\ k = (IF -i <= Width THEN -i ELSE Width)
                 /\ \A j \in 1..k : buf[j - 1] = DONE[j]

(* Nothing is left of a line: what comes next begins one.                   *)
AtLineEnd(s, k) == IF s = <<>> THEN k = 0 ELSE s[Len(s)] = LF

OnlyTask ==
    /\ pc["irq"] \in {"idle", "start", "send"}
    /\ pc["task"] = "boot" => fifo = <<>> /\ wire = <<>> /\ uart_initialized = 0
    /\ pc["task"] # "boot" => uart_initialized = 1
    /\ pc["task"] \notin {"byte", "store", "index", "finish"} => data["task"] = <<>>
    /\ pc["task"] = "read" => take["task"] <= Len(fifo)
    /\ pc["task"] \in {"store", "index"} => Head(data["task"]) \notin {CR, LF}
    /\ matched["task"] => pc["task"] = "finish"
OnWire ==
    wire # <<>> => /\ line \in Lines /\ Len(wire) < Len(line)
                   /\ \A j \in 1..Len(wire) :
                          wire[j] = line[Len(line) - Len(wire) + j]

(* A DONE line that is coming in whole; one that came in whole since the    *)
(* last start; and where the next line begins.                              *)
Coming ==
    clean /\ wire # <<>> /\ IsDone(line) =>
        Placed(Stream, Held, rx_line, line, Len(line) - Len(wire),
               Len(Stream) - (Len(line) - Len(wire)))
Came ==
    doneSeen /\ action_active = 1 =>
        \/ matched["task"]
        \/ \E L \in DoneLines, i \in Int :
               -i < Len(L) /\ Placed(Stream, Held, rx_line, L, Len(L), i)
Ready == clean /\ wire = <<>> => AtLineEnd(Stream, Held)

DoneInv == OnlyTask /\ OnWire /\ Coming /\ Came /\ Ready

-----------------------------------------------------------------------------
LEMMA Done ==
    /\ Width \in Nat \ {0} /\ DONE \in Seq(Byte) /\ Width < RX_LINE_MAX
    /\ RX_LINE_MAX \in Nat /\ CR # LF
    /\ \A i \in 1..Width : DONE[i] # CR /\ DONE[i] # LF
BY BytesAssumption, SizesAssumption, LinesAssumption DEF Width

(* The bytes of a DONE line.                                                *)
LEMMA DoneLine ==
    ASSUME NEW L \in DoneLines
    PROVE  /\ L \in Seq(Byte) /\ Len(L) \in {Width + 1, Width + 2}
           /\ \A i \in 1..Width : L[i] = DONE[i]
           /\ L[Len(L)] = LF
           /\ \A i \in 1..Len(L) : /\ L[i] = LF => i = Len(L)
                                   /\ L[i] = CR => i = Width + 1
                                   /\ i <= Width \/ L[i] \in {CR, LF}
<1>1. CASE L = DONE \o <<LF>>
  BY <1>1, Done, BytesAssumption DEF Width
<1>2. CASE L = DONE \o <<CR, LF>>
  BY <1>2, Done, BytesAssumption DEF Width
<1> QED
  BY <1>1, <1>2 DEF DoneLines

LEMMA TailIs ==
    ASSUME NEW S, NEW s \in Seq(S), s # <<>>
    PROVE  /\ Tail(s) \in Seq(S) /\ Len(Tail(s)) = Len(s) - 1 /\ Len(s) \in Nat \ {0}
           /\ \A i \in 1..(Len(s) - 1) : Tail(s)[i] = s[i + 1]
           /\ Head(s) = s[1] /\ s[1] \in S
OBVIOUS

(* One more byte in the stream.                                             *)
LEMMA PlacedStays ==
    ASSUME NEW s \in Seq(Byte), NEW k, NEW buf, NEW L, NEW n \in Nat, NEW i \in Int,
           NEW b \in Byte, Placed(s, k, buf, L, n, i)
    PROVE  Placed(Append(s, b), k, buf, L, n, i)
<1>1. /\ Append(s, b) \in Seq(Byte) /\ Len(Append(s, b)) = Len(s) + 1 /\ Len(s) \in Nat
      /\ \A j \in 1..Len(s) : Append(s, b)[j] = s[j]
  OBVIOUS
<1> DEFINE t == Append(s, b)
<1> HIDE DEF t
<1>2. /\ Len(t) = Len(s) + 1 /\ Len(s) \in Nat /\ \A j \in 1..Len(s) : t[j] = s[j]
  BY <1>1 DEF t
<1>3. /\ i + n <= Len(s) /\ \A m \in 1..n : i + m > 0 => s[i + m] = L[m]
      /\ i > 0 => s[i] = LF
      /\ i <= 0 => /\ k = (IF -i <= Width THEN -i ELSE Width)
                   /\ \A j \in 1..k : buf[j - 1] = DONE[j]
  BY DEF Placed
<1>4. i + n <= Len(t) /\ \A m \in 1..n : i + m > 0 => t[i + m] = L[m]
  BY <1>2, <1>3
<1>5. i > 0 => t[i] = LF
  BY <1>2, <1>3
<1>6. Placed(t, k, buf, L, n, i)
  BY <1>3, <1>4, <1>5 DEF Placed
<1> QED
  BY <1>6 DEF t

LEMMA PlacedGrows ==
    ASSUME NEW s \in Seq(Byte), NEW k, NEW buf, NEW L, NEW n \in Nat,
           NEW b \in Byte, Placed(s, k, buf, L, n, Len(s) - n), L[n + 1] = b
    PROVE  Placed(Append(s, b), k, buf, L, n + 1, Len(s) - n)
<1>1. /\ Append(s, b) \in Seq(Byte) /\ Len(Append(s, b)) = Len(s) + 1 /\ Len(s) \in Nat
      /\ Append(s, b)[Len(s) + 1] = b
  OBVIOUS
<1> DEFINE t == Append(s, b)
<1>2. Placed(t, k, buf, L, n, Len(s) - n)
  BY <1>1, PlacedStays
<1> HIDE DEF t
<1>3. /\ Len(t) = Len(s) + 1 /\ t[Len(s) + 1] = b /\ Len(s) \in Nat
  BY <1>1 DEF t
<1> DEFINE i == Len(s) - n
<1>4. i \in Int /\ i + (n + 1) <= Len(t) /\ i + (n + 1) = Len(s) + 1
  BY <1>3
<1>5. \A m \in 1..(n + 1) : i + m > 0 => t[i + m] = L[m]
  <2>1. \A m \in 1..n : i + m > 0 => t[i + m] = L[m]
    BY <1>2 DEF Placed
  <2> QED
    BY <2>1, <1>3, <1>4
<1>6. Placed(t, k, buf, L, n + 1, i)
  BY <1>2, <1>4, <1>5 DEF Placed
<1> QED
  BY <1>6 DEF t

(* A line feed in the stream begins a line; so does an empty line buffer.   *)
LEMMA PlacedBegins ==
    ASSUME NEW s \in Seq(Byte), NEW k, NEW buf, NEW L, NEW b \in Byte,
           AtLineEnd(s, k), L[1] = b
    PROVE  Placed(Append(s, b), k, buf, L, 1, Len(s))
<1>1. Placed(s, k, buf, L, 0, Len(s) - 0)
  <2>1. Len(s) \in Nat /\ (s = <<>> <=> Len(s) = 0) /\ Width \in Nat
    BY Done
  <2>2. CASE s = <<>>
    <3>1. k = 0 /\ Len(s) = 0
      BY <2>1, <2>2 DEF AtLineEnd
    <3>2. PICK i \in Int : i = Len(s) - 0 /\ i = 0
      BY <3>1
    <3>3. i + 0 <= Len(s) /\ ~(i > 0) /\ -i <= Width /\ -i = k
      <4>1. Width \in Nat
        BY Done
      <4>2. \A y \in Int : -y = 0 - y
        OBVIOUS
      <4>3. -i = 0 - i
        BY <4>2
      <4>4. 0 - i = 0 /\ i + 0 <= Len(s) /\ ~(i > 0)
        BY <3>1, <3>2
      <4> QED
        BY <3>1, <4>1, <4>3, <4>4
    <3>4. \A m \in 1..0 : FALSE
      OBVIOUS
    <3>5. k = (IF -i <= Width THEN -i ELSE Width)
      BY <3>3
    <3>6. Placed(s, k, buf, L, 0, i)
      BY <3>1, <3>3, <3>4, <3>5 DEF Placed
    <3> QED
      BY <3>2, <3>6
  <2>3. CASE s # <<>>
    <3>1. Len(s) > 0 /\ s[Len(s)] = LF /\ Len(s) - 0 = Len(s)
      BY <2>1, <2>3 DEF AtLineEnd
    <3>2. Placed(s, k, buf, L, 0, Len(s))
      BY <2>1, <3>1 DEF Placed
    <3> QED
      BY <3>1, <3>2
  <2> QED
    BY <2>2, <2>3
<1>2. Placed(Append(s, b), k, buf, L, 0 + 1, Len(s) - 0)
  BY <1>1, PlacedGrows, 0 \in Nat, 0 + 1 = 1
<1>3. Len(s) - 0 = Len(s) /\ 0 + 1 = 1
  OBVIOUS
<1> QED
  BY <1>2, <1>3

-----------------------------------------------------------------------------
(* The task takes the first byte of the stream: what is placed moves down.  *)
LEMMA PlacedMoves ==
    ASSUME NEW s \in Seq(Byte), s # <<>>, NEW k, NEW buf, NEW k2, NEW buf2,
           NEW L \in DoneLines, NEW n \in 1..Len(L), NEW i \in Int, -i < n,
           Placed(s, k, buf, L, n, i),
           i <= 0 => /\ k2 = (IF 1 - i <= Width THEN 1 - i ELSE Width)
                     /\ \A j \in 1..k2 : buf2[j - 1] = DONE[j],
           i = 1 => k2 = 0
    PROVE  Placed(Tail(s), k2, buf2, L, n, i - 1)
<1> DEFINE t == Tail(s)
<1>1. /\ Len(t) = Len(s) - 1 /\ Len(s) \in Nat \ {0}
      /\ \A j \in 1..(Len(s) - 1) : t[j] = s[j + 1]
  BY TailIs
<1> HIDE DEF t
<1>2. n \in Nat /\ i - 1 \in Int /\ Width \in Nat
  BY Done, DoneLine
<1>3. /\ i + n <= Len(s) /\ \A m \in 1..n : i + m > 0 => s[i + m] = L[m]
      /\ i > 0 => s[i] = LF
  BY DEF Placed
<1>4. \A m \in 1..n : (i - 1) + m > 0 => t[(i - 1) + m] = L[m]
  <2> SUFFICES ASSUME NEW m \in 1..n, (i - 1) + m > 0
               PROVE  t[(i - 1) + m] = L[m]
    OBVIOUS
  <2>1. (i - 1) + m \in 1..(Len(s) - 1) /\ ((i - 1) + m) + 1 = i + m
    BY <1>1, <1>2, <1>3
  <2> QED
    BY <2>1, <1>1, <1>3
<1>5. i - 1 > 0 => t[i - 1] = LF
  <2>1. i - 1 > 0 => i - 1 \in 1..(Len(s) - 1) /\ (i - 1) + 1 = i
    BY <1>1, <1>2, <1>3
  <2> QED
    BY <2>1, <1>1, <1>3
<1>6. i - 1 <= 0 => /\ k2 = (IF -(i - 1) <= Width THEN -(i - 1) ELSE Width)
                    /\ \A j \in 1..k2 : buf2[j - 1] = DONE[j]
  <2>1. i - 1 <= 0 => i <= 0 \/ i = 1
    BY <1>2
  <2>2. -(i - 1) = 1 - i
    BY <1>2
  <2>3. CASE i = 1
    BY <2>2, <2>3, <1>2
  <2> QED
    BY <2>1, <2>2, <2>3
<1>7. (i - 1) + n <= Len(t)
  BY <1>1, <1>2, <1>3
<1> QED
  BY <1>4, <1>5, <1>6, <1>7 DEF Placed, t

(* The byte that is taken, when the line has begun.                         *)
LEMMA FirstByte ==
    ASSUME NEW s \in Seq(Byte), s # <<>>, NEW k, NEW buf,
           NEW L \in DoneLines, NEW n \in 1..Len(L), NEW i \in Int, -i < n, i <= 0,
           Placed(s, k, buf, L, n, i)
    PROVE  s[1] = L[1 - i] /\ 1 - i \in 1..n
<1>1. 1 - i \in 1..n /\ i + (1 - i) = 1
  BY DoneLine
<1> QED
  BY <1>1 DEF Placed

LEMMA PlacedSkipsCR ==
    ASSUME NEW s \in Seq(Byte), s # <<>>, NEW k, NEW buf,
           NEW L \in DoneLines, NEW n \in 1..Len(L), NEW i \in Int, -i < n,
           Placed(s, k, buf, L, n, i), s[1] = CR
    PROVE  Placed(Tail(s), k, buf, L, n, i - 1)
<1>1. Width \in Nat \ {0} /\ CR # LF
  BY Done
<1>2. CASE i <= 0
  <2>1. L[1 - i] = CR /\ 1 - i \in 1..Len(L)
    BY <1>2, FirstByte, DoneLine
  <2>2. 1 - i = Width + 1
    BY <2>1, DoneLine
  <2>3. -i = Width
    BY <2>2, <1>1
  <2>4. k = Width /\ \A j \in 1..k : buf[j - 1] = DONE[j]
    BY <2>3, <1>1, <1>2 DEF Placed
  <2>5. ~(1 - i <= Width) /\ i # 1
    BY <2>2, <1>1, <1>2
  <2> QED
    BY <2>4, <2>5, PlacedMoves
<1>3. CASE i > 0
  <2>1. i # 1 /\ ~(i <= 0)
    BY <1>1, <1>3 DEF Placed
  <2> QED
    BY <2>1, PlacedMoves
<1> QED
  BY <1>2, <1>3

LEMMA PlacedStored ==
    ASSUME NEW s \in Seq(Byte), s # <<>>, NEW k \in 0..(RX_LINE_MAX - 1),
           NEW buf \in [0..(RX_LINE_MAX - 1) -> Byte],
           NEW L \in DoneLines, NEW n \in 1..Len(L), NEW i \in Int, -i < n,
           Placed(s, k, buf, L, n, i), s[1] # CR, s[1] # LF, NEW k2, NEW buf2,
           k < RX_LINE_MAX - 1 => k2 = k + 1 /\ buf2 = [buf EXCEPT ![k] = s[1]]
    PROVE  Placed(Tail(s), k2, buf2, L, n, i - 1)
<1>1. Width \in Nat \ {0} /\ CR # LF /\ Width < RX_LINE_MAX /\ RX_LINE_MAX \in Nat
  BY Done
<1>2. CASE i <= 0
  <2>1. s[1] = L[1 - i] /\ 1 - i \in 1..n /\ 1 - i \in 1..Len(L)
    BY <1>2, FirstByte, DoneLine
  <2>2. 1 - i <= Width
    BY <2>1, DoneLine
  <2>3. s[1] = DONE[1 - i]
    BY <2>1, <2>2, <1>1, DoneLine
  <2>4. k = -i /\ \A j \in 1..k : buf[j - 1] = DONE[j]
    BY <2>2, <1>1, <1>2 DEF Placed
  <2>5. k < RX_LINE_MAX - 1 /\ k + 1 = 1 - i /\ k \in Nat
    BY <2>2, <2>4, <1>1, <1>2
  <2>6. k2 = 1 - i /\ buf2 = [buf EXCEPT ![k] = s[1]]
    BY <2>5
  <2>7. \A j \in 1..k2 : buf2[j - 1] = DONE[j]
    <3> SUFFICES ASSUME NEW j \in 1..k2 PROVE buf2[j - 1] = DONE[j]
      OBVIOUS
    <3>1. j \in 1..(k + 1) /\ j - 1 \in 0..(RX_LINE_MAX - 1)
      BY <1>1, <2>5, <2>6
    <3>2. CASE j = k + 1
      BY <3>1, <3>2, <2>3, <2>5, <2>6
    <3>3. CASE j # k + 1
      BY <3>1, <3>3, <2>4, <2>5, <2>6
    <3> QED
      BY <3>2, <3>3
  <2>8. i # 1
    BY <1>2
  <2> QED
    BY <2>2, <2>6, <2>7, <2>8, PlacedMoves
<1>3. CASE i > 0
  <2>1. i # 1 /\ ~(i <= 0)
    BY <1>1, <1>3 DEF Placed
  <2> QED
    BY <2>1, PlacedMoves
<1> QED
  BY <1>2, <1>3

(* A line feed ends the line; where that was the DONE line, it matches.     *)
LEMMA PlacedEnds ==
    ASSUME NEW s \in Seq(Byte), s # <<>>, NEW k, NEW buf, NEW buf2,
           NEW L \in DoneLines, NEW n \in 1..Len(L), NEW i \in Int, -i < n,
           Placed(s, k, buf, L, n, i), s[1] = LF, i > 0
    PROVE  Placed(Tail(s), 0, buf2, L, n, i - 1)
<1>1. ~(i <= 0)
  OBVIOUS
<1> QED
  BY <1>1, PlacedMoves

LEMMA PlacedMatches ==
    ASSUME NEW s \in Seq(Byte), s # <<>>, NEW k \in 0..(RX_LINE_MAX - 1),
           NEW buf \in [0..(RX_LINE_MAX - 1) -> Byte],
           NEW L \in DoneLines, NEW n \in 1..Len(L), NEW i \in Int, -i < n,
           Placed(s, k, buf, L, n, i), s[1] = LF, i <= 0
    PROVE  n = Len(L) /\ IsDoneLine([buf EXCEPT ![k] = NUL])
<1>1. Width \in Nat \ {0} /\ CR # LF /\ Width < RX_LINE_MAX /\ RX_LINE_MAX \in Nat
  BY Done
<1>2. LF = L[1 - i] /\ 1 - i \in 1..n /\ 1 - i \in 1..Len(L)
  BY FirstByte, DoneLine
<1>3. 1 - i = Len(L) /\ Len(L) \in {Width + 1, Width + 2}
  BY <1>2, DoneLine
<1>4. n = Len(L) /\ -i >= Width
  BY <1>1, <1>2, <1>3
<1>5. k = Width /\ \A j \in 1..Width : buf[j - 1] = DONE[j]
  <2>1. k = (IF -i <= Width THEN -i ELSE Width) /\ \A j \in 1..k : buf[j - 1] = DONE[j]
    BY DEF Placed
  <2>2. k = Width
    BY <2>1, <1>1, <1>4
  <2> QED
    BY <2>1, <2>2
<1> DEFINE b2 == [buf EXCEPT ![k] = NUL]
<1>6. \A j \in 1..Width : b2[j - 1] = DONE[j]
  BY <1>1, <1>5
<1>7. b2[Width] = NUL
  BY <1>1, <1>5
<1> QED
  BY <1>4, <1>6, <1>7 DEF IsDoneLine, Width

-----------------------------------------------------------------------------
LEMMA StreamTyped ==
    ASSUME Solo
    PROVE  /\ Stream \in Seq(Byte) /\ data["task"] \in Seq(Byte) /\ fifo \in Seq(Byte)
           /\ rx_len \in 0..(RX_LINE_MAX - 1) /\ reg["task"] \in 0..(RX_LINE_MAX - 1)
           /\ rx_line \in [0..(RX_LINE_MAX - 1) -> Byte]
           /\ Held \in 0..(RX_LINE_MAX - 1)
           /\ pc["task"] \in Label /\ pc["irq"] \in Label
           /\ wire \in Seq(Byte) /\ line \in Seq(Byte)
           /\ action_active \in {0, 1} /\ clean \in BOOLEAN /\ doneSeen \in BOOLEAN
<1>1. /\ data \in [Context -> Seq(Byte)] /\ fifo \in Seq(Byte)
      /\ rx_len \in 0..(RX_LINE_MAX - 1) /\ reg \in [Context -> 0..(RX_LINE_MAX - 1)]
      /\ rx_line \in [0..(RX_LINE_MAX - 1) -> Byte] /\ pc \in [Context -> Label]
      /\ wire \in Seq(Byte) /\ line \in Seq(Byte)
      /\ action_active \in {0, 1} /\ clean \in BOOLEAN /\ doneSeen \in BOOLEAN
  BY DEF Solo, TypeOK, AssemblerTypes, StreamTypes, ControlTypes, PinTypes, GhostTypes, Bit
<1>2. "task" \in Context /\ "irq" \in Context
  BY DEF Context
<1>3. data["task"] \in Seq(Byte) /\ reg["task"] \in 0..(RX_LINE_MAX - 1)
  BY <1>1, <1>2
<1>4. Stream \in Seq(Byte)
  BY <1>1, <1>3 DEF Stream
<1>5. 0 \in 0..(RX_LINE_MAX - 1)
  BY Done
<1>6. Held \in 0..(RX_LINE_MAX - 1)
  BY <1>1, <1>3, <1>5 DEF Held, Unindexed
<1> QED
  BY <1>1, <1>2, <1>3, <1>4, <1>6

LEMMA IsDoneIs == \A l : IsDone(l) <=> l \in DoneLines
BY DEF IsDone, DoneLines

LEMMA TailOfBoth ==
    ASSUME NEW S, NEW s \in Seq(S), NEW t \in Seq(S), s # <<>>
    PROVE  /\ Tail(s) \o t = Tail(s \o t) /\ s \o t # <<>> /\ (s \o t)[1] = Head(s)
           /\ s \o t \in Seq(S)
<1>1. /\ Tail(s) \o t \in Seq(S) /\ Tail(s \o t) \in Seq(S) /\ s \o t # <<>>
      /\ Len(s \o t) = Len(s) + Len(t) /\ Len(s) > 0
      /\ (s \o t)[1] = Head(s) /\ s \o t \in Seq(S)
  OBVIOUS
<1>2. Len(Tail(s) \o t) = Len(Tail(s \o t))
  BY <1>1
<1>3. \A i \in 1..Len(Tail(s) \o t) : (Tail(s) \o t)[i] = Tail(s \o t)[i]
  OBVIOUS
<1>4. Tail(s) \o t = Tail(s \o t)
  BY <1>1, <1>2, <1>3, SeqEqual
<1> QED
  BY <1>1, <1>4

LEMMA CutAndJoined ==
    ASSUME NEW S, NEW s \in Seq(S), NEW k \in Nat, k <= Len(s)
    PROVE  SubSeq(s, 1, k) \o SubSeq(s, k + 1, Len(s)) = s
<1>1. /\ SubSeq(s, 1, k) \in Seq(S) /\ SubSeq(s, k + 1, Len(s)) \in Seq(S)
      /\ Len(s) \in Nat
  BY Cut
<1> DEFINE a == SubSeq(s, 1, k)
           b == SubSeq(s, k + 1, Len(s))
<1>2. Len(a) = k /\ \A i \in 1..k : a[i] = s[i]
  BY SubSeqProperties
<1>3. Len(b) = Len(s) - k /\ \A i \in 1..(Len(s) - k) : b[i] = s[k + i]
  <2>1. Len(b) = IF k + 1 <= Len(s) THEN Len(s) - (k + 1) + 1 ELSE 0
    BY <1>1, SubSeqProperties
  <2>2. \A i \in 1..(Len(s) - k) : b[i] = s[k + i]
    BY <1>1, SubSeqProperties
  <2> QED
    BY <1>1, <2>1, <2>2
<1> HIDE DEF a, b
<1>4. a \in Seq(S) /\ b \in Seq(S)
  BY <1>1 DEF a, b
<1>5. a \o b \in Seq(S) /\ Len(a \o b) = Len(s)
  <2>1. a \o b \in Seq(S) /\ Len(a \o b) = Len(a) + Len(b)
    BY <1>4
  <2> QED
    BY <1>1, <1>2, <1>3, <2>1
<1>6. \A i \in 1..Len(s) : (a \o b)[i] = s[i]
  <2> SUFFICES ASSUME NEW i \in 1..Len(s) PROVE (a \o b)[i] = s[i]
    OBVIOUS
  <2>1. CASE i <= k
    BY <2>1, <1>2, <1>4
  <2>2. CASE i > k
    <3>1. i - k \in 1..(Len(s) - k) /\ k + (i - k) = i
      BY <2>2, <1>1
    <3>2. (a \o b)[i] = b[i - k]
      BY <2>2, <1>2, <1>3, <1>4, <3>1
    <3> QED
      BY <3>1, <3>2, <1>3
  <2>3. i <= k \/ i > k
    BY <1>1
  <2> QED
    BY <2>1, <2>2, <2>3
<1>7. a \o b = s
  BY <1>5, <1>6, SeqEqual
<1> QED
  BY <1>7 DEF a, b

-----------------------------------------------------------------------------
(* Steps that leave the stream and what is assembled of it alone.           *)
LEMMA Unmoved ==
    ASSUME DoneInv, Stream' = Stream, Held' = Held,
           UNCHANGED <<rx_line, wire, line, clean, doneSeen, action_active>>,
           matched'["task"] = matched["task"]
    PROVE  OnWire' /\ Coming' /\ Came' /\ Ready'
BY DEF DoneInv, OnWire, Coming, Came, Ready

(* A start empties the line buffer, but not what the task has in hand.      *)
LEMMA StartKeeps ==
    ASSUME Solo, DoneInv, NEW c \in Context, StartAction(c)
    PROVE  DoneInv'
<1>1. /\ pc[c] = "start" /\ pc' = [pc EXCEPT ![c] = "send"] /\ Runs(c)
      /\ rx_len' = 0 /\ doneSeen' = FALSE /\ clean' = (clean /\ wire = <<>>)
      /\ UNCHANGED <<uart_initialized, rx_line, take, data, reg, matched, fifo, wire, line>>
  BY DEF StartAction, At, Goto, adapter
<1>2. pc \in [Context -> Label] /\ c \in {"task", "irq"}
  BY DEF Solo, TypeOK, ControlTypes, Context
<1>3. OnlyTask'
  BY <1>1, <1>2 DEF DoneInv, OnlyTask, Context
<1>4. OnWire' /\ Came' /\ Coming'
  BY <1>1 DEF DoneInv, OnWire, Came, Coming
<1>5. Ready'
  <2> SUFFICES ASSUME clean, wire = <<>> PROVE AtLineEnd(Stream, Held')
    BY <1>1 DEF Ready, Stream
  <2>1. AtLineEnd(Stream, Held)
    BY DEF DoneInv, Ready
  <2>2. pc'["task"] = pc["task"] \/ {pc["task"], pc'["task"]} \subseteq {"start", "send"}
    BY <1>1, <1>2 DEF Context
  <2>3. Held' = Held \/ Held' = 0
    BY <1>1, <2>2 DEF Held, Unindexed
  <2>4. Held = 0 => Held' = 0
    BY <2>3
  <2> QED
    BY <2>1, <2>4 DEF AtLineEnd
<1> QED
  BY <1>3, <1>4, <1>5 DEF DoneInv

(* Steps before the first byte is taken, and between two calls.             *)
LEMMA QuietKeeps ==
    ASSUME IInv, DoneInv, ~IrqReads, [Next]_vars,
           \A c \in Context : ~StartAction(c),
           ~ReadFifo("task"), ~SkipCR("task"), ~CompareLine("task"), ~FinishLine("task"),
           ~LoadLen("task"), ~ReloadLen("task"), ~StoreByte("task"), ~BeginLine, ~NextWireByte
    PROVE  DoneInv'
<1>1. /\ pc \in [Context -> Label] /\ Context = {"task", "irq"}
      /\ take \in [Context -> Nat] /\ fifo \in Seq(Byte) /\ Len(fifo) \in Nat
      /\ pc["irq"] \in {"idle", "start", "send"} /\ OnlyTask
  BY DEF IInv, TypeOK, ControlTypes, LocalTypes, StreamTypes, Context, DoneInv, OnlyTask
<1> DEFINE Same == UNCHANGED <<data, reg, fifo, rx_len, rx_line, matched, wire, line, clean,
                               doneSeen, action_active>>
<1>2. ASSUME Same, \/ pc'["task"] = pc["task"]
                  \/ {pc["task"], pc'["task"]} \cap {"store", "index", "finish"} = {}
      PROVE  OnWire' /\ Coming' /\ Came' /\ Ready'
  <2>1. Stream' = Stream /\ Held' = Held
    BY <1>2 DEF Stream, Held, Unindexed
  <2> QED
    BY <1>2, <2>1, Unmoved
<1>3. CASE InitUart
  <2>1. /\ pc["task"] = "boot" /\ pc' = [pc EXCEPT !["task"] = "idle"] /\ fifo' = <<>>
        /\ fifo = <<>> /\ uart_initialized' = 1
        /\ UNCHANGED <<data, reg, rx_len, rx_line, matched, wire, line, clean,
                               doneSeen, action_active, take>>
    BY <1>1, <1>3 DEF InitUart, At, Goto, OnlyTask, assembler, locals, adapter, ghosts
  <2>2. Same /\ pc'["task"] = "idle" /\ pc'["irq"] = pc["irq"]
    BY <1>1, <2>1
  <2>3. OnlyTask'
    BY <1>1, <2>1, <2>2 DEF OnlyTask
  <2> QED
    BY <1>2, <2>1, <2>2, <2>3 DEF DoneInv
<1>4. CASE BeginTaskPoll
  <2>1. /\ pc["task"] = "idle" /\ pc' = [pc EXCEPT !["task"] = "led"] /\ Same
        /\ UNCHANGED <<take, uart_initialized>>
    BY <1>4 DEF BeginTaskPoll, BeginPoll, At, Goto, assembler, adapter, ghosts
  <2>2. OnlyTask'
    BY <1>1, <2>1 DEF OnlyTask
  <2> QED
    BY <1>1, <1>2, <2>1, <2>2 DEF DoneInv
<1>5. ~BeginIrqPoll
  BY DEF BeginIrqPoll, BeginPoll
<1>6. ASSUME NEW c \in Context, BeginWrite(c) PROVE DoneInv'
  <2>1. PICK p \in DrivenPins, bit \in Bit : Write(c, p, bit)
    BY <1>6 DEF BeginWrite
  <2>2. /\ pc[c] = "idle" /\ Same /\ UNCHANGED <<take, uart_initialized>>
    BY <2>1 DEF Write, At, assembler, locals, adapter, ghosts
  <2>3. pc' = [pc EXCEPT ![c] = "idle"] \/ pc' = [pc EXCEPT ![c] = "start"]
    BY <2>1 DEF Write, WritePin, Goto
  <2>4. pc["task"] # "boot"
    BY <2>1 DEF Write
  <2>5. OnlyTask'
    BY <1>1, <2>2, <2>3, <2>4 DEF OnlyTask
  <2> QED
    BY <1>1, <1>2, <2>2, <2>3, <2>5 DEF DoneInv
<1>7. CASE LedTask("task")
  <2>1. /\ pc["task"] = "led" /\ pc' = [pc EXCEPT !["task"] = "fifo"] /\ Same
        /\ UNCHANGED <<take, uart_initialized>>
    BY <1>7 DEF LedTask, At, Goto, assembler, locals, adapter, ghosts
  <2>2. OnlyTask'
    BY <1>1, <2>1 DEF OnlyTask
  <2> QED
    BY <1>1, <1>2, <2>1, <2>2 DEF DoneInv
<1>8. CASE FifoLen("task")
  <2>1. /\ pc["task"] = "fifo" /\ pc' = [pc EXCEPT !["task"] = "read"] /\ Same
        /\ UNCHANGED uart_initialized
        /\ take' = [take EXCEPT !["task"] = IF Len(fifo) > DATA_MAX THEN DATA_MAX
                                            ELSE Len(fifo)]
    BY <1>8 DEF FifoLen, At, Goto, assembler, adapter, ghosts
  <2>2. take'["task"] <= Len(fifo)
    BY <1>1, <2>1, SizesAssumption
  <2>3. OnlyTask'
    BY <1>1, <2>1, <2>2 DEF OnlyTask
  <2> QED
    BY <1>1, <1>2, <2>1, <2>3 DEF DoneInv
<1>9. CASE EndData("task")
  <2>1. /\ pc["task"] = "byte" /\ pc' = [pc EXCEPT !["task"] = "fifo"] /\ Same
        /\ data["task"] = <<>> /\ UNCHANGED <<take, uart_initialized>>
    BY <1>9 DEF EndData, At, Goto, assembler, locals, adapter, ghosts
  <2>2. OnlyTask'
    BY <1>1, <2>1 DEF OnlyTask
  <2> QED
    BY <1>1, <1>2, <2>1, <2>2 DEF DoneInv
<1>10. CASE EndPoll("task")
  <2>1. /\ pc["task"] = "fifo" /\ Same /\ UNCHANGED <<take, uart_initialized>>
    BY <1>10 DEF EndPoll, At, assembler, adapter, ghosts
  <2>2. pc' = [pc EXCEPT !["task"] = "idle"] \/ pc' = [pc EXCEPT !["task"] = "start"]
    BY <1>10 DEF EndPoll, WritePin, Goto
  <2>3. OnlyTask'
    BY <1>1, <2>1, <2>2 DEF OnlyTask
  <2> QED
    BY <1>1, <1>2, <2>1, <2>2, <2>3 DEF DoneInv
<1>11. ASSUME NEW c \in Context, SendRequest(c) PROVE DoneInv'
  <2>0. pc["task"] # "boot"
    BY <1>1, <1>11 DEF SendRequest, At, IInv, Exclusion
  <2>1. /\ pc[c] = "send" /\ pc' = [pc EXCEPT ![c] = "idle"] /\ uart_initialized' = 1
        /\ uart_initialized = 1
        /\ UNCHANGED <<data, reg, rx_len, rx_line, matched, wire, line, clean,
                       doneSeen, action_active, take, fifo>>
    BY <1>1, <1>11, <2>0 DEF SendRequest, At, Goto, assembler, adapter, ghosts, OnlyTask
  <2>2. Same /\ (c = "task" => pc["task"] = "send")
    BY <2>1
  <2>3. OnlyTask'
    BY <1>1, <2>0, <2>1, <2>2 DEF OnlyTask
  <2> QED
    BY <1>1, <1>2, <2>1, <2>2, <2>3 DEF DoneInv
<1>12. CASE UNCHANGED vars
  <2>1. Same /\ UNCHANGED <<pc, take, uart_initialized>>
    BY <1>12 DEF vars, assembler, locals, adapter, ghosts
  <2>2. OnlyTask'
    BY <1>1, <2>1 DEF OnlyTask
  <2> QED
    BY <1>1, <1>2, <2>1, <2>2 DEF DoneInv
<1>13. ASSUME NEW c \in Context, Continue(c) PROVE DoneInv'
  <2>1. CASE c = "task"
    BY <2>1, <1>1, <1>7, <1>8, <1>9, <1>10, <1>11, <1>13 DEF Continue
  <2>2. CASE c = "irq"
    <3>1. ~\E l \in {"led", "fifo", "read", "byte", "store", "index", "finish"} : pc["irq"] = l
      BY <1>1
    <3>2. SendRequest(c) \/ StartAction(c)
      BY <2>2, <3>1, <1>13
         DEF Continue, LedTask, FifoLen, ReadFifo, EndData, SkipCR, CompareLine,
             FinishLine, LoadLen, ReloadLen, StoreByte, EndPoll, At
    <3> QED
      BY <3>2, <1>11
  <2> QED
    BY <2>1, <2>2, <1>1
<1> QED
  BY <1>3, <1>4, <1>5, <1>6, <1>12, <1>13 DEF Next

-----------------------------------------------------------------------------
(* The FIFO is read: the stream stays.                                      *)
LEMMA ReadKeeps ==
    ASSUME Solo, DoneInv, ReadFifo("task")
    PROVE  DoneInv'
<1>1. /\ pc["task"] = "read" /\ pc' = [pc EXCEPT !["task"] = "byte"]
      /\ take["task"] <= Len(fifo) /\ data["task"] = <<>>
      /\ UNCHANGED <<reg, rx_len, rx_line, matched, wire, line, clean, doneSeen,
                     action_active, uart_initialized>>
  BY DEF ReadFifo, At, Goto, DoneInv, OnlyTask, assembler, adapter, ghosts
<1>2. /\ data' = [data EXCEPT !["task"] = SubSeq(fifo, 1, take["task"])]
      /\ fifo' = SubSeq(fifo, take["task"] + 1, Len(fifo))
  BY <1>1 DEF ReadFifo
<1>3. /\ pc \in [Context -> Label] /\ Context = {"task", "irq"} /\ fifo \in Seq(Byte)
      /\ take["task"] \in Nat /\ data \in [Context -> Seq(Byte)] /\ OnlyTask
  BY DEF Solo, TypeOK, ControlTypes, LocalTypes, StreamTypes, Context, DoneInv
<1>4. data'["task"] \o fifo' = fifo
  BY <1>1, <1>2, <1>3, CutAndJoined
<1>5. data["task"] \o fifo = fifo
  BY <1>1, <1>3
<1>6. Stream' = Stream
  BY <1>4, <1>5 DEF Stream
<1>7. Held' = Held /\ pc'["task"] = "byte" /\ pc'["irq"] = pc["irq"]
  BY <1>1, <1>3 DEF Held, Unindexed
<1>8. OnlyTask'
  BY <1>1, <1>3, <1>7 DEF OnlyTask
<1> QED
  BY <1>1, <1>6, <1>7, <1>8, Unmoved DEF DoneInv

(* A byte that is stored is the next of the line, if there is room for it.  *)
LEMMA StoreIs ==
    ASSUME Solo, StoreByte("task")
    PROVE  /\ pc["task"] \in {"store", "index"} /\ ~Unindexed("task")
           /\ data["task"] # <<>>
           /\ data' = [data EXCEPT !["task"] = Tail(data["task"])]
           /\ pc' = [pc EXCEPT !["task"] = "byte"]
           /\ IF reg["task"] < RX_LINE_MAX - 1
              THEN /\ rx_line' = [rx_line EXCEPT ![reg["task"]] = Head(data["task"])]
                   /\ rx_len' = reg["task"] + 1
              ELSE rx_len' = 0 /\ rx_line' = rx_line
           /\ Held = reg["task"] /\ Held' = rx_len'
<1>1. /\ pc["task"] \in {"store", "index"} /\ ~Unindexed("task")
      /\ data' = [data EXCEPT !["task"] = Tail(data["task"])]
      /\ pc' = [pc EXCEPT !["task"] = "byte"]
      /\ IF pc["task"] = "index" \/ HasRoom(reg["task"])
         THEN /\ rx_line' = [rx_line EXCEPT ![reg["task"]] = Head(data["task"])]
              /\ rx_len' = reg["task"] + 1
         ELSE rx_len' = 0 /\ rx_line' = rx_line
  BY DEF StoreByte, At, Goto, Unindexed
<1>2. data["task"] # <<>> /\ pc \in [Context -> Label]
  BY <1>1 DEF Solo, TypeOK, StreamTypes, ControlTypes, Context
<1>3. pc["task"] = "index" \/ HasRoom(reg["task"]) <=> reg["task"] < RX_LINE_MAX - 1
  BY DEF Solo, HasRoom
<1>4. pc'["task"] = "byte"
  BY <1>1, <1>2 DEF Context
<1>5. Held = reg["task"] /\ Held' = rx_len'
  BY <1>1, <1>4 DEF Held
<1> QED
  BY <1>1, <1>2, <1>3, <1>5

(* The index is the length that is known already.                           *)
LEMMA ReloadIs ==
    ASSUME Solo, ReloadLen("task")
    PROVE  /\ Stream' = Stream /\ Held' = Held
           /\ pc["task"] = "store" /\ pc' = [pc EXCEPT !["task"] = "index"]
           /\ UNCHANGED <<data, fifo, rx_len, rx_line, matched, wire, line, clean,
                          doneSeen, action_active, uart_initialized, completions,
                          doneLines, sent, request, channel_low, channel_high,
                          channel_mode>>
<1>1. /\ Unindexed("task") /\ pc' = [pc EXCEPT !["task"] = "index"]
      /\ reg' = [reg EXCEPT !["task"] = rx_len]
      /\ UNCHANGED <<data, fifo, rx_len, rx_line, matched, wire, line, clean,
                     doneSeen, action_active, uart_initialized, completions,
                     doneLines, sent, request, channel_low, channel_high,
                     channel_mode>>
  BY DEF ReloadLen, Goto, assembler, adapter, ghosts, pins
<1>2. "task" \in Context /\ pc \in [Context -> Label] /\ reg \in [Context -> Nat]
  BY DEF Solo, TypeOK, ControlTypes, AssemblerTypes, Context
<1>3. pc["task"] = "store" /\ pc'["task"] = "index" /\ reg'["task"] = rx_len
  BY <1>1, <1>2 DEF Unindexed
<1>4. Held = rx_len /\ Held' = rx_len
  BY <1>1, <1>3 DEF Held, Unindexed
<1> QED
  BY <1>1, <1>3, <1>4 DEF Stream

LEMMA ReloadKeeps ==
    ASSUME Solo, DoneInv, ReloadLen("task")
    PROVE  DoneInv'
<1>1. /\ pc \in [Context -> Label] /\ Context = {"task", "irq"} /\ OnlyTask
  BY DEF Solo, TypeOK, ControlTypes, Context, DoneInv
<1>2. OnlyTask'
  BY <1>1, ReloadIs DEF OnlyTask
<1> QED
  BY <1>2, ReloadIs, Unmoved DEF DoneInv

LEMMA LoadKeeps ==
    ASSUME Solo, DoneInv, LoadLen("task")
    PROVE  DoneInv'
<1>1. /\ pc["task"] = "byte" /\ pc' = [pc EXCEPT !["task"] = "store"]
      /\ Head(data["task"]) \notin {CR, LF} /\ reg' = [reg EXCEPT !["task"] = rx_len]
      /\ UNCHANGED <<data, fifo, rx_len, rx_line, matched, wire, line, clean, doneSeen,
                     action_active, uart_initialized>>
  BY DEF LoadLen, At, Goto, assembler, adapter, ghosts
<1>2. /\ pc \in [Context -> Label] /\ Context = {"task", "irq"}
      /\ reg \in [Context -> 0..(RX_LINE_MAX - 1)] /\ OnlyTask
  BY DEF Solo, TypeOK, ControlTypes, AssemblerTypes, Context, DoneInv
<1>3. pc'["task"] = "store" /\ pc'["irq"] = pc["irq"] /\ reg'["task"] = rx_len
  BY <1>1, <1>2
<1>4. Stream' = Stream /\ Held' = Held
  BY <1>1, <1>3 DEF Stream, Held, Unindexed
<1>5. OnlyTask'
  BY <1>1, <1>2, <1>3 DEF OnlyTask
<1> QED
  BY <1>1, <1>4, <1>5, Unmoved DEF DoneInv

LEMMA FinishKeeps ==
    ASSUME Solo, DoneInv, FinishLine("task")
    PROVE  DoneInv'
<1>1. /\ pc["task"] = "finish" /\ pc' = [pc EXCEPT !["task"] = "byte"]
      /\ rx_len' = 0 /\ matched' = [matched EXCEPT !["task"] = FALSE]
      /\ IF matched["task"] THEN action_active' = 0
                            ELSE action_active' = action_active
      /\ UNCHANGED <<data, fifo, reg, rx_line, wire, line, clean, doneSeen,
                     uart_initialized>>
  BY DEF FinishLine, At, Goto, adapter
<1>2. /\ pc \in [Context -> Label] /\ Context = {"task", "irq"}
      /\ matched \in [Context -> BOOLEAN]
  BY DEF Solo, TypeOK, ControlTypes, LocalTypes, Context
<1>3. pc'["task"] = "byte" /\ pc'["irq"] = pc["irq"] /\ ~matched'["task"]
  BY <1>1, <1>2
<1>4. Stream' = Stream /\ Held' = 0 /\ Held = 0
  BY <1>1, <1>3 DEF Stream, Held, Unindexed
<1>5. OnlyTask'
  BY <1>1, <1>3 DEF OnlyTask, DoneInv
<1>6. OnWire' /\ Coming' /\ Ready'
  BY <1>1, <1>4 DEF DoneInv, OnWire, Coming, Ready
<1>7. Came'
  BY <1>1, <1>4 DEF DoneInv, Came
<1> QED
  BY <1>5, <1>6, <1>7 DEF DoneInv

-----------------------------------------------------------------------------
(* The first byte of the stream is taken.                                   *)
Took ==
    /\ Stream # <<>> /\ Stream' = Tail(Stream)
    /\ UNCHANGED <<wire, line, clean, doneSeen, action_active>>

LEMMA TookIs ==
    ASSUME Solo, data["task"] # <<>>, data' = [data EXCEPT !["task"] = Tail(data["task"])],
           UNCHANGED <<fifo, wire, line, clean, doneSeen, action_active>>
    PROVE  Took /\ Stream[1] = Head(data["task"])
<1>1. data["task"] \in Seq(Byte) /\ fifo \in Seq(Byte)
  BY StreamTyped
<1>2. data'["task"] = Tail(data["task"])
  BY DEF Solo, TypeOK, StreamTypes, Context
<1> QED
  BY <1>1, <1>2, TailOfBoth DEF Took, Stream

(* What has to be shown of a byte: what is placed stays so, or matches.     *)
LEMMA TookKeeps ==
    ASSUME Solo, DoneInv, Took, ~matched["task"],
           \A L \in DoneLines : \A n \in 1..Len(L) : \A i \in Int :
               -i < n /\ Placed(Stream, Held, rx_line, L, n, i)
                   => \/ Placed(Tail(Stream), Held', rx_line', L, n, i - 1)
                      \/ n = Len(L) /\ matched'["task"],
           Stream[1] = LF => Held' = 0
    PROVE  OnWire' /\ Coming' /\ Came' /\ Ready'
<1>1. /\ Stream \in Seq(Byte) /\ Stream # <<>> /\ Len(Stream) \in Nat \ {0}
      /\ Len(Tail(Stream)) = Len(Stream) - 1 /\ Stream' = Tail(Stream)
      /\ \A i \in 1..(Len(Stream) - 1) : Tail(Stream)[i] = Stream[i + 1]
  BY StreamTyped, TailIs DEF Took
<1>2. OnWire /\ OnWire'
  BY DEF DoneInv, OnWire, Took
<1>3. Coming'
  <2> SUFFICES ASSUME clean, wire # <<>>, IsDone(line)
               PROVE  Placed(Tail(Stream), Held', rx_line', line, Len(line) - Len(wire),
                             Len(Tail(Stream)) - (Len(line) - Len(wire)))
    BY <1>1 DEF Coming, Took
  <2> DEFINE n == Len(line) - Len(wire)
             i == Len(Stream) - n
  <2>1. line \in DoneLines /\ Len(line) \in Nat /\ Len(wire) \in Nat \ {0}
        /\ Len(wire) < Len(line)
    BY IsDoneIs, StreamTyped, <1>2 DEF OnWire
  <2>2. n \in 1..Len(line) /\ n # Len(line) /\ i \in Int /\ -i < n
        /\ Len(Tail(Stream)) - n = i - 1
    BY <2>1, <1>1
  <2>3. Placed(Stream, Held, rx_line, line, n, i)
    BY DEF DoneInv, Coming
  <2> HIDE DEF n, i
  <2>4. Placed(Tail(Stream), Held', rx_line', line, n, i - 1)
    BY <2>1, <2>2, <2>3
  <2> QED
    BY <2>2, <2>4 DEF n
<1>4. Came'
  <2> SUFFICES ASSUME doneSeen, action_active = 1, ~matched'["task"]
               PROVE  \E L \in DoneLines, i \in Int :
                   -i < Len(L) /\ Placed(Tail(Stream), Held', rx_line', L, Len(L), i)
    BY <1>1 DEF Came, Took
  <2>1. PICK L \in DoneLines, i \in Int :
            -i < Len(L) /\ Placed(Stream, Held, rx_line, L, Len(L), i)
    BY DEF DoneInv, Came
  <2>2. Len(L) \in 1..Len(L) /\ Len(L) \in Nat
    BY DoneLine, Done
  <2>3. Placed(Tail(Stream), Held', rx_line', L, Len(L), i - 1)
    BY <2>1, <2>2
  <2>4. i + Len(L) <= Len(Stream) /\ (i - 1) + Len(L) <= Len(Tail(Stream))
        /\ i - 1 \in Int
    BY <1>1, <2>1, <2>2 DEF Placed
  <2>5. -(i - 1) < Len(L) \/ -(i - 1) = Len(L)
    BY <2>1, <2>2
  <2>6. -(i - 1) # Len(L)
    <3> SUFFICES ASSUME -(i - 1) = Len(L) PROVE FALSE
      OBVIOUS
    <3>1. i <= 0 /\ 1 - i = Len(L)
      BY <2>2, DoneLine, Done
    <3>2. Stream[1] = L[Len(L)]
      BY <1>1, <2>1, <2>2, <3>1, FirstByte
    <3>3. Stream[1] = LF
      BY <3>2, DoneLine
    <3>4. Held' = 0
      BY <3>3
    <3>5. Held' = (IF -(i - 1) <= Width THEN -(i - 1) ELSE Width)
      BY <2>3, <2>4, <3>1 DEF Placed
    <3>6. Width > 0 /\ Len(L) > 0 /\ Width \in Nat
      BY Done, DoneLine
    <3> QED
      BY <3>4, <3>5, <3>6
  <2> QED
    BY <2>3, <2>4, <2>5, <2>6
<1>5. Ready'
  <2> SUFFICES ASSUME clean, wire = <<>> PROVE AtLineEnd(Tail(Stream), Held')
    BY <1>1 DEF Ready, Took
  <2>1. Stream[Len(Stream)] = LF
    BY <1>1 DEF DoneInv, Ready, AtLineEnd
  <2>2. CASE Len(Stream) = 1
    <3>1. Tail(Stream) = <<>>
      BY <1>1, <2>2
    <3> QED
      BY <2>1, <2>2, <3>1 DEF AtLineEnd
  <2>3. CASE Len(Stream) # 1
    <3>1. Tail(Stream)[Len(Stream) - 1] = Stream[Len(Stream)] /\ Len(Tail(Stream)) # 0
      BY <1>1, <2>3
    <3> DEFINE t == Tail(Stream)
    <3>2. t # <<>> /\ t[Len(t)] = LF
      <4>1. t # <<>>
        <5>1. Len(<<>>) = 0
          OBVIOUS
        <5>2. Len(t) # 0
          BY <3>1
        <5> HIDE DEF t
        <5> QED
          BY <5>1, <5>2
      <4> QED
        BY <1>1, <2>1, <3>1, <4>1
    <3> HIDE DEF t
    <3>3. AtLineEnd(t, Held')
      BY <3>2 DEF AtLineEnd
    <3> QED
      BY <3>3 DEF t
  <2> QED
    BY <2>2, <2>3
<1> QED
  BY <1>2, <1>3, <1>4, <1>5

LEMMA SkipKeeps ==
    ASSUME Solo, DoneInv, SkipCR("task")
    PROVE  DoneInv'
<1>1. /\ pc["task"] = "byte" /\ data["task"] # <<>> /\ Head(data["task"]) = CR
      /\ data' = [data EXCEPT !["task"] = Tail(data["task"])]
      /\ UNCHANGED <<pc, reg, fifo, rx_len, rx_line, matched, wire, line, clean, doneSeen,
                     action_active, uart_initialized, take>>
  BY DEF SkipCR, At, assembler, adapter, ghosts
<1>2. Took /\ Stream[1] = CR
  BY <1>1, TookIs
<1>3. Held' = Held /\ ~matched["task"]
  BY <1>1 DEF Held, Unindexed, DoneInv, OnlyTask
<1>4. Stream \in Seq(Byte) /\ Stream # <<>> /\ CR # LF
  BY <1>2, StreamTyped, Done DEF Took
<1>5. \A L \in DoneLines : \A n \in 1..Len(L) : \A i \in Int :
          -i < n /\ Placed(Stream, Held, rx_line, L, n, i)
              => Placed(Tail(Stream), Held', rx_line', L, n, i - 1)
  BY <1>1, <1>2, <1>3, <1>4, PlacedSkipsCR
<1>6. OnWire' /\ Coming' /\ Came' /\ Ready'
  BY <1>2, <1>3, <1>4, <1>5, TookKeeps
<1>7. OnlyTask'
  BY <1>1 DEF DoneInv, OnlyTask
<1> QED
  BY <1>6, <1>7 DEF DoneInv

LEMMA CompareKeeps ==
    ASSUME Solo, DoneInv, CompareLine("task")
    PROVE  DoneInv'
<1>1. /\ pc["task"] = "byte" /\ data["task"] # <<>> /\ Head(data["task"]) = LF
      /\ data' = [data EXCEPT !["task"] = Tail(data["task"])]
      /\ rx_line' = [rx_line EXCEPT ![rx_len] = NUL]
      /\ matched' = [matched EXCEPT !["task"] = IsDoneLine(rx_line')]
      /\ pc' = [pc EXCEPT !["task"] = "finish"]
      /\ UNCHANGED <<reg, fifo, rx_len, wire, line, clean, doneSeen,
                     action_active, uart_initialized, take>>
  BY DEF CompareLine, At, Goto, adapter, ghosts
<1>2. Took /\ Stream[1] = LF
  BY <1>1, TookIs
<1>3. /\ pc \in [Context -> Label] /\ Context = {"task", "irq"}
      /\ matched \in [Context -> BOOLEAN]
      /\ rx_line \in [0..(RX_LINE_MAX - 1) -> Byte] /\ rx_len \in 0..(RX_LINE_MAX - 1)
  BY DEF Solo, TypeOK, ControlTypes, LocalTypes, AssemblerTypes, Context
<1>4. /\ pc'["task"] = "finish" /\ pc'["irq"] = pc["irq"]
      /\ matched'["task"] = IsDoneLine(rx_line') /\ ~matched["task"]
  BY <1>1, <1>3 DEF DoneInv, OnlyTask
<1>5. Held' = 0 /\ Held = rx_len
  BY <1>1, <1>4 DEF Held, Unindexed
<1>6. Stream \in Seq(Byte) /\ Stream # <<>>
  BY <1>2, StreamTyped DEF Took
<1>7. ASSUME NEW L \in DoneLines, NEW n \in 1..Len(L), NEW i \in Int, -i < n,
             Placed(Stream, Held, rx_line, L, n, i)
      PROVE  \/ Placed(Tail(Stream), Held', rx_line', L, n, i - 1)
             \/ n = Len(L) /\ matched'["task"]
  <2>1. CASE i > 0
    BY <2>1, <1>2, <1>5, <1>6, <1>7, PlacedEnds
  <2>2. CASE i <= 0
    <3>1. n = Len(L) /\ IsDoneLine([rx_line EXCEPT ![rx_len] = NUL])
      BY <2>2, <1>2, <1>3, <1>5, <1>6, <1>7, PlacedMatches
    <3> QED
      BY <3>1, <1>1, <1>4
  <2> QED
    BY <2>1, <2>2
<1>8. OnWire' /\ Coming' /\ Came' /\ Ready'
  BY <1>2, <1>4, <1>5, <1>7, TookKeeps
<1>9. OnlyTask'
  BY <1>1, <1>3, <1>4 DEF DoneInv, OnlyTask
<1> QED
  BY <1>8, <1>9 DEF DoneInv

LEMMA StoreKeeps ==
    ASSUME Solo, DoneInv, StoreByte("task")
    PROVE  DoneInv'
<1>1. /\ pc["task"] \in {"store", "index"}
      /\ data' = [data EXCEPT !["task"] = Tail(data["task"])]
      /\ pc' = [pc EXCEPT !["task"] = "byte"]
      /\ IF reg["task"] < RX_LINE_MAX - 1
         THEN /\ rx_line' = [rx_line EXCEPT ![reg["task"]] = Head(data["task"])]
              /\ rx_len' = reg["task"] + 1
         ELSE rx_len' = 0 /\ rx_line' = rx_line
      /\ UNCHANGED <<fifo, matched, wire, line, clean, doneSeen,
                     action_active, uart_initialized, take>>
  BY StoreIs DEF StoreByte, adapter, ghosts
<1>2. /\ pc \in [Context -> Label] /\ Context = {"task", "irq"}
      /\ rx_line \in [0..(RX_LINE_MAX - 1) -> Byte]
      /\ reg["task"] \in 0..(RX_LINE_MAX - 1)
      /\ data["task"] # <<>> /\ Head(data["task"]) \notin {CR, LF}
      /\ ~matched["task"]
  BY <1>1 DEF Solo, TypeOK, ControlTypes, AssemblerTypes, StreamTypes, Context, DoneInv, OnlyTask
<1>3. Took /\ Stream[1] = Head(data["task"])
  BY <1>1, <1>2, TookIs
<1>4. pc'["task"] = "byte" /\ pc'["irq"] = pc["irq"]
  BY <1>1, <1>2
<1>5. Held = reg["task"] /\ Held' = rx_len'
  BY StoreIs
<1>6. Stream \in Seq(Byte) /\ Stream # <<>> /\ Stream[1] # CR /\ Stream[1] # LF
  BY <1>2, <1>3, StreamTyped DEF Took
<1>7. Held < RX_LINE_MAX - 1 => /\ Held' = Held + 1
                                /\ rx_line' = [rx_line EXCEPT ![Held] = Stream[1]]
  BY <1>1, <1>3, <1>5
<1>8. \A L \in DoneLines : \A n \in 1..Len(L) : \A i \in Int :
          -i < n /\ Placed(Stream, Held, rx_line, L, n, i)
              => Placed(Tail(Stream), Held', rx_line', L, n, i - 1)
  BY <1>2, <1>5, <1>6, <1>7, PlacedStored
<1>9. OnWire' /\ Coming' /\ Came' /\ Ready'
  BY <1>2, <1>3, <1>6, <1>8, TookKeeps
<1>10. OnlyTask'
  BY <1>1, <1>2, <1>4 DEF DoneInv, OnlyTask
<1> QED
  BY <1>9, <1>10 DEF DoneInv

-----------------------------------------------------------------------------
(* A byte of a line: dropped, or the next of the stream.                    *)
LEMMA ReceiveKeeps ==
    ASSUME Solo, DoneInv, NEW b \in Byte, NEW rest \in Seq(Byte), NEW l \in Lines,
           Receive(b, rest, l), line' = IF rest = <<>> THEN <<>> ELSE l,
           pc["task"] # "boot",
           Len(rest) < Len(l), b = l[Len(l) - Len(rest)],
           \A j \in 1..Len(rest) : rest[j] = l[Len(l) - Len(rest) + j],
           IF wire = <<>> THEN Len(rest) = Len(l) - 1
                          ELSE l = line /\ Len(rest) = Len(wire) - 1
    PROVE  DoneInv'
<1>1. /\ wire' = rest
      /\ IF Len(fifo) < FIFO_MAX
         THEN /\ fifo' = Append(fifo, b) /\ clean' = (clean \/ b = LF)
              /\ doneSeen' = (doneSeen \/ (b = LF /\ clean /\ IsDone(l)))
         ELSE clean' = FALSE /\ fifo' = fifo /\ doneSeen' = doneSeen
      /\ UNCHANGED <<action_active, uart_initialized, rx_len, rx_line, pc, take, data, reg,
                     matched>>
  BY DEF Receive, assembler, locals
<1>2. /\ l \in Seq(Byte) /\ Len(l) \in Nat \ {0} /\ Len(rest) \in Nat
      /\ l[Len(l)] = LF /\ wire \in Seq(Byte) /\ Len(wire) \in Nat
      /\ Stream \in Seq(Byte) /\ data["task"] \in Seq(Byte) /\ fifo \in Seq(Byte)
      /\ Len(fifo) \in Nat /\ Len(Stream) \in Nat
      /\ clean \in BOOLEAN /\ doneSeen \in BOOLEAN
  <2>1. l \in Seq(Byte) /\ l # <<>> /\ l[Len(l)] = LF
    BY BytesAssumption, LinesAssumption
  <2>2. Len(l) \in Nat \ {0} /\ Len(rest) \in Nat
    BY <2>1
  <2>3. /\ Stream \in Seq(Byte) /\ data["task"] \in Seq(Byte) /\ fifo \in Seq(Byte)
        /\ wire \in Seq(Byte)
    BY StreamTyped
  <2>4. Len(wire) \in Nat /\ Len(fifo) \in Nat /\ Len(Stream) \in Nat
    BY <2>3
  <2>5. clean \in BOOLEAN /\ doneSeen \in BOOLEAN
    BY StreamTyped
  <2> QED
    BY <2>1, <2>2, <2>3, <2>4, <2>5
<1>3. Held' = Held
  BY <1>1 DEF Held, Unindexed
<1>4. OnlyTask'
  <2>1. take["task"] <= Len(fifo) => take["task"] <= Len(fifo')
    <3>1. take["task"] \in Nat
      BY DEF Solo, TypeOK, LocalTypes, Context
    <3>2. Len(fifo') = Len(fifo) + 1 \/ Len(fifo') = Len(fifo)
      BY <1>1, <1>2
    <3> QED
      BY <3>1, <3>2, <1>2
  <2> QED
    BY <1>1, <2>1 DEF DoneInv, OnlyTask
<1>5. OnWire'
  BY <1>1, <1>2 DEF OnWire
<1>6. CASE ~(Len(fifo) < FIFO_MAX)
  <2>1. Stream' = Stream
    BY <1>1, <1>6 DEF Stream
  <2>2. Coming' /\ Ready' /\ Came'
    BY <1>1, <1>3, <1>6, <2>1 DEF DoneInv, Coming, Ready, Came
  <2> QED
    BY <1>4, <1>5, <2>2 DEF DoneInv
<1>7. CASE Len(fifo) < FIFO_MAX
  <2>1. Stream' = Append(Stream, b)
    <3>1. data["task"] \o Append(fifo, b) = Append(data["task"] \o fifo, b)
      <4>1. <<b>> \in Seq(Byte) /\ data["task"] \o fifo \in Seq(Byte)
        BY <1>2
      <4> DEFINE d == data["task"]
                 u == <<b>>
      <4>2. d \in Seq(Byte) /\ fifo \in Seq(Byte) /\ u \in Seq(Byte)
        BY <1>2, <4>1
      <4> HIDE DEF d, u
      <4>3. (d \o fifo) \o u = d \o (fifo \o u)
        BY ONLY <4>2, ConcatAssociative
      <4> QED
        BY <1>2, <4>1, <4>3, AppendIsConcat DEF d, u
    <3> QED
      BY <1>1, <1>7, <3>1 DEF Stream
  <2> DEFINE n == Len(l) - Len(rest)
  <2>2. n \in 1..Len(l) /\ n \in Nat /\ b = l[n]
    BY <1>2
  <2>3. ASSUME clean, IsDone(l)
        PROVE  Placed(Append(Stream, b), Held, rx_line, l, n, Len(Stream) + 1 - n)
    <3>1. CASE wire = <<>>
      <4>0. Len(rest) = Len(l) - 1
        BY <3>1
      <4>1. n = 1 /\ Len(Stream) + 1 - n = Len(Stream)
        BY <1>2, <4>0
      <4>2. AtLineEnd(Stream, Held)
        BY <2>3, <3>1 DEF DoneInv, Ready
      <4>3. l[1] = b
        BY <2>2, <4>1
      <4>4. Placed(Append(Stream, b), Held, rx_line, l, 1, Len(Stream))
        BY <1>2, <4>2, <4>3, PlacedBegins
      <4> QED
        BY <4>1, <4>4
    <3>2. CASE wire # <<>>
      <4>1. l = line /\ Len(wire) = Len(rest) + 1
        BY <1>2, <3>2
      <4>2. Placed(Stream, Held, rx_line, line, Len(line) - Len(wire),
                   Len(Stream) - (Len(line) - Len(wire)))
        BY <2>3, <3>2, <4>1 DEF DoneInv, Coming
      <4> DEFINE p == Len(l) - Len(wire)
      <4>3. p \in Nat /\ p + 1 = n /\ Len(Stream) - p = Len(Stream) + 1 - n
        BY <1>2, <2>2, <4>1 DEF DoneInv, OnWire
      <4>4. Placed(Stream, Held, rx_line, l, p, Len(Stream) - p)
        BY <4>1, <4>2
      <4> HIDE DEF p, n
      <4>5. l[p + 1] = b
        BY <2>2, <4>3
      <4>6. Placed(Append(Stream, b), Held, rx_line, l, p + 1, Len(Stream) - p)
        BY <1>2, <4>3, <4>4, <4>5, PlacedGrows
      <4> QED
        BY <4>3, <4>6
    <3> QED
      BY <3>1, <3>2
  <2>4. Len(Append(Stream, b)) = Len(Stream) + 1 /\ Append(Stream, b)[Len(Stream) + 1] = b
    BY <1>2
  <2>5. IsDone(l) => \A i \in 1..Len(l) : l[i] = LF => i = Len(l)
    BY IsDoneIs, DoneLine
  <2>6. Coming'
    <3> SUFFICES ASSUME clean', rest # <<>>, IsDone(l)
                 PROVE  Placed(Append(Stream, b), Held, rx_line, l, Len(l) - Len(rest),
                               Len(Append(Stream, b)) - (Len(l) - Len(rest)))
      BY <1>1, <1>3, <2>1 DEF Coming
    <3>1. Len(rest) # 0
      BY <1>2
    <3>2. n # Len(l)
      BY <1>2, <3>1
    <3>3. b # LF
      BY <2>2, <2>5, <3>2
    <3>4. clean
      BY <1>1, <1>7, <3>3
    <3> QED
      BY <2>3, <2>4, <3>4
  <2>7. Came'
    <3> SUFFICES ASSUME doneSeen', action_active = 1, ~matched["task"]
                 PROVE  \E L \in DoneLines, i \in Int : -i < Len(L)
                            /\ Placed(Append(Stream, b), Held, rx_line, L, Len(L), i)
      BY <1>1, <1>3, <2>1 DEF Came
    <3>1. CASE doneSeen
      <4>1. PICK L \in DoneLines, i \in Int :
                -i < Len(L) /\ Placed(Stream, Held, rx_line, L, Len(L), i)
        BY <3>1 DEF DoneInv, Came
      <4>2. Len(L) \in Nat
        BY DoneLine
      <4>3. Placed(Append(Stream, b), Held, rx_line, L, Len(L), i)
        BY <1>2, <4>1, <4>2, PlacedStays
      <4> QED
        BY <4>1, <4>3
    <3>2. CASE ~doneSeen
      <4>1. b = LF /\ clean /\ IsDone(l) /\ l \in DoneLines
        BY <1>1, <1>7, <3>2, IsDoneIs
      <4>2. n = Len(l)
        BY <2>2, <2>5, <4>1
      <4>3. Placed(Append(Stream, b), Held, rx_line, l, Len(l), Len(Stream) + 1 - Len(l))
        BY <2>3, <4>1, <4>2
      <4>4. -(Len(Stream) + 1 - Len(l)) < Len(l) /\ Len(Stream) + 1 - Len(l) \in Int
        BY <1>2
      <4> QED
        BY <4>1, <4>3, <4>4
    <3> QED
      BY <3>1, <3>2
  <2>8. Ready'
    <3> SUFFICES ASSUME rest = <<>> PROVE AtLineEnd(Append(Stream, b), Held)
      BY <1>1, <1>3, <2>1 DEF Ready
    <3>1. b = LF
      BY <1>2, <2>2
    <3>2. Append(Stream, b) # <<>>
      BY <1>2, <2>4
    <3> QED
      BY <2>4, <3>1, <3>2 DEF AtLineEnd
  <2> QED
    BY <1>4, <1>5, <2>6, <2>7, <2>8 DEF DoneInv
<1> QED
  BY <1>6, <1>7

LEMMA AdapterKeeps ==
    ASSUME Solo, DoneInv, BeginLine \/ NextWireByte
    PROVE  DoneInv'
<1>1. Solo /\ wire \in Seq(Byte) /\ line \in Seq(Byte)
  BY StreamTyped
<1>2. CASE BeginLine
  <2>1. PICK l \in Lines :
            /\ l # <<>> /\ line' = IF Tail(l) = <<>> THEN <<>> ELSE l
            /\ Receive(Head(l), Tail(l), l)
    BY <1>2 DEF BeginLine
  <2>2. wire = <<>> /\ uart_initialized = 1
    BY <1>2 DEF BeginLine
  <2>3. l \in Seq(Byte)
    BY BytesAssumption
  <2>4. /\ Tail(l) \in Seq(Byte) /\ Len(Tail(l)) = Len(l) - 1 /\ Len(l) \in Nat \ {0}
        /\ \A i \in 1..(Len(l) - 1) : Tail(l)[i] = l[i + 1]
        /\ Head(l) = l[1] /\ l[1] \in Byte
    BY <2>1, <2>3, TailIs
  <2> DEFINE rest == Tail(l)
  <2>5. Len(rest) < Len(l) /\ Head(l) = l[Len(l) - Len(rest)]
    BY <2>4
  <2>6. \A j \in 1..Len(rest) : rest[j] = l[Len(l) - Len(rest) + j]
    BY <2>4
  <2>7. pc["task"] # "boot"
    BY <2>2 DEF DoneInv, OnlyTask
  <2> QED
    BY <1>1, <2>1, <2>2, <2>4, <2>5, <2>6, <2>7, ReceiveKeeps
<1>3. CASE NextWireByte
  <2>1. /\ wire # <<>> /\ Receive(Head(wire), Tail(wire), line)
        /\ line' = IF Tail(wire) = <<>> THEN <<>> ELSE line
    BY <1>3 DEF NextWireByte
  <2>2. /\ line \in Lines /\ Len(wire) < Len(line)
        /\ \A j \in 1..Len(wire) : wire[j] = line[Len(line) - Len(wire) + j]
    BY <2>1 DEF DoneInv, OnWire
  <2>3. /\ Tail(wire) \in Seq(Byte) /\ Len(Tail(wire)) = Len(wire) - 1
        /\ Len(wire) \in Nat \ {0} /\ Len(line) \in Nat
        /\ \A i \in 1..(Len(wire) - 1) : Tail(wire)[i] = wire[i + 1]
        /\ Head(wire) = wire[1] /\ wire[1] \in Byte
    BY <1>1, <2>1, TailIs
  <2> DEFINE rest == Tail(wire)
  <2>4. Len(rest) < Len(line) /\ Head(wire) = line[Len(line) - Len(rest)]
    BY <2>2, <2>3
  <2>5. ASSUME NEW j \in 1..Len(rest) PROVE rest[j] = line[Len(line) - Len(rest) + j]
    <3>1. j \in 1..(Len(wire) - 1) /\ j + 1 \in 1..Len(wire)
          /\ Len(line) - Len(wire) + (j + 1) = Len(line) - Len(rest) + j
      BY <2>3
    <3> QED
      BY <2>2, <2>3, <3>1
  <2>6. pc["task"] # "boot"
    BY <2>1 DEF DoneInv, OnlyTask
  <2> QED
    BY <1>1, <2>1, <2>2, <2>3, <2>4, <2>5, <2>6, ReceiveKeeps
<1> QED
  BY <1>2, <1>3

-----------------------------------------------------------------------------
LEMMA DoneInvInit == Init => DoneInv
<1> SUFFICES ASSUME Init PROVE DoneInv
  OBVIOUS
<1>1. /\ pc["task"] = "boot" /\ pc["irq"] = "idle" /\ fifo = <<>> /\ wire = <<>>
      /\ uart_initialized = 0 /\ data["task"] = <<>> /\ ~matched["task"]
      /\ rx_len = 0 /\ ~doneSeen
  BY DEF Init, Context
<1>2. Stream = <<>> /\ Held = 0
  BY <1>1 DEF Stream, Held, Unindexed
<1> QED
  BY <1>1, <1>2 DEF DoneInv, OnlyTask, OnWire, Coming, Came, Ready, AtLineEnd

LEMMA DoneInvNext == ~IrqReads /\ IInv /\ DoneInv /\ [Next]_vars => DoneInv'
<1> SUFFICES ASSUME ~IrqReads, IInv, DoneInv, [Next]_vars PROVE DoneInv'
  OBVIOUS
<1>1. Solo
  BY SoloIs
<1> QED
  BY <1>1, QuietKeeps, StartKeeps, ReadKeeps, SkipKeeps, CompareKeeps, FinishKeeps,
     LoadKeeps, ReloadKeeps, StoreKeeps, AdapterKeeps

(* As long as only the task polls, a DONE that came in whole since the last *)
(* start has ended the action when the driver has caught up with its FIFO,  *)
(* however the line was cut into reads and whatever lines, bytes dropped by *)
(* the FIFO, lines too long for the buffer and starts came before it.       *)
THEOREM EveryDoneCounts ==
    ASSUME ~IrqReads
    PROVE  Spec => []DoneConverges
<1>1. IInv /\ DoneInv => DoneConverges
  <2> SUFFICES ASSUME IInv, DoneInv, doneSeen, fifo = <<>>,
                      \A c \in Context : pc[c] = "idle"
               PROVE  action_active = 0
    BY DEF DoneConverges
  <2>1. Solo /\ pc["task"] = "idle"
    BY SoloIs DEF Context
  <2>2. data["task"] = <<>> /\ ~matched["task"]
    BY <2>1 DEF DoneInv, OnlyTask
  <2>3. Stream = <<>> /\ Len(Stream) = 0
    BY <2>2 DEF Stream
  <2>4. ASSUME NEW L \in DoneLines, NEW i \in Int, -i < Len(L),
               Placed(Stream, Held, rx_line, L, Len(L), i)
        PROVE  FALSE
    <3>1. i + Len(L) <= 0 /\ Len(L) \in Nat
      BY <2>3, <2>4, DoneLine, Done DEF Placed
    <3> QED
      BY <3>1, <2>4
  <2>5. action_active # 1
    BY <2>2, <2>4 DEF DoneInv, Came
  <2> QED
    BY <2>1, <2>5, StreamTyped
<1>2. IInv /\ DoneInv /\ [Next]_vars => DoneInv'
  BY DoneInvNext
<1> QED
  BY <1>1, <1>2, DoneInvInit, Invariance, PTL DEF Spec

-----------------------------------------------------------------------------
(* How often the byte b is in a sequence, and in the first k bytes of a     *)
(* line buffer.                                                             *)
Marks(s, b) == Cardinality({i \in 1..Len(s) : s[i] = b})
Kept(k, buf, b) == Cardinality({j \in 0..(k - 1) : buf[j] = b})

LEMMA Shifted ==
    ASSUME NEW S \in SUBSET Int, IsFiniteSet(S), NEW T \in SUBSET Int,
           \A i \in S : i + 1 \in T, \A j \in T : j - 1 \in S
    PROVE  IsFiniteSet(T) /\ Cardinality(T) = Cardinality(S)
<1> DEFINE f == [i \in S |-> i + 1]
<1>1. f \in [S -> T]
  OBVIOUS
<1>2. \A i, j \in S : f[i] = f[j] => i = j
  OBVIOUS
<1>3. \A j \in T : \E i \in S : f[i] = j
  <2> TAKE j \in T
  <2>1. j - 1 \in S /\ f[j - 1] = j
    OBVIOUS
  <2> QED
    BY <2>1
<1> HIDE DEF f
<1>4. f \in Bijection(S, T)
  BY <1>1, <1>2, <1>3 DEF Bijection, Injection, Surjection, IsInjective
<1>5. ExistsBijection(S, T)
  BY <1>4 DEF ExistsBijection
<1> QED
  BY <1>5, FS_Bijection

LEMMA MarksFinite ==
    ASSUME NEW s \in Seq(Byte), NEW b
    PROVE  IsFiniteSet({i \in 1..Len(s) : s[i] = b}) /\ Marks(s, b) \in Nat
<1>1. Len(s) \in Nat
  OBVIOUS
<1>2. IsFiniteSet(1..Len(s))
  BY <1>1, FS_Interval
<1>3. IsFiniteSet({i \in 1..Len(s) : s[i] = b})
  BY <1>2, FS_Subset
<1> QED
  BY <1>3, FS_CardinalityType DEF Marks

LEMMA MarksNone ==
    ASSUME NEW s \in Seq(Byte), NEW b, \A i \in 1..Len(s) : s[i] # b
    PROVE  Marks(s, b) = 0
<1>1. {i \in 1..Len(s) : s[i] = b} = {}
  OBVIOUS
<1> QED
  BY <1>1, FS_EmptySet DEF Marks

LEMMA MarksAppend ==
    ASSUME NEW s \in Seq(Byte), NEW b, NEW x \in Byte
    PROVE  Marks(Append(s, x), b) = Marks(s, b) + (IF x = b THEN 1 ELSE 0)
<1> DEFINE n == Len(s)
           A == {i \in 1..Len(s) : s[i] = b}
           B == {i \in 1..Len(Append(s, x)) : Append(s, x)[i] = b}
<1>1. /\ n \in Nat /\ Len(Append(s, x)) = n + 1 /\ Append(s, x)[n + 1] = x
      /\ \A i \in 1..n : Append(s, x)[i] = s[i]
  OBVIOUS
<1>2. B = IF x = b THEN A \cup {n + 1} ELSE A
  BY <1>1
<1>3. n + 1 \notin A
  BY <1>1
<1>4. IsFiniteSet(A) /\ Cardinality(A) \in Nat
  BY MarksFinite DEF Marks
<1>5. Marks(s, b) = Cardinality(A) /\ Marks(Append(s, x), b) = Cardinality(B)
  BY DEF Marks
<1> HIDE DEF A, B, n
<1>6. CASE x = b
  BY <1>6, <1>2, <1>3, <1>4, <1>5, FS_AddElement
<1>7. CASE x # b
  BY <1>7, <1>2, <1>4, <1>5
<1> QED
  BY <1>6, <1>7

LEMMA MarksTail ==
    ASSUME NEW s \in Seq(Byte), s # <<>>, NEW b
    PROVE  Marks(s, b) = Marks(Tail(s), b) + (IF s[1] = b THEN 1 ELSE 0)
<1> DEFINE n == Len(s)
           t == Tail(s)
           A == {i \in 1..Len(t) : t[i] = b}
           B == {i \in 1..Len(s) : s[i] = b}
           T == B \ {1}
<1>1. /\ n \in Nat \ {0} /\ Len(t) = n - 1 /\ t \in Seq(Byte)
      /\ \A i \in 1..(n - 1) : t[i] = s[i + 1]
  BY TailIs
<1>2. IsFiniteSet(A) /\ IsFiniteSet(B) /\ Cardinality(A) \in Nat /\ Cardinality(B) \in Nat
  BY <1>1, MarksFinite DEF Marks
<1>3. A \in SUBSET Int /\ T \in SUBSET Int
  BY <1>1
<1>4. (\A i \in A : i + 1 \in T) /\ (\A j \in T : j - 1 \in A)
  <2> HIDE DEF t
  <2>1. \A i \in A : i + 1 \in T
    BY <1>1
  <2>2. ASSUME NEW j \in T PROVE j - 1 \in A
    <3>1. j - 1 \in 1..(n - 1) /\ (j - 1) + 1 = j /\ s[j] = b
      BY <1>1
    <3>2. t[j - 1] = b
      BY <1>1, <3>1
    <3> QED
      BY <1>1, <3>1, <3>2
  <2> QED
    BY <2>1, <2>2
<1>5. Cardinality(T) = Cardinality(A)
  <2> HIDE DEF A, T
  <2> QED
    BY <1>2, <1>3, <1>4, Shifted
<1>6. 1 \in B <=> s[1] = b
  BY <1>1
<1>7. Marks(s, b) = Cardinality(B) /\ Marks(Tail(s), b) = Cardinality(A)
  BY DEF Marks
<1> HIDE DEF A, B
<1>8. Cardinality(T) = IF 1 \in B THEN Cardinality(B) - 1 ELSE Cardinality(B)
  BY <1>2, FS_RemoveElement
<1> HIDE DEF T
<1> QED
  BY <1>2, <1>5, <1>6, <1>7, <1>8

(* The same for the line buffer.                                            *)
LEMMA KeptFinite ==
    ASSUME NEW k \in Nat, NEW buf, NEW b
    PROVE  /\ IsFiniteSet({j \in 0..(k - 1) : buf[j] = b})
           /\ Kept(k, buf, b) \in Nat
<1>1. IsFiniteSet(0..(k - 1))
  BY FS_Interval
<1>2. IsFiniteSet({j \in 0..(k - 1) : buf[j] = b})
  BY <1>1, FS_Subset
<1> QED
  BY <1>2, FS_CardinalityType DEF Kept

LEMMA KeptNone == ASSUME NEW buf, NEW b PROVE Kept(0, buf, b) = 0
<1>1. {j \in 0..(0 - 1) : buf[j] = b} = {}
  OBVIOUS
<1> QED
  BY <1>1, FS_EmptySet DEF Kept

(* A byte is stored after the first k.                                      *)
Stored(k, buf, k2, buf2) ==
    /\ k \in 0..(RX_LINE_MAX - 1) /\ k2 = k + 1
    /\ \A j \in 0..(k - 1) : buf2[j] = buf[j]

LEMMA KeptStored ==
    ASSUME NEW k, NEW buf, NEW k2, NEW buf2, Stored(k, buf, k2, buf2), NEW b
    PROVE  Kept(k2, buf2, b) = Kept(k, buf, b) + (IF buf2[k] = b THEN 1 ELSE 0)
<1> DEFINE A == {j \in 0..(k - 1) : buf[j] = b}
           B == {j \in 0..(k2 - 1) : buf2[j] = b}
<1>1. /\ RX_LINE_MAX \in Nat
      /\ k \in 0..(RX_LINE_MAX - 1) /\ k2 = k + 1
      /\ \A j \in 0..(k - 1) : buf2[j] = buf[j]
  BY Done DEF Stored
<1>2. B = IF buf2[k] = b THEN A \cup {k} ELSE A
  BY <1>1
<1>3. k \notin A
  BY <1>1
<1>4. IsFiniteSet(A) /\ Cardinality(A) \in Nat
  <2>1. k \in Nat
    BY <1>1
  <2> QED
    BY <2>1, KeptFinite DEF Kept
<1>5. Kept(k, buf, b) = Cardinality(A) /\ Kept(k2, buf2, b) = Cardinality(B)
  BY DEF Kept
<1> HIDE DEF A, B
<1>6. CASE buf2[k] = b
  <2>1. B = A \cup {k}
    BY <1>2, <1>6
  <2>2. Cardinality(B) = Cardinality(A) + 1
    BY <1>3, <1>4, <2>1, FS_AddElement
  <2> QED
    BY <1>4, <1>5, <1>6, <2>2
<1>7. CASE buf2[k] # b
  BY <1>2, <1>4, <1>5, <1>7
<1> QED
  BY <1>6, <1>7

(* strcmp finds DONE only in a line that holds as many of its bytes.        *)
LEMMA KeptMatches ==
    ASSUME NEW k \in 0..(RX_LINE_MAX - 1), NEW buf \in [0..(RX_LINE_MAX - 1) -> Byte],
           IsDoneLine([buf EXCEPT ![k] = NUL]), NEW b
    PROVE  Kept(k, buf, b) >= Marks(DONE, b)
<1> DEFINE buf2 == [buf EXCEPT ![k] = NUL]
           A == {i \in 1..Len(DONE) : DONE[i] = b}
           C == {j \in 0..(Width - 1) : buf[j] = b}
           B == {j \in 0..(k - 1) : buf[j] = b}
<1>1. /\ RX_LINE_MAX \in Nat /\ Width \in Nat \ {0} /\ Width < RX_LINE_MAX
      /\ Width = Len(DONE) /\ DONE \in Seq(Byte)
  BY Done DEF Width
<1>2. buf2[k] = NUL /\ \A j \in 0..(RX_LINE_MAX - 1) : j # k => buf2[j] = buf[j]
  BY <1>1
<1>3. \A i \in 1..Width : buf2[i - 1] = DONE[i]
  BY <1>1 DEF IsDoneLine
<1> HIDE DEF buf2
<1>4. \A i \in 1..Width : DONE[i] # NUL
  BY <1>1, LinesAssumption
<1>5. k >= Width
  <2> SUFFICES ASSUME k < Width PROVE FALSE
    BY <1>1
  <2>1. k + 1 \in 1..Width /\ (k + 1) - 1 = k
    BY <1>1
  <2> QED
    BY <1>2, <1>3, <1>4, <2>1
<1>6. \A i \in 1..Width : buf[i - 1] = DONE[i]
  <2> TAKE i \in 1..Width
  <2>1. i - 1 \in 0..(RX_LINE_MAX - 1) /\ i - 1 # k
    BY <1>1, <1>5
  <2> QED
    BY <1>2, <1>3, <2>1
<1>7. IsFiniteSet(A) /\ IsFiniteSet(B) /\ IsFiniteSet(C)
  BY <1>1, KeptFinite, MarksFinite
<1>8. Cardinality(C) = Cardinality(A)
  <2>1. A \in SUBSET Int /\ C \in SUBSET Int
    BY <1>1
  <2>2. \A j \in C : j + 1 \in A
    <3> TAKE j \in C
    <3>1. j + 1 \in 1..Width /\ (j + 1) - 1 = j /\ buf[j] = b
      BY <1>1
    <3> QED
      BY <1>1, <1>6, <3>1
  <2>3. \A i \in A : i - 1 \in C
    BY <1>1, <1>6
  <2> HIDE DEF A, C
  <2> QED
    BY <1>7, <2>1, <2>2, <2>3, Shifted
<1>9. C \in SUBSET B
  BY <1>1, <1>5
<1>10. Kept(k, buf, b) = Cardinality(B) /\ Marks(DONE, b) = Cardinality(A)
  BY DEF Kept, Marks
<1> HIDE DEF A, B, C
<1>11. Cardinality(C) <= Cardinality(B) /\ Cardinality(B) \in Nat /\ Cardinality(C) \in Nat
  BY <1>7, <1>9, FS_Subset, FS_CardinalityType
<1> QED
  BY <1>8, <1>10, <1>11

-----------------------------------------------------------------------------
(* A byte of DONE that no other line has: the adapter spends it on DONE     *)
(* lines alone, so that what is left of other lines never makes a DONE.     *)
Marking(b) ==
    /\ \E i \in 1..Len(DONE) : DONE[i] = b
    /\ \A l \in Lines : IsDone(l) \/ \A i \in 1..Len(l) : l[i] # b

(* What the marks received have been spent on, or are kept for: the actions *)
(* completed, a match not yet acted upon, the line buffer, the stream and   *)
(* the line on the wire.                                                    *)
Match(b) == IF matched["task"] THEN Marks(DONE, b) ELSE 0
Pending(b) == Kept(Held, rx_line, b) + Marks(Stream, b) + Marks(wire, b)
Paid(b) ==
    Marks(DONE, b) * completions + Match(b) + Pending(b)
        <= Marks(DONE, b) * doneLines

MarkTypes(b) ==
    /\ Marks(DONE, b) \in Nat /\ Match(b) \in Nat
    /\ Kept(Held, rx_line, b) \in Nat /\ Marks(Stream, b) \in Nat
    /\ Marks(wire, b) \in Nat /\ Pending(b) \in Nat
    /\ Held \in 0..(RX_LINE_MAX - 1)
    /\ Marks(DONE, b) * completions \in Nat
    /\ Marks(DONE, b) * doneLines \in Nat
    /\ completions \in Nat /\ doneLines \in Nat

LEMMA MarksTyped == Solo => \A a : MarkTypes(a)
<1> SUFFICES ASSUME Solo, NEW b PROVE MarkTypes(b)
  OBVIOUS
<1>1. /\ rx_len \in 0..(RX_LINE_MAX - 1) /\ reg["task"] \in 0..(RX_LINE_MAX - 1)
      /\ completions \in Nat /\ doneLines \in Nat /\ wire \in Seq(Byte)
  BY DEF Solo, TypeOK, AssemblerTypes, GhostTypes, StreamTypes, Context
<1>2. RX_LINE_MAX \in Nat /\ RX_LINE_MAX > 0 /\ DONE \in Seq(Byte)
  BY Done
<1>3. Held \in 0..(RX_LINE_MAX - 1)
  BY <1>1, <1>2 DEF Held, Unindexed
<1>4. Held \in Nat
  BY <1>2, <1>3
<1>5. Kept(Held, rx_line, b) \in Nat
  BY <1>4, KeptFinite
<1>6. Marks(Stream, b) \in Nat /\ Marks(wire, b) \in Nat /\ Marks(DONE, b) \in Nat
  BY <1>1, <1>2, StreamTyped, MarksFinite
<1>7. Match(b) \in Nat
  BY <1>6 DEF Match
<1> DEFINE d == Marks(DONE, b)
<1> HIDE DEF d
<1>8. d * completions \in Nat /\ d * doneLines \in Nat
  BY <1>1, <1>6 DEF d
<1> QED
  BY <1>1, <1>3, <1>5, <1>6, <1>7, <1>8 DEF d, MarkTypes, Pending

LEMMA MarksTypedNext == Solo' => (\A a : MarkTypes(a))'
BY MarksTyped, PTL

(* The marks of a line the adapter sends.                                   *)
LEMMA MarksOfLine ==
    ASSUME NEW b, Marking(b), NEW l \in Lines
    PROVE  Marks(l, b) = IF IsDone(l) THEN Marks(DONE, b) ELSE 0
<1>1. DONE \in Seq(Byte) /\ CR \in Byte /\ LF \in Byte /\ l \in Seq(Byte)
  BY BytesAssumption
<1>2. b # CR /\ b # LF
  BY LinesAssumption, <1>1 DEF Marking
<1>3. Marks(DONE, b) \in Nat
  BY <1>1, MarksFinite
<1>4. CASE ~IsDone(l)
  BY <1>1, <1>4, MarksNone DEF Marking
<1>5. CASE l = DONE \o <<LF>>
  <2>1. l = Append(DONE, LF)
    BY <1>1, <1>5, AppendIsConcat
  <2>2. Marks(Append(DONE, LF), b) = Marks(DONE, b) + (IF LF = b THEN 1 ELSE 0)
    BY <1>1, MarksAppend
  <2>3. Marks(l, b) = Marks(DONE, b)
    BY <1>2, <1>3, <2>1, <2>2
  <2>4. IsDone(l)
    BY <1>5 DEF IsDone
  <2> QED
    BY <2>3, <2>4
<1>6. CASE l = DONE \o <<CR, LF>>
  <2>1. l = Append(Append(DONE, CR), LF)
    <3> DEFINE a == DONE \o <<CR, LF>>
               c == Append(Append(DONE, CR), LF)
    <3>1. a \in Seq(Byte) /\ c \in Seq(Byte) /\ Len(a) = Len(c)
      BY <1>1
    <3>2. \A i \in 1..Len(a) : a[i] = c[i]
      BY <1>1
    <3>3. a = c
      <4> HIDE DEF a, c
      <4> QED
        BY <3>1, <3>2, SeqEqual
    <3> QED
      BY <1>6, <3>3
  <2>2. Append(DONE, CR) \in Seq(Byte)
    BY <1>1
  <2>3. Marks(Append(DONE, CR), b) = Marks(DONE, b)
    BY <1>1, <1>2, <1>3, MarksAppend
  <2>4. Marks(l, b) = Marks(DONE, b)
    <3> DEFINE s == Append(DONE, CR)
    <3>1. s \in Seq(Byte) /\ l = Append(s, LF) /\ Marks(s, b) = Marks(DONE, b)
      BY <2>1, <2>2, <2>3
    <3> HIDE DEF s
    <3>2. Marks(Append(s, LF), b) = Marks(s, b) + (IF LF = b THEN 1 ELSE 0)
      BY <1>1, <3>1, MarksAppend
    <3> QED
      BY <1>2, <1>3, <3>1, <3>2
  <2> QED
    BY <1>6, <2>4 DEF IsDone
<1> QED
  BY <1>4, <1>5, <1>6 DEF IsDone

(* A step that receives nothing and completes nothing keeps the account     *)
(* when it leaves no more marks behind.                                     *)
LEMMA PaidLess ==
    ASSUME Solo, Solo', NEW b, Paid(b), UNCHANGED <<completions, doneLines>>,
           Match(b)' + Pending(b)' <= Match(b) + Pending(b)
    PROVE  Paid(b)'
<1>1. /\ Match(b) \in Nat /\ Pending(b) \in Nat
      /\ Marks(DONE, b) * completions \in Nat /\ Marks(DONE, b) * doneLines \in Nat
  BY MarksTyped DEF MarkTypes
<1>2. Match(b)' \in Nat /\ Pending(b)' \in Nat
  <2>1. (\A a : MarkTypes(a))'
    BY MarksTypedNext
  <2> QED
    BY <2>1 DEF MarkTypes
<1> DEFINE p == Marks(DONE, b) * completions
           q == Marks(DONE, b) * doneLines
           m == Match(b)
           g == Pending(b)
           m2 == Match(b)'
           g2 == Pending(b)'
<1>3. p + m + g <= q
  BY DEF Paid
<1>4. Paid(b)' <=> p + m2 + g2 <= q
  BY DEF Paid
<1>5. m \in Nat /\ g \in Nat /\ m2 \in Nat /\ g2 \in Nat /\ p \in Nat /\ q \in Nat
      /\ m2 + g2 <= m + g
  BY <1>1, <1>2
<1> HIDE DEF p, q, m, g, m2, g2
<1>6. p + m2 + g2 <= q
  BY <1>3, <1>5
<1> QED
  BY <1>4, <1>6

-----------------------------------------------------------------------------
(* Steps that leave the stream and the line buffer alone.                   *)
LEMMA PaidUnmoved ==
    ASSUME Solo, Solo', NEW b, Paid(b), UNCHANGED <<completions, doneLines>>,
           Stream' = Stream, Held' = Held,
           UNCHANGED <<rx_line, wire>>, matched'["task"] = matched["task"]
    PROVE  Paid(b)'
<1>1. Match(b)' = Match(b) /\ Pending(b)' = Pending(b)
  BY DEF Match, Pending
<1>2. Match(b) \in Nat /\ Pending(b) \in Nat
  BY MarksTyped DEF MarkTypes
<1> QED
  BY <1>1, <1>2, PaidLess

LEMMA PaidWaits ==
    ASSUME IInv, DoneInv, ~IrqReads, [Next]_vars, Solo', NEW b, Paid(b),
           \A c \in Context : ~StartAction(c),
           ~ReadFifo("task"), ~SkipCR("task"), ~CompareLine("task"), ~FinishLine("task"),
           ~LoadLen("task"), ~ReloadLen("task"), ~StoreByte("task"), ~BeginLine, ~NextWireByte
    PROVE  Paid(b)'
<1>1. /\ pc \in [Context -> Label] /\ Context = {"task", "irq"}
      /\ pc["irq"] \in {"idle", "start", "send"} /\ OnlyTask /\ Solo
  BY SoloIs DEF IInv, TypeOK, ControlTypes, Context, DoneInv, OnlyTask
<1> DEFINE Same == UNCHANGED <<data, reg, fifo, rx_len, rx_line, matched, wire,
                               completions, doneLines>>
<1>2. ASSUME Same, \/ pc'["task"] = pc["task"]
                  \/ {pc["task"], pc'["task"]} \cap {"store", "index", "finish"} = {}
      PROVE  Paid(b)'
  <2>1. Stream' = Stream /\ Held' = Held
    BY <1>2 DEF Stream, Held, Unindexed
  <2> QED
    BY <1>1, <1>2, <2>1, PaidUnmoved
<1>3. CASE InitUart
  <2>1. /\ pc["task"] = "boot" /\ pc' = [pc EXCEPT !["task"] = "idle"] /\ Same
    BY <1>1, <1>3 DEF InitUart, At, Goto, OnlyTask, assembler, locals, adapter, ghosts
  <2> QED
    BY <1>1, <1>2, <2>1
<1>4. CASE BeginTaskPoll
  <2>1. pc["task"] = "idle" /\ pc' = [pc EXCEPT !["task"] = "led"] /\ Same
    BY <1>4 DEF BeginTaskPoll, BeginPoll, At, Goto, assembler, adapter, ghosts
  <2> QED
    BY <1>1, <1>2, <2>1
<1>5. ~BeginIrqPoll
  BY DEF BeginIrqPoll, BeginPoll
<1>6. ASSUME NEW c \in Context, BeginWrite(c) PROVE Paid(b)'
  <2>1. PICK p \in DrivenPins, bit \in Bit : Write(c, p, bit)
    BY <1>6 DEF BeginWrite
  <2>2. pc[c] = "idle" /\ Same
    BY <2>1 DEF Write, At, assembler, locals, adapter, ghosts
  <2>3. pc' = [pc EXCEPT ![c] = "idle"] \/ pc' = [pc EXCEPT ![c] = "start"]
    BY <2>1 DEF Write, WritePin, Goto
  <2> QED
    BY <1>1, <1>2, <2>2, <2>3
<1>7. CASE LedTask("task")
  <2>1. pc["task"] = "led" /\ pc' = [pc EXCEPT !["task"] = "fifo"] /\ Same
    BY <1>7 DEF LedTask, At, Goto, assembler, locals, adapter, ghosts
  <2> QED
    BY <1>1, <1>2, <2>1
<1>8. CASE FifoLen("task")
  <2>1. pc["task"] = "fifo" /\ pc' = [pc EXCEPT !["task"] = "read"] /\ Same
    BY <1>8 DEF FifoLen, At, Goto, assembler, adapter, ghosts
  <2> QED
    BY <1>1, <1>2, <2>1
<1>9. CASE EndData("task")
  <2>1. pc["task"] = "byte" /\ pc' = [pc EXCEPT !["task"] = "fifo"] /\ Same
    BY <1>9 DEF EndData, At, Goto, assembler, locals, adapter, ghosts
  <2> QED
    BY <1>1, <1>2, <2>1
<1>10. CASE EndPoll("task")
  <2>1. pc["task"] = "fifo" /\ Same
    BY <1>10 DEF EndPoll, At, assembler, adapter, ghosts
  <2>2. pc' = [pc EXCEPT !["task"] = "idle"] \/ pc' = [pc EXCEPT !["task"] = "start"]
    BY <1>10 DEF EndPoll, WritePin, Goto
  <2> QED
    BY <1>1, <1>2, <2>1, <2>2
<1>11. ASSUME NEW c \in Context, SendRequest(c) PROVE Paid(b)'
  <2>1. pc["task"] # "boot"
    BY <1>1, <1>11 DEF SendRequest, At, IInv, Exclusion
  <2>2. pc[c] = "send" /\ pc' = [pc EXCEPT ![c] = "idle"] /\ Same
    BY <1>1, <1>11, <2>1 DEF SendRequest, At, Goto, assembler, adapter, ghosts, OnlyTask
  <2> QED
    BY <1>1, <1>2, <2>2
<1>12. CASE UNCHANGED vars
  <2>1. Same /\ UNCHANGED pc
    BY <1>12 DEF vars, assembler, locals, adapter, ghosts
  <2> QED
    BY <1>2, <2>1
<1>13. ASSUME NEW c \in Context, Continue(c) PROVE Paid(b)'
  <2>1. CASE c = "task"
    BY <2>1, <1>1, <1>7, <1>8, <1>9, <1>10, <1>11, <1>13 DEF Continue
  <2>2. CASE c = "irq"
    <3>1. ~\E l \in {"led", "fifo", "read", "byte", "store", "index", "finish"} : pc["irq"] = l
      BY <1>1
    <3>2. SendRequest(c) \/ StartAction(c)
      BY <2>2, <3>1, <1>13
         DEF Continue, LedTask, FifoLen, ReadFifo, EndData, SkipCR, CompareLine,
             FinishLine, LoadLen, ReloadLen, StoreByte, EndPoll, At
    <3> QED
      BY <3>2, <1>11
  <2> QED
    BY <2>1, <2>2, <1>1
<1> QED
  BY <1>3, <1>4, <1>5, <1>6, <1>12, <1>13 DEF Next

(* A start can only lose marks: the line buffer is emptied.                 *)
LEMMA PaidStart ==
    ASSUME Solo, Solo', NEW b, Paid(b), NEW c \in Context, StartAction(c)
    PROVE  Paid(b)'
<1>1. /\ pc[c] = "start" /\ pc' = [pc EXCEPT ![c] = "send"] /\ rx_len' = 0
      /\ UNCHANGED <<rx_line, data, reg, matched, fifo, wire, completions, doneLines>>
  BY DEF StartAction, At, Goto, adapter
<1>2. pc \in [Context -> Label] /\ c \in {"task", "irq"} /\ "task" \in Context
  BY DEF Solo, TypeOK, ControlTypes, Context
<1>3. Held' = Held \/ Held' = 0
  BY <1>1, <1>2 DEF Held, Unindexed
<1>4. Stream' = Stream
  BY <1>1 DEF Stream
<1>5. CASE Held' = Held
  BY <1>1, <1>4, <1>5, PaidUnmoved
<1>6. CASE Held' = 0
  <2>1. Kept(Held', rx_line', b) = 0
    BY <1>6, KeptNone
  <2>2. MarkTypes(b)
    BY MarksTyped
  <2>3. Match(b)' = Match(b)
    BY <1>1 DEF Match
  <2>4. Pending(b)' = Marks(Stream, b) + Marks(wire, b)
    <3>1. Pending(b)' = Kept(Held', rx_line', b) + Marks(Stream', b) + Marks(wire', b)
      BY DEF Pending
    <3> QED
      BY <1>1, <1>4, <2>1, <2>2, <3>1 DEF MarkTypes
  <2>5. Pending(b) = Kept(Held, rx_line, b) + Marks(Stream, b) + Marks(wire, b)
    BY DEF Pending
  <2>6. Match(b)' + Pending(b)' <= Match(b) + Pending(b)
    BY <2>2, <2>3, <2>4, <2>5 DEF MarkTypes
  <2> QED
    BY <1>1, <2>6, PaidLess
<1> QED
  BY <1>3, <1>5, <1>6

LEMMA PaidRead ==
    ASSUME Solo, Solo', DoneInv, NEW b, Paid(b), ReadFifo("task")
    PROVE  Paid(b)'
<1>1. /\ pc["task"] = "read" /\ pc' = [pc EXCEPT !["task"] = "byte"]
      /\ take["task"] <= Len(fifo) /\ data["task"] = <<>>
      /\ UNCHANGED <<reg, rx_len, rx_line, matched, wire, completions, doneLines>>
  BY DEF ReadFifo, At, Goto, DoneInv, OnlyTask, assembler, adapter, ghosts
<1>2. /\ data' = [data EXCEPT !["task"] = SubSeq(fifo, 1, take["task"])]
      /\ fifo' = SubSeq(fifo, take["task"] + 1, Len(fifo))
  BY <1>1 DEF ReadFifo
<1>3. /\ pc \in [Context -> Label] /\ Context = {"task", "irq"} /\ fifo \in Seq(Byte)
      /\ take["task"] \in Nat /\ data \in [Context -> Seq(Byte)]
  BY DEF Solo, TypeOK, ControlTypes, LocalTypes, StreamTypes, Context
<1>4. data'["task"] \o fifo' = fifo
  BY <1>1, <1>2, <1>3, CutAndJoined
<1>5. data["task"] \o fifo = fifo
  BY <1>1, <1>3
<1>6. Stream' = Stream
  BY <1>4, <1>5 DEF Stream
<1>7. Held' = Held
  BY <1>1, <1>3 DEF Held, Unindexed
<1> QED
  BY <1>1, <1>6, <1>7, PaidUnmoved

LEMMA PaidLoad ==
    ASSUME Solo, Solo', NEW b, Paid(b), LoadLen("task")
    PROVE  Paid(b)'
<1>1. /\ pc["task"] = "byte" /\ pc' = [pc EXCEPT !["task"] = "store"]
      /\ reg' = [reg EXCEPT !["task"] = rx_len]
      /\ UNCHANGED <<data, fifo, rx_len, rx_line, matched, wire, completions, doneLines>>
  BY DEF LoadLen, At, Goto, assembler, adapter, ghosts
<1>2. /\ pc \in [Context -> Label] /\ Context = {"task", "irq"}
      /\ reg \in [Context -> 0..(RX_LINE_MAX - 1)]
  BY DEF Solo, TypeOK, ControlTypes, AssemblerTypes, Context
<1>3. pc'["task"] = "store" /\ reg'["task"] = rx_len
  BY <1>1, <1>2
<1>4. Stream' = Stream /\ Held' = Held
  BY <1>1, <1>3 DEF Stream, Held, Unindexed
<1> QED
  BY <1>1, <1>4, PaidUnmoved

LEMMA PaidReload ==
    ASSUME Solo, Solo', NEW b, Paid(b), ReloadLen("task")
    PROVE  Paid(b)'
BY ReloadIs, PaidUnmoved

(* The byte taken from the stream is skipped, ends the line or is stored.   *)
LEMMA TookMarks ==
    ASSUME Solo, data["task"] # <<>>, NEW b,
           data' = [data EXCEPT !["task"] = Tail(data["task"])], fifo' = fifo
    PROVE  Marks(Stream, b) = Marks(Stream', b)
                              + (IF Head(data["task"]) = b THEN 1 ELSE 0)
<1>1. data["task"] \in Seq(Byte) /\ fifo \in Seq(Byte) /\ Stream \in Seq(Byte)
  BY StreamTyped
<1>2. data'["task"] = Tail(data["task"])
  BY DEF Solo, TypeOK, StreamTypes, Context
<1>3. /\ Stream # <<>> /\ Stream' = Tail(Stream) /\ Stream[1] = Head(data["task"])
  BY <1>1, <1>2, TailOfBoth DEF Stream
<1> QED
  BY <1>1, <1>3, MarksTail

LEMMA PaidSkip ==
    ASSUME Solo, Solo', NEW b, Paid(b), SkipCR("task")
    PROVE  Paid(b)'
<1>1. /\ pc["task"] = "byte" /\ data["task"] # <<>>
      /\ data' = [data EXCEPT !["task"] = Tail(data["task"])]
      /\ UNCHANGED <<pc, reg, fifo, rx_len, rx_line, matched, wire, completions,
                     doneLines>>
  BY DEF SkipCR, At, assembler, adapter, ghosts
<1>2. Held' = Held /\ Match(b)' = Match(b)
  BY <1>1 DEF Held, Unindexed, Match
<1>3. Marks(Stream, b) = Marks(Stream', b) + (IF Head(data["task"]) = b THEN 1 ELSE 0)
  BY <1>1, TookMarks
<1>4. MarkTypes(b) /\ Marks(Stream', b) \in Nat
  <2>1. (\A a : MarkTypes(a))'
    BY MarksTypedNext
  <2> QED
    BY <2>1, MarksTyped DEF MarkTypes
<1>5. /\ Pending(b) = Kept(Held, rx_line, b) + Marks(Stream, b) + Marks(wire, b)
      /\ Pending(b)' = Kept(Held, rx_line, b) + Marks(Stream', b) + Marks(wire, b)
  BY <1>1, <1>2 DEF Pending
<1>6. Match(b)' + Pending(b)' <= Match(b) + Pending(b)
  BY <1>2, <1>3, <1>4, <1>5 DEF MarkTypes
<1> QED
  BY <1>1, <1>6, PaidLess

LEMMA PaidCompare ==
    ASSUME Solo, Solo', DoneInv, NEW b, Paid(b), CompareLine("task")
    PROVE  Paid(b)'
<1>1. /\ pc["task"] = "byte" /\ data["task"] # <<>>
      /\ data' = [data EXCEPT !["task"] = Tail(data["task"])]
      /\ rx_line' = [rx_line EXCEPT ![rx_len] = NUL]
      /\ matched' = [matched EXCEPT !["task"] = IsDoneLine(rx_line')]
      /\ pc' = [pc EXCEPT !["task"] = "finish"]
      /\ UNCHANGED <<reg, fifo, rx_len, wire, completions, doneLines>>
  BY DEF CompareLine, At, Goto, adapter, ghosts
<1>2. /\ pc \in [Context -> Label] /\ Context = {"task", "irq"}
      /\ matched \in [Context -> BOOLEAN]
      /\ rx_line \in [0..(RX_LINE_MAX - 1) -> Byte] /\ rx_len \in 0..(RX_LINE_MAX - 1)
  BY DEF Solo, TypeOK, ControlTypes, LocalTypes, AssemblerTypes, Context
<1>3. /\ pc'["task"] = "finish" /\ ~matched["task"]
      /\ matched'["task"] = IsDoneLine(rx_line')
  BY <1>1, <1>2 DEF DoneInv, OnlyTask
<1>4. Held' = 0 /\ Held = rx_len
  BY <1>1, <1>3 DEF Held, Unindexed
<1>5. /\ Marks(Stream, b) \in Nat /\ Marks(Stream', b) \in Nat /\ Marks(wire, b) \in Nat
      /\ Kept(rx_len, rx_line, b) \in Nat /\ Marks(DONE, b) \in Nat
  <2>1. (\A a : MarkTypes(a))'
    BY MarksTypedNext
  <2> QED
    BY <2>1, <1>4, MarksTyped DEF MarkTypes
<1>6. Marks(Stream', b) <= Marks(Stream, b)
  <2>1. Marks(Stream, b) = Marks(Stream', b) + (IF Head(data["task"]) = b THEN 1 ELSE 0)
    BY <1>1, TookMarks
  <2> QED
    BY <1>5, <2>1
<1>7. Match(b)' <= Kept(rx_len, rx_line, b) /\ Match(b)' \in Nat /\ Match(b) = 0
  <2>1. Match(b)' = IF IsDoneLine(rx_line') THEN Marks(DONE, b) ELSE 0
    BY <1>3 DEF Match
  <2>2. IsDoneLine(rx_line') => Kept(rx_len, rx_line, b) >= Marks(DONE, b)
    BY <1>1, <1>2, KeptMatches
  <2> QED
    BY <1>3, <1>5, <2>1, <2>2 DEF Match
<1>8. /\ Pending(b) = Kept(rx_len, rx_line, b) + Marks(Stream, b) + Marks(wire, b)
      /\ Pending(b)' = 0 + Marks(Stream', b) + Marks(wire, b)
  <2>1. Kept(Held', rx_line', b) = 0
    BY <1>4, KeptNone
  <2>2. Pending(b)' = Kept(Held', rx_line', b) + Marks(Stream', b) + Marks(wire', b)
    BY DEF Pending
  <2> QED
    BY <1>1, <1>4, <2>1, <2>2 DEF Pending
<1>9. Match(b)' + Pending(b)' <= Match(b) + Pending(b)
  BY <1>5, <1>6, <1>7, <1>8
<1> QED
  BY <1>1, <1>9, PaidLess

LEMMA PaidStore ==
    ASSUME Solo, Solo', NEW b, Paid(b), StoreByte("task")
    PROVE  Paid(b)'
<1>1. /\ pc["task"] \in {"store", "index"} /\ data["task"] # <<>>
      /\ data' = [data EXCEPT !["task"] = Tail(data["task"])]
      /\ pc' = [pc EXCEPT !["task"] = "byte"]
      /\ IF reg["task"] < RX_LINE_MAX - 1
         THEN /\ rx_line' = [rx_line EXCEPT ![reg["task"]] = Head(data["task"])]
              /\ rx_len' = reg["task"] + 1
         ELSE rx_len' = 0 /\ rx_line' = rx_line
      /\ UNCHANGED <<fifo, matched, wire, completions, doneLines>>
  BY StoreIs DEF StoreByte, adapter, ghosts
<1>2. /\ pc \in [Context -> Label] /\ Context = {"task", "irq"}
      /\ rx_line \in [0..(RX_LINE_MAX - 1) -> Byte]
      /\ reg["task"] \in 0..(RX_LINE_MAX - 1) /\ data["task"] # <<>>
  BY <1>1 DEF Solo, TypeOK, ControlTypes, AssemblerTypes, StreamTypes, Context
<1>3. pc'["task"] = "byte"
  BY <1>1, <1>2
<1>4. Held = reg["task"] /\ Held' = rx_len'
  BY StoreIs
<1> DEFINE x == IF Head(data["task"]) = b THEN 1 ELSE 0
<1>5. Marks(Stream, b) = Marks(Stream', b) + x
  BY <1>1, <1>2, TookMarks
<1>6. Kept(Held', rx_line', b) <= Kept(Held, rx_line, b) + x
  <2>1. Kept(Held, rx_line, b) \in Nat
    BY MarksTyped DEF MarkTypes
  <2>2. CASE reg["task"] < RX_LINE_MAX - 1
    <3> DEFINE k == reg["task"]
               h == Head(data["task"])
    <3>1. /\ k \in 0..(RX_LINE_MAX - 1) /\ Held = k /\ Held' = k + 1
          /\ rx_line' = [rx_line EXCEPT ![k] = h]
      BY <1>1, <1>2, <1>4, <2>2
    <3> HIDE DEF k
    <3>2. Kept(Held', rx_line', b)
              = Kept(Held, rx_line, b) + (IF rx_line'[Held] = b THEN 1 ELSE 0)
      <4>1. RX_LINE_MAX \in Nat
        BY Done
      <4>2. \A j \in 0..(Held - 1) : rx_line'[j] = rx_line[j]
        BY <1>2, <3>1, <4>1
      <4>3. Held \in 0..(RX_LINE_MAX - 1) /\ Held' = Held + 1
        BY <3>1
      <4>4. Stored(Held, rx_line, Held', rx_line')
        BY <4>2, <4>3 DEF Stored
      <4> QED
        BY <4>4, KeptStored
    <3>3. Kept(Held', rx_line', b) = Kept(Held, rx_line, b) + x
      BY <1>2, <3>1, <3>2
    <3> HIDE DEF x
    <3>4. x \in {0, 1}
      BY DEF x
    <3> QED
      BY <2>1, <3>3, <3>4
  <2>3. CASE ~(reg["task"] < RX_LINE_MAX - 1)
    <3>1. Kept(Held', rx_line', b) = 0
      BY <1>1, <1>4, <2>3, KeptNone
    <3> QED
      BY <2>1, <3>1
  <2> QED
    BY <2>2, <2>3
<1>7. /\ Marks(Stream, b) \in Nat /\ Marks(Stream', b) \in Nat /\ Marks(wire, b) \in Nat
      /\ Kept(Held, rx_line, b) \in Nat /\ Kept(Held', rx_line', b) \in Nat
      /\ Match(b) \in Nat
  <2>1. (\A a : MarkTypes(a))'
    BY MarksTypedNext
  <2> QED
    BY <2>1, MarksTyped DEF MarkTypes
<1>8. /\ Pending(b) = Kept(Held, rx_line, b) + Marks(Stream, b) + Marks(wire, b)
      /\ Pending(b)' = Kept(Held', rx_line', b) + Marks(Stream', b) + Marks(wire, b)
      /\ Match(b)' = Match(b)
  BY <1>1 DEF Pending, Match
<1> HIDE DEF x
<1>9. Match(b)' + Pending(b)' <= Match(b) + Pending(b)
  <2>1. x \in {0, 1}
    BY DEF x
  <2> QED
    BY <2>1, <1>5, <1>6, <1>7, <1>8
<1> QED
  BY <1>1, <1>9, PaidLess

(* A completion spends the match.                                           *)
LEMMA PaidFinish ==
    ASSUME Solo, Solo', NEW b, Paid(b), FinishLine("task")
    PROVE  Paid(b)'
<1>1. /\ pc["task"] = "finish" /\ pc' = [pc EXCEPT !["task"] = "byte"]
      /\ rx_len' = 0 /\ matched' = [matched EXCEPT !["task"] = FALSE]
      /\ IF matched["task"] THEN completions' = completions + action_active
                            ELSE completions' = completions
      /\ UNCHANGED <<data, fifo, reg, rx_line, wire, doneLines>>
  BY DEF FinishLine, At, Goto, adapter
<1>2. /\ pc \in [Context -> Label] /\ Context = {"task", "irq"}
      /\ matched \in [Context -> BOOLEAN] /\ action_active \in {0, 1}
  BY DEF Solo, TypeOK, ControlTypes, LocalTypes, PinTypes, Bit, Context
<1>3. pc'["task"] = "byte" /\ ~matched'["task"]
  BY <1>1, <1>2
<1>4. Stream' = Stream /\ Held' = 0 /\ Held = 0
  BY <1>1, <1>3 DEF Stream, Held, Unindexed
<1>5. Pending(b)' = Pending(b)
  <2>1. Pending(b)' = Kept(Held', rx_line', b) + Marks(Stream', b) + Marks(wire', b)
    BY DEF Pending
  <2> QED
    BY <1>1, <1>4, <2>1 DEF Pending
<1>6. Match(b)' = 0
  BY <1>3 DEF Match
<1> DEFINE d == Marks(DONE, b)
           p == d * completions
           q == d * doneLines
           g == Pending(b)
<1>7. /\ d \in Nat /\ p \in Nat /\ q \in Nat /\ g \in Nat /\ completions \in Nat
      /\ Match(b) \in Nat
  BY MarksTyped DEF MarkTypes
<1>8. p + Match(b) + g <= q
  BY DEF Paid
<1>9. (d * completions')  \in Nat /\ d * completions' <= p + Match(b)
  <2> HIDE DEF d
  <2>1. CASE matched["task"]
    <3>1. Match(b) = d
      BY <2>1 DEF Match, d
    <3>2. CASE action_active = 0
      <4>1. completions' = completions
        BY <1>1, <1>7, <2>1, <3>2
      <4>2. p \in Nat /\ d * completions' = p
        BY <1>7, <4>1
      <4> HIDE DEF p
      <4> QED
        BY <1>7, <3>1, <4>2
    <3>3. CASE action_active = 1
      <4>1. completions' = completions + 1
        BY <1>1, <2>1, <3>3
      <4>2. d * (completions + 1) = d * completions + d
        BY <1>7
      <4>3. p \in Nat /\ d * completions' = p + d
        BY <1>7, <4>1, <4>2
      <4> HIDE DEF p
      <4> QED
        BY <1>7, <3>1, <4>3
    <3> QED
      BY <1>2, <3>2, <3>3
  <2>2. CASE ~matched["task"]
    <3>1. p \in Nat /\ d * completions' = p
      BY <1>1, <1>7, <2>2
    <3> HIDE DEF p
    <3> QED
      BY <1>7, <3>1
  <2> QED
    BY <2>1, <2>2
<1> DEFINE p2 == d * completions'
<1>10. p2 + 0 + g <= q
  <2>1. p2 \in Nat /\ p2 <= p + Match(b)
    BY <1>9
  <2> HIDE DEF p2, p, q, g
  <2> QED
    BY <2>1, <1>7, <1>8
<1>11. Paid(b)' <=> (d * completions') + Match(b)' + Pending(b)' <= d * doneLines'
  BY DEF Paid
<1>12. doneLines' = doneLines
  BY <1>1
<1> QED
  BY <1>5, <1>6, <1>10, <1>11, <1>12

-----------------------------------------------------------------------------
(* A byte of a line enters the stream, or is lost.                          *)
LEMMA ReceiveMarks ==
    ASSUME Solo, Solo', NEW b, NEW x \in Byte, NEW rest, NEW l,
           Receive(x, rest, l)
    PROVE  /\ Match(b)' = Match(b) /\ completions' = completions
           /\ Pending(b)' <= Kept(Held, rx_line, b) + Marks(Stream, b)
                             + (IF x = b THEN 1 ELSE 0) + Marks(rest, b)
<1>1. /\ wire' = rest
      /\ fifo' = Append(fifo, x) \/ fifo' = fifo
      /\ UNCHANGED <<rx_len, rx_line, pc, data, reg, matched, completions>>
  BY DEF Receive, assembler, locals
<1>2. Held' = Held /\ Match(b)' = Match(b)
  BY <1>1 DEF Held, Unindexed, Match
<1> DEFINE e == IF x = b THEN 1 ELSE 0
           s == Marks(Stream, b)
           s2 == Marks(Stream', b)
           k == Kept(Held, rx_line, b)
           w == Marks(rest, b)
<1>3. s \in Nat /\ s2 \in Nat /\ k \in Nat /\ w \in Nat
  <2>1. (\A a : MarkTypes(a))'
    BY MarksTypedNext
  <2> QED
    BY <1>1, <2>1, MarksTyped DEF MarkTypes
<1>4. s2 <= s + e
  <2>1. CASE fifo' = fifo
    <3>1. Stream' = Stream
      BY <1>1, <2>1 DEF Stream
    <3> HIDE DEF e
    <3>2. s2 = s /\ e \in {0, 1}
      BY <3>1 DEF e
    <3> QED
      BY <1>3, <3>2
  <2>2. CASE fifo' = Append(fifo, x)
    <3>1. Stream' = Append(Stream, x) /\ Stream \in Seq(Byte)
      <4>1. data["task"] \in Seq(Byte) /\ fifo \in Seq(Byte) /\ Stream \in Seq(Byte)
        BY StreamTyped
      <4> DEFINE d == data["task"]
                 u == <<x>>
      <4>2. d \in Seq(Byte) /\ fifo \in Seq(Byte) /\ u \in Seq(Byte)
        BY <4>1
      <4>3. Append(fifo, x) = fifo \o u /\ Append(Stream, x) = Stream \o u
        BY <4>1, AppendIsConcat
      <4>4. Stream = d \o fifo /\ Stream' = d \o Append(fifo, x)
        BY <1>1, <2>2 DEF Stream
      <4> HIDE DEF d, u
      <4>5. (d \o fifo) \o u = d \o (fifo \o u)
        BY ONLY <4>2, ConcatAssociative
      <4> QED
        BY <4>1, <4>3, <4>4, <4>5
    <3>2. s2 = s + e
      BY <3>1, MarksAppend
    <3> HIDE DEF s, s2, e
    <3>3. e \in {0, 1}
      BY DEF e
    <3> QED
      BY <1>3, <3>2, <3>3
  <2> QED
    BY <1>1, <2>1, <2>2
<1>5. Pending(b)' = k + s2 + w
  BY <1>1, <1>2 DEF Pending
<1> HIDE DEF s, s2, k, w, e
<1>6. e \in {0, 1}
  BY DEF e
<1>7. Pending(b)' <= k + s + e + w
  BY <1>3, <1>4, <1>5, <1>6
<1> QED
  BY <1>1, <1>2, <1>7 DEF s, k, w, e

LEMMA PaidNextByte ==
    ASSUME Solo, Solo', NEW b, Paid(b), NextWireByte
    PROVE  Paid(b)'
<1>1. wire # <<>> /\ Receive(Head(wire), Tail(wire), line) /\ doneLines' = doneLines
  BY DEF NextWireByte
<1>2. wire \in Seq(Byte) /\ Head(wire) = wire[1] /\ wire[1] \in Byte
  BY <1>1, StreamTyped, TailIs
<1>3. Marks(wire, b) = Marks(Tail(wire), b) + (IF wire[1] = b THEN 1 ELSE 0)
  BY <1>1, <1>2, MarksTail
<1> DEFINE e == IF wire[1] = b THEN 1 ELSE 0
           w == Marks(Tail(wire), b)
           k == Kept(Held, rx_line, b)
           s == Marks(Stream, b)
<1>4. /\ Match(b)' = Match(b) /\ completions' = completions
      /\ Pending(b)' <= k + s + e + w
  BY <1>1, <1>2, ReceiveMarks
<1>5. Pending(b) = k + s + (w + e)
  BY <1>3 DEF Pending
<1>6. /\ k \in Nat /\ s \in Nat /\ Match(b) \in Nat /\ Pending(b)' \in Nat
      /\ w \in Nat
  <2>1. (\A a : MarkTypes(a))'
    BY MarksTypedNext
  <2>2. Tail(wire) \in Seq(Byte)
    BY <1>1, <1>2, TailIs
  <2> QED
    BY <2>1, <2>2, MarksTyped, MarksFinite DEF MarkTypes
<1> HIDE DEF e, w, k, s
<1>7. e \in {0, 1}
  BY DEF e
<1>8. Match(b)' + Pending(b)' <= Match(b) + Pending(b)
  BY <1>4, <1>5, <1>6, <1>7
<1> QED
  BY <1>1, <1>4, <1>8, PaidLess

(* A line begins: only a DONE line brings marks, and it is counted.         *)
LEMMA PaidLine ==
    ASSUME Solo, Solo', NEW b, Marking(b), Paid(b), BeginLine
    PROVE  Paid(b)'
<1>1. PICK l \in Lines :
          /\ l # <<>> /\ Receive(Head(l), Tail(l), l)
          /\ doneLines' = doneLines + (IF IsDone(l) THEN 1 ELSE 0)
  BY DEF BeginLine
<1>2. wire = <<>> /\ l \in Seq(Byte)
  BY BytesAssumption DEF BeginLine
<1>3. /\ Head(l) = l[1] /\ l[1] \in Byte /\ Tail(l) \in Seq(Byte)
  BY <1>1, <1>2, TailIs
<1>4. Marks(l, b) = Marks(Tail(l), b) + (IF l[1] = b THEN 1 ELSE 0)
  BY <1>1, <1>2, MarksTail
<1> DEFINE e == IF l[1] = b THEN 1 ELSE 0
           w == Marks(Tail(l), b)
           k == Kept(Held, rx_line, b)
           s == Marks(Stream, b)
           d == Marks(DONE, b)
           n == IF IsDone(l) THEN 1 ELSE 0
           p == d * completions
           q == d * doneLines
           q2 == d * doneLines'
           m == Match(b)
<1>5. /\ Match(b)' = m /\ completions' = completions
      /\ Pending(b)' <= k + s + e + w
  BY <1>1, <1>3, ReceiveMarks
<1>6. w + e = IF IsDone(l) THEN d ELSE 0
  BY <1>4, MarksOfLine
<1>7. Pending(b) = k + s + 0
  <2>1. Marks(<<>>, b) = 0
    <3>1. <<>> \in Seq(Byte) /\ Len(<<>>) = 0 /\ \A i \in 1..0 : FALSE
      OBVIOUS
    <3> QED
      BY <3>1, MarksNone
  <2> QED
    BY <1>2, <2>1 DEF Pending
<1>8. /\ k \in Nat /\ s \in Nat /\ m \in Nat /\ Pending(b)' \in Nat /\ w \in Nat
      /\ d \in Nat /\ p \in Nat /\ q \in Nat /\ doneLines \in Nat
  <2>1. (\A a : MarkTypes(a))'
    BY MarksTypedNext
  <2> QED
    BY <2>1, <1>3, MarksTyped, MarksFinite DEF MarkTypes
<1>9. p + m + (k + s + 0) <= q
  BY <1>7 DEF Paid
<1>10. q2 \in Nat /\ q2 = q + (w + e)
  <2> HIDE DEF d, w, e
  <2>1. CASE IsDone(l)
    <3>1. doneLines' = doneLines + 1 /\ w + e = d
      BY <1>1, <1>6, <2>1
    <3>2. d * (doneLines + 1) = d * doneLines + d /\ d * (doneLines + 1) \in Nat
      BY <1>8
    <3> QED
      BY <3>1, <3>2
  <2>2. CASE ~IsDone(l)
    <3>1. doneLines' = doneLines /\ w + e = 0
      BY <1>1, <1>6, <1>8, <2>2
    <3>2. q2 = q
      BY <3>1
    <3> HIDE DEF q, q2
    <3> QED
      BY <1>8, <3>1, <3>2
  <2> QED
    BY <2>1, <2>2
<1>11. Paid(b)' <=> (d * completions') + Match(b)' + Pending(b)' <= d * doneLines'
  BY DEF Paid
<1>12. (d * completions') = p
  BY <1>5
<1>13. e \in {0, 1}
  OBVIOUS
<1>14. p + m + Pending(b)' <= q2
  <2> HIDE DEF e, w, k, s, d, p, q, q2, m
  <2> QED
    BY <1>5, <1>8, <1>9, <1>10, <1>13
<1> QED
  BY <1>5, <1>11, <1>12, <1>14

LEMMA PaidInit == ASSUME Init, NEW b PROVE Paid(b)
<1>1. /\ pc["task"] = "boot" /\ fifo = <<>> /\ wire = <<>> /\ data["task"] = <<>>
      /\ ~matched["task"] /\ rx_len = 0 /\ completions = 0 /\ doneLines = 0
  BY DEF Init, Context
<1>2. Stream = <<>> /\ Held = 0
  BY <1>1 DEF Stream, Held, Unindexed
<1>3. Marks(<<>>, b) = 0
  <2>1. <<>> \in Seq(Byte) /\ Len(<<>>) = 0 /\ \A i \in 1..0 : FALSE
    OBVIOUS
  <2> QED
    BY <2>1, MarksNone
<1>4. Match(b) = 0 /\ Pending(b) = 0
  BY <1>1, <1>2, <1>3, KeptNone DEF Match, Pending
<1>5. Marks(DONE, b) \in Nat
  BY BytesAssumption, MarksFinite
<1> DEFINE d == Marks(DONE, b)
<1> HIDE DEF d
<1>6. d * completions = 0 /\ d * doneLines = 0
  BY <1>1, <1>5 DEF d
<1>7. Paid(b) <=> d * completions + Match(b) + Pending(b) <= d * doneLines
  BY DEF Paid, d
<1> QED
  BY <1>4, <1>6, <1>7

LEMMA PaidNext ==
    ASSUME ~IrqReads, NEW b, Marking(b)
    PROVE  IInv /\ DoneInv /\ Paid(b) /\ [Next]_vars => Paid(b)'
<1> SUFFICES ASSUME IInv, DoneInv, Paid(b), [Next]_vars PROVE Paid(b)'
  OBVIOUS
<1>1. Solo /\ Solo'
  BY SoloIs, SoloNext
<1> QED
  BY <1>1, PaidWaits, PaidStart, PaidRead, PaidSkip, PaidCompare, PaidFinish,
     PaidLoad, PaidReload, PaidStore, PaidLine, PaidNextByte

(* As long as only the task polls, and some byte of DONE is in none of the  *)
(* other lines the adapter sends, requests, completions and DONE lines      *)
(* match one by one: neither a line cut by the FIFO, by the end of the      *)
(* buffer or by a start, nor two lines run together, makes a DONE that the  *)
(* adapter did not send, and no DONE line counts twice.                     *)
THEOREM EveryCompletionHadADone ==
    ASSUME ~IrqReads, \E b \in Byte : Marking(b)
    PROVE  Spec => []RequestsMatched
<1>1. PICK b \in Byte : Marking(b)
  OBVIOUS
<1>2. IInv /\ Paid(b) => RequestsMatched
  <2> SUFFICES ASSUME IInv, Paid(b) PROVE CompletionNeedsDone
    BY DEF IInv, RequestsMatched
  <2> DEFINE d == Marks(DONE, b)
  <2>1. Solo
    BY SoloIs
  <2>2. /\ d \in Nat /\ Match(b) \in Nat /\ Pending(b) \in Nat
        /\ completions \in Nat /\ doneLines \in Nat
    BY <2>1, MarksTyped DEF MarkTypes
  <2>3. d # 0
    <3>1. DONE \in Seq(Byte)
      BY BytesAssumption
    <3>2. IsFiniteSet({i \in 1..Len(DONE) : DONE[i] = b})
      BY <3>1, MarksFinite
    <3>3. {i \in 1..Len(DONE) : DONE[i] = b} # {}
      BY <1>1 DEF Marking
    <3> QED
      BY <3>2, <3>3, FS_EmptySet DEF Marks
  <2>4. d * completions + Match(b) + Pending(b) <= d * doneLines
    BY DEF Paid
  <2> HIDE DEF d
  <2>5. d * completions <= d * doneLines
    <3> DEFINE p == d * completions
               q == d * doneLines
    <3>1. p \in Nat /\ q \in Nat
      BY <2>2
    <3> HIDE DEF p, q
    <3>2. p + Match(b) + Pending(b) <= q
      BY <2>4 DEF p, q
    <3>3. p <= q
      BY <2>2, <3>1, <3>2
    <3> QED
      BY <3>3 DEF p, q
  <2>6. completions <= doneLines
    BY <2>2, <2>3, <2>5
  <2> QED
    BY <2>6 DEF CompletionNeedsDone
<1>3. IInv /\ DoneInv /\ [Next]_vars => DoneInv'
  BY DoneInvNext
<1>4. IInv /\ DoneInv /\ Paid(b) /\ [Next]_vars => Paid(b)'
  BY <1>1, PaidNext
<1>5. Init => Paid(b)
  BY PaidInit
<1> QED
  BY <1>2, <1>3, <1>4, <1>5, DoneInvInit, Invariance, PTL DEF Spec

-----------------------------------------------------------------------------
(* Induction up to N, over the set of the numbers a fact holds for.         *)
LEMMA UpTo ==
    ASSUME NEW N \in Nat, NEW T, 0 \in T, \A n \in 0..(N - 1) : n \in T => n + 1 \in T
    PROVE  \A n \in 0..N : n \in T
<1> DEFINE R == OpToRel(<, Nat)
           B == {n \in 0..N : n \notin T}
<1>1. \A a, b \in Nat : <<a, b>> \in R <=> a < b
  BY DEF OpToRel
<1>2. IsWellFoundedOn(R, Nat)
  BY NatLessThanWellFounded
<1>3. B \subseteq Nat
  OBVIOUS
<1> SUFFICES ASSUME B # {} PROVE FALSE
  OBVIOUS
<1> HIDE DEF R
<1>4. \E x \in B : \A y \in B : ~(<<y, x>> \in R)
  <2> HIDE DEF B
  <2> QED
    BY <1>2, <1>3, WFMin
<1>5. PICK x \in B : \A y \in B : ~(<<y, x>> \in R)
  BY <1>4
<1>6. x \in 0..N /\ x \notin T /\ x # 0
  OBVIOUS
<1>7. x - 1 \in 0..(N - 1) /\ (x - 1) + 1 = x /\ x - 1 \in 0..N
  BY <1>6
<1>8. x - 1 \in T
  <2>1. x - 1 \in B => <<x - 1, x>> \in R
    BY <1>1, <1>6, <1>7
  <2> QED
    BY <1>5, <1>7, <2>1
<1> QED
  BY <1>6, <1>7, <1>8

(* What the assembler is after each of the first n bytes.                   *)
Through(f, s, bytes, n) ==
    f = [i \in 0..n |-> IF i = 0 THEN s ELSE Assemble(f[i - 1], bytes[i])]

(* There are such states, and any two sequences of them agree.              *)
LEMMA ThroughExists ==
    ASSUME NEW s, NEW bytes, NEW N \in Nat
    PROVE  \E f : Through(f, s, bytes, N)
<1> DEFINE T == {n \in 0..N : \E f : Through(f, s, bytes, n)}
<1>1. 0 \in T
  <2> DEFINE f == [i \in 0..0 |-> s]
  <2>1. Through(f, s, bytes, 0)
    BY DEF Through
  <2> QED
    BY <2>1
<1>2. ASSUME NEW n \in 0..(N - 1), n \in T PROVE n + 1 \in T
  <2>1. PICK f : Through(f, s, bytes, n)
    BY <1>2
  <2> DEFINE x == Assemble(f[n], bytes[n + 1])
             g == [i \in 0..(n + 1) |-> IF i = n + 1 THEN x ELSE f[i]]
  <2>2. n \in Nat /\ n + 1 \in 0..N
    OBVIOUS
  <2>3. \A i \in 0..n : f[i] = IF i = 0 THEN s ELSE Assemble(f[i - 1], bytes[i])
    BY <2>1, <2>2 DEF Through
  <2>4. \A i \in 0..n : g[i] = f[i]
    BY <2>2
  <2>5. g[n + 1] = x
    BY <2>2
  <2>6. \A i \in 0..(n + 1) :
            g[i] = IF i = 0 THEN s ELSE Assemble(g[i - 1], bytes[i])
    <3> SUFFICES ASSUME NEW i \in 0..(n + 1)
                 PROVE  g[i] = IF i = 0 THEN s ELSE Assemble(g[i - 1], bytes[i])
      OBVIOUS
    <3> HIDE DEF g
    <3>1. CASE i = n + 1
      <4>1. i - 1 = n /\ n \in 0..n /\ i # 0
        BY <2>2, <3>1
      <4>2. g[i - 1] = f[n]
        BY <2>4, <4>1
      <4> QED
        BY <2>5, <3>1, <4>1, <4>2
    <3>2. CASE i # n + 1
      <4>1. i \in 0..n /\ (i # 0 => i - 1 \in 0..n)
        BY <2>2, <3>2
      <4> QED
        BY <2>3, <2>4, <4>1
    <3> QED
      BY <3>1, <3>2
  <2>7. g = [i \in 0..(n + 1) |-> g[i]]
    OBVIOUS
  <2> HIDE DEF g
  <2>8. Through(g, s, bytes, n + 1)
    BY <2>6, <2>7 DEF Through
  <2> QED
    BY <2>2, <2>8
<1> HIDE DEF T
<1>3. N \in T
  BY <1>1, <1>2, UpTo
<1> QED
  BY <1>3 DEF T

LEMMA ThroughIs ==
    ASSUME NEW f, NEW s, NEW bytes, NEW N \in Nat, Through(f, s, bytes, N)
    PROVE  f[0] = s /\ \A n \in 0..(N - 1) : f[n + 1] = Assemble(f[n], bytes[n + 1])
<1>1. \A i \in 0..N : f[i] = IF i = 0 THEN s ELSE Assemble(f[i - 1], bytes[i])
  BY DEF Through
<1>2. f[0] = s
  BY <1>1
<1>3. ASSUME NEW n \in 0..(N - 1) PROVE f[n + 1] = Assemble(f[n], bytes[n + 1])
  <2>1. n + 1 \in 0..N /\ n + 1 # 0 /\ (n + 1) - 1 = n
    OBVIOUS
  <2> QED
    BY <1>1, <2>1
<1> QED
  BY <1>2, <1>3

(* AssembleAll is where such a sequence of states ends.                     *)
LEMMA AssembleAllRuns ==
    ASSUME NEW s, NEW bytes \in Seq(Byte)
    PROVE  \E f : /\ Through(f, s, bytes, Len(bytes))
                  /\ AssembleAll(s, bytes) = f[Len(bytes)]
<1> DEFINE N == Len(bytes)
           f == CHOOSE after : after = [i \in 0..N |->
                    IF i = 0 THEN s ELSE Assemble(after[i - 1], bytes[i])]
<1>1. N \in Nat
  OBVIOUS
<1>2. Through(f, s, bytes, N)
  <2>1. \E g : g = [i \in 0..N |-> IF i = 0 THEN s ELSE Assemble(g[i - 1], bytes[i])]
    <3>1. \E g : Through(g, s, bytes, N)
      <4> HIDE DEF N
      <4> QED
        BY <1>1, ThroughExists
    <3> QED
      BY <3>1, Zenon DEF Through
  <2> QED
    BY <2>1 DEF Through
<1>3. AssembleAll(s, bytes) = f[N]
  BY DEF AssembleAll
<1> HIDE DEF f
<1> QED
  BY <1>2, <1>3

(* Any such sequence of states ends where AssembleAll does.                 *)
LEMMA AssembleAllIs ==
    ASSUME NEW s, NEW bytes \in Seq(Byte), NEW g, g[0] = s,
           \A n \in 0..(Len(bytes) - 1) : g[n + 1] = Assemble(g[n], bytes[n + 1])
    PROVE  AssembleAll(s, bytes) = g[Len(bytes)]
<1> DEFINE N == Len(bytes)
<1>1. N \in Nat
  OBVIOUS
<1>2. PICK f : Through(f, s, bytes, N) /\ AssembleAll(s, bytes) = f[N]
  BY AssembleAllRuns
<1>3. f[0] = s /\ \A n \in 0..(N - 1) : f[n + 1] = Assemble(f[n], bytes[n + 1])
  BY <1>1, <1>2, ThroughIs
<1> DEFINE T == {n \in 0..N : f[n] = g[n]}
<1>4. 0 \in T
  BY <1>1, <1>3
<1>5. \A n \in 0..(N - 1) : n \in T => n + 1 \in T
  BY <1>1, <1>3
<1> HIDE DEF T, N
<1>6. N \in T
  <2>1. \A n \in 0..N : n \in T
    BY <1>1, <1>4, <1>5, UpTo
  <2> QED
    BY <1>1, <2>1
<1> QED
  BY <1>2, <1>6 DEF T, N

(* No byte changes nothing.                                                 *)
LEMMA AssembleNone == ASSUME NEW s PROVE AssembleAll(s, <<>>) = s
<1>1. PICK f : Through(f, s, <<>>, Len(<<>>)) /\ AssembleAll(s, <<>>) = f[Len(<<>>)]
  <2>1. <<>> \in Seq(Byte)
    OBVIOUS
  <2> QED
    BY <2>1, AssembleAllRuns
<1>2. Len(<<>>) = 0 /\ 0 \in Nat
  OBVIOUS
<1> QED
  BY <1>1, <1>2, ThroughIs

(* One more byte at the end, and the first byte taken.                      *)
LEMMA AssembleLast ==
    ASSUME NEW s, NEW bytes \in Seq(Byte), NEW b \in Byte
    PROVE  AssembleAll(s, Append(bytes, b)) = Assemble(AssembleAll(s, bytes), b)
<1> DEFINE N == Len(bytes)
           more == Append(bytes, b)
<1>1. /\ N \in Nat /\ more \in Seq(Byte) /\ Len(more) = N + 1 /\ more[N + 1] = b
      /\ \A i \in 1..N : more[i] = bytes[i]
  OBVIOUS
<1>2. PICK f : Through(f, s, bytes, N) /\ AssembleAll(s, bytes) = f[N]
  BY AssembleAllRuns
<1>3. f[0] = s /\ \A n \in 0..(N - 1) : f[n + 1] = Assemble(f[n], bytes[n + 1])
  BY <1>1, <1>2, ThroughIs
<1> DEFINE g == [i \in 0..(N + 1) |-> IF i = N + 1 THEN Assemble(f[N], b) ELSE f[i]]
<1>4. g[N + 1] = Assemble(f[N], b) /\ \A i \in 0..N : g[i] = f[i]
  BY <1>1
<1> HIDE DEF g, more, N
<1>5. ASSUME NEW n \in 0..((N + 1) - 1) PROVE g[n + 1] = Assemble(g[n], more[n + 1])
  <2>1. CASE n = N
    <3>1. n \in 0..N
      BY <1>1, <2>1
    <3> QED
      BY <1>1, <1>4, <2>1, <3>1
  <2>2. CASE n # N
    <3>1. n \in 0..(N - 1) /\ n \in 0..N /\ n + 1 \in 0..N /\ n + 1 \in 1..N
      BY <1>1, <2>2
    <3> QED
      BY <1>1, <1>3, <1>4, <3>1
  <2> QED
    BY <2>1, <2>2
<1>6. g[0] = s
  <2>1. 0 \in 0..N
    BY <1>1
  <2> QED
    BY <1>3, <1>4, <2>1
<1>7. \A n \in 0..(Len(more) - 1) : g[n + 1] = Assemble(g[n], more[n + 1])
  BY <1>1, <1>5
<1>8. AssembleAll(s, more) = g[Len(more)]
  BY <1>1, <1>6, <1>7, AssembleAllIs
<1> QED
  BY <1>1, <1>2, <1>4, <1>8 DEF more, N

LEMMA AssembleFirst ==
    ASSUME NEW s, NEW bytes \in Seq(Byte), bytes # <<>>
    PROVE  AssembleAll(s, bytes) = AssembleAll(Assemble(s, bytes[1]), Tail(bytes))
<1> DEFINE N == Len(bytes)
           rest == Tail(bytes)
<1>1. /\ N \in Nat \ {0} /\ rest \in Seq(Byte) /\ Len(rest) = N - 1
      /\ \A i \in 1..(N - 1) : rest[i] = bytes[i + 1]
  OBVIOUS
<1>2. PICK f : Through(f, s, bytes, N) /\ AssembleAll(s, bytes) = f[N]
  BY AssembleAllRuns
<1>3. f[0] = s /\ \A n \in 0..(N - 1) : f[n + 1] = Assemble(f[n], bytes[n + 1])
  BY <1>1, <1>2, ThroughIs
<1> DEFINE g == [i \in 0..(N - 1) |-> f[i + 1]]
<1>4. \A i \in 0..(N - 1) : g[i] = f[i + 1]
  OBVIOUS
<1> HIDE DEF g, rest, N
<1>5. g[0] = Assemble(s, bytes[1])
  <2>1. 0 \in 0..(N - 1) /\ 0 + 1 = 1
    BY <1>1
  <2> QED
    BY <1>3, <1>4, <2>1
<1>6. ASSUME NEW n \in 0..(Len(rest) - 1) PROVE g[n + 1] = Assemble(g[n], rest[n + 1])
  <2>1. /\ n \in 0..(N - 1) /\ n + 1 \in 0..(N - 1) /\ n + 1 \in 1..(N - 1)
        /\ (n + 1) + 1 \in Nat
    BY <1>1
  <2>2. g[n + 1] = f[(n + 1) + 1] /\ g[n] = f[n + 1]
    BY <1>4, <2>1
  <2>3. f[(n + 1) + 1] = Assemble(f[n + 1], bytes[(n + 1) + 1])
    BY <1>3, <2>1
  <2>4. rest[n + 1] = bytes[(n + 1) + 1]
    BY <1>1, <2>1
  <2> QED
    BY <2>2, <2>3, <2>4
<1>7. AssembleAll(Assemble(s, bytes[1]), rest) = g[Len(rest)]
  BY <1>1, <1>5, <1>6, AssembleAllIs
<1>8. g[N - 1] = f[N]
  <2>1. N - 1 \in 0..(N - 1) /\ (N - 1) + 1 = N
    BY <1>1
  <2> QED
    BY <1>4, <2>1
<1> QED
  BY <1>1, <1>2, <1>7, <1>8 DEF rest, N

-----------------------------------------------------------------------------
(* The assembler of a line, and what each kind of byte does to it.          *)
AssemblerState ==
    [line : [0..(RX_LINE_MAX - 1) -> Byte], len : 0..(RX_LINE_MAX - 1), dones : Nat]

Terminated(s) == [s.line EXCEPT ![s.len] = NUL]

LEMMA AssembleKinds ==
    ASSUME NEW s \in AssemblerState, NEW b \in Byte
    PROVE  /\ Assemble(s, b) \in AssemblerState
           /\ b = CR => Assemble(s, b) = s
           /\ b = LF => Assemble(s, b) =
                  [line |-> Terminated(s), len |-> 0,
                   dones |-> s.dones + IF IsDoneLine(Terminated(s)) THEN 1 ELSE 0]
           /\ b \notin {CR, LF} =>
                  IF s.len < RX_LINE_MAX - 1
                  THEN Assemble(s, b) = [line |-> [s.line EXCEPT ![s.len] = b],
                                         len |-> s.len + 1, dones |-> s.dones]
                  ELSE Assemble(s, b) = [line |-> s.line, len |-> 0, dones |-> s.dones]
<1>1. /\ RX_LINE_MAX \in Nat /\ RX_LINE_MAX > 0 /\ CR # LF /\ NUL \in Byte
      /\ Len(DONE) \in Nat
  BY BytesAssumption, SizesAssumption, LinesAssumption
<1>2. /\ s = [line |-> s.line, len |-> s.len, dones |-> s.dones]
      /\ s.line \in [0..(RX_LINE_MAX - 1) -> Byte] /\ s.len \in 0..(RX_LINE_MAX - 1)
      /\ s.dones \in Nat
  BY DEF AssemblerState
<1>3. CASE b = CR
  BY <1>1, <1>3 DEF Assemble
<1>4. CASE b = LF
  <2>1. Assemble(s, b) =
            [line |-> Terminated(s), len |-> 0,
             dones |-> s.dones + IF IsDoneLine(Terminated(s)) THEN 1 ELSE 0]
    BY <1>1, <1>4 DEF Assemble, Terminated
  <2>2. Terminated(s) \in [0..(RX_LINE_MAX - 1) -> Byte]
    BY <1>1, <1>2 DEF Terminated
  <2>3. 0 \in 0..(RX_LINE_MAX - 1)
    BY <1>1
  <2>4. (s.dones + IF IsDoneLine(Terminated(s)) THEN 1 ELSE 0) \in Nat
    BY <1>2
  <2>5. Assemble(s, b) \in AssemblerState
    BY <2>1, <2>2, <2>3, <2>4 DEF AssemblerState
  <2> QED
    BY <1>1, <1>4, <2>1, <2>5
<1>5. CASE b \notin {CR, LF}
  <2>1. Assemble(s, b) = IF s.len < RX_LINE_MAX - 1
                         THEN [s EXCEPT !.line[s.len] = b, !.len = @ + 1]
                         ELSE [s EXCEPT !.len = 0]
    BY <1>5 DEF Assemble, HasRoom
  <2>2. CASE s.len < RX_LINE_MAX - 1
    <3>1. Assemble(s, b) = [line |-> [s.line EXCEPT ![s.len] = b],
                            len |-> s.len + 1, dones |-> s.dones]
      BY <1>2, <2>1, <2>2
    <3>2. s.len + 1 \in 0..(RX_LINE_MAX - 1)
      BY <1>1, <1>2, <2>2
    <3>3. [s.line EXCEPT ![s.len] = b] \in [0..(RX_LINE_MAX - 1) -> Byte]
      BY <1>2
    <3>4. Assemble(s, b) \in AssemblerState
      BY <1>2, <3>1, <3>2, <3>3 DEF AssemblerState
    <3> QED
      BY <1>5, <2>2, <3>1, <3>4
  <2>3. CASE ~(s.len < RX_LINE_MAX - 1)
    <3>1. Assemble(s, b) = [line |-> s.line, len |-> 0, dones |-> s.dones]
      BY <1>2, <2>1, <2>3
    <3>2. Assemble(s, b) \in AssemblerState
      BY <1>1, <1>2, <3>1 DEF AssemblerState
    <3> QED
      BY <1>5, <2>3, <3>1, <3>2
  <2> QED
    BY <2>2, <2>3
<1> QED
  BY <1>3, <1>4, <1>5

(* Two assemblers that hold the same part of a line.                        *)
Alike(x, y) ==
    x.len = y.len /\ \A j \in 0..(x.len - 1) : x.line[j] = y.line[j]

(* They hold a DONE line together or not at all.                            *)
LEMMA AlikeMatch ==
    ASSUME NEW x \in AssemblerState, NEW y \in AssemblerState, Alike(x, y),
           IsDoneLine(Terminated(x))
    PROVE  IsDoneLine(Terminated(y))
<1> DEFINE W == Len(DONE)
           k == x.len
           a == Terminated(x)
           c == Terminated(y)
<1>1. /\ RX_LINE_MAX \in Nat /\ W \in Nat \ {0} /\ RX_LINE_MAX > W
      /\ \A i \in 1..W : DONE[i] # NUL
  <2>1. DONE \in Seq(Byte) /\ DONE # <<>>
    BY BytesAssumption, LinesAssumption
  <2>2. W \in Nat \ {0} /\ DOMAIN DONE = 1..W
    BY <2>1
  <2> QED
    BY <2>2, LinesAssumption, SizesAssumption
<1>2. /\ k \in 0..(RX_LINE_MAX - 1) /\ y.len = k
      /\ x.line \in [0..(RX_LINE_MAX - 1) -> Byte]
      /\ y.line \in [0..(RX_LINE_MAX - 1) -> Byte]
      /\ \A j \in 0..(k - 1) : x.line[j] = y.line[j]
  BY DEF AssemblerState, Alike
<1>3. /\ a[k] = NUL /\ c[k] = NUL /\ \A j \in 0..(k - 1) : a[j] = c[j]
  BY <1>1, <1>2 DEF Terminated
<1>4. (\A i \in 1..W : a[i - 1] = DONE[i]) /\ a[W] = NUL
  BY DEF IsDoneLine
<1> HIDE DEF W, k, a, c
<1>5. k >= W
  <2> SUFFICES ASSUME k < W PROVE FALSE
    BY <1>1, <1>2
  <2>1. k + 1 \in 1..W /\ (k + 1) - 1 = k
    BY <1>1, <1>2
  <2> QED
    BY <1>1, <1>3, <1>4, <2>1
<1>6. \A i \in 1..W : c[i - 1] = DONE[i]
  <2> TAKE i \in 1..W
  <2>1. i - 1 \in 0..(k - 1)
    BY <1>1, <1>2, <1>5
  <2> QED
    BY <1>3, <1>4, <2>1
<1>7. c[W] = NUL
  <2>1. W = k \/ W \in 0..(k - 1)
    BY <1>1, <1>2, <1>5
  <2> QED
    BY <1>3, <1>4, <2>1
<1> QED
  BY <1>6, <1>7 DEF IsDoneLine, W, c

(* They stay alike, and count the same DONE lines.                          *)
LEMMA AlikeStays ==
    ASSUME NEW x \in AssemblerState, NEW y \in AssemblerState, Alike(x, y), NEW b \in Byte
    PROVE  /\ Alike(Assemble(x, b), Assemble(y, b))
           /\ Assemble(y, b).dones - y.dones = Assemble(x, b).dones - x.dones
<1>1. /\ RX_LINE_MAX \in Nat /\ x.len \in 0..(RX_LINE_MAX - 1) /\ y.len = x.len
      /\ x.line \in [0..(RX_LINE_MAX - 1) -> Byte]
      /\ y.line \in [0..(RX_LINE_MAX - 1) -> Byte]
      /\ \A j \in 0..(x.len - 1) : x.line[j] = y.line[j]
      /\ x.dones \in Nat /\ y.dones \in Nat
  BY SizesAssumption DEF AssemblerState, Alike
<1>2. CASE b = CR
  BY <1>1, <1>2, AssembleKinds
<1>3. CASE b = LF
  <2>1. /\ Assemble(x, b) = [line |-> Terminated(x), len |-> 0,
                   dones |-> x.dones + IF IsDoneLine(Terminated(x)) THEN 1 ELSE 0]
        /\ Assemble(y, b) = [line |-> Terminated(y), len |-> 0,
                   dones |-> y.dones + IF IsDoneLine(Terminated(y)) THEN 1 ELSE 0]
    BY <1>3, AssembleKinds
  <2>2. Alike(y, x)
    BY <1>1 DEF Alike
  <2>3. IsDoneLine(Terminated(x)) <=> IsDoneLine(Terminated(y))
    BY <2>2, AlikeMatch
  <2>4. Alike(Assemble(x, b), Assemble(y, b))
    BY <2>1 DEF Alike
  <2> QED
    BY <1>1, <2>1, <2>3, <2>4
<1>4. CASE b \notin {CR, LF} /\ x.len < RX_LINE_MAX - 1
  <2>1. /\ Assemble(x, b) = [line |-> [x.line EXCEPT ![x.len] = b],
                             len |-> x.len + 1, dones |-> x.dones]
        /\ Assemble(y, b) = [line |-> [y.line EXCEPT ![x.len] = b],
                             len |-> x.len + 1, dones |-> y.dones]
    BY <1>1, <1>4, AssembleKinds
  <2>2. ASSUME NEW j \in 0..x.len
        PROVE  [x.line EXCEPT ![x.len] = b][j] = [y.line EXCEPT ![x.len] = b][j]
    BY <1>1
  <2>3. Alike(Assemble(x, b), Assemble(y, b))
    BY <1>1, <2>1, <2>2 DEF Alike
  <2> QED
    BY <1>1, <2>1, <2>3
<1>5. CASE b \notin {CR, LF} /\ ~(x.len < RX_LINE_MAX - 1)
  <2>1. /\ Assemble(x, b) = [line |-> x.line, len |-> 0, dones |-> x.dones]
        /\ Assemble(y, b) = [line |-> y.line, len |-> 0, dones |-> y.dones]
    BY <1>1, <1>5, AssembleKinds
  <2>2. Alike(Assemble(x, b), Assemble(y, b))
    BY <2>1 DEF Alike
  <2> QED
    BY <1>1, <2>1, <2>2
<1> QED
  BY <1>2, <1>3, <1>4, <1>5

(* Two assemblers whose counts differ by at most one, and only by the line  *)
(* that was begun when they did not hold the same part of it.               *)
Close(x, y) ==
    \/ x.dones = y.dones
    \/ Alike(x, y) /\ y.dones - x.dones \in {-1, 1}

LEMMA CloseStays ==
    ASSUME NEW x \in AssemblerState, NEW y \in AssemblerState, Close(x, y), NEW b \in Byte
    PROVE  Close(Assemble(x, b), Assemble(y, b))
<1>1. x.dones \in Nat /\ y.dones \in Nat
  BY DEF AssemblerState
<1>2. /\ Assemble(x, b) \in AssemblerState /\ Assemble(y, b) \in AssemblerState
  BY AssembleKinds
<1>3. Assemble(x, b).dones \in Nat /\ Assemble(y, b).dones \in Nat
  BY <1>2 DEF AssemblerState
<1>4. CASE Alike(x, y)
  BY <1>1, <1>3, <1>4, AlikeStays DEF Close
<1>5. CASE ~Alike(x, y)
  <2>1. x.dones = y.dones
    BY <1>5 DEF Close
  <2>2. CASE b = CR
    BY <2>1, <2>2, AssembleKinds DEF Close
  <2>3. CASE b = LF
    <3>1. /\ Assemble(x, b) = [line |-> Terminated(x), len |-> 0,
                   dones |-> x.dones + IF IsDoneLine(Terminated(x)) THEN 1 ELSE 0]
          /\ Assemble(y, b) = [line |-> Terminated(y), len |-> 0,
                   dones |-> y.dones + IF IsDoneLine(Terminated(y)) THEN 1 ELSE 0]
      BY <2>3, AssembleKinds
    <3>2. Alike(Assemble(x, b), Assemble(y, b))
      BY <3>1 DEF Alike
    <3>3. \/ Assemble(y, b).dones = Assemble(x, b).dones
          \/ Assemble(y, b).dones - Assemble(x, b).dones \in {-1, 1}
      BY <1>1, <2>1, <3>1
    <3> QED
      BY <3>2, <3>3 DEF Close
  <2>4. CASE b \notin {CR, LF}
    <3>1. Assemble(x, b).dones = x.dones /\ Assemble(y, b).dones = y.dones
      BY <2>4, AssembleKinds
    <3> QED
      BY <2>1, <3>1 DEF Close
  <2> QED
    BY <2>2, <2>3, <2>4
<1> QED
  BY <1>4, <1>5

(* What two assemblers make of the same bytes.                              *)
LEMMA AssembleTyped ==
    ASSUME NEW s \in AssemblerState, NEW bytes \in Seq(Byte), NEW f,
           Through(f, s, bytes, Len(bytes))
    PROVE  /\ \A n \in 0..Len(bytes) : f[n] \in AssemblerState
           /\ \A n \in 0..(Len(bytes) - 1) :
                  f[n + 1] = Assemble(f[n], bytes[n + 1]) /\ bytes[n + 1] \in Byte
           /\ f[0] = s
<1> DEFINE N == Len(bytes)
<1>1. N \in Nat
  OBVIOUS
<1>2. f[0] = s /\ \A n \in 0..(N - 1) : f[n + 1] = Assemble(f[n], bytes[n + 1])
  BY <1>1, ThroughIs
<1>3. \A n \in 0..(N - 1) : bytes[n + 1] \in Byte
  OBVIOUS
<1> DEFINE T == {n \in 0..N : f[n] \in AssemblerState}
<1>4. 0 \in T
  BY <1>1, <1>2
<1>5. \A n \in 0..(N - 1) : n \in T => n + 1 \in T
  BY <1>1, <1>2, <1>3, AssembleKinds
<1> HIDE DEF T, N
<1>6. \A n \in 0..N : n \in T
  BY <1>1, <1>4, <1>5, UpTo
<1> QED
  BY <1>2, <1>3, <1>6 DEF T, N

LEMMA AssembleAllTyped ==
    ASSUME NEW s \in AssemblerState, NEW bytes \in Seq(Byte)
    PROVE  AssembleAll(s, bytes) \in AssemblerState
<1>1. PICK f : Through(f, s, bytes, Len(bytes)) /\ AssembleAll(s, bytes) = f[Len(bytes)]
  BY AssembleAllRuns
<1>2. Len(bytes) \in 0..Len(bytes)
  OBVIOUS
<1> QED
  BY <1>1, <1>2, AssembleTyped

(* Assemblers that are alike count the same DONE lines in any bytes.        *)
LEMMA AlikeRun ==
    ASSUME NEW x \in AssemblerState, NEW y \in AssemblerState, Alike(x, y),
           NEW bytes \in Seq(Byte)
    PROVE  AssembleAll(y, bytes).dones - y.dones = AssembleAll(x, bytes).dones - x.dones
<1> DEFINE N == Len(bytes)
<1>1. PICK f : Through(f, x, bytes, N) /\ AssembleAll(x, bytes) = f[N]
  BY AssembleAllRuns
<1>2. PICK g : Through(g, y, bytes, N) /\ AssembleAll(y, bytes) = g[N]
  BY AssembleAllRuns
<1>3. /\ \A n \in 0..N : f[n] \in AssemblerState
      /\ \A n \in 0..(N - 1) : f[n + 1] = Assemble(f[n], bytes[n + 1])
                               /\ bytes[n + 1] \in Byte
      /\ f[0] = x
  BY <1>1, AssembleTyped
<1>4. /\ \A n \in 0..N : g[n] \in AssemblerState
      /\ \A n \in 0..(N - 1) : g[n + 1] = Assemble(g[n], bytes[n + 1])
      /\ g[0] = y
  BY <1>2, AssembleTyped
<1>5. N \in Nat /\ x.dones \in Nat /\ y.dones \in Nat
  BY DEF AssemblerState
<1> DEFINE T == {n \in 0..N : Alike(f[n], g[n]) /\ g[n].dones - y.dones = f[n].dones - x.dones}
<1>6. 0 \in T
  BY <1>3, <1>4, <1>5
<1> HIDE DEF N
<1>7. ASSUME NEW n \in 0..(N - 1), n \in T PROVE n + 1 \in T
  <2>1. n \in 0..N /\ n + 1 \in 0..N
    BY <1>5
  <2>2. /\ Alike(f[n + 1], g[n + 1])
        /\ g[n + 1].dones - g[n].dones = f[n + 1].dones - f[n].dones
    BY <1>3, <1>4, <1>7, <2>1, AlikeStays
  <2>3. /\ f[n].dones \in Nat /\ g[n].dones \in Nat /\ f[n + 1].dones \in Nat
        /\ g[n + 1].dones \in Nat
    <3>1. \A z \in AssemblerState : z.dones \in Nat
      BY DEF AssemblerState
    <3> QED
      BY <1>3, <1>4, <2>1, <3>1
  <2>4. g[n].dones - y.dones = f[n].dones - x.dones
    BY <1>7
  <2> DEFINE a == f[n].dones
             b == g[n].dones
             a2 == f[n + 1].dones
             b2 == g[n + 1].dones
             d == x.dones
             e == y.dones
  <2>5. b2 - e = a2 - d
    <3>1. /\ a \in Nat /\ b \in Nat /\ a2 \in Nat /\ b2 \in Nat /\ d \in Nat /\ e \in Nat
          /\ b2 - b = a2 - a /\ b - e = a - d
      BY <1>5, <2>2, <2>3, <2>4
    <3> HIDE DEF a, b, a2, b2, d, e
    <3> QED
      BY <3>1
  <2> QED
    BY <2>1, <2>2, <2>5
<1> HIDE DEF T
<1>8. \A n \in 0..N : n \in T
  BY <1>5, <1>6, <1>7, UpTo
<1>9. N \in T
  BY <1>5, <1>8
<1> QED
  BY <1>1, <1>2, <1>9 DEF T

(* Assemblers that are close stay within one DONE line of each other.       *)
LEMMA CloseRun ==
    ASSUME NEW x \in AssemblerState, NEW y \in AssemblerState, Close(x, y),
           NEW bytes \in Seq(Byte)
    PROVE  AssembleAll(y, bytes).dones - AssembleAll(x, bytes).dones \in {-1, 0, 1}
<1> DEFINE N == Len(bytes)
<1>1. PICK f : Through(f, x, bytes, N) /\ AssembleAll(x, bytes) = f[N]
  BY AssembleAllRuns
<1>2. PICK g : Through(g, y, bytes, N) /\ AssembleAll(y, bytes) = g[N]
  BY AssembleAllRuns
<1>3. /\ \A n \in 0..N : f[n] \in AssemblerState
      /\ \A n \in 0..(N - 1) : f[n + 1] = Assemble(f[n], bytes[n + 1])
                               /\ bytes[n + 1] \in Byte
      /\ f[0] = x
  BY <1>1, AssembleTyped
<1>4. /\ \A n \in 0..N : g[n] \in AssemblerState
      /\ \A n \in 0..(N - 1) : g[n + 1] = Assemble(g[n], bytes[n + 1])
      /\ g[0] = y
  BY <1>2, AssembleTyped
<1>5. N \in Nat
  OBVIOUS
<1> DEFINE T == {n \in 0..N : Close(f[n], g[n])}
<1>6. 0 \in T
  BY <1>3, <1>4, <1>5
<1> HIDE DEF N
<1>7. ASSUME NEW n \in 0..(N - 1), n \in T PROVE n + 1 \in T
  <2>1. n \in 0..N /\ n + 1 \in 0..N
    BY <1>5
  <2>2. Close(f[n + 1], g[n + 1])
    BY <1>3, <1>4, <1>7, <2>1, CloseStays
  <2> QED
    BY <2>1, <2>2
<1> HIDE DEF T
<1>8. \A n \in 0..N : n \in T
  BY <1>5, <1>6, <1>7, UpTo
<1>9. N \in T
  BY <1>5, <1>8
<1>10. Close(f[N], g[N]) /\ f[N] \in AssemblerState /\ g[N] \in AssemblerState
  BY <1>3, <1>4, <1>5, <1>9 DEF T
<1>11. f[N].dones \in Nat /\ g[N].dones \in Nat
  BY <1>10 DEF AssemblerState
<1> QED
  BY <1>1, <1>2, <1>10, <1>11 DEF Close

(* What the shim shows of the driver, and the assembler's state when the    *)
(* next byte of the stream comes to it.                                     *)
Pins == [low |-> channel_low, high |-> channel_high, mode |-> channel_mode]
Requested == sent \o InFlight("task") \o InFlight("irq")
Begun == [line |-> rx_line, len |-> Held, dones |-> IF matched["task"] THEN 1 ELSE 0]

LEMMA InTransitIs ==
    /\ InTransit = AssembleAll(Begun, Stream).dones
    /\ InTransit' = AssembleAll(Begun', Stream').dones
BY DEF InTransit, Begun, Stream

(* In a state of its type the driver's assembler is one.                    *)
LEMMA BegunTyped == Solo => Begun \in AssemblerState /\ InTransit \in Nat
<1> SUFFICES ASSUME Solo PROVE Begun \in AssemblerState /\ InTransit \in Nat
  OBVIOUS
<1>1. Begun \in AssemblerState
  <2>1. /\ rx_len \in 0..(RX_LINE_MAX - 1) /\ reg["task"] \in 0..(RX_LINE_MAX - 1)
        /\ rx_line \in [0..(RX_LINE_MAX - 1) -> Byte]
    BY StreamTyped
  <2>2. 0 \in 0..(RX_LINE_MAX - 1)
    BY <2>1, Done
  <2>3. Held \in 0..(RX_LINE_MAX - 1)
    BY <2>1, <2>2 DEF Held, Unindexed
  <2> QED
    BY <2>1, <2>3 DEF Begun, AssemblerState
<1>2. Stream \in Seq(Byte)
  BY StreamTyped
<1>3. AssembleAll(Begun, Stream) \in AssemblerState
  BY <1>1, <1>2, AssembleAllTyped
<1> QED
  BY <1>1, <1>3, InTransitIs DEF AssemblerState

LEMMA BegunTypedNext == Solo' => Begun' \in AssemblerState /\ InTransit' \in Nat
<1>1. (Solo => Begun \in AssemblerState /\ InTransit \in Nat)'
  BY BegunTyped, PTL
<1> QED
  BY <1>1

-----------------------------------------------------------------------------
(* The steps of the shim.                                                   *)
LEMMA ShimStays ==
    ASSUME UNCHANGED <<channel_low, channel_high, channel_mode, action_active>>,
           Requested' = Requested, InTransit' = InTransit
    PROVE  [Shim!Next]_Shim!vars
BY DEF Shim!vars, Requested

LEMMA ShimSets ==
    ASSUME NEW p \in {"low", "high", "mode"}, NEW bit \in {0, 1},
           Pins' = [Pins EXCEPT ![p] = bit],
           action_active' = action_active, Requested' = Requested, InTransit' = InTransit
    PROVE  [Shim!Next]_Shim!vars
<1>1. Shim!SetPin(p, bit)
  BY DEF Shim!SetPin, Pins, Requested
<1> QED
  BY <1>1 DEF Shim!Next, Shim!Pin

LEMMA ShimTriggers ==
    ASSUME action_active = 0, action_active' = 1, Pins' = Pins,
           Requested' = Append(Requested, Shim!Command(Pins)),
           InTransit \in Nat, InTransit' \in Nat, InTransit' - InTransit \in {-1, 0, 1}
    PROVE  [Shim!Next]_Shim!vars
<1>1. InTransit' \in {InTransit - 1, InTransit, InTransit + 1} \cap Nat
  <2> DEFINE a == InTransit
             c == InTransit'
  <2>1. a \in Nat /\ c \in Nat /\ c - a \in {-1, 0, 1}
    OBVIOUS
  <2> HIDE DEF a, c
  <2>2. c \in {a - 1, a, a + 1} \cap Nat
    BY <2>1
  <2> QED
    BY <2>2 DEF a, c
<1>2. Shim!Trigger
  BY <1>1 DEF Shim!Trigger, Pins, Requested
<1> QED
  BY <1>2 DEF Shim!Next

LEMMA ShimArrives ==
    ASSUME UNCHANGED <<channel_low, channel_high, channel_mode, action_active>>,
           Requested' = Requested, InTransit' = InTransit + 1
    PROVE  [Shim!Next]_Shim!vars
<1>1. Shim!Arrive
  BY DEF Shim!Arrive, Requested
<1> QED
  BY <1>1 DEF Shim!Next

LEMMA ShimCompletes ==
    ASSUME UNCHANGED <<channel_low, channel_high, channel_mode>>, action_active' = 0,
           Requested' = Requested, InTransit' \in Nat, InTransit' = InTransit - 1,
           InTransit \in Nat
    PROVE  [Shim!Next]_Shim!vars
<1>1. InTransit > 0
  <2> DEFINE a == InTransit
             c == InTransit'
  <2>1. a \in Nat /\ c \in Nat /\ c = a - 1
    OBVIOUS
  <2> HIDE DEF a, c
  <2>2. a > 0
    BY <2>1
  <2> QED
    BY <2>2 DEF a
<1>2. Shim!Complete
  BY <1>1 DEF Shim!Complete, Requested
<1> QED
  BY <1>2 DEF Shim!Next

-----------------------------------------------------------------------------
LEMMA RequestedStays ==
    ASSUME UNCHANGED <<sent, request>>, pc'["task"] = "send" <=> pc["task"] = "send",
           pc'["irq"] = "send" <=> pc["irq"] = "send"
    PROVE  Requested' = Requested
BY DEF Requested, InFlight

LEMMA TransitStays ==
    ASSUME Stream' = Stream, Held' = Held, rx_line' = rx_line,
           matched'["task"] = matched["task"]
    PROVE  InTransit' = InTransit
BY InTransitIs DEF Begun

(* A byte handed to the assembler was in transit before, and has had its    *)
(* effect.                                                                  *)
LEMMA TransitTakes ==
    ASSUME Solo, data["task"] # <<>>,
           data' = [data EXCEPT !["task"] = Tail(data["task"])], fifo' = fifo,
           Begun' = Assemble(Begun, Head(data["task"]))
    PROVE  InTransit' = InTransit
<1>1. data["task"] \in Seq(Byte) /\ fifo \in Seq(Byte) /\ Stream \in Seq(Byte)
  BY StreamTyped
<1>2. data'["task"] = Tail(data["task"])
  BY DEF Solo, TypeOK, StreamTypes, Context
<1>3. /\ Stream # <<>> /\ Stream' = Tail(Stream) /\ Stream[1] = Head(data["task"])
  BY <1>1, <1>2, TailOfBoth DEF Stream
<1>4. AssembleAll(Begun, Stream) = AssembleAll(Assemble(Begun, Stream[1]), Tail(Stream))
  BY <1>1, <1>3, AssembleFirst
<1> QED
  BY <1>3, <1>4, InTransitIs

(* Each step of the driver.                                                 *)
Simulates == [Shim!Next]_Shim!vars

(* A write latches its pin; the request it may start is sent later.         *)
LEMMA WriteSimulates ==
    ASSUME Solo, NEW c \in Context, BeginWrite(c)
    PROVE  Simulates
<1>1. PICK p \in DrivenPins, bit \in Bit : Write(c, p, bit)
  BY DEF BeginWrite
<1>2. /\ pc[c] = "idle" /\ WritePin(c, p, bit)
      /\ UNCHANGED <<action_active, rx_len, rx_line, data, reg, matched, request, fifo, sent>>
  BY <1>1 DEF Write, At, assembler, locals
<1>3. pc' = [pc EXCEPT ![c] = "idle"] \/ pc' = [pc EXCEPT ![c] = "start"]
  BY <1>2 DEF WritePin, Goto
<1>4. pc \in [Context -> Label] /\ Context = {"task", "irq"}
  BY DEF Solo, TypeOK, ControlTypes, Context
<1>5. Requested' = Requested
  BY <1>2, <1>3, <1>4, RequestedStays
<1>6. InTransit' = InTransit
  <2>1. Stream' = Stream /\ Held' = Held
    BY <1>2, <1>3, <1>4 DEF Stream, Held, Unindexed
  <2> QED
    BY <1>2, <2>1, TransitStays
<1>7. /\ channel_low' = IF p = "channel_low" THEN bit ELSE channel_low
      /\ channel_high' = IF p = "channel_high" THEN bit ELSE channel_high
      /\ channel_mode' = IF p = "channel_mode" THEN bit ELSE channel_mode
  BY <1>2 DEF WritePin
<1>8. bit \in {0, 1}
  BY DEF Bit
<1>9. CASE p = "channel_low"
  <2>1. Pins' = [Pins EXCEPT !["low"] = bit]
    BY <1>7, <1>9 DEF Pins
  <2> QED
    BY <1>2, <1>5, <1>6, <1>8, <2>1, ShimSets DEF Simulates
<1>10. CASE p = "channel_high"
  <2>1. Pins' = [Pins EXCEPT !["high"] = bit]
    BY <1>7, <1>10 DEF Pins
  <2> QED
    BY <1>2, <1>5, <1>6, <1>8, <2>1, ShimSets DEF Simulates
<1>11. CASE p = "channel_mode"
  <2>1. Pins' = [Pins EXCEPT !["mode"] = bit]
    BY <1>7, <1>11 DEF Pins
  <2> QED
    BY <1>2, <1>5, <1>6, <1>8, <2>1, ShimSets DEF Simulates
<1>12. CASE p \notin ChannelPins
  <2>1. UNCHANGED <<channel_low, channel_high, channel_mode>>
    BY <1>7, <1>12 DEF ChannelPins
  <2> QED
    BY <1>2, <1>5, <1>6, <2>1, ShimStays DEF Simulates
<1> QED
  BY <1>9, <1>10, <1>11, <1>12 DEF ChannelPins

(* A start takes the request's place in the count of those sent, and may    *)
(* cut a DONE or free one from what stood before it.                        *)
LEMMA StartSimulates ==
    ASSUME IInv, Solo, Solo', NEW c \in Context, StartAction(c)
    PROVE  Simulates
<1>1. /\ pc[c] = "start" /\ pc' = [pc EXCEPT ![c] = "send"]
      /\ request' = [request EXCEPT ![c] = Shim!Command(Pins)]
      /\ action_active' = 1 /\ rx_len' = 0
      /\ UNCHANGED <<channel_low, channel_high, channel_mode, rx_line, data, reg,
                     matched, fifo, sent>>
  BY DEF StartAction, At, Goto, pins, Shim!Command, Pins
<1>2. /\ pc \in [Context -> Label] /\ Context = {"task", "irq"}
      /\ request \in [Context -> Request] /\ sent \in Seq(Request)
      /\ action_active = 0 /\ pc["task"] # "send" /\ pc["irq"] # "send"
  BY <1>1 DEF IInv, TypeOK, ControlTypes, LocalTypes, StreamTypes, Context, Exclusion,
              Starting
<1>3. Requested = sent
  <2>1. Requested = sent \o <<>> \o <<>>
    BY <1>2 DEF Requested, InFlight
  <2> QED
    BY <1>2, <2>1, ConcatEmptySeq
<1> DEFINE r == Shim!Command(Pins)
<1>4. r \in Request
  <2>1. request'[c] = r
    BY <1>1, <1>2
  <2>2. request' \in [Context -> Request]
    BY DEF Solo, TypeOK, LocalTypes
  <2> QED
    BY <2>1, <2>2
<1>5. Requested' = Append(Requested, r)
  <2>1. request'[c] = r /\ pc'[c] = "send" /\ \A d \in Context : d # c => pc'[d] # "send"
    BY <1>1, <1>2
  <2> HIDE DEF r
  <2>2. CASE c = "task"
    <3>1. Requested' = sent \o <<r>> \o <<>>
      BY <1>1, <1>2, <2>1, <2>2 DEF Requested, InFlight
    <3> QED
      BY <1>2, <1>3, <1>4, <3>1, ConcatEmptySeq, AppendIsConcat
  <2>3. CASE c = "irq"
    <3>1. Requested' = sent \o <<>> \o <<r>>
      BY <1>1, <1>2, <2>1, <2>3 DEF Requested, InFlight
    <3> QED
      BY <1>2, <1>3, <1>4, <3>1, ConcatEmptySeq, AppendIsConcat
  <2> QED
    BY <1>2, <2>2, <2>3
<1>6. InTransit \in Nat /\ InTransit' \in Nat /\ Begun \in AssemblerState
      /\ Begun' \in AssemblerState
  BY <1>2, BegunTyped, BegunTypedNext
<1>7. InTransit' - InTransit \in {-1, 0, 1}
  <2>1. Begun'.dones = Begun.dones
    BY <1>1 DEF Begun
  <2>2. Close(Begun, Begun')
    BY <2>1 DEF Close
  <2>3. Stream' = Stream /\ Stream \in Seq(Byte)
    BY <1>1, <1>2, StreamTyped DEF Stream
  <2>4. AssembleAll(Begun', Stream).dones - AssembleAll(Begun, Stream).dones \in {-1, 0, 1}
    BY <1>6, <2>2, <2>3, CloseRun
  <2> QED
    BY <2>3, <2>4, InTransitIs
<1>8. Pins' = Pins
  BY <1>1 DEF Pins
<1> HIDE DEF r
<1> QED
  BY <1>1, <1>2, <1>5, <1>6, <1>7, <1>8, ShimTriggers DEF Simulates, r

LEMMA SendSimulates ==
    ASSUME IInv, Solo, DoneInv, NEW c \in Context, SendRequest(c)
    PROVE  Simulates
<1>1. pc["task"] # "boot"
  BY DEF SendRequest, At, IInv, Exclusion, Context
<1>2. /\ pc[c] = "send" /\ pc' = [pc EXCEPT ![c] = "idle"]
      /\ sent' = Append(sent, request[c]) /\ request' = [request EXCEPT ![c] = NoRequest]
      /\ UNCHANGED <<channel_low, channel_high, channel_mode, action_active, rx_len,
                     rx_line, data, reg, matched, fifo>>
  BY <1>1 DEF SendRequest, At, Goto, pins, assembler, DoneInv, OnlyTask
<1>3. /\ pc \in [Context -> Label] /\ Context = {"task", "irq"}
      /\ request \in [Context -> Request] /\ sent \in Seq(Request)
      /\ \A d \in Context : d # c => pc[d] # "send"
  BY <1>2 DEF IInv, TypeOK, ControlTypes, LocalTypes, StreamTypes, Context, Exclusion,
              Starting
<1> DEFINE r == request[c]
<1>4. r \in Request
  BY <1>3
<1>5. Requested = Append(sent, r)
  <2>1. CASE c = "task"
    <3>1. Requested = sent \o <<r>> \o <<>>
      BY <1>2, <1>3, <2>1 DEF Requested, InFlight
    <3> HIDE DEF r
    <3>2. sent \o <<r>> \in Seq(Request)
      BY <1>3, <1>4
    <3> QED
      BY <1>3, <1>4, <3>1, <3>2, ConcatEmptySeq, AppendIsConcat
  <2>2. CASE c = "irq"
    <3>1. Requested = sent \o <<>> \o <<r>>
      BY <1>2, <1>3, <2>2 DEF Requested, InFlight
    <3> HIDE DEF r
    <3> QED
      BY <1>3, <1>4, <3>1, ConcatEmptySeq, AppendIsConcat
  <2> QED
    BY <1>3, <2>1, <2>2
<1>6. Requested' = Append(sent, r)
  <2>1. \A d \in Context : pc'[d] # "send"
    BY <1>2, <1>3
  <2>2. Requested' = Append(sent, r) \o <<>> \o <<>>
    BY <1>2, <1>3, <2>1 DEF Requested, InFlight
  <2> HIDE DEF r
  <2>3. Append(sent, r) \in Seq(Request)
    BY <1>3, <1>4
  <2> QED
    BY <2>2, <2>3, ConcatEmptySeq
<1>7. InTransit' = InTransit
  <2>1. Stream' = Stream /\ Held' = Held
    BY <1>2, <1>3 DEF Stream, Held, Unindexed
  <2> QED
    BY <1>2, <2>1, TransitStays
<1> QED
  BY <1>2, <1>5, <1>6, <1>7, ShimStays DEF Simulates

(* The task takes a byte, or acts on a line.                                *)
LEMMA TakeSimulates ==
    ASSUME Solo, DoneInv, SkipCR("task") \/ CompareLine("task") \/ StoreByte("task")
    PROVE  Simulates
<1>1. /\ pc \in [Context -> Label] /\ Context = {"task", "irq"}
      /\ matched \in [Context -> BOOLEAN] /\ ~matched["task"]
      /\ rx_line \in [0..(RX_LINE_MAX - 1) -> Byte] /\ rx_len \in 0..(RX_LINE_MAX - 1)
      /\ reg["task"] \in 0..(RX_LINE_MAX - 1) /\ data["task"] \in Seq(Byte)
      /\ data["task"] # <<>>
  BY StoreIs DEF Solo, TypeOK, ControlTypes, LocalTypes, AssemblerTypes, StreamTypes,
                 Context, DoneInv, OnlyTask, SkipCR, CompareLine, At
<1>2. /\ data' = [data EXCEPT !["task"] = Tail(data["task"])]
      /\ UNCHANGED <<channel_low, channel_high, channel_mode, action_active, fifo, sent,
                     request>>
  BY DEF SkipCR, CompareLine, StoreByte, pins
<1>3. /\ pc'["task"] # "send" /\ pc["task"] # "send" /\ pc'["irq"] = pc["irq"]
  BY <1>1, StoreIs DEF SkipCR, CompareLine, At, Goto
<1>4. Requested' = Requested
  BY <1>2, <1>3, RequestedStays
<1> DEFINE b == Head(data["task"])
<1>5. b \in Byte /\ Begun \in AssemblerState
  BY <1>1, BegunTyped
<1>6. Begun' = Assemble(Begun, b)
  <2>1. CASE SkipCR("task")
    <3>1. b = CR /\ UNCHANGED <<pc, reg, rx_len, rx_line, matched>>
      BY <2>1 DEF SkipCR, assembler
    <3>2. Begun' = Begun
      BY <3>1 DEF Begun, Held, Unindexed
    <3> QED
      BY <1>5, <3>1, <3>2, AssembleKinds
  <2>2. CASE CompareLine("task")
    <3>1. /\ b = LF /\ pc["task"] = "byte" /\ pc'["task"] = "finish"
          /\ rx_line' = [rx_line EXCEPT ![rx_len] = NUL]
          /\ matched'["task"] = IsDoneLine(rx_line')
      BY <1>1, <2>2 DEF CompareLine, At, Goto
    <3>2. Begun = [line |-> rx_line, len |-> rx_len, dones |-> 0]
      BY <1>1, <3>1 DEF Begun, Held, Unindexed
    <3>3. Terminated(Begun) = rx_line'
      BY <3>1, <3>2 DEF Terminated
    <3>4. Begun' = [line |-> rx_line', len |-> 0,
                    dones |-> IF IsDoneLine(rx_line') THEN 1 ELSE 0]
      BY <3>1 DEF Begun, Held, Unindexed
    <3>5. Assemble(Begun, b) = [line |-> rx_line', len |-> 0,
              dones |-> 0 + IF IsDoneLine(rx_line') THEN 1 ELSE 0]
      BY <1>5, <3>1, <3>2, <3>3, AssembleKinds
    <3> QED
      BY <3>4, <3>5
  <2>3. CASE StoreByte("task")
    <3>1. /\ pc["task"] \in {"store", "index"} /\ pc'["task"] = "byte" /\ b \notin {CR, LF}
          /\ matched' = matched
          /\ IF reg["task"] < RX_LINE_MAX - 1
             THEN rx_line' = [rx_line EXCEPT ![reg["task"]] = b] /\ rx_len' = reg["task"] + 1
             ELSE rx_len' = 0 /\ rx_line' = rx_line
      BY <1>1, <2>3, StoreIs DEF StoreByte, DoneInv, OnlyTask
    <3>2. Begun = [line |-> rx_line, len |-> reg["task"], dones |-> 0]
      BY <1>1, <2>3, StoreIs DEF Begun
    <3>3. Begun' = [line |-> rx_line', len |-> rx_len', dones |-> 0]
      BY <1>1, <2>3, <3>1, StoreIs DEF Begun
    <3> HIDE DEF b
    <3>4. CASE reg["task"] < RX_LINE_MAX - 1
      <4>1. Assemble(Begun, b) = [line |-> [rx_line EXCEPT ![reg["task"]] = b],
                                  len |-> reg["task"] + 1, dones |-> 0]
        BY <1>5, <3>1, <3>2, <3>4, AssembleKinds
      <4> QED
        BY <3>1, <3>3, <3>4, <4>1
    <3>5. CASE ~(reg["task"] < RX_LINE_MAX - 1)
      <4>1. Assemble(Begun, b) = [line |-> rx_line, len |-> 0, dones |-> 0]
        BY <1>5, <3>1, <3>2, <3>5, AssembleKinds
      <4> QED
        BY <3>1, <3>3, <3>5, <4>1
    <3> QED
      BY <3>4, <3>5
  <2> QED
    BY <2>1, <2>2, <2>3
<1>7. InTransit' = InTransit
  BY <1>1, <1>2, <1>6, TransitTakes
<1> QED
  BY <1>2, <1>4, <1>7, ShimStays DEF Simulates

LEMMA FinishSimulates ==
    ASSUME Solo, Solo', FinishLine("task")
    PROVE  Simulates
<1>1. /\ pc["task"] = "finish" /\ pc' = [pc EXCEPT !["task"] = "byte"]
      /\ rx_len' = 0 /\ matched' = [matched EXCEPT !["task"] = FALSE]
      /\ IF matched["task"] THEN action_active' = 0
                            ELSE action_active' = action_active
      /\ UNCHANGED <<channel_low, channel_high, channel_mode, data, fifo, reg, rx_line,
                     sent, request>>
  BY DEF FinishLine, At, Goto, pins
<1>2. /\ pc \in [Context -> Label] /\ Context = {"task", "irq"}
      /\ matched \in [Context -> BOOLEAN]
  BY DEF Solo, TypeOK, ControlTypes, LocalTypes, Context
<1>3. pc'["task"] = "byte" /\ pc'["irq"] = pc["irq"] /\ ~matched'["task"]
  BY <1>1, <1>2
<1>4. Stream' = Stream /\ Held' = 0 /\ Held = 0 /\ Stream \in Seq(Byte)
  BY <1>1, <1>3, StreamTyped DEF Stream, Held, Unindexed
<1>5. Requested' = Requested
  BY <1>1, <1>3, RequestedStays
<1>6. InTransit \in Nat /\ InTransit' \in Nat /\ Begun \in AssemblerState
      /\ Begun' \in AssemblerState
  BY BegunTyped, BegunTypedNext
<1>7. CASE matched["task"]
  <2>1. Begun'.dones = 0 /\ Begun.dones = 1
    BY <1>3, <1>7 DEF Begun
  <2>2. Alike(Begun, Begun')
    BY <1>1, <1>4 DEF Alike, Begun
  <2>3. AssembleAll(Begun', Stream).dones - Begun'.dones
            = AssembleAll(Begun, Stream).dones - Begun.dones
    BY <1>4, <1>6, <2>2, AlikeRun
  <2>4. InTransit' - 0 = InTransit - 1
    BY <1>4, <2>1, <2>3, InTransitIs
  <2>5. InTransit' = InTransit - 1
    <3> DEFINE n == InTransit
               m == InTransit'
    <3>1. n \in Nat /\ m \in Nat /\ m - 0 = n - 1
      BY <1>6, <2>4
    <3> HIDE DEF n, m
    <3>2. m = n - 1
      BY <3>1
    <3> QED
      BY <3>2 DEF n, m
  <2> QED
    BY <1>1, <1>5, <1>6, <1>7, <2>5, ShimCompletes DEF Simulates
<1>8. CASE ~matched["task"]
  <2>1. InTransit' = InTransit
    <3>1. matched'["task"] = matched["task"]
      BY <1>1, <1>2, <1>8
    <3> QED
      BY <1>1, <1>4, <3>1, TransitStays
  <2> QED
    BY <1>1, <1>5, <1>8, <2>1, ShimStays DEF Simulates
<1> QED
  BY <1>7, <1>8

(* Steps before the first byte is taken, and between two calls.             *)
LEMMA QuietSimulates ==
    ASSUME Solo, DoneInv,
           \/ InitUart \/ BeginTaskPoll \/ LedTask("task") \/ FifoLen("task")
           \/ EndData("task") \/ LoadLen("task") \/ ReadFifo("task") \/ UNCHANGED vars
    PROVE  Simulates
<1>1. /\ pc \in [Context -> Label] /\ Context = {"task", "irq"} /\ OnlyTask
      /\ reg \in [Context -> 0..(RX_LINE_MAX - 1)] /\ fifo \in Seq(Byte)
      /\ take["task"] \in Nat /\ data \in [Context -> Seq(Byte)]
  BY DEF Solo, TypeOK, ControlTypes, AssemblerTypes, LocalTypes, StreamTypes, Context, DoneInv
<1>2. UNCHANGED <<channel_low, channel_high, channel_mode, action_active, sent, request,
                  matched, rx_line, rx_len>>
  BY DEF InitUart, BeginTaskPoll, BeginPoll, LedTask, FifoLen, EndData, LoadLen, ReadFifo,
         vars, pins, assembler, locals, adapter
<1>3. /\ pc'["task"] = "send" <=> pc["task"] = "send"
      /\ pc'["irq"] = pc["irq"]
  BY <1>1 DEF InitUart, BeginTaskPoll, BeginPoll, LedTask, FifoLen, EndData, LoadLen,
              ReadFifo, vars, At, Goto
<1>4. Requested' = Requested
  BY <1>2, <1>3, RequestedStays
<1>5. Held' = Held
  <2>1. CASE LoadLen("task")
    <3>1. pc["task"] = "byte" /\ pc'["task"] = "store" /\ reg'["task"] = rx_len
      BY <1>1, <2>1 DEF LoadLen, At, Goto
    <3> QED
      BY <1>2, <3>1 DEF Held, Unindexed
  <2>2. CASE ~LoadLen("task")
    <3>1. reg' = reg
      BY <2>2 DEF InitUart, BeginTaskPoll, BeginPoll, LedTask, FifoLen, EndData, ReadFifo,
                  vars, locals
    <3>2. \/ pc'["task"] = pc["task"]
          \/ {pc["task"], pc'["task"]} \cap {"store", "index", "finish"} = {}
      BY <1>1, <2>2 DEF InitUart, BeginTaskPoll, BeginPoll, LedTask, FifoLen, EndData,
                        ReadFifo, vars, At, Goto
    <3> QED
      BY <1>2, <3>1, <3>2 DEF Held, Unindexed
  <2> QED
    BY <2>1, <2>2
<1>6. Stream' = Stream
  <2>1. CASE ReadFifo("task")
    <3>1. take["task"] <= Len(fifo) /\ data["task"] = <<>>
      BY <1>1, <2>1 DEF ReadFifo, At, OnlyTask
    <3>2. /\ data' = [data EXCEPT !["task"] = SubSeq(fifo, 1, take["task"])]
          /\ fifo' = SubSeq(fifo, take["task"] + 1, Len(fifo))
      BY <2>1, <3>1 DEF ReadFifo
    <3>3. data'["task"] \o fifo' = fifo
      BY <1>1, <3>1, <3>2, CutAndJoined
    <3>4. data["task"] \o fifo = fifo
      BY <1>1, <3>1
    <3> QED
      BY <3>3, <3>4 DEF Stream
  <2>2. CASE ~ReadFifo("task")
    <3>1. data' = data
      BY <2>2 DEF InitUart, BeginTaskPoll, BeginPoll, LedTask, FifoLen, EndData, LoadLen,
                  vars, locals
    <3>2. fifo' = fifo
      <4>1. CASE InitUart
        BY <1>1, <4>1 DEF InitUart, At, OnlyTask
      <4>2. CASE ~InitUart
        BY <2>2, <4>2 DEF BeginTaskPoll, BeginPoll, LedTask, FifoLen, EndData, LoadLen, vars
      <4> QED
        BY <4>1, <4>2
    <3> QED
      BY <3>1, <3>2 DEF Stream
  <2> QED
    BY <2>1, <2>2
<1>7. InTransit' = InTransit
  BY <1>2, <1>5, <1>6, TransitStays
<1> QED
  BY <1>2, <1>4, <1>7, ShimStays DEF Simulates

LEMMA ReloadSimulates ==
    ASSUME Solo, ReloadLen("task")
    PROVE  Simulates
<1>1. pc'["task"] # "send" /\ pc["task"] # "send" /\ pc'["irq"] = pc["irq"]
  BY ReloadIs DEF Solo, TypeOK, ControlTypes, Context
<1>2. Requested' = Requested
  BY <1>1, ReloadIs, RequestedStays
<1>3. InTransit' = InTransit
  BY ReloadIs, TransitStays
<1> QED
  BY <1>2, <1>3, ReloadIs, ShimStays DEF Simulates

LEMMA EndPollSimulates ==
    ASSUME Solo, Exclusion, EndPoll("task")
    PROVE  Simulates
<1>1. /\ pc \in [Context -> Label] /\ Context = {"task", "irq"} /\ pc["task"] = "fifo"
      /\ toggling["task"] = NoPin
  BY DEF Solo, TypeOK, ControlTypes, Context, Exclusion, EndPoll, At
<1>2. /\ pc' = [pc EXCEPT !["task"] = "idle"]
      /\ UNCHANGED <<channel_low, channel_high, channel_mode, action_active, sent, request,
                     matched, rx_line, rx_len, reg, data, fifo>>
  BY <1>1 DEF EndPoll, Goto, pins, assembler
<1>3. Requested' = Requested
  BY <1>1, <1>2, RequestedStays
<1>4. Stream' = Stream /\ Held' = Held
  BY <1>1, <1>2 DEF Stream, Held, Unindexed
<1>5. InTransit' = InTransit
  BY <1>2, <1>4, TransitStays
<1> QED
  BY <1>2, <1>3, <1>5, ShimStays DEF Simulates

(* A byte received completes a DONE, or changes nothing yet.                *)
LEMMA AdapterSimulates ==
    ASSUME Solo, NEW x \in Byte, NEW rest, NEW l, Receive(x, rest, l)
    PROVE  Simulates
<1>1. /\ fifo' = Append(fifo, x) \/ fifo' = fifo
      /\ UNCHANGED <<channel_low, channel_high, channel_mode, action_active, rx_len,
                     rx_line, pc, data, reg, matched, sent, request>>
  BY DEF Receive, pins, assembler, locals
<1>2. Requested' = Requested
  BY <1>1, RequestedStays
<1>3. Held' = Held /\ Begun' = Begun
  BY <1>1 DEF Held, Unindexed, Begun
<1>4. CASE fifo' = fifo
  <2>1. InTransit' = InTransit
    BY <1>1, <1>3, <1>4, TransitStays DEF Stream
  <2> QED
    BY <1>1, <1>2, <2>1, ShimStays DEF Simulates
<1>5. CASE fifo' = Append(fifo, x)
  <2>1. Stream' = Append(Stream, x) /\ Stream \in Seq(Byte)
    <3>1. data["task"] \in Seq(Byte) /\ fifo \in Seq(Byte) /\ Stream \in Seq(Byte)
      BY StreamTyped
    <3> DEFINE d == data["task"]
               u == <<x>>
    <3>2. d \in Seq(Byte) /\ fifo \in Seq(Byte) /\ u \in Seq(Byte)
      BY <3>1
    <3>3. Append(fifo, x) = fifo \o u /\ Append(Stream, x) = Stream \o u
      BY <3>1, AppendIsConcat
    <3>4. Stream = d \o fifo /\ Stream' = d \o Append(fifo, x)
      BY <1>1, <1>5 DEF Stream
    <3> HIDE DEF d, u
    <3>5. (d \o fifo) \o u = d \o (fifo \o u)
      BY ONLY <3>2, ConcatAssociative
    <3> QED
      BY <3>1, <3>3, <3>4, <3>5
  <2> DEFINE A == AssembleAll(Begun, Stream)
  <2>2. A \in AssemblerState
    BY <2>1, BegunTyped, AssembleAllTyped
  <2>3. InTransit = A.dones /\ InTransit' = Assemble(A, x).dones
    BY <1>3, <2>1, AssembleLast, InTransitIs
  <2> HIDE DEF A
  <2>4. Assemble(A, x).dones = A.dones \/ Assemble(A, x).dones = A.dones + 1
    <3>1. A.dones \in Nat
      BY <2>2 DEF AssemblerState
    <3>2. CASE x = CR
      BY <2>2, <3>2, AssembleKinds
    <3>3. CASE x = LF
      <4>1. Assemble(A, x).dones = A.dones + IF IsDoneLine(Terminated(A)) THEN 1 ELSE 0
        BY <2>2, <3>3, AssembleKinds
      <4> QED
        BY <3>1, <4>1
    <3>4. CASE x \notin {CR, LF}
      BY <2>2, <3>4, AssembleKinds
    <3> QED
      BY <3>2, <3>3, <3>4
  <2>5. InTransit' = InTransit \/ InTransit' = InTransit + 1
    BY <2>3, <2>4
  <2> QED
    BY <1>1, <1>2, <2>5, ShimStays, ShimArrives DEF Simulates
<1> QED
  BY <1>1, <1>4, <1>5

(* Every step of the driver.                                                *)
LEMMA NextSimulates ==
    ~IrqReads /\ IInv /\ DoneInv /\ [Next]_vars => Simulates
<1> SUFFICES ASSUME ~IrqReads, IInv, DoneInv, [Next]_vars PROVE Simulates
  OBVIOUS
<1>1. /\ Solo /\ Exclusion /\ Solo' /\ Context = {"task", "irq"}
      /\ pc["irq"] \in {"idle", "start", "send"}
  BY SoloIs, SoloNext DEF IInv, Context, DoneInv, OnlyTask
<1>2. CASE InitUart \/ BeginTaskPoll \/ UNCHANGED vars
  BY <1>1, <1>2, QuietSimulates
<1>02. CASE ReloadLen("task")
  BY <1>1, <1>02, ReloadSimulates
<1>3. ~BeginIrqPoll
  BY DEF BeginIrqPoll, BeginPoll
<1>4. ASSUME NEW c \in Context, BeginWrite(c) PROVE Simulates
  BY <1>1, <1>4, WriteSimulates
<1>5. ASSUME NEW c \in Context, StartAction(c) \/ SendRequest(c) PROVE Simulates
  BY <1>1, <1>5, StartSimulates, SendSimulates
<1>6. ASSUME NEW c \in Context, Continue(c) PROVE Simulates
  <2>1. CASE c = "task"
    BY <2>1, <1>1, <1>02, <1>5, <1>6, QuietSimulates, EndPollSimulates, TakeSimulates,
       FinishSimulates DEF Continue
  <2>2. CASE c = "irq"
    <3>1. ~\E l \in {"led", "fifo", "read", "byte", "store", "index", "finish"} : pc["irq"] = l
      BY <1>1
    <3>2. SendRequest(c) \/ StartAction(c)
      BY <2>2, <3>1, <1>6
         DEF Continue, LedTask, FifoLen, ReadFifo, EndData, SkipCR, CompareLine,
             FinishLine, LoadLen, ReloadLen, StoreByte, EndPoll, At
    <3> QED
      BY <3>2, <1>5
  <2> QED
    BY <2>1, <2>2, <1>1
<1>7. CASE BeginLine \/ NextWireByte
  <2>1. CASE BeginLine
    <3>1. PICK l \in Lines : l # <<>> /\ Receive(Head(l), Tail(l), l)
      BY <2>1 DEF BeginLine
    <3>2. Head(l) \in Byte
      <4>1. l \in Seq(Byte)
        BY BytesAssumption
      <4> QED
        BY <3>1, <4>1
    <3> QED
      BY <1>1, <3>1, <3>2, AdapterSimulates
  <2>2. CASE NextWireByte
    <3>1. wire # <<>> /\ Receive(Head(wire), Tail(wire), line)
      BY <2>2 DEF NextWireByte
    <3>2. Head(wire) \in Byte
      <4>1. wire \in Seq(Byte)
        BY <1>1, StreamTyped
      <4> QED
        BY <3>1, <4>1
    <3> QED
      BY <1>1, <3>1, <3>2, AdapterSimulates
  <2> QED
    BY <1>7, <2>1, <2>2
<1> QED
  BY <1>2, <1>3, <1>4, <1>6, <1>7 DEF Next

(* And the first state.                                                     *)
LEMMA InitSimulates == Init => Shim!Init
<1> SUFFICES ASSUME Init PROVE Shim!Init
  OBVIOUS
<1>1. /\ channel_low = 0 /\ channel_high = 0 /\ channel_mode = 0 /\ action_active = 0
      /\ sent = <<>> /\ fifo = <<>> /\ data["task"] = <<>> /\ pc["task"] = "boot"
      /\ pc["irq"] = "idle" /\ ~matched["task"]
  BY DEF Init, Context
<1>2. Pins = [p \in {"low", "high", "mode"} |-> 0]
  BY <1>1 DEF Pins
<1>3. Requested = <<>>
  BY <1>1 DEF Requested, InFlight
<1>4. InTransit = 0
  <2>1. Stream = <<>>
    BY <1>1 DEF Stream
  <2>2. AssembleAll(Begun, Stream) = Begun
    BY <2>1, AssembleNone
  <2>3. Begun.dones = 0
    BY <1>1 DEF Begun
  <2> QED
    BY <2>2, <2>3, InTransitIs
<1> QED
  BY <1>1, <1>2, <1>3, <1>4 DEF Shim!Init, Shim!Pin, Pins, Requested

(* As long as only the task polls, every step of the driver is a step of    *)
(* BmcuShim or changes nothing it shows: a pin latches with the call that   *)
(* sets it, a request carries the pins of the write or DONE that started    *)
(* it, and a DONE on the line is neither invented nor lost, but for the one *)
(* line a start of an action may cut.                                       *)
THEOREM DriverImplementsShim ==
    ASSUME ~IrqReads
    PROVE  Spec => ShimSteps
<1>1. IInv /\ DoneInv /\ [Next]_vars => [Shim!Next]_Shim!vars
  BY NextSimulates DEF Simulates
<1>2. IInv /\ DoneInv /\ [Next]_vars => DoneInv'
  BY DoneInvNext
<1> QED
  BY <1>1, <1>2, InitSimulates, DoneInvInit, Invariance, PTL DEF Spec, ShimSteps
=============================================================================
