------------------------------- MODULE Console -------------------------------
(***************************************************************************)
(* The serial link to the host: message blocks with a sequence number      *)
(* modulo SEQ_MOD, stored byte by byte by the UART interrupt               *)
(* (src/generic/serial_irq.c), found, checked, run and acknowledged by     *)
(* console_task (src/command.c), which the task loop of src/sched.c runs   *)
(* when it is woken and sleeps otherwise.  A lost byte shows as a block    *)
(* whose crc is wrong; the firmware then looks for the next sync byte and  *)
(* naks; the host sends again what was not acknowledged.  A command may    *)
(* shut down: a longjmp out of the task leaves its block in the buffer.    *)
(*                                                                         *)
(* A byte is <<n, i>>, the i-th of message n, or SYNC, the last of every   *)
(* block and, in a long one, a byte of the payload too.  A crc is taken to *)
(* reject every block that is not received whole.  The interrupts come     *)
(* between any two steps of the task loop.                                 *)
(***************************************************************************)
EXTENDS Integers, Sequences, SequencesExt

CONSTANTS
    SYNC,          \* MESSAGE_SYNC
    SEQ_MOD,       \* MESSAGE_SEQ_MASK + 1
    MESSAGE_MIN,   \* the length of the shortest block
    RX_SIZE,       \* RX_BUFFER_SIZE
    TX_SIZE,       \* sizeof(transmit_buf), in responses
    Window,        \* messages the host sends ahead of an acknowledgement
    Long,          \* the messages with a byte of payload
    MaxMessages,   \* bound: messages the host gives
    MaxLost,       \* bound: bytes and responses lost, hasty resends
    MaxShutdowns   \* bound: commands that shut down

ASSUME LinkAssumption ==
    /\ SEQ_MOD \in Nat /\ Window \in Nat \ {0} /\ Window < SEQ_MOD
    /\ MESSAGE_MIN \in Nat /\ MESSAGE_MIN >= 2
    /\ RX_SIZE \in Nat /\ RX_SIZE > MESSAGE_MIN
    /\ TX_SIZE \in Nat \ {0}
    /\ SYNC \notin Nat \X Nat
    /\ Long \subseteq Nat
    /\ MaxMessages \in Nat /\ MaxLost \in Nat /\ MaxShutdowns \in Nat

BlockLen(n) == IF n \in Long THEN MESSAGE_MIN + 1 ELSE MESSAGE_MIN
Syncs(n) == IF n \in Long THEN {2, BlockLen(n)} ELSE {BlockLen(n)}
Block(n) == [i \in 1..BlockLen(n) |-> IF i \in Syncs(n) THEN SYNC ELSE <<n, i>>]
Seq16(n) == n % SEQ_MOD
Slot == 0..(TX_SIZE - 1)

VARIABLES
    receive_buf,   \* its first receive_pos bytes
    sync_state,    \* CF_NEED_SYNC and CF_NEED_VALID
    next_sequence,
    transmit_buf, transmit_pos, transmit_max,
    tasks_status,
    pc,            \* where the task loop is
    rpos, pop_count, needcopy, copied, \* of console_task and console_pop_input
    ack,           \* the block was valid: acknowledge it after the pop
    tmax,          \* of console_sendf
    then,          \* where command_sendf returns to
    wire,          \* the bytes on their way to the firmware
    given,         \* messages the host has given
    sent,          \* messages the host has put on the wire since it last resent
    known,         \* messages the host knows to be acknowledged
    ran,           \* messages whose commands have been run
    lost, shutdowns, \* what the bounds count
    stream,        \* the bytes stored and not yet popped
    accepted,      \* the responses put in transmit_buf and not yet sent
    stuck          \* a shutdown left its block in the buffer, and console_task
                   \* has not run since

receive == <<receive_buf, stream>>
parser == <<sync_state, next_sequence>>
transmit == <<transmit_buf, transmit_pos, transmit_max, accepted>>
locals == <<rpos, pop_count, needcopy, copied, ack, tmax, then>>
host == <<wire, given, sent, known>>
counts == <<lost, shutdowns>>
vars == <<receive, parser, transmit, tasks_status, pc, locals, host, ran,
          counts, stuck>>

Init ==
    /\ receive_buf = <<>> /\ stream = <<>>
    /\ sync_state = {} /\ next_sequence = Seq16(1)
    /\ transmit_buf = [i \in Slot |-> 0]
    /\ transmit_pos = 0 /\ transmit_max = 0 /\ accepted = <<>>
    /\ tasks_status = "idle" /\ pc = "loop"
    /\ rpos = 0 /\ pop_count = 0 /\ needcopy = 0 /\ copied = 0
    /\ ack = FALSE /\ tmax = 0 /\ then = "loop"
    /\ wire = <<>> /\ given = 0 /\ sent = 0 /\ known = 0
    /\ ran = <<>>
    /\ lost = 0 /\ shutdowns = 0 /\ stuck = FALSE

Goto(label) == pc' = label

-----------------------------------------------------------------------------
(* The UART interrupt.                                                      *)

Full == Len(receive_buf) >= RX_SIZE

(* serial_rx_byte: a sync byte wakes the tasks; a full buffer drops the     *)
(* byte.                                                                    *)
RxByte ==
    /\ wire # <<>>
    /\ wire' = Tail(wire)
    /\ tasks_status' = IF Head(wire) = SYNC THEN "requested" ELSE tasks_status
    /\ IF Full
       THEN UNCHANGED receive
       ELSE /\ receive_buf' = Append(receive_buf, Head(wire))
            /\ stream' = Append(stream, Head(wire))
    /\ UNCHANGED <<parser, transmit, pc, locals, given, sent, known, ran, counts,
                   stuck>>

(* The host reads in the sequence number of a response how far the firmware *)
(* has come, and ignores one that is beyond what it gave.                   *)
Acknowledged(seq) ==
    LET k == CHOOSE k \in known..(known + SEQ_MOD - 1) : Seq16(k + 1) = seq
    IN IF k <= given THEN k ELSE known

(* serial_get_tx_byte; the response reaches the host, or is lost.           *)
TxByte ==
    /\ transmit_pos < transmit_max
    /\ transmit_pos' = transmit_pos + 1
    /\ accepted' = IF accepted = <<>> THEN <<>> ELSE Tail(accepted)
    /\ \/ known' = Acknowledged(transmit_buf[transmit_pos]) /\ UNCHANGED lost
       \/ lost < MaxLost /\ lost' = lost + 1 /\ UNCHANGED known
    /\ UNCHANGED <<receive, parser, transmit_buf, transmit_max, tasks_status, pc,
                   locals, wire, given, sent, ran, shutdowns, stuck>>

(* periodic_event of src/sched.c, from the timer interrupt.                 *)
PeriodicWake ==
    /\ tasks_status # "requested"
    /\ tasks_status' = "requested"
    /\ UNCHANGED <<receive, parser, transmit, pc, locals, host, ran, counts, stuck>>

-----------------------------------------------------------------------------
(* run_tasks: sleep unless a task was requested, tested again with          *)
(* interrupts disabled.                                                     *)
CheckRequested ==
    /\ pc = "loop"
    /\ Goto(IF tasks_status = "requested" THEN "tasks" ELSE "mask")
    /\ UNCHANGED <<receive, parser, transmit, tasks_status, locals, host, ran,
                   counts, stuck>>

(* Mutant: the loop sleeps without testing again.                           *)
SleepUntested ==
    /\ pc = "mask"
    /\ Goto("sleep") /\ tasks_status' = "idle"
    /\ UNCHANGED <<receive, parser, transmit, locals, host, ran, counts, stuck>>

CheckMasked ==
    /\ pc = "mask"
    /\ IF tasks_status = "requested"
       THEN Goto("tasks") /\ UNCHANGED tasks_status
       ELSE Goto("sleep") /\ tasks_status' = "idle"
    /\ UNCHANGED <<receive, parser, transmit, locals, host, ran, counts, stuck>>

Wake ==
    /\ pc = "sleep" /\ tasks_status = "requested"
    /\ Goto("tasks")
    /\ UNCHANGED <<receive, parser, transmit, tasks_status, locals, host, ran,
                   counts, stuck>>

(* The tasks run; console_task reads receive_pos.                           *)
RunTasks ==
    /\ pc = "tasks"
    /\ tasks_status' = "running"
    /\ Goto("console")
    /\ UNCHANGED <<receive, parser, transmit, locals, host, ran, counts, stuck>>

ConsoleTask ==
    /\ pc = "console"
    /\ rpos' = Len(receive_buf)
    /\ stuck' = FALSE
    /\ Goto("find")
    /\ UNCHANGED <<receive, parser, transmit, tasks_status, pop_count, needcopy,
                   copied, ack, tmax, then, host, ran, counts>>

-----------------------------------------------------------------------------
(* command_find_block on the first rpos bytes.                              *)
StartsBlock(buf) == Len(buf) >= MESSAGE_MIN /\ buf[1] # SYNC /\ buf[1][2] = 1

NeedMore(buf, state) ==
    \/ buf = <<>>
    \/ /\ "need_sync" \notin state
       /\ Len(buf) < IF StartsBlock(buf) THEN BlockLen(buf[1][1]) ELSE MESSAGE_MIN

Whole(buf, state) ==
    /\ "need_sync" \notin state /\ StartsBlock(buf)
    /\ Len(buf) >= BlockLen(buf[1][1])
    /\ SubSeq(buf, 1, BlockLen(buf[1][1])) = Block(buf[1][1])

LeadingSync(buf, state) ==
    "need_sync" \notin state /\ Len(buf) >= MESSAGE_MIN /\ buf[1] = SYNC

(* The bytes up to the next sync byte, or all when there is none.           *)
SyncAt(buf) == {i \in 1..Len(buf) : buf[i] = SYNC}
ToSync(buf) ==
    IF SyncAt(buf) = {} THEN Len(buf)
    ELSE CHOOSE i \in SyncAt(buf) : \A j \in SyncAt(buf) : i <= j

(* Mutant: the sequence number is not checked.                              *)
ExpectedAny(n) == TRUE
Expected(n) == Seq16(n) = next_sequence

Found == SubSeq(receive_buf, 1, rpos)

FindNothing ==
    /\ pc = "find" /\ NeedMore(Found, sync_state)
    /\ Goto("loop")
    /\ UNCHANGED <<receive, parser, transmit, tasks_status, locals, host, ran,
                   counts, stuck>>

FindBlock ==
    /\ pc = "find" /\ Whole(Found, sync_state)
    /\ LET n == Found[1][1]
       IN /\ sync_state' = sync_state \ {"need_valid"}
          /\ pop_count' = BlockLen(n)
          /\ IF Expected(n)
             THEN /\ next_sequence' = Seq16(next_sequence + 1)
                  /\ Goto("dispatch") /\ ack' = TRUE /\ UNCHANGED then
             ELSE /\ Goto("sendf") /\ then' = "pop" /\ ack' = FALSE
                  /\ UNCHANGED next_sequence
    /\ UNCHANGED <<receive, transmit, tasks_status, rpos, needcopy, copied, tmax,
                   host, ran, counts, stuck>>

FindSync ==
    /\ pc = "find" /\ LeadingSync(Found, sync_state)
    /\ pop_count' = 1 /\ ack' = FALSE
    /\ Goto("pop")
    /\ UNCHANGED <<receive, parser, transmit, tasks_status, rpos, needcopy, copied,
                   tmax, then, host, ran, counts, stuck>>

FindError ==
    /\ pc = "find"
    /\ ~NeedMore(Found, sync_state) /\ ~Whole(Found, sync_state)
    /\ ~LeadingSync(Found, sync_state)
    /\ pop_count' = ToSync(Found) /\ ack' = FALSE
    /\ sync_state' = {"need_valid"} \cup
           IF SyncAt(Found) = {} THEN {"need_sync"} ELSE {}
    /\ IF "need_valid" \in sync_state
       THEN Goto("pop") /\ UNCHANGED then
       ELSE Goto("sendf") /\ then' = "pop"
    /\ UNCHANGED <<receive, next_sequence, transmit, tasks_status, rpos, needcopy,
                   copied, tmax, host, ran, counts, stuck>>

(* command_dispatch: the commands of the block are run, and may respond ... *)
Dispatch ==
    /\ pc = "dispatch"
    /\ ran' = Append(ran, Found[1][1])
    /\ \/ Goto("pop") /\ UNCHANGED then
       \/ Goto("sendf") /\ then' = "pop"
    /\ UNCHANGED <<receive, parser, transmit, tasks_status, rpos, pop_count, needcopy,
                   copied, ack, tmax, host, counts, stuck>>

(* ... until one shuts down: run_shutdown reports it and starts the task    *)
(* loop anew, with the block where it was.                                  *)
DispatchShutdown ==
    /\ pc = "dispatch" /\ shutdowns < MaxShutdowns
    /\ shutdowns' = shutdowns + 1
    /\ ran' = Append(ran, Found[1][1])
    /\ Goto("sendf") /\ then' = "loop"
    /\ rpos' = 0 /\ pop_count' = 0 /\ ack' = FALSE
    /\ stuck' = TRUE
    /\ UNCHANGED <<receive, parser, transmit, tasks_status, needcopy, copied, tmax,
                   host, lost>>

-----------------------------------------------------------------------------
(* console_pop_input: the rest of the buffer is moved down, again if the    *)
(* interrupt has stored more meanwhile.                                     *)
Moved(buf, from, to, n) ==
    [i \in 1..Len(buf) |-> IF i \in (to + 1)..(to + n) THEN buf[i - to + from]
                           ELSE buf[i]]

(* Mutant: the race with the interrupt is not detected.                     *)
RacedNever == FALSE
Raced == rpos # Len(receive_buf)

PopCopy ==
    /\ pc = "pop"
    /\ rpos' = Len(receive_buf)
    /\ needcopy' = rpos' - pop_count
    /\ IF needcopy' # 0
       THEN /\ receive_buf' = Moved(receive_buf, copied + pop_count, copied,
                                    needcopy' - copied)
            /\ copied' = needcopy'
            /\ tasks_status' = "requested"
       ELSE UNCHANGED <<receive_buf, copied, tasks_status>>
    /\ Goto("popped")
    /\ UNCHANGED <<stream, parser, transmit, pop_count, ack, tmax, then, host, ran,
                   counts, stuck>>

PopDone ==
    /\ pc = "popped" /\ ~Raced
    /\ receive_buf' = SubSeq(receive_buf, 1, needcopy)
    /\ stream' = SubSeq(stream, pop_count + 1, Len(stream))
    /\ rpos' = 0 /\ pop_count' = 0 /\ needcopy' = 0 /\ copied' = 0
    /\ ack' = FALSE
    /\ IF ack THEN Goto("sendf") /\ then' = "loop" ELSE Goto("loop") /\ UNCHANGED then
    /\ UNCHANGED <<parser, transmit, tasks_status, tmax, host, ran, counts, stuck>>

PopRaced ==
    /\ pc = "popped" /\ Raced
    /\ Goto("pop")
    /\ UNCHANGED <<receive, parser, transmit, tasks_status, locals, host, ran,
                   counts, stuck>>

-----------------------------------------------------------------------------
(* console_sendf: a response is dropped when there is no room for it; the   *)
(* unsent ones are moved down, with transmit_max 0 to keep the interrupt    *)
(* away, when only that makes room.                                         *)
SendfReturn == then' = "loop" /\ Goto(then)

(* Mutant: the interrupt is not kept away while the buffer is moved.        *)
HeldOpen == transmit_max
Held == 0

SendfRoom ==
    /\ pc = "sendf"
    /\ LET empty == transmit_pos >= transmit_max
           max == IF empty THEN 0 ELSE transmit_max
           pos == IF empty THEN 0 ELSE transmit_pos
       IN \/ /\ max + 1 <= TX_SIZE
             /\ transmit_pos' = pos /\ transmit_max' = max
             /\ tmax' = max /\ Goto("put") /\ UNCHANGED then
          \/ /\ max + 1 > TX_SIZE /\ max + 1 - pos > TX_SIZE
             /\ SendfReturn
             /\ UNCHANGED <<transmit_pos, transmit_max, tmax>>
          \/ /\ max + 1 > TX_SIZE /\ max + 1 - pos <= TX_SIZE
             /\ transmit_max' = Held /\ tmax' = max
             /\ Goto("move") /\ UNCHANGED <<transmit_pos, then>>
    /\ UNCHANGED <<receive, parser, transmit_buf, accepted, tasks_status, rpos,
                   pop_count, needcopy, copied, ack, host, ran, counts, stuck>>

SendfMove ==
    /\ pc = "move"
    /\ tmax' = tmax - transmit_pos
    /\ transmit_buf' = [i \in Slot |-> IF i < tmax'
                                       THEN transmit_buf[i + transmit_pos]
                                       ELSE transmit_buf[i]]
    /\ Goto("moved")
    /\ UNCHANGED <<receive, parser, transmit_pos, transmit_max, accepted,
                   tasks_status, rpos, pop_count, needcopy, copied, ack, then, host,
                   ran, counts, stuck>>

SendfResume ==
    /\ pc = "moved"
    /\ transmit_pos' = 0 /\ transmit_max' = tmax
    /\ Goto("put")
    /\ UNCHANGED <<receive, parser, transmit_buf, accepted, tasks_status, locals,
                   host, ran, counts, stuck>>

(* The frame carries the sequence number expected next.                     *)
SendfPut ==
    /\ pc = "put"
    /\ transmit_buf' = [transmit_buf EXCEPT ![tmax] = next_sequence]
    /\ transmit_max' = tmax + 1
    /\ accepted' = Append(accepted, next_sequence)
    /\ tmax' = 0
    /\ SendfReturn
    /\ UNCHANGED <<receive, parser, transmit_pos, tasks_status, rpos, pop_count,
                   needcopy, copied, ack, host, ran, counts, stuck>>

-----------------------------------------------------------------------------
(* The host and the wire.                                                   *)
Unacknowledged == FlattenSeq([i \in 1..(given - known) |-> Block(known + i)])

(* A message is sent when the receive buffer has room for all that is not   *)
(* acknowledged.                                                            *)
Give ==
    /\ given < MaxMessages /\ given - known < Window
    /\ Len(Unacknowledged) + BlockLen(given + 1) <= RX_SIZE
    /\ sent = given
    /\ given' = given + 1 /\ sent' = sent + 1
    /\ wire' = wire \o Block(given + 1)
    /\ UNCHANGED <<receive, parser, transmit, tasks_status, pc, locals, known, ran,
                   counts, stuck>>

(* The firmware has dealt with all that was sent, and has nothing to say.   *)
Quiet ==
    /\ pc \in {"loop", "mask", "sleep", "tasks", "console", "find"}
    /\ NeedMore(receive_buf, sync_state)
    /\ transmit_pos >= transmit_max

(* A nak or a timeout: everything not acknowledged again, block by block,   *)
(* after a sync byte.                                                       *)
(* One that comes before the firmware is quiet counts as a loss.            *)
Resend ==
    /\ wire = <<>> /\ sent = given /\ known < given
    /\ wire' = <<SYNC>> \o Block(known + 1) /\ sent' = known + 1
    /\ \/ Quiet /\ UNCHANGED lost
       \/ ~Quiet /\ lost < MaxLost /\ lost' = lost + 1
    /\ UNCHANGED <<receive, parser, transmit, tasks_status, pc, locals, given, known,
                   ran, shutdowns, stuck>>

SendAgain ==
    /\ sent < given
    /\ sent' = sent + 1
    /\ wire' = wire \o Block(sent + 1)
    /\ UNCHANGED <<receive, parser, transmit, tasks_status, pc, locals, given, known,
                   ran, counts, stuck>>

LoseByte ==
    /\ wire # <<>> /\ lost < MaxLost
    /\ wire' = Tail(wire) /\ lost' = lost + 1
    /\ UNCHANGED <<receive, parser, transmit, tasks_status, pc, locals, given, sent,
                   known, ran, shutdowns, stuck>>

-----------------------------------------------------------------------------
Task ==
    \/ CheckRequested \/ CheckMasked \/ Wake \/ RunTasks \/ ConsoleTask
    \/ FindNothing \/ FindBlock \/ FindSync \/ FindError
    \/ Dispatch \/ DispatchShutdown
    \/ PopCopy \/ PopDone \/ PopRaced
    \/ SendfRoom \/ SendfMove \/ SendfResume \/ SendfPut

Next ==
    \/ Task
    \/ RxByte \/ TxByte \/ PeriodicWake
    \/ Give \/ Resend \/ SendAgain \/ LoseByte

Spec == Init /\ [][Next]_vars

(* The task loop and the UART run, the periodic timer wakes the tasks, and  *)
(* the host times out.                                                      *)
FairSpec ==
    Spec /\ WF_vars(Task) /\ WF_vars(RxByte) /\ WF_vars(TxByte)
         /\ WF_vars(PeriodicWake) /\ WF_vars(Resend)
         /\ WF_vars(SendAgain)

-----------------------------------------------------------------------------
Label == {"loop", "mask", "sleep", "tasks", "console", "find", "dispatch", "pop",
          "popped", "sendf", "move", "moved",
          "put"}

TypeOK ==
    /\ Len(receive_buf) <= RX_SIZE /\ Len(stream) <= RX_SIZE
    /\ sync_state \subseteq {"need_sync", "need_valid"}
    /\ next_sequence \in 0..(SEQ_MOD - 1)
    /\ transmit_buf \in [Slot -> 0..(SEQ_MOD - 1)]
    /\ transmit_pos \in 0..TX_SIZE /\ transmit_max \in 0..TX_SIZE
    /\ tmax \in 0..TX_SIZE
    /\ tasks_status \in {"idle", "requested", "running"}
    /\ pc \in Label /\ then \in {"loop", "pop"}
    /\ rpos \in 0..RX_SIZE /\ pop_count \in 0..RX_SIZE
    /\ needcopy \in 0..RX_SIZE /\ copied \in 0..RX_SIZE
    /\ given \in 0..MaxMessages /\ known \in 0..given /\ sent \in 0..given
    /\ ack \in BOOLEAN /\ stuck \in BOOLEAN

(* Popping loses nothing: what the buffer holds, read around the gap that a *)
(* pop in progress has not closed yet, is the bytes stored since the last   *)
(* block popped, in order, however the interrupt raced with the move.       *)
BufferIsStream ==
    LET gap == IF pc \in {"pop", "popped"} THEN pop_count ELSE 0
    IN SubSeq(receive_buf, 1, copied)
           \o SubSeq(receive_buf, copied + gap + 1, Len(receive_buf))
       = SubSeq(stream, gap + 1, Len(stream))

(* The buffers keep to their sizes and what they were given.                *)
BuffersSound == TypeOK /\ BufferIsStream

(* A response accepted is sent once, unchanged and in order, though the     *)
(* buffer is moved under the interrupt that empties it.                     *)
ResponsesInOrder ==
    pc \notin {"move", "moved"} =>
        accepted = [i \in 1..(transmit_max - transmit_pos) |->
                        transmit_buf[transmit_pos + i - 1]]

(* The loop never sleeps on work: asleep with no request, console_task has  *)
(* nothing to do with the bytes up to the last sync byte received, except   *)
(* for the block a shutdown left behind, which waits for the periodic timer.*)
NoLostWakeup ==
    pc = "sleep" /\ tasks_status # "requested" /\ ~stuck =>
        \A i \in SyncAt(receive_buf) :
            NeedMore(SubSeq(receive_buf, 1, i), sync_state)

Link == INSTANCE CommandLink

(* Commands run once each and in order and are acknowledged only then,      *)
(* whatever was lost, overflowed, sent twice or interrupted by a shutdown,  *)
(* and every message is run and acknowledged in the end.                    *)
ImplementsLink == Link!Spec
=============================================================================
