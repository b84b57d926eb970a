---------------------------- MODULE ConsoleProofs ----------------------------
(***************************************************************************)
(* What Console's run checks, but for liveness, for every size of the      *)
(* buffers, window, number of messages, losses and shutdowns: the receive  *)
(* buffer is the stream of bytes, responses keep their order, the loop     *)
(* never sleeps on work, and the commands that run and the acknowledgements*)
(* that arrive are steps of CommandLink.                                   *)
(*                                                                         *)
(* The heart is Channel.  A sequence number is right modulo SEQ_MOD only;  *)
(* it names one message because every byte between the host and the        *)
(* firmware belongs to a message less than Window behind whatever was run, *)
(* or is on its way before it: the host resends from the last message it   *)
(* knows to be acknowledged and never gives more than Window past it.      *)
(***************************************************************************)
EXTENDS Console, SequenceTheorems, WellFoundedInduction, TLAPS

-----------------------------------------------------------------------------
(* The invariant.                                                           *)
Byte == {SYNC} \cup (Nat \X Nat)
Sending == {"sendf", "move", "moved", "put"}

Typed ==
    /\ receive_buf \in Seq(Byte) /\ stream \in Seq(Byte) /\ wire \in Seq(Byte)
    /\ Len(receive_buf) <= RX_SIZE
    /\ Len(stream) = Len(receive_buf)
    /\ sync_state \subseteq {"need_sync", "need_valid"}
    /\ next_sequence \in 0..(SEQ_MOD - 1)
    /\ ran \in Seq(Nat)
    /\ tasks_status \in {"idle", "requested", "running"}
    /\ pc \in Label
    /\ ack \in BOOLEAN /\ stuck \in BOOLEAN
    /\ lost \in Nat /\ shutdowns \in Nat

Counts ==
    /\ given \in 0..MaxMessages /\ sent \in 0..given /\ known \in 0..given
    /\ given <= sent + Window /\ given <= known + Window
    /\ known <= Len(ran) /\ Len(ran) <= given

(* A block, a lone sync byte or rubbish is to be popped.                    *)
Popping == pc \in {"dispatch", "pop", "popped"} \/ then = "pop"

Popped ==
    /\ rpos \in 0..RX_SIZE /\ pop_count \in 0..RX_SIZE
    /\ needcopy \in 0..RX_SIZE /\ copied \in 0..RX_SIZE
    /\ then \in {"loop", "pop"}
    /\ then = "pop" => pc \in Sending
    /\ copied = needcopy
    /\ copied # 0 => pc \in {"pop", "popped"}
    /\ pc \in {"find", "dispatch"} => rpos <= Len(receive_buf)
    /\ pc = "dispatch" => pop_count <= rpos
    /\ Popping => pop_count > 0 /\ copied + pop_count <= Len(receive_buf)
    /\ pc = "popped" => rpos = needcopy + pop_count

(* The responses not sent yet are those of transmit_buf from First to Last1,*)
(* wherever console_sendf is in moving them.                                *)
First == IF pc = "moved" THEN 0 ELSE transmit_pos
Last1 == IF pc \in {"move", "moved"} THEN tmax ELSE transmit_max

Sends ==
    /\ transmit_buf \in [Slot -> 0..(SEQ_MOD - 1)]
    /\ accepted \in Seq(0..(SEQ_MOD - 1))
    /\ transmit_pos \in 0..TX_SIZE /\ transmit_max \in 0..TX_SIZE
    /\ tmax \in 0..TX_SIZE
    /\ First <= Last1
    /\ pc \in {"move", "moved"} => transmit_max = 0 /\ Last1 - First < TX_SIZE
    /\ pc = "put" => tmax = transmit_max /\ tmax < TX_SIZE
    /\ Len(accepted) = Last1 - First
    /\ \A i \in 1..Len(accepted) : accepted[i] = transmit_buf[First + i - 1]

(* While a pop is going on the first copied bytes are already moved.        *)
Gap == IF pc \in {"pop", "popped"} THEN pop_count ELSE 0

Coherent ==
    /\ \A i \in 1..copied : receive_buf[i] = stream[Gap + i]
    /\ \A i \in (copied + Gap + 1)..Len(receive_buf) : receive_buf[i] = stream[i]

(* A byte b that comes after a, or after r messages have run, is less than  *)
(* Window behind.                                                           *)
Near(a, b) == a # SYNC /\ b # SYNC => a[1] < b[1] + Window
Fresh(b, g, r) == b # SYNC => b[1] \in 1..g /\ r < b[1] + Window

ChannelOf(s, w, g, r) ==
    /\ \A p \in 1..Len(s) : Fresh(s[p], g, r)
    /\ \A p \in 1..Len(w) : Fresh(w[p], g, r)
    /\ \A p, q \in 1..Len(s) : p < q => Near(s[p], s[q])
    /\ \A p, q \in 1..Len(w) : p < q => Near(w[p], w[q])
    /\ \A p \in 1..Len(s), q \in 1..Len(w) : Near(s[p], w[q])

Channel == ChannelOf(stream, wire, given, Len(ran))

(* next_sequence counts the messages run, and the one about to run.         *)
Numbers ==
    /\ pc # "dispatch" => next_sequence = Seq16(Len(ran) + 1)
    /\ pc = "dispatch" => /\ next_sequence = Seq16(Len(ran) + 2)
                          /\ stream[1] # SYNC /\ stream[1][1] = Len(ran) + 1

(* The responses on their way tell the host of ks[1] <= ks[2] <= ...        *)
(* messages, none of which is news the host already has.                    *)
Covers(ks) ==
    /\ Len(ks) = Len(accepted)
    /\ \A i \in 1..Len(ks) : ks[i] \in known..Len(ran) /\ accepted[i] = Seq16(ks[i] + 1)
    /\ \A i, j \in 1..Len(ks) : i < j => ks[i] <= ks[j]

Responses == \E ks \in Seq(Nat) : Covers(ks)

(* Nothing to do up to the last sync byte, or somebody will look again.     *)
Requested == tasks_status = "requested"
Seen ==
    \A i \in SyncAt(receive_buf) : NeedMore(SubSeq(receive_buf, 1, i), sync_state)
Served == Requested \/ stuck \/ Seen

Awake ==
    /\ pc \in {"loop", "mask", "sleep"} => Served
    /\ pc = "find" => Requested \/ \A i \in SyncAt(receive_buf) : i <= rpos
    /\ pc = "popped" => needcopy = 0 \/ Requested
    /\ pc \in Sending /\ then = "loop" => Served

IInv ==
    /\ Typed /\ Counts /\ Popped /\ Sends /\ Coherent
    /\ Channel /\ Numbers /\ Responses /\ Awake

-----------------------------------------------------------------------------
(* Constants, blocks and bytes.                                             *)
LEMMA Constants ==
    /\ SEQ_MOD \in Nat /\ SEQ_MOD > 1
    /\ RX_SIZE \in Nat /\ TX_SIZE \in Nat /\ TX_SIZE > 0
    /\ MESSAGE_MIN \in Nat /\ MESSAGE_MIN > 1 /\ MESSAGE_MIN < RX_SIZE
    /\ Window \in Nat /\ 0 < Window /\ Window < SEQ_MOD
    /\ MaxMessages \in Nat /\ MaxLost \in Nat /\ MaxShutdowns \in Nat
BY LinkAssumption

LEMMA SeqTyped == ASSUME NEW n \in Int PROVE Seq16(n) \in 0..(SEQ_MOD - 1)
BY Constants DEF Seq16

LEMMA LenTyped == \A n : BlockLen(n) \in Nat /\ BlockLen(n) > 1
BY Constants DEF BlockLen

LEMMA FunSeq ==
    ASSUME NEW S, NEW n \in Nat, NEW f \in [1..n -> S]
    PROVE  f \in Seq(S) /\ Len(f) = n
<1>1. f \in Seq(S)
  BY SeqDef
<1> QED
  BY <1>1, LenProperties

LEMMA BlockTyped ==
    ASSUME NEW n \in Nat
    PROVE  /\ Block(n) \in Seq(Byte)
           /\ Len(Block(n)) = BlockLen(n)
           /\ \A i \in 1..BlockLen(n) : Block(n)[i] \in {SYNC, <<n, i>>}
<1>1. \A i \in 1..BlockLen(n) : <<n, i>> \in Byte /\ SYNC \in Byte
  BY LenTyped DEF Byte
<1>2. \A i \in 1..BlockLen(n) : Block(n)[i] \in {SYNC, <<n, i>>}
  BY DEF Block
<1>3. Block(n) \in [1..BlockLen(n) -> Byte]
  BY <1>1 DEF Block
<1> QED
  BY <1>2, <1>3, LenTyped, FunSeq

(* The bytes that command_find_block looks at are those of the buffer.      *)
LEMMA FoundIs ==
    ASSUME Typed, rpos \in 0..Len(receive_buf)
    PROVE  /\ Found \in Seq(Byte) /\ Len(Found) = rpos
           /\ \A i \in 1..rpos : Found[i] = receive_buf[i]
<1>1. Len(receive_buf) \in Nat /\ \A i \in 1..rpos : receive_buf[i] \in Byte
  BY ElementOfSeq, LenProperties DEF Typed
<1>2. /\ SubSeq(receive_buf, 1, rpos) \in Seq(Byte)
      /\ Len(SubSeq(receive_buf, 1, rpos)) = IF 1 <= rpos THEN rpos - 1 + 1 ELSE 0
      /\ \A i \in 1..(rpos - 1 + 1) : SubSeq(receive_buf, 1, rpos)[i] = receive_buf[1 + i - 1]
  BY <1>1, SubSeqProperties
<1> QED
  BY <1>1, <1>2 DEF Found

-----------------------------------------------------------------------------
(* A set of numbers has a least one.                                        *)
LEMMA LessIsWellFounded ==
    \E R : /\ IsWellFoundedOn(R, Nat)
           /\ \A a, b \in Nat : <<a, b>> \in R <=> a < b
<1> DEFINE R == OpToRel(<, Nat)
<1>1. IsWellFoundedOn(R, Nat)
  BY NatLessThanWellFounded
<1>3. \A a, b \in Nat : <<a, b>> \in R <=> a < b
  BY DEF OpToRel
<1> HIDE DEF R
<1> QED
  BY <1>1, <1>3

LEMMA LeastNat ==
    ASSUME NEW T \in SUBSET Nat, T # {}
    PROVE  \E x \in T : \A y \in T : x <= y
<1>1. PICK R : IsWellFoundedOn(R, Nat) /\ \A a, b \in Nat : <<a, b>> \in R <=> a < b
  BY LessIsWellFounded
<1>a. T \subseteq Nat
  OBVIOUS
<1>2. PICK x \in T : \A y \in T : ~(<<y, x>> \in R)
  <2>1. IsWellFoundedOn(R, Nat)
    BY <1>1
  <2>2. \E x \in T : \A y \in T : ~(<<y, x>> \in R)
    BY <2>1, <1>a, WFMin
  <2> QED
    BY <2>2
<1>3. ASSUME NEW y \in T PROVE x <= y
  <2>1. ~(y < x)
    BY <1>1, <1>2
  <2> QED
    BY <2>1
<1> QED
  BY <1>3

LEMMA ToSyncIs ==
    ASSUME NEW buf \in Seq(Byte), buf # <<>>
    PROVE  ToSync(buf) \in 1..Len(buf)
<1>1. Len(buf) \in Nat /\ Len(buf) > 0
  BY EmptySeq, LenProperties
<1>2. CASE SyncAt(buf) = {}
  BY <1>1, <1>2 DEF ToSync
<1>3. CASE SyncAt(buf) # {}
  <2>1. SyncAt(buf) \in SUBSET Nat /\ SyncAt(buf) \subseteq 1..Len(buf)
    BY <1>1 DEF SyncAt
  <2>2. \E i \in SyncAt(buf) : \A j \in SyncAt(buf) : i <= j
    BY <2>1, <1>3, LeastNat
  <2>3. ToSync(buf) \in SyncAt(buf)
    BY <2>2, <1>3 DEF ToSync
  <2> QED
    BY <2>1, <2>3
<1> QED
  BY <1>2, <1>3

LEMMA MovedIs ==
    ASSUME NEW buf \in Seq(Byte), NEW from \in Nat, NEW to \in Nat, NEW n \in Nat,
           to + n <= Len(buf), from + n <= Len(buf)
    PROVE  /\ Moved(buf, from, to, n) \in Seq(Byte)
           /\ Len(Moved(buf, from, to, n)) = Len(buf)
           /\ \A i \in 1..Len(buf) :
                  Moved(buf, from, to, n)[i] =
                      IF i \in (to + 1)..(to + n) THEN buf[i - to + from] ELSE buf[i]
<1>1. Len(buf) \in Nat /\ \A i \in 1..Len(buf) : buf[i] \in Byte
  BY ElementOfSeq, LenProperties
<1>2. Moved(buf, from, to, n) \in [1..Len(buf) -> Byte]
  BY <1>1 DEF Moved
<1>3. Moved(buf, from, to, n) \in Seq(Byte) /\ Len(Moved(buf, from, to, n)) = Len(buf)
  BY <1>1, <1>2, FunSeq
<1> QED
  BY <1>3 DEF Moved

-----------------------------------------------------------------------------
(* Sequence numbers are told apart within SEQ_MOD of each other.            *)
LEMMA SmallMultiple ==
    ASSUME NEW m \in Nat, NEW q \in Int, -m < m * q, m * q < m
    PROVE  q = 0
<1>1. CASE q >= 1
  <2>1. m * q >= m
    BY <1>1, m >= 0, SMTT(30)
  <2> QED
    BY <2>1
<1>2. CASE q <= -1
  <2>1. m * q <= -m
    BY <1>2, m >= 0, SMTT(30)
  <2> QED
    BY <2>1
<1> QED
  BY <1>1, <1>2

LEMMA Distributes ==
    ASSUME NEW m \in Int, NEW x \in Int, NEW y \in Int
    PROVE  m * (x - y) = m * x - m * y /\ m * (x - y) \in Int
OBVIOUS

LEMMA ModUnique ==
    ASSUME NEW m \in Nat, m > 0, NEW q \in Int, NEW r \in 0..(m - 1),
           NEW a \in Int, a = m * q + r
    PROVE  a % m = r
<1> DEFINE d == a \div m
           s == a % m
<1>1. a = m * d + s /\ d \in Int /\ s \in 0..(m - 1)
  OBVIOUS
<1> HIDE DEF d, s
<1>2. m * (d - q) = r - s
  BY <1>1, Distributes
<1>3. d - q = 0
  BY <1>1, <1>2, SmallMultiple
<1>4. d = q
  BY <1>1, <1>3
<1>5. s = r
  BY <1>1, <1>4
<1> QED
  BY <1>5 DEF s

LEMMA SeqInjective ==
    ASSUME NEW a \in Nat, NEW b \in Nat, a < b + SEQ_MOD, b < a + SEQ_MOD,
           Seq16(a) = Seq16(b)
    PROVE  a = b
<1> DEFINE x == a \div SEQ_MOD
           y == b \div SEQ_MOD
           r == Seq16(a)
<1>1. /\ a = SEQ_MOD * x + r /\ x \in Int
      /\ b = SEQ_MOD * y + r /\ y \in Int
      /\ r \in Int
  BY Constants DEF Seq16
<1> HIDE DEF x, y, r
<1>2. x - y \in Int /\ SEQ_MOD * (x - y) = a - b
  BY <1>1, Constants, Distributes
<1>3. x - y = 0
  BY <1>2, SmallMultiple, Constants
<1>4. x = y
  BY <1>1, <1>3
<1> QED
  BY <1>1, <1>4

LEMMA SeqNext == ASSUME NEW n \in Nat PROVE Seq16(Seq16(n) + 1) = Seq16(n + 1)
<1> DEFINE d == n \div SEQ_MOD
           r == n % SEQ_MOD
<1>1. n = SEQ_MOD * d + r /\ d \in Int /\ r \in 0..(SEQ_MOD - 1)
  BY Constants
<1> HIDE DEF d, r
<1>2. CASE r + 1 < SEQ_MOD
  <2>1. n + 1 = SEQ_MOD * d + (r + 1) /\ r + 1 \in 0..(SEQ_MOD - 1)
    BY <1>1, <1>2, Constants
  <2>2. r + 1 = SEQ_MOD * 0 + (r + 1)
    BY <1>1, Constants
  <2>3. (n + 1) % SEQ_MOD = r + 1 /\ (r + 1) % SEQ_MOD = r + 1
    BY <2>1, <2>2, <1>1, ModUnique, Constants
  <2> QED
    BY <2>3 DEF Seq16, r
<1>3. CASE r + 1 = SEQ_MOD
  <2>1. SEQ_MOD * (d - (-1)) = SEQ_MOD * d - SEQ_MOD * (-1)
    BY <1>1, Distributes, Constants
  <2>2. n + 1 = SEQ_MOD * (d + 1) + 0 /\ d + 1 \in Int
    BY <2>1, <1>1, <1>3, Constants
  <2>3. r + 1 = SEQ_MOD * 1 + 0
    BY <1>3, Constants
  <2>4. (n + 1) % SEQ_MOD = 0 /\ (r + 1) % SEQ_MOD = 0
    BY <2>2, <2>3, <1>1, ModUnique, Constants
  <2> QED
    BY <2>4 DEF Seq16, r
<1> QED
  BY <1>1, <1>2, <1>3, Constants

-----------------------------------------------------------------------------
LEMMA IInvInit == Init => IInv
<1> SUFFICES ASSUME Init PROVE IInv
  OBVIOUS
<1> USE Constants DEF Init
<1>1. /\ \A S : <<>> \in Seq(S)
      /\ Len(<<>>) = 0
  <2>1. ASSUME NEW S PROVE <<>> \in Seq(S) /\ Len(<<>>) = 0
    BY EmptySeq
  <2> QED
    BY <2>1
<1>2. transmit_buf \in [Slot -> 0..(SEQ_MOD - 1)] /\ next_sequence \in 0..(SEQ_MOD - 1)
  BY SeqTyped DEF Slot
<1>3. Typed
  <2>1. ack \in BOOLEAN /\ stuck \in BOOLEAN
    OBVIOUS
  <2>2. pc \in Label /\ tasks_status = "idle" /\ sync_state = {}
    BY DEF Label
  <2>3. /\ receive_buf \in Seq(Byte) /\ stream \in Seq(Byte) /\ wire \in Seq(Byte)
        /\ ran \in Seq(Nat)
        /\ Len(receive_buf) = 0 /\ Len(stream) = 0
    BY <1>1
  <2> QED
    BY <1>2, <2>1, <2>2, <2>3 DEF Typed
<1>4. Counts
  BY <1>1 DEF Counts
<1>5. Popped
  BY <1>1 DEF Popped, Popping
<1>6. Sends
  BY <1>1, <1>2 DEF Sends, First, Last1
<1>7. Coherent /\ Channel /\ Numbers
  BY <1>1 DEF Coherent, Channel, ChannelOf, Numbers
<1>8. Responses
  <2>1. Covers(<<>>)
    BY <1>1 DEF Covers
  <2> QED
    BY <2>1, <1>1 DEF Responses
<1>9. Awake
  BY <1>1 DEF Awake, Served, Seen, SyncAt, Sending
<1> QED
  BY <1>3, <1>4, <1>5, <1>6, <1>7, <1>8, <1>9 DEF IInv
-----------------------------------------------------------------------------
-----------------------------------------------------------------------------
(* What the steps that take or store bytes do.  command_find_block looks at *)
(* bytes of the stream, and pops some when it finds any.                    *)
LEMMA FindIs ==
    ASSUME IInv, pc = "find"
    PROVE  /\ Found \in Seq(Byte) /\ Len(Found) = rpos /\ rpos \in 0..Len(receive_buf)
           /\ \A i \in 1..rpos : Found[i] = receive_buf[i] /\ Found[i] = stream[i]
           /\ Found # <<>> => rpos > 0 /\ ToSync(Found) \in 1..rpos
           /\ Found = <<>> => NeedMore(Found, sync_state)
<1>1. rpos \in 0..Len(receive_buf) /\ copied = 0 /\ Gap = 0 /\ Len(receive_buf) \in Nat
  BY LenProperties DEF IInv, Popped, Gap, Typed
<1>2. /\ Found \in Seq(Byte) /\ Len(Found) = rpos
      /\ \A i \in 1..rpos : Found[i] = receive_buf[i]
  BY <1>1, FoundIs DEF IInv
<1>3. \A i \in 1..rpos : Found[i] = stream[i]
  BY <1>1, <1>2 DEF IInv, Coherent
<1>4. Found # <<>> => rpos > 0 /\ ToSync(Found) \in 1..rpos
  BY <1>1, <1>2, ToSyncIs, EmptySeq
<1>5. Found = <<>> => NeedMore(Found, sync_state)
  BY DEF NeedMore
<1> QED
  BY <1>1, <1>2, <1>3, <1>4, <1>5

LEMMA DispatchIs ==
    ASSUME IInv, pc = "dispatch"
    PROVE  /\ Found[1] = stream[1] /\ Found[1][1] = Len(ran) + 1
           /\ Len(stream) > 0 /\ Len(stream) \in Nat /\ Len(ran) \in Nat
           /\ stream[1] # SYNC /\ stream[1][1] = Len(ran) + 1
           /\ Append(ran, Found[1][1]) \in Seq(Nat)
           /\ Len(Append(ran, Found[1][1])) = Len(ran) + 1
<1>1. /\ rpos \in 0..Len(receive_buf) /\ copied = 0 /\ Gap = 0 /\ Len(receive_buf) \in Nat
      /\ rpos > 0 /\ Len(ran) \in Nat
  BY LenProperties DEF IInv, Popped, Popping, Gap, Typed
<1>2. Found[1] = receive_buf[1] /\ receive_buf[1] = stream[1]
  BY <1>1, FoundIs DEF IInv, Coherent
<1>3. stream[1] # SYNC /\ stream[1][1] = Len(ran) + 1
  BY DEF IInv, Numbers
<1>4. /\ Append(ran, Found[1][1]) \in Seq(Nat)
      /\ Len(Append(ran, Found[1][1])) = Len(ran) + 1
  BY <1>1, <1>2, <1>3, AppendProperties DEF IInv, Typed
<1> QED
  BY <1>1, <1>2, <1>3, <1>4 DEF IInv, Typed

(* What the pop of a block does to the buffer.                              *)
LEMMA PopCopyIs ==
    ASSUME IInv, PopCopy
    PROVE  /\ receive_buf' \in Seq(Byte) /\ Len(receive_buf') = Len(receive_buf)
           /\ Len(receive_buf) \in Nat
           /\ rpos' = Len(receive_buf) /\ needcopy' = rpos' - pop_count
           /\ pop_count' = pop_count /\ pop_count > 0
           /\ copied' = needcopy' /\ needcopy' \in Nat
           /\ \A i \in 1..copied' :
                  receive_buf'[i] = IF i <= copied THEN receive_buf[i]
                                    ELSE receive_buf[i + pop_count]
           /\ needcopy' = 0 \/ tasks_status' = "requested"
           /\ needcopy' = 0 => tasks_status' = tasks_status
<1>1. /\ Len(receive_buf) \in Nat /\ copied \in Nat /\ pop_count \in Nat /\ pop_count > 0
      /\ copied + pop_count <= Len(receive_buf) /\ receive_buf \in Seq(Byte)
  BY LenProperties DEF IInv, Typed, Popped, Popping, PopCopy
<1>2. /\ rpos' = Len(receive_buf) /\ needcopy' = rpos' - pop_count /\ pop_count' = pop_count
      /\ needcopy' # 0 => /\ receive_buf' = Moved(receive_buf, copied + pop_count, copied,
                                                  needcopy' - copied)
                          /\ copied' = needcopy' /\ tasks_status' = "requested"
      /\ needcopy' = 0 => UNCHANGED <<receive_buf, copied, tasks_status>>
  BY DEF PopCopy
<1>3. CASE needcopy' = 0
  <2>1. copied = 0
    BY <1>1, <1>2, <1>3
  <2> QED
    BY <1>1, <1>2, <1>3, <2>1
<1>4. CASE needcopy' # 0
  <2>1. /\ needcopy' - copied \in Nat /\ copied + (needcopy' - copied) <= Len(receive_buf)
        /\ (copied + pop_count) + (needcopy' - copied) <= Len(receive_buf)
        /\ copied + pop_count \in Nat
    BY <1>1, <1>2
  <2>2. /\ receive_buf' \in Seq(Byte) /\ Len(receive_buf') = Len(receive_buf)
        /\ \A i \in 1..Len(receive_buf) :
               receive_buf'[i] =
                   IF i \in (copied + 1)..(copied + (needcopy' - copied))
                   THEN receive_buf[i - copied + (copied + pop_count)] ELSE receive_buf[i]
    BY <1>1, <1>2, <1>4, <2>1, MovedIs
  <2>3. ASSUME NEW i \in 1..copied'
        PROVE  receive_buf'[i] = IF i <= copied THEN receive_buf[i]
                                 ELSE receive_buf[i + pop_count]
    <3>1. i \in 1..Len(receive_buf) /\ i - copied + (copied + pop_count) = i + pop_count
      BY <1>1, <1>2, <1>4
    <3> QED
      BY <2>2, <3>1, <1>1, <1>2, <1>4
  <2> QED
    BY <1>1, <1>2, <1>4, <2>1, <2>2, <2>3
<1> QED
  BY <1>3, <1>4, <1>2

LEMMA PopDoneIs ==
    ASSUME IInv, PopDone
    PROVE  /\ receive_buf' \in Seq(Byte) /\ stream' \in Seq(Byte)
           /\ Len(receive_buf) = needcopy + pop_count /\ copied = needcopy
           /\ needcopy \in Nat /\ pop_count \in Nat /\ pop_count > 0
           /\ Len(receive_buf') = needcopy /\ Len(stream') = needcopy
           /\ Len(stream) = Len(receive_buf)
           /\ \A i \in 1..needcopy : /\ receive_buf'[i] = stream'[i]
                                     /\ stream'[i] = stream[pop_count + i]
<1>1. /\ Len(receive_buf) = needcopy + pop_count /\ copied = needcopy
      /\ needcopy \in Nat /\ pop_count \in Nat /\ pop_count > 0 /\ Gap = pop_count
      /\ Len(stream) = Len(receive_buf)
      /\ receive_buf \in Seq(Byte) /\ stream \in Seq(Byte)
  BY DEF IInv, Typed, Popped, Popping, PopDone, Raced, Gap
<1>2. /\ receive_buf' = SubSeq(receive_buf, 1, needcopy)
      /\ stream' = SubSeq(stream, pop_count + 1, Len(stream))
  BY DEF PopDone
<1>3. /\ \A i \in 1..needcopy : receive_buf[i] \in Byte
      /\ \A i \in (pop_count + 1)..Len(stream) : stream[i] \in Byte
  BY <1>1, ElementOfSeq
<1>4. /\ receive_buf' \in Seq(Byte)
      /\ Len(receive_buf') = IF 1 <= needcopy THEN needcopy - 1 + 1 ELSE 0
      /\ \A i \in 1..(needcopy - 1 + 1) : receive_buf'[i] = receive_buf[1 + i - 1]
  BY <1>1, <1>2, <1>3, SubSeqProperties
<1>5. /\ stream' \in Seq(Byte)
      /\ Len(stream') = IF pop_count + 1 <= Len(stream)
                        THEN Len(stream) - (pop_count + 1) + 1 ELSE 0
      /\ \A i \in 1..(Len(stream) - (pop_count + 1) + 1) :
             stream'[i] = stream[(pop_count + 1) + i - 1]
  BY <1>1, <1>2, <1>3, SubSeqProperties
<1>6. \A i \in 1..needcopy : receive_buf[i] = stream[pop_count + i]
  BY <1>1 DEF IInv, Coherent
<1>7. ASSUME NEW i \in 1..needcopy
      PROVE  receive_buf'[i] = stream'[i] /\ stream'[i] = stream[pop_count + i]
  <2>1. receive_buf'[i] = receive_buf[i]
    BY <1>1, <1>4
  <2>2. i \in 1..(Len(stream) - (pop_count + 1) + 1) /\ (pop_count + 1) + i - 1 = pop_count + i
    BY <1>1
  <2>3. stream'[i] = stream[pop_count + i]
    BY <1>5, <2>2
  <2> QED
    BY <1>6, <2>1, <2>3
<1> QED
  BY <1>1, <1>4, <1>5, <1>7

LEMMA RxByteIs ==
    ASSUME IInv, RxByte
    PROVE  /\ wire' \in Seq(Byte) /\ Len(wire) \in Nat /\ Len(wire) > 0
           /\ Len(wire') = Len(wire) - 1 /\ wire[1] \in Byte /\ Head(wire) = wire[1]
           /\ \A i \in 1..Len(wire') : wire'[i] = wire[i + 1]
           /\ Len(stream) \in Nat /\ Len(stream) = Len(receive_buf)
           /\ Full \/ /\ Len(receive_buf) < RX_SIZE
                      /\ receive_buf' \in Seq(Byte) /\ stream' \in Seq(Byte)
                      /\ Len(receive_buf') = Len(receive_buf) + 1
                      /\ Len(stream') = Len(stream) + 1
                      /\ \A i \in 1..Len(receive_buf) : receive_buf'[i] = receive_buf[i]
                      /\ \A i \in 1..Len(stream) : stream'[i] = stream[i]
                      /\ receive_buf'[Len(receive_buf) + 1] = wire[1]
                      /\ stream'[Len(stream) + 1] = wire[1]
           /\ Full => UNCHANGED <<receive_buf, stream>>
<1>1. /\ wire \in Seq(Byte) /\ wire # <<>> /\ wire' = Tail(wire)
      /\ stream \in Seq(Byte) /\ receive_buf \in Seq(Byte)
      /\ Len(stream) = Len(receive_buf) /\ Len(stream) \in Nat
  BY LenProperties DEF IInv, Typed, RxByte
<1>2. /\ wire' \in Seq(Byte) /\ Len(wire) \in Nat /\ Len(wire) > 0
      /\ Len(wire') = Len(wire) - 1 /\ Head(wire) = wire[1] /\ wire[1] \in Byte
      /\ \A i \in 1..Len(wire') : wire'[i] = wire[i + 1]
  BY <1>1, HeadTailProperties, EmptySeq, LenProperties
<1>3. CASE Full
  BY <1>1, <1>2, <1>3 DEF RxByte, receive
<1>4. CASE ~Full
  <2>1. receive_buf' = Append(receive_buf, wire[1]) /\ stream' = Append(stream, wire[1])
    BY <1>2, <1>4 DEF RxByte
  <2>2. /\ receive_buf' \in Seq(Byte) /\ Len(receive_buf') = Len(receive_buf) + 1
        /\ \A i \in 1..Len(receive_buf) : receive_buf'[i] = receive_buf[i]
        /\ receive_buf'[Len(receive_buf) + 1] = wire[1]
    BY <1>1, <1>2, <2>1, AppendProperties
  <2>3. /\ stream' \in Seq(Byte) /\ Len(stream') = Len(stream) + 1
        /\ \A i \in 1..Len(stream) : stream'[i] = stream[i]
        /\ stream'[Len(stream) + 1] = wire[1]
    BY <1>1, <1>2, <2>1, AppendProperties
  <2> QED
    BY <1>1, <1>2, <1>4, <2>2, <2>3, Constants DEF Full
<1> QED
  BY <1>3, <1>4

(* The wire after a byte is lost, and after a block is put on it.           *)
LEMMA LoseByteIs ==
    ASSUME IInv, LoseByte
    PROVE  /\ wire' \in Seq(Byte) /\ Len(wire) \in Nat /\ Len(wire) > 0
           /\ Len(wire') = Len(wire) - 1
           /\ \A i \in 1..Len(wire') : wire'[i] = wire[i + 1]
<1>1. wire \in Seq(Byte) /\ wire # <<>> /\ wire' = Tail(wire)
  BY DEF IInv, Typed, LoseByte
<1> QED
  BY <1>1, HeadTailProperties, EmptySeq, LenProperties

LEMMA SendIs ==
    ASSUME NEW w \in Seq(Byte), NEW n \in Nat
    PROVE  /\ w \o Block(n) \in Seq(Byte) /\ Len(w) \in Nat
           /\ Len(w \o Block(n)) \in Nat
           /\ Len(w \o Block(n)) >= Len(w)
           /\ \A i \in 1..Len(w \o Block(n)) :
                  \/ i <= Len(w) /\ (w \o Block(n))[i] = w[i]
                  \/ /\ i > Len(w)
                     /\ (w \o Block(n))[i] # SYNC => (w \o Block(n))[i][1] = n
<1>1. /\ Block(n) \in Seq(Byte) /\ Len(Block(n)) = BlockLen(n) /\ BlockLen(n) \in Nat
      /\ \A i \in 1..BlockLen(n) : Block(n)[i] \in {SYNC, <<n, i>>}
  BY BlockTyped, LenTyped
<1>2. /\ w \o Block(n) \in Seq(Byte) /\ Len(w \o Block(n)) = Len(w) + Len(Block(n))
      /\ \A i \in 1..(Len(w) + Len(Block(n))) : (w \o Block(n))[i] =
             IF i <= Len(w) THEN w[i] ELSE Block(n)[i - Len(w)]
      /\ Len(w) \in Nat
  BY <1>1, ConcatProperties, LenProperties
<1>3. ASSUME NEW i \in 1..Len(w \o Block(n)), i > Len(w), (w \o Block(n))[i] # SYNC
      PROVE  (w \o Block(n))[i][1] = n
  <2>1. i - Len(w) \in 1..BlockLen(n) /\ (w \o Block(n))[i] = Block(n)[i - Len(w)]
    BY <1>1, <1>2, <1>3
  <2> QED
    BY <1>1, <1>3, <2>1
<1> QED
  BY <1>1, <1>2, <1>3

LEMMA SendKeeps ==
    ASSUME NEW s \in Seq(Byte), NEW w \in Seq(Byte), NEW g \in Nat, NEW r \in Nat,
           NEW n \in Nat, NEW h \in Nat,
           ChannelOf(s, w, g, r), r <= g, g <= h, n \in 1..h, g < n + Window
    PROVE  ChannelOf(s, w \o Block(n), h, r)
<1> DEFINE v == w \o Block(n)
<1>1. /\ v \in Seq(Byte) /\ Len(w) \in Nat /\ Len(v) \in Nat /\ Len(v) >= Len(w)
      /\ \A i \in 1..Len(v) : \/ i <= Len(w) /\ v[i] = w[i]
                              \/ i > Len(w) /\ (v[i] # SYNC => v[i][1] = n)
  BY SendIs
<1>2. Len(s) \in Nat
  BY LenProperties
<1>3. /\ \A i \in 1..Len(s) : s[i] # SYNC => s[i][1] \in 1..g
      /\ \A i \in 1..Len(w) : w[i] # SYNC => w[i][1] \in 1..g
  BY DEF ChannelOf, Fresh
<1> HIDE DEF v
<1> USE Constants
<1>4. ASSUME NEW p \in 1..Len(s) PROVE Fresh(s[p], h, r)
  BY DEF ChannelOf, Fresh
<1>5. ASSUME NEW p \in 1..Len(v) PROVE Fresh(v[p], h, r)
  <2>1. CASE p <= Len(w)
    <3>1. p \in 1..Len(w)
      BY <1>1, <2>1
    <3>2. Fresh(w[p], g, r) /\ v[p] = w[p]
      BY <1>1, <2>1, <3>1 DEF ChannelOf
    <3> QED
      BY <3>2 DEF Fresh
  <2>2. CASE p > Len(w)
    <3>1. v[p] # SYNC => v[p][1] = n
      BY <1>1, <2>2
    <3> QED
      BY <3>1 DEF Fresh
  <2> QED
    BY <1>1, <2>1, <2>2
<1>6. ASSUME NEW p \in 1..Len(v), NEW q \in 1..Len(v), p < q PROVE Near(v[p], v[q])
  <2>1. CASE q <= Len(w)
    <3>1. p \in 1..Len(w) /\ q \in 1..Len(w) /\ v[p] = w[p] /\ v[q] = w[q]
      BY <1>1, <1>6, <2>1
    <3> QED
      BY <1>6, <3>1 DEF ChannelOf
  <2>2. CASE q > Len(w)
    <3>1. v[q] # SYNC => v[q][1] = n
      BY <1>1, <2>2
    <3>2. v[p] # SYNC => v[p][1] = n \/ v[p][1] \in 1..g
      BY <1>1, <1>3
    <3> QED
      BY <3>1, <3>2 DEF Near
  <2> QED
    BY <1>1, <2>1, <2>2
<1>7. ASSUME NEW p \in 1..Len(s), NEW q \in 1..Len(v) PROVE Near(s[p], v[q])
  <2>1. CASE q <= Len(w)
    <3>1. q \in 1..Len(w) /\ v[q] = w[q]
      BY <1>1, <2>1
    <3> QED
      BY <3>1 DEF ChannelOf
  <2>2. CASE q > Len(w)
    <3>1. v[q] # SYNC => v[q][1] = n
      BY <1>1, <2>2
    <3> QED
      BY <3>1, <1>3 DEF Near
  <2> QED
    BY <1>1, <2>1, <2>2
<1>8. ChannelOf(s, v, h, r)
  <2>1. \A p, q \in 1..Len(s) : p < q => Near(s[p], s[q])
    BY DEF ChannelOf
  <2> QED
    BY <1>4, <1>5, <1>6, <1>7, <2>1 DEF ChannelOf
<1> QED
  BY <1>8 DEF v

LEMMA FindBlockIs ==
    ASSUME IInv, FindBlock
    PROVE  /\ Found[1] # SYNC /\ Found[1][1] \in 1..given /\ Found[1] = stream[1]
           /\ BlockLen(Found[1][1]) \in 1..rpos
           /\ Expected(Found[1][1]) => Found[1][1] = Len(ran) + 1
<1> DEFINE n == Found[1][1]
<1>1. /\ Len(Found) = rpos /\ rpos \in 0..Len(receive_buf) /\ Found \in Seq(Byte)
      /\ \A i \in 1..rpos : Found[i] = receive_buf[i] /\ Found[i] = stream[i]
      /\ Len(receive_buf) = Len(stream) /\ Len(stream) \in Nat
  BY FindIs, LenProperties DEF FindBlock, IInv, Typed
<1>2. Found[1] # SYNC /\ BlockLen(n) <= Len(Found) /\ BlockLen(n) \in Nat /\ BlockLen(n) > 1
  BY LenTyped DEF FindBlock, Whole, StartsBlock
<1>3. Found[1] = stream[1] /\ 1 \in 1..Len(stream)
  BY <1>1, <1>2
<1>4. n \in 1..given /\ Len(ran) < n + Window
  BY <1>2, <1>3 DEF IInv, Channel, ChannelOf, Fresh
<1>5. ASSUME Expected(n) PROVE n = Len(ran) + 1
  <2>1. Seq16(n) = Seq16(Len(ran) + 1)
    BY <1>5 DEF Expected, IInv, Numbers, FindBlock
  <2>2. /\ Len(ran) \in Nat /\ n \in Nat /\ Len(ran) + 1 \in Nat /\ n <= given
        /\ given <= known + Window /\ known <= Len(ran) /\ given \in Nat /\ known \in Nat
    BY <1>4, LenProperties, Constants DEF IInv, Counts, Typed
  <2>3. n < (Len(ran) + 1) + SEQ_MOD /\ Len(ran) + 1 < n + SEQ_MOD
    BY <1>4, <2>2, Constants
  <2> HIDE DEF n
  <2> QED
    BY <2>1, <2>2, <2>3, SeqInjective
<1> QED
  BY <1>1, <1>2, <1>3, <1>4, <1>5

LEMMA AcknowledgedIs ==
    ASSUME known \in Nat, given \in Nat,
           NEW k \in known..given, k <= known + Window
    PROVE  Acknowledged(Seq16(k + 1)) = k
<1> DEFINE InRange == known..(known + SEQ_MOD - 1)
           c == CHOOSE j \in InRange : Seq16(j + 1) = Seq16(k + 1)
<1>1. k \in InRange /\ k \in Nat
  BY Constants
<1>2. c \in InRange /\ Seq16(c + 1) = Seq16(k + 1)
  BY <1>1
<1>3. c \in Nat /\ c + 1 < (k + 1) + SEQ_MOD /\ k + 1 < (c + 1) + SEQ_MOD
  BY <1>1, <1>2, Constants
<1> HIDE DEF c
<1>4. c + 1 = k + 1
  BY <1>1, <1>2, <1>3, SeqInjective
<1>5. c = k
  BY <1>1, <1>3, <1>4
<1>6. Acknowledged(Seq16(k + 1)) = IF c <= given THEN c ELSE known
  BY DEF Acknowledged, c
<1> QED
  BY <1>5, <1>6

LEMMA TxByteIs ==
    ASSUME IInv, TxByte
    PROVE  /\ pc \notin {"move", "moved"}
           /\ Len(accepted) = transmit_max - transmit_pos
           /\ Len(accepted) > 0 /\ accepted \in Seq(0..(SEQ_MOD - 1))
           /\ accepted' = Tail(accepted) /\ accepted' \in Seq(0..(SEQ_MOD - 1))
           /\ Len(accepted') = Len(accepted) - 1
           /\ \A i \in 1..Len(accepted') : accepted'[i] = accepted[i + 1]
           /\ transmit_buf[transmit_pos] = accepted[1]
<1> USE Constants
<1>1. pc \notin {"move", "moved"}
  BY DEF IInv, Sends, TxByte
<1>2. /\ Len(accepted) = transmit_max - transmit_pos /\ Len(accepted) > 0
      /\ accepted \in Seq(0..(SEQ_MOD - 1)) /\ Len(accepted) \in Int
      /\ transmit_pos \in Nat
  BY <1>1 DEF IInv, Sends, First, Last1, TxByte
<1>3. accepted # <<>> /\ accepted' = Tail(accepted)
  BY <1>2, EmptySeq DEF TxByte
<1>4. /\ accepted' \in Seq(0..(SEQ_MOD - 1)) /\ Len(accepted') = Len(accepted) - 1
      /\ \A i \in 1..Len(accepted') : accepted'[i] = accepted[i + 1]
  BY <1>2, <1>3, HeadTailProperties
<1>5. accepted[1] = transmit_buf[transmit_pos]
  <2>1. 1 \in 1..Len(accepted) /\ First = transmit_pos
    BY <1>1, <1>2 DEF First
  <2>2. accepted[1] = transmit_buf[First + 1 - 1]
    BY <2>1 DEF IInv, Sends
  <2> QED
    BY <2>1, <2>2, <1>2
<1> QED
  BY <1>1, <1>2, <1>3, <1>4, <1>5

LEMMA KnownIs ==
    ASSUME IInv, TxByte, NEW ks \in Seq(Nat), Covers(ks)
    PROVE  known' \in {known, ks[1]} /\ ks[1] \in known..Len(ran) /\ Len(ran) <= given
<1>1. /\ Len(accepted) > 0 /\ transmit_buf[transmit_pos] = accepted[1]
      /\ Len(ks) = Len(accepted) /\ Len(ks) \in Nat
  BY TxByteIs, LenProperties DEF Covers
<1>2. ks[1] \in known..Len(ran) /\ accepted[1] = Seq16(ks[1] + 1)
  BY <1>1 DEF Covers
<1>3. /\ known \in Nat /\ given \in Nat /\ Len(ran) \in Nat /\ Len(ran) <= given
      /\ given <= known + Window
  BY LenProperties, Constants DEF IInv, Counts, Typed
<1>4. ks[1] \in known..given /\ ks[1] <= known + Window
  BY <1>2, <1>3, Constants
<1>5. Acknowledged(accepted[1]) = ks[1]
  BY <1>2, <1>3, <1>4, AcknowledgedIs
<1> QED
  BY <1>1, <1>2, <1>3, <1>5 DEF TxByte

(* console_sendf and the transmit interrupt.                                *)
LEMMA AddBound ==
    ASSUME NEW a \in Int, NEW b \in Int, NEW c \in Int, NEW d \in Int,
           a <= b, c <= a + d
    PROVE  c <= b + d
OBVIOUS

LEMMA SendfRoomSends ==
    ASSUME Sends, then \in {"loop", "pop"}, SendfRoom
    PROVE  Sends'
<1> USE Constants
<1>1. /\ transmit_pos \in 0..TX_SIZE /\ transmit_max \in 0..TX_SIZE
      /\ transmit_pos <= transmit_max /\ Len(accepted) = transmit_max - transmit_pos
      /\ First = transmit_pos /\ pc = "sendf" /\ tmax \in 0..TX_SIZE
  BY DEF Sends, First, Last1, SendfRoom
<1> DEFINE empty == transmit_pos >= transmit_max
           max == IF empty THEN 0 ELSE transmit_max
           pos == IF empty THEN 0 ELSE transmit_pos
<1>2. /\ pos \in 0..TX_SIZE /\ max \in 0..TX_SIZE /\ pos <= max
      /\ max - pos = Len(accepted)
      /\ pos = transmit_pos \/ Len(accepted) = 0
      /\ empty => max = 0
  BY <1>1
<1> HIDE DEF max, pos
<1>3. \/ /\ max + 1 <= TX_SIZE /\ transmit_pos' = pos /\ transmit_max' = max
         /\ tmax' = max /\ pc' = "put"
      \/ /\ pc' \in {"loop", "pop"}
         /\ UNCHANGED <<transmit_pos, transmit_max, tmax>>
      \/ /\ max + 1 > TX_SIZE /\ max + 1 - pos <= TX_SIZE
         /\ transmit_max' = 0 /\ tmax' = max
         /\ pc' = "move" /\ UNCHANGED transmit_pos
  BY DEF SendfRoom, SendfReturn, Goto, Held, max, pos
<1>4. UNCHANGED <<transmit_buf, accepted>>
  BY DEF SendfRoom
<1>5. /\ First' <= Last1' /\ Last1' - First' = Len(accepted)
      /\ First' = First \/ Len(accepted) = 0
      /\ transmit_pos' \in 0..TX_SIZE /\ transmit_max' \in 0..TX_SIZE
      /\ tmax' \in 0..TX_SIZE
      /\ pc' \in {"move", "moved"} => transmit_max' = 0 /\ Last1' - First' < TX_SIZE
      /\ pc' = "put" => tmax' = transmit_max' /\ tmax' < TX_SIZE
  <2>1. CASE max + 1 <= TX_SIZE /\ transmit_pos' = pos /\ transmit_max' = max
             /\ tmax' = max /\ pc' = "put"
    BY <1>1, <1>2, <2>1 DEF First, Last1
  <2>2. CASE pc' \in {"loop", "pop"} /\ UNCHANGED <<transmit_pos, transmit_max, tmax>>
    BY <1>1, <2>2 DEF First, Last1
  <2>3. CASE max + 1 > TX_SIZE /\ max + 1 - pos <= TX_SIZE
             /\ transmit_max' = 0 /\ tmax' = max
             /\ pc' = "move" /\ UNCHANGED transmit_pos
    <3>1. max # 0 /\ ~empty
      BY <1>2, <2>3
    <3>2. pos = transmit_pos /\ max = transmit_max
      BY <3>1 DEF pos, max
    <3> QED
      BY <1>1, <1>2, <2>3, <3>2 DEF First, Last1
  <2> QED
    BY <1>3, <2>1, <2>2, <2>3
<1> QED
  BY <1>1, <1>4, <1>5 DEF Sends

LEMMA SendfPutSends ==
    ASSUME Sends, then \in {"loop", "pop"}, next_sequence \in 0..(SEQ_MOD - 1), SendfPut
    PROVE  Sends'
<1> USE Constants
<1>1. /\ pc = "put" /\ pc' \in {"loop", "pop"} /\ tmax' = 0 /\ transmit_max' = tmax + 1
      /\ transmit_pos' = transmit_pos
      /\ transmit_buf' = [transmit_buf EXCEPT ![tmax] = next_sequence]
      /\ accepted' = Append(accepted, next_sequence)
  BY DEF SendfPut, SendfReturn, Goto
<1>2. /\ tmax = transmit_max /\ tmax < TX_SIZE /\ tmax \in Nat
      /\ transmit_pos \in 0..TX_SIZE /\ transmit_pos <= tmax
      /\ Len(accepted) = tmax - transmit_pos /\ Len(accepted) \in Nat
      /\ accepted \in Seq(0..(SEQ_MOD - 1))
      /\ transmit_buf \in [Slot -> 0..(SEQ_MOD - 1)] /\ tmax \in Slot
      /\ \A i \in 1..Len(accepted) : accepted[i] = transmit_buf[transmit_pos + i - 1]
  BY <1>1 DEF Sends, First, Last1, Slot
<1>3. /\ accepted' \in Seq(0..(SEQ_MOD - 1)) /\ Len(accepted') = Len(accepted) + 1
      /\ \A i \in 1..Len(accepted) : accepted'[i] = accepted[i]
      /\ accepted'[Len(accepted) + 1] = next_sequence
  BY <1>1, <1>2, AppendProperties, SMTT(30)
<1>4. /\ transmit_buf' \in [Slot -> 0..(SEQ_MOD - 1)]
      /\ transmit_buf'[tmax] = next_sequence
      /\ \A i \in Slot : i # tmax => transmit_buf'[i] = transmit_buf[i]
  BY <1>1, <1>2
<1>5. First' = transmit_pos /\ Last1' = tmax + 1
  BY <1>1 DEF First, Last1
<1>6. ASSUME NEW i \in 1..Len(accepted') PROVE accepted'[i] = transmit_buf'[First' + i - 1]
  <2>1. CASE i <= Len(accepted)
    <3>1. i \in 1..Len(accepted) /\ transmit_pos + i - 1 \in Slot /\ transmit_pos + i - 1 # tmax
      BY <1>2, <1>3, <2>1 DEF Slot
    <3> QED
      BY <1>2, <1>3, <1>4, <1>5, <3>1
  <2>2. CASE i = Len(accepted) + 1
    <3>1. transmit_pos + i - 1 = tmax
      BY <1>2, <2>2
    <3> QED
      BY <1>3, <1>4, <1>5, <2>2, <3>1
  <2> QED
    BY <1>2, <1>3, <2>1, <2>2
<1>7. transmit_pos' \in 0..TX_SIZE /\ transmit_max' \in 0..TX_SIZE /\ tmax' \in 0..TX_SIZE
  BY <1>1, <1>2
<1> QED
  BY <1>1, <1>2, <1>3, <1>4, <1>5, <1>6, <1>7 DEF Sends

LEMMA TxByteSends ==
    ASSUME IInv, TxByte
    PROVE  Sends'
<1> USE Constants
<1>1. /\ transmit_pos' = transmit_pos + 1 /\ transmit_pos < transmit_max
      /\ UNCHANGED <<transmit_buf, transmit_max, pc, tmax>>
  BY DEF TxByte, locals
<1>2. /\ pc \notin {"move", "moved"} /\ accepted' \in Seq(0..(SEQ_MOD - 1))
      /\ Len(accepted) = transmit_max - transmit_pos
      /\ Len(accepted') = Len(accepted) - 1
      /\ \A i \in 1..Len(accepted') : accepted'[i] = accepted[i + 1]
  BY TxByteIs
<1>3. /\ transmit_pos \in 0..TX_SIZE /\ transmit_max \in 0..TX_SIZE /\ tmax \in 0..TX_SIZE
      /\ transmit_buf \in [Slot -> 0..(SEQ_MOD - 1)]
      /\ First = transmit_pos
      /\ \A i \in 1..Len(accepted) : accepted[i] = transmit_buf[transmit_pos + i - 1]
      /\ pc = "put" => tmax = transmit_max /\ tmax < TX_SIZE
  BY <1>2 DEF IInv, Sends, First
<1>4. First' = transmit_pos + 1 /\ Last1' = transmit_max
  BY <1>1, <1>2 DEF First, Last1
<1>5. ASSUME NEW i \in 1..Len(accepted') PROVE accepted'[i] = transmit_buf'[First' + i - 1]
  <2>1. /\ i + 1 \in 1..Len(accepted)
        /\ transmit_pos + (i + 1) - 1 = (transmit_pos + 1) + i - 1
    BY <1>2, <1>3
  <2>2. accepted[i + 1] = transmit_buf[transmit_pos + (i + 1) - 1]
    BY <1>3, <2>1
  <2>3. accepted'[i] = accepted[i + 1]
    BY <1>2
  <2> QED
    BY <1>1, <1>4, <2>1, <2>2, <2>3
<1> QED
  BY <1>1, <1>2, <1>3, <1>4, <1>5 DEF Sends

-----------------------------------------------------------------------------
(* Each part of the invariant is kept, action by action.                     *)
LEMMA TypedStep ==
    ASSUME IInv, [Next]_vars
    PROVE  Typed'
<1> USE Constants DEF IInv, Typed, Label, Counts, Popped, Goto, receive, parser, transmit, locals, host, counts
<1>1. CASE CheckRequested
  BY <1>1 DEF CheckRequested
<1>2. CASE CheckMasked
  BY <1>2 DEF CheckMasked
<1>3. CASE Wake
  BY <1>3 DEF Wake
<1>4. CASE RunTasks
  BY <1>4 DEF RunTasks
<1>5. CASE ConsoleTask
  BY <1>5 DEF ConsoleTask
<1>6. CASE FindNothing
  BY <1>6 DEF FindNothing
<1>7. CASE FindBlock
  <2>0. next_sequence + 1 \in Int
    OBVIOUS
  <2>1. Seq16(next_sequence + 1) \in 0..(SEQ_MOD - 1)
    BY <2>0, SeqTyped
  <2> QED
    BY <1>7, <2>1 DEF FindBlock
<1>8. CASE FindSync
  BY <1>8 DEF FindSync
<1>9. CASE FindError
  BY <1>9 DEF FindError
<1>10. CASE Dispatch
  BY <1>10, DispatchIs DEF Dispatch
<1>11. CASE DispatchShutdown
  <2>1. ran' \in Seq(Nat)
    BY <1>11, DispatchIs DEF DispatchShutdown
  <2>2. ack' \in BOOLEAN /\ stuck' \in BOOLEAN
    BY <1>11 DEF DispatchShutdown
  <2>3. /\ shutdowns' \in Nat /\ pc' = "sendf"
        /\ UNCHANGED <<receive, parser, tasks_status, wire, lost>>
    BY <1>11 DEF DispatchShutdown
  <2> QED
    BY <2>1, <2>2, <2>3
<1>12. CASE PopCopy
  BY <1>12, PopCopyIs DEF PopCopy
<1>13. CASE PopDone
  <2>1. /\ receive_buf' \in Seq(Byte) /\ stream' \in Seq(Byte)
        /\ Len(receive_buf') <= RX_SIZE /\ Len(stream') = Len(receive_buf')
    BY <1>13, PopDoneIs, SMTT(30)
  <2>2. ack' \in BOOLEAN /\ stuck' \in BOOLEAN /\ pc' \in Label
    BY <1>13 DEF PopDone
  <2>3. UNCHANGED <<parser, ran, tasks_status, wire, counts>>
    BY <1>13 DEF PopDone
  <2> QED
    BY <2>1, <2>2, <2>3
<1>14. CASE PopRaced
  BY <1>14 DEF PopRaced
<1>15. CASE SendfRoom
  BY <1>15 DEF SendfRoom, SendfReturn
<1>16. CASE SendfMove
  BY <1>16 DEF SendfMove
<1>17. CASE SendfResume
  BY <1>17 DEF SendfResume
<1>18. CASE SendfPut
  BY <1>18 DEF SendfPut, SendfReturn
<1>19. CASE RxByte
  BY <1>19, RxByteIs DEF RxByte
<1>20. CASE TxByte
  BY <1>20 DEF TxByte
<1>21. CASE PeriodicWake
  BY <1>21 DEF PeriodicWake
<1>22. CASE Give
  <2>1. wire' \in Seq(Byte)
    BY <1>22, SendIs DEF Give
  <2> QED
    BY <1>22, <2>1 DEF Give
<1>23. CASE Resend
  <2>1. <<SYNC>> \in Seq(Byte)
    BY DEF Byte
  <2>2. wire' \in Seq(Byte)
    BY <1>23, <2>1, SendIs DEF Resend
  <2> QED
    BY <1>23, <2>2 DEF Resend
<1>24. CASE SendAgain
  <2>1. wire' \in Seq(Byte)
    BY <1>24, SendIs DEF SendAgain
  <2> QED
    BY <1>24, <2>1 DEF SendAgain
<1>25. CASE LoseByte
  BY <1>25, LoseByteIs DEF LoseByte
<1>26. CASE UNCHANGED vars
  BY <1>26 DEF vars
<1> QED
  BY <1>1, <1>2, <1>3, <1>4, <1>5, <1>6, <1>7, <1>8, <1>9, <1>10, <1>11, <1>12, <1>13, <1>14, <1>15, <1>16, <1>17, <1>18, <1>19, <1>20, <1>21, <1>22, <1>23, <1>24, <1>25, <1>26 DEF Next, Task

LEMMA CountsStep ==
    ASSUME IInv, [Next]_vars
    PROVE  Counts'
<1> USE Constants DEF IInv, Typed, Label, Counts, Goto, receive, parser, transmit, locals, host, counts
<1>1. CASE CheckRequested
  BY <1>1 DEF CheckRequested
<1>2. CASE CheckMasked
  BY <1>2 DEF CheckMasked
<1>3. CASE Wake
  BY <1>3 DEF Wake
<1>4. CASE RunTasks
  BY <1>4 DEF RunTasks
<1>5. CASE ConsoleTask
  BY <1>5 DEF ConsoleTask
<1>6. CASE FindNothing
  BY <1>6 DEF FindNothing
<1>7. CASE FindBlock
  BY <1>7 DEF FindBlock
<1>8. CASE FindSync
  BY <1>8 DEF FindSync
<1>9. CASE FindError
  BY <1>9 DEF FindError
<1>10. CASE Dispatch
  BY <1>10, DispatchIs, SMTT(30) DEF Dispatch, Channel, ChannelOf, Fresh
<1>11. CASE DispatchShutdown
  BY <1>11, DispatchIs DEF DispatchShutdown, Channel, ChannelOf, Fresh
<1>12. CASE PopCopy
  BY <1>12 DEF PopCopy
<1>13. CASE PopDone
  BY <1>13 DEF PopDone
<1>14. CASE PopRaced
  BY <1>14 DEF PopRaced
<1>15. CASE SendfRoom
  BY <1>15 DEF SendfRoom
<1>16. CASE SendfMove
  BY <1>16 DEF SendfMove
<1>17. CASE SendfResume
  BY <1>17 DEF SendfResume
<1>18. CASE SendfPut
  BY <1>18 DEF SendfPut
<1>19. CASE RxByte
  BY <1>19 DEF RxByte
<1>20. CASE TxByte
  <2>1. PICK ks \in Seq(Nat) : Covers(ks)
    BY DEF Responses
  <2>2. known' \in {known, ks[1]} /\ ks[1] \in known..Len(ran) /\ Len(ran) <= given
    BY <1>20, <2>1, KnownIs
  <2>3. UNCHANGED <<given, sent, ran>> /\ Len(ran) \in Nat
    BY <1>20, LenProperties DEF TxByte
  <2>4. known' \in Int /\ known <= known' /\ known' <= Len(ran)
    BY <2>2, <2>3
  <2>5. Counts
    BY DEF IInv
  <2>6. given' = given /\ sent' = sent /\ Len(ran)' = Len(ran)
    BY <2>3
  <2> HIDE DEF IInv, Typed
  <2>7. /\ given \in 0..MaxMessages /\ sent \in 0..given /\ known \in 0..given
        /\ given <= sent + Window /\ given <= known + Window
        /\ known <= Len(ran) /\ Len(ran) <= given /\ Len(ran) \in Nat
    BY <2>3, <2>5
  <2>8. given' \in 0..MaxMessages /\ sent' \in 0..given'
    BY <2>6, <2>7
  <2>9. known' \in 0..given' /\ known' <= Len(ran)' /\ Len(ran)' <= given'
    BY <2>4, <2>6, <2>7
  <2>10. given' <= sent' + Window
    BY <2>6, <2>7
  <2>11. given' <= known' + Window
    <3>1. known \in Int /\ known' \in Int /\ given \in Int /\ Window \in Int
          /\ known <= known' /\ given <= known + Window
      BY <2>4, <2>7
    <3>2. given <= known' + Window
      BY <3>1, AddBound
    <3> QED
      BY <2>6, <3>2
  <2> QED
    BY <2>8, <2>9, <2>10, <2>11
<1>21. CASE PeriodicWake
  BY <1>21 DEF PeriodicWake
<1>22. CASE Give
  BY <1>22 DEF Give
<1>23. CASE Resend
  BY <1>23 DEF Resend
<1>24. CASE SendAgain
  BY <1>24 DEF SendAgain
<1>25. CASE LoseByte
  BY <1>25 DEF LoseByte
<1>26. CASE UNCHANGED vars
  BY <1>26 DEF vars
<1> QED
  BY <1>1, <1>2, <1>3, <1>4, <1>5, <1>6, <1>7, <1>8, <1>9, <1>10, <1>11, <1>12, <1>13, <1>14, <1>15, <1>16, <1>17, <1>18, <1>19, <1>20, <1>21, <1>22, <1>23, <1>24, <1>25, <1>26 DEF Next, Task

LEMMA PoppedStep ==
    ASSUME IInv, [Next]_vars
    PROVE  Popped'
<1> USE Constants DEF IInv, Typed, Popped, Popping, Sending, SendfReturn, Goto, receive, parser, transmit, locals, host, counts
<1>1. CASE CheckRequested
  BY <1>1 DEF CheckRequested
<1>2. CASE CheckMasked
  BY <1>2 DEF CheckMasked
<1>3. CASE Wake
  BY <1>3 DEF Wake
<1>4. CASE RunTasks
  BY <1>4 DEF RunTasks
<1>5. CASE ConsoleTask
  BY <1>5 DEF ConsoleTask
<1>6. CASE FindNothing
  BY <1>6 DEF FindNothing
<1>7. CASE FindBlock
  <2>1. /\ rpos \in 0..Len(receive_buf) /\ BlockLen(Found[1][1]) \in 1..rpos
        /\ Len(receive_buf) \in Nat
    BY <1>7, FindIs, FindBlockIs, LenProperties DEF FindBlock
  <2>2. /\ pc = "find" /\ pop_count' = BlockLen(Found[1][1])
        /\ UNCHANGED <<receive_buf, rpos, needcopy, copied>>
        /\ \/ pc' = "dispatch" /\ UNCHANGED then
           \/ pc' = "sendf" /\ then' = "pop"
    BY <1>7 DEF FindBlock
  <2> QED
    BY <2>1, <2>2
<1>8. CASE FindSync
  BY <1>8, FindIs DEF FindSync, LeadingSync
<1>9. CASE FindError
  BY <1>9, FindIs DEF FindError
<1>10. CASE Dispatch
  BY <1>10 DEF Dispatch
<1>11. CASE DispatchShutdown
  BY <1>11 DEF DispatchShutdown
<1>12. CASE PopCopy
  BY <1>12, PopCopyIs DEF PopCopy
<1>13. CASE PopDone
  BY <1>13, PopDoneIs DEF PopDone
<1>14. CASE PopRaced
  BY <1>14 DEF PopRaced
<1>15. CASE SendfRoom
  BY <1>15 DEF SendfRoom
<1>16. CASE SendfMove
  BY <1>16 DEF SendfMove
<1>17. CASE SendfResume
  BY <1>17 DEF SendfResume
<1>18. CASE SendfPut
  BY <1>18 DEF SendfPut
<1>19. CASE RxByte
  BY <1>19, RxByteIs DEF RxByte, Full
<1>20. CASE TxByte
  BY <1>20 DEF TxByte
<1>21. CASE PeriodicWake
  BY <1>21 DEF PeriodicWake
<1>22. CASE Give
  BY <1>22 DEF Give
<1>23. CASE Resend
  BY <1>23 DEF Resend
<1>24. CASE SendAgain
  BY <1>24 DEF SendAgain
<1>25. CASE LoseByte
  BY <1>25 DEF LoseByte
<1>26. CASE UNCHANGED vars
  BY <1>26 DEF vars
<1> QED
  BY <1>1, <1>2, <1>3, <1>4, <1>5, <1>6, <1>7, <1>8, <1>9, <1>10, <1>11, <1>12, <1>13, <1>14, <1>15, <1>16, <1>17, <1>18, <1>19, <1>20, <1>21, <1>22, <1>23, <1>24, <1>25, <1>26 DEF Next, Task

LEMMA SendsStep ==
    ASSUME IInv, [Next]_vars
    PROVE  Sends'
<1> USE Constants DEF IInv, Typed, Sends, First, Last1, Slot, SendfReturn, Popped, Sending, Held, Goto, receive, parser, transmit, locals, host, counts
<1>1. CASE CheckRequested
  BY <1>1 DEF CheckRequested
<1>2. CASE CheckMasked
  BY <1>2 DEF CheckMasked
<1>3. CASE Wake
  BY <1>3 DEF Wake
<1>4. CASE RunTasks
  BY <1>4 DEF RunTasks
<1>5. CASE ConsoleTask
  BY <1>5 DEF ConsoleTask
<1>6. CASE FindNothing
  BY <1>6 DEF FindNothing
<1>7. CASE FindBlock
  BY <1>7 DEF FindBlock
<1>8. CASE FindSync
  BY <1>8 DEF FindSync
<1>9. CASE FindError
  BY <1>9 DEF FindError
<1>10. CASE Dispatch
  BY <1>10 DEF Dispatch
<1>11. CASE DispatchShutdown
  BY <1>11 DEF DispatchShutdown
<1>12. CASE PopCopy
  BY <1>12 DEF PopCopy
<1>13. CASE PopDone
  BY <1>13 DEF PopDone
<1>14. CASE PopRaced
  BY <1>14 DEF PopRaced
<1>15. CASE SendfRoom
  BY <1>15, SendfRoomSends
<1>16. CASE SendfMove
  BY <1>16 DEF SendfMove
<1>17. CASE SendfResume
  BY <1>17, SMTT(30) DEF SendfResume
<1>18. CASE SendfPut
  BY <1>18, SendfPutSends
<1>19. CASE RxByte
  BY <1>19 DEF RxByte
<1>20. CASE TxByte
  BY <1>20, TxByteSends
<1>21. CASE PeriodicWake
  BY <1>21 DEF PeriodicWake
<1>22. CASE Give
  BY <1>22 DEF Give
<1>23. CASE Resend
  BY <1>23 DEF Resend
<1>24. CASE SendAgain
  BY <1>24 DEF SendAgain
<1>25. CASE LoseByte
  BY <1>25 DEF LoseByte
<1>26. CASE UNCHANGED vars
  BY <1>26 DEF vars
<1> QED
  BY <1>1, <1>2, <1>3, <1>4, <1>5, <1>6, <1>7, <1>8, <1>9, <1>10, <1>11, <1>12, <1>13, <1>14, <1>15, <1>16, <1>17, <1>18, <1>19, <1>20, <1>21, <1>22, <1>23, <1>24, <1>25, <1>26 DEF Next, Task

LEMMA NothingBeyond ==
    ASSUME NEW c \in Nat, NEW p \in Nat, NEW g, NEW n, g = p, c + p = n,
           NEW i \in (c + g + 1)..n
    PROVE  FALSE
OBVIOUS

LEMMA CoherentStep ==
    ASSUME IInv, [Next]_vars
    PROVE  Coherent'
<1> USE Constants DEF IInv, Typed, Popped, Popping, Coherent, Gap, SendfReturn, Sending, Goto, receive, parser, transmit, locals, host, counts
<1>1. CASE CheckRequested
  BY <1>1 DEF CheckRequested
<1>2. CASE CheckMasked
  BY <1>2 DEF CheckMasked
<1>3. CASE Wake
  BY <1>3 DEF Wake
<1>4. CASE RunTasks
  BY <1>4 DEF RunTasks
<1>5. CASE ConsoleTask
  BY <1>5 DEF ConsoleTask
<1>6. CASE FindNothing
  BY <1>6 DEF FindNothing
<1>7. CASE FindBlock
  BY <1>7 DEF FindBlock
<1>8. CASE FindSync
  BY <1>8, SMTT(30) DEF FindSync
<1>9. CASE FindError
  BY <1>9, FindIs DEF FindError
<1>10. CASE Dispatch
  BY <1>10 DEF Dispatch
<1>11. CASE DispatchShutdown
  BY <1>11 DEF DispatchShutdown
<1>12. CASE PopCopy
  <2>1. pc = "pop" /\ pc' = "popped" /\ UNCHANGED stream
    BY <1>12 DEF PopCopy
  <2>2. /\ copied \in Nat /\ pop_count \in Nat /\ Gap = pop_count /\ Gap' = pop_count
        /\ copied' + pop_count = Len(receive_buf') /\ copied' \in Nat
        /\ Len(receive_buf) = Len(receive_buf') /\ Len(receive_buf) \in Nat
    BY <1>12, <2>1, PopCopyIs
  <2>4. \A i \in (copied + Gap + 1)..Len(receive_buf) : receive_buf[i] = stream[i]
    OBVIOUS
  <2>5. \A i \in 1..copied : receive_buf[i] = stream[Gap + i]
    OBVIOUS
  <2> HIDE DEF Gap, IInv, Coherent, Typed, Popped, Popping
  <2>3. ASSUME NEW i \in 1..copied' PROVE receive_buf'[i] = stream'[Gap' + i]
    <3>1. receive_buf'[i] = IF i <= copied THEN receive_buf[i]
                            ELSE receive_buf[i + pop_count]
      BY <1>12, PopCopyIs
    <3>2. CASE i <= copied
      BY <2>1, <2>2, <2>5, <3>1, <3>2
    <3>3. CASE i > copied
      <4>1. i + pop_count \in (copied + Gap + 1)..Len(receive_buf)
            /\ pop_count + i = i + pop_count
        BY <2>2, <3>3
      <4>2. receive_buf[i + pop_count] = stream[i + pop_count]
        BY <4>1, <2>4
      <4> QED
        BY <2>1, <2>2, <3>1, <3>3, <4>1, <4>2
    <3> QED
      BY <2>2, <3>2, <3>3
  <2>6. /\ copied' \in Nat /\ pop_count \in Nat /\ Gap' = pop_count
        /\ copied' + pop_count = Len(receive_buf')
    BY <2>2
  <2>7. ASSUME NEW i \in (copied' + Gap' + 1)..Len(receive_buf')
        PROVE  receive_buf'[i] = stream'[i]
    BY <2>6, <2>7, NothingBeyond
  <2> QED
    BY <2>3, <2>7, Zenon DEF Coherent
<1>13. CASE PopDone
  <2>1. copied' = 0 /\ pc' \in {"sendf", "loop"}
    BY <1>13 DEF PopDone
  <2> QED
    BY <1>13, <2>1, PopDoneIs
<1>14. CASE PopRaced
  BY <1>14 DEF PopRaced
<1>15. CASE SendfRoom
  BY <1>15 DEF SendfRoom
<1>16. CASE SendfMove
  BY <1>16 DEF SendfMove
<1>17. CASE SendfResume
  BY <1>17 DEF SendfResume
<1>18. CASE SendfPut
  BY <1>18 DEF SendfPut
<1>19. CASE RxByte
  <2>1. UNCHANGED <<copied, pc, pop_count>>
    BY <1>19 DEF RxByte
  <2>2. CASE Full
    BY <1>19, <2>1, <2>2, RxByteIs
  <2>3. CASE ~Full
    <3>1. /\ Len(receive_buf') = Len(receive_buf) + 1 /\ Len(receive_buf) \in Nat
          /\ Len(stream) = Len(receive_buf)
          /\ \A i \in 1..Len(receive_buf) : receive_buf'[i] = receive_buf[i]
          /\ \A i \in 1..Len(receive_buf) : stream'[i] = stream[i]
          /\ receive_buf'[Len(receive_buf) + 1] = stream'[Len(receive_buf) + 1]
      BY <1>19, <2>3, RxByteIs
    <3>2. /\ Gap' = Gap /\ Gap \in Nat /\ copied \in Nat
          /\ copied + Gap <= Len(receive_buf) /\ copied' = copied
          /\ copied # 0 => copied + Gap <= Len(receive_buf)
      BY <2>1, <3>1
    <3> HIDE DEF Gap
    <3>3. ASSUME NEW i \in 1..copied' PROVE receive_buf'[i] = stream'[Gap' + i]
      <4>1. i \in 1..copied /\ i \in 1..Len(receive_buf) /\ Gap + i \in 1..Len(receive_buf)
        BY <3>1, <3>2
      <4> QED
        BY <3>1, <3>2, <4>1
    <3>4. ASSUME NEW i \in (copied' + Gap' + 1)..Len(receive_buf')
          PROVE  receive_buf'[i] = stream'[i]
      <4>1. i \in (copied + Gap + 1)..Len(receive_buf) \/ i = Len(receive_buf) + 1
        BY <3>1, <3>2
      <4> QED
        BY <3>1, <3>2, <4>1
    <3> QED
      BY <3>3, <3>4
  <2> QED
    BY <2>2, <2>3
<1>20. CASE TxByte
  BY <1>20 DEF TxByte
<1>21. CASE PeriodicWake
  BY <1>21 DEF PeriodicWake
<1>22. CASE Give
  BY <1>22 DEF Give
<1>23. CASE Resend
  BY <1>23 DEF Resend
<1>24. CASE SendAgain
  BY <1>24 DEF SendAgain
<1>25. CASE LoseByte
  BY <1>25 DEF LoseByte
<1>26. CASE UNCHANGED vars
  BY <1>26 DEF vars
<1> QED
  BY <1>1, <1>2, <1>3, <1>4, <1>5, <1>6, <1>7, <1>8, <1>9, <1>10, <1>11, <1>12, <1>13, <1>14, <1>15, <1>16, <1>17, <1>18, <1>19, <1>20, <1>21, <1>22, <1>23, <1>24, <1>25, <1>26 DEF Next, Task

(* The bytes of a channel stay what they are when the firmware takes the     *)
(* first ones, when the wire loses its first, and when a byte arrives.       *)
LEMMA ChannelMoves ==
    ASSUME IInv, RxByte
    PROVE  ChannelOf(stream', wire', given, Len(ran))
<1>1. /\ Len(wire) \in Nat /\ Len(wire) > 0 /\ Len(wire') = Len(wire) - 1
      /\ \A i \in 1..Len(wire') : wire'[i] = wire[i + 1]
      /\ Len(stream) \in Nat
  BY RxByteIs
<1>2. ChannelOf(stream, wire, given, Len(ran))
  BY DEF IInv, Channel
<1>3. \A i \in 1..Len(wire') : i + 1 \in 1..Len(wire)
  BY <1>1
<1>4. /\ \A i \in 1..Len(wire') : Fresh(wire'[i], given, Len(ran))
      /\ \A p, q \in 1..Len(wire') : p < q => Near(wire'[p], wire'[q])
  <2>1. ASSUME NEW p \in 1..Len(wire'), NEW q \in 1..Len(wire'), p < q
        PROVE  Near(wire'[p], wire'[q])
    <3>1. p + 1 \in 1..Len(wire) /\ q + 1 \in 1..Len(wire) /\ p + 1 < q + 1
      BY <1>1, <2>1
    <3> QED
      BY <1>1, <1>2, <3>1 DEF ChannelOf
  <2> QED
    BY <1>1, <1>2, <1>3, <2>1 DEF ChannelOf
<1>5. CASE Full
  <2>1. stream' = stream
    BY <1>5, RxByteIs
  <2>2. ASSUME NEW p \in 1..Len(stream), NEW q \in 1..Len(wire')
        PROVE  Near(stream[p], wire'[q])
    BY <1>1, <1>2, <1>3 DEF ChannelOf
  <2>3. /\ \A p \in 1..Len(stream) : Fresh(stream[p], given, Len(ran))
        /\ \A p, q \in 1..Len(stream) : p < q => Near(stream[p], stream[q])
    BY <1>2 DEF ChannelOf
  <2> QED
    BY <1>4, <2>1, <2>2, <2>3 DEF ChannelOf
<1>6. CASE ~Full
  <2>1. /\ Len(stream') = Len(stream) + 1
        /\ \A i \in 1..Len(stream) : stream'[i] = stream[i]
        /\ stream'[Len(stream) + 1] = wire[1]
    BY <1>6, RxByteIs
  <2>2. \A i \in 1..Len(stream') : i \in 1..Len(stream) \/ i = Len(stream) + 1
    BY <1>1, <2>1
  <2>3. ASSUME NEW p \in 1..Len(stream') PROVE Fresh(stream'[p], given, Len(ran))
    <3>1. 1 \in 1..Len(wire)
      BY <1>1
    <3> QED
      BY <1>2, <2>1, <2>2, <3>1 DEF ChannelOf
  <2>4. ASSUME NEW p \in 1..Len(stream'), NEW q \in 1..Len(stream'), p < q
        PROVE  Near(stream'[p], stream'[q])
    <3>1. p \in 1..Len(stream) /\ 1 \in 1..Len(wire)
      BY <1>1, <2>1, <2>4
    <3>2. CASE q \in 1..Len(stream)
      BY <1>2, <2>1, <2>4, <3>1, <3>2 DEF ChannelOf
    <3>3. CASE q = Len(stream) + 1
      BY <1>2, <2>1, <3>1, <3>3 DEF ChannelOf
    <3> QED
      BY <2>2, <3>2, <3>3
  <2>5. ASSUME NEW p \in 1..Len(stream'), NEW q \in 1..Len(wire')
        PROVE  Near(stream'[p], wire'[q])
    <3>1. q + 1 \in 1..Len(wire) /\ 1 \in 1..Len(wire) /\ 1 < q + 1 /\ wire'[q] = wire[q + 1]
      BY <1>1
    <3>2. CASE p \in 1..Len(stream)
      BY <1>2, <2>1, <3>1, <3>2 DEF ChannelOf
    <3>3. CASE p = Len(stream) + 1
      BY <1>2, <2>1, <3>1, <3>3 DEF ChannelOf
    <3> QED
      BY <2>2, <3>2, <3>3
  <2> QED
    BY <1>4, <2>3, <2>4, <2>5 DEF ChannelOf
<1> QED
  BY <1>5, <1>6

LEMMA ChannelLoses ==
    ASSUME IInv, LoseByte
    PROVE  ChannelOf(stream, wire', given, Len(ran))
<1>1. /\ Len(wire) \in Nat /\ Len(wire) > 0 /\ Len(wire') = Len(wire) - 1
      /\ \A i \in 1..Len(wire') : wire'[i] = wire[i + 1]
  BY LoseByteIs
<1>2. ChannelOf(stream, wire, given, Len(ran))
  BY DEF IInv, Channel
<1>3. \A i \in 1..Len(wire') : i + 1 \in 1..Len(wire)
  BY <1>1
<1>4. ASSUME NEW p \in 1..Len(wire'), NEW q \in 1..Len(wire'), p < q
      PROVE  Near(wire'[p], wire'[q])
  <2>1. p + 1 \in 1..Len(wire) /\ q + 1 \in 1..Len(wire) /\ p + 1 < q + 1
    BY <1>1, <1>4
  <2> QED
    BY <1>1, <1>2, <2>1 DEF ChannelOf
<1>5. /\ \A i \in 1..Len(wire') : Fresh(wire'[i], given, Len(ran))
      /\ \A p \in 1..Len(stream), q \in 1..Len(wire') : Near(stream[p], wire'[q])
  BY <1>1, <1>2, <1>3 DEF ChannelOf
<1>6. /\ \A p \in 1..Len(stream) : Fresh(stream[p], given, Len(ran))
      /\ \A p, q \in 1..Len(stream) : p < q => Near(stream[p], stream[q])
  BY <1>2 DEF ChannelOf
<1> QED
  BY <1>4, <1>5, <1>6 DEF ChannelOf

LEMMA ChannelPops ==
    ASSUME IInv, PopDone
    PROVE  ChannelOf(stream', wire, given, Len(ran))
<1>1. /\ needcopy \in Nat /\ pop_count \in Nat /\ Len(stream') = needcopy
      /\ Len(stream) = needcopy + pop_count
      /\ \A i \in 1..needcopy : stream'[i] = stream[pop_count + i]
  BY PopDoneIs
<1>2. ChannelOf(stream, wire, given, Len(ran))
  BY DEF IInv, Channel
<1>3. \A i \in 1..needcopy : pop_count + i \in 1..Len(stream)
  BY <1>1
<1>4. ASSUME NEW p \in 1..needcopy, NEW q \in 1..needcopy, p < q
      PROVE  Near(stream'[p], stream'[q])
  <2>1. pop_count + p \in 1..Len(stream) /\ pop_count + q \in 1..Len(stream)
        /\ pop_count + p < pop_count + q
    BY <1>1, <1>4
  <2> QED
    BY <1>1, <1>2, <2>1 DEF ChannelOf
<1>5. /\ \A i \in 1..needcopy : Fresh(stream'[i], given, Len(ran))
      /\ \A p \in 1..needcopy, q \in 1..Len(wire) : Near(stream'[p], wire[q])
  BY <1>1, <1>2, <1>3 DEF ChannelOf
<1>6. /\ \A p \in 1..Len(wire) : Fresh(wire[p], given, Len(ran))
      /\ \A p, q \in 1..Len(wire) : p < q => Near(wire[p], wire[q])
  BY <1>2 DEF ChannelOf
<1> QED
  BY <1>1, <1>4, <1>5, <1>6 DEF ChannelOf

(* A block that is run brings no byte behind the window: the others come     *)
(* after its first.                                                          *)
LEMMA ChannelRuns ==
    ASSUME IInv, pc = "dispatch"
    PROVE  ChannelOf(stream, wire, given, Len(ran) + 1)
<1>1. /\ stream[1] # SYNC /\ stream[1][1] = Len(ran) + 1
      /\ Len(stream) > 0 /\ Len(stream) \in Nat /\ Len(ran) \in Nat
  BY DispatchIs
<1>2. ChannelOf(stream, wire, given, Len(ran))
  BY DEF IInv, Channel
<1>3. 1 \in 1..Len(stream)
  BY <1>1
<1>4. ASSUME NEW p \in 1..Len(stream) PROVE Fresh(stream[p], given, Len(ran) + 1)
  <2>1. Fresh(stream[p], given, Len(ran))
    BY <1>2 DEF ChannelOf
  <2>2. CASE p = 1
    BY <1>1, <2>1, <2>2, Constants DEF Fresh
  <2>3. CASE p # 1
    <3>1. Near(stream[1], stream[p])
      BY <1>2, <1>3, <2>3 DEF ChannelOf
    <3> QED
      BY <1>1, <2>1, <3>1 DEF Fresh, Near
  <2> QED
    BY <2>2, <2>3
<1>5. ASSUME NEW p \in 1..Len(wire) PROVE Fresh(wire[p], given, Len(ran) + 1)
  <2>1. Fresh(wire[p], given, Len(ran)) /\ Near(stream[1], wire[p])
    BY <1>2, <1>3 DEF ChannelOf
  <2> QED
    BY <1>1, <2>1 DEF Fresh, Near
<1>6. /\ \A p, q \in 1..Len(stream) : p < q => Near(stream[p], stream[q])
      /\ \A p, q \in 1..Len(wire) : p < q => Near(wire[p], wire[q])
      /\ \A p \in 1..Len(stream), q \in 1..Len(wire) : Near(stream[p], wire[q])
  BY <1>2 DEF ChannelOf
<1> QED
  BY <1>4, <1>5, <1>6 DEF ChannelOf

(* The host puts a block on the wire.                                        *)
LEMMA ChannelSends ==
    ASSUME IInv, Give \/ Resend \/ SendAgain
    PROVE  ChannelOf(stream, wire', given', Len(ran))
<1> USE Constants
<1>1. /\ stream \in Seq(Byte) /\ wire \in Seq(Byte) /\ given \in Nat /\ Len(ran) \in Nat
      /\ sent \in Nat /\ known \in Nat /\ Len(ran) <= given /\ sent <= given /\ known <= given
      /\ given <= sent + Window /\ given <= known + Window
  BY LenProperties DEF IInv, Typed, Counts
<1>2. ChannelOf(stream, wire, given, Len(ran))
  BY DEF IInv, Channel
<1>3. CASE Give
  <2>1. wire' = wire \o Block(given + 1) /\ given' = given + 1
    BY <1>3 DEF Give
  <2>2. given + 1 \in Nat /\ given <= given + 1 /\ given + 1 \in 1..(given + 1)
        /\ given < (given + 1) + Window
    BY <1>1
  <2> QED
    BY <1>1, <1>2, <2>1, <2>2, SendKeeps
<1>4. CASE SendAgain
  <2>1. wire' = wire \o Block(sent + 1) /\ given' = given /\ sent < given
    BY <1>4 DEF SendAgain
  <2>2. sent + 1 \in Nat /\ sent + 1 \in 1..given /\ given < (sent + 1) + Window
        /\ given <= given
    BY <1>1, <2>1
  <2> QED
    BY <1>1, <1>2, <2>1, <2>2, SendKeeps
<1>5. CASE Resend
  <2>1. wire' = <<SYNC>> \o Block(known + 1) /\ given' = given /\ known < given
    BY <1>5 DEF Resend
  <2>2. known + 1 \in Nat /\ known + 1 \in 1..given /\ given < (known + 1) + Window
        /\ given <= given
    BY <1>1, <2>1
  <2>3. <<SYNC>> \in Seq(Byte) /\ Len(<<SYNC>>) = 1 /\ <<SYNC>>[1] = SYNC
    BY DEF Byte
  <2>4. ChannelOf(stream, <<SYNC>>, given, Len(ran))
    <3> DEFINE w == <<SYNC>>
    <3>1. \A p \in 1..Len(w) : w[p] = SYNC
      BY <2>3
    <3> HIDE DEF w
    <3>2. /\ \A p \in 1..Len(w) : Fresh(w[p], given, Len(ran))
          /\ \A p, q \in 1..Len(w) : Near(w[p], w[q])
          /\ \A p \in 1..Len(stream), q \in 1..Len(w) : Near(stream[p], w[q])
      BY <3>1 DEF Fresh, Near
    <3>3. ChannelOf(stream, w, given, Len(ran))
      BY <1>2, <3>2 DEF ChannelOf
    <3> QED
      BY <3>3 DEF w
  <2> QED
    BY <1>1, <2>1, <2>2, <2>3, <2>4, SendKeeps
<1> QED
  BY <1>3, <1>4, <1>5

LEMMA ChannelStep ==
    ASSUME IInv, [Next]_vars
    PROVE  Channel'
<1> USE Constants DEF IInv, Channel, Goto, receive, parser, transmit, locals, host, counts
<1>1. CASE CheckRequested
  BY <1>1 DEF CheckRequested
<1>2. CASE CheckMasked
  BY <1>2 DEF CheckMasked
<1>3. CASE Wake
  BY <1>3 DEF Wake
<1>4. CASE RunTasks
  BY <1>4 DEF RunTasks
<1>5. CASE ConsoleTask
  BY <1>5 DEF ConsoleTask
<1>6. CASE FindNothing
  BY <1>6 DEF FindNothing
<1>7. CASE FindBlock
  BY <1>7 DEF FindBlock
<1>8. CASE FindSync
  BY <1>8 DEF FindSync
<1>9. CASE FindError
  BY <1>9 DEF FindError
<1>10. CASE Dispatch
  <2>1. Len(ran)' = Len(ran) + 1 /\ UNCHANGED <<stream, wire, given>>
    BY <1>10, DispatchIs DEF Dispatch
  <2> QED
    BY <1>10, <2>1, ChannelRuns DEF Dispatch
<1>11. CASE DispatchShutdown
  <2>1. Len(ran)' = Len(ran) + 1 /\ UNCHANGED <<stream, wire, given>>
    BY <1>11, DispatchIs DEF DispatchShutdown
  <2> QED
    BY <1>11, <2>1, ChannelRuns DEF DispatchShutdown
<1>12. CASE PopCopy
  BY <1>12 DEF PopCopy
<1>13. CASE PopDone
  BY <1>13, ChannelPops DEF PopDone
<1>14. CASE PopRaced
  BY <1>14 DEF PopRaced
<1>15. CASE SendfRoom
  BY <1>15 DEF SendfRoom
<1>16. CASE SendfMove
  BY <1>16 DEF SendfMove
<1>17. CASE SendfResume
  BY <1>17 DEF SendfResume
<1>18. CASE SendfPut
  BY <1>18 DEF SendfPut
<1>19. CASE RxByte
  BY <1>19, ChannelMoves DEF RxByte
<1>20. CASE TxByte
  BY <1>20 DEF TxByte
<1>21. CASE PeriodicWake
  BY <1>21 DEF PeriodicWake
<1>22. CASE Give
  <2>1. UNCHANGED <<stream, ran>>
    BY <1>22 DEF Give
  <2> QED
    BY <1>22, <2>1, ChannelSends
<1>23. CASE Resend
  <2>1. UNCHANGED <<stream, ran>>
    BY <1>23 DEF Resend
  <2> QED
    BY <1>23, <2>1, ChannelSends
<1>24. CASE SendAgain
  <2>1. UNCHANGED <<stream, ran>>
    BY <1>24 DEF SendAgain
  <2> QED
    BY <1>24, <2>1, ChannelSends
<1>25. CASE LoseByte
  BY <1>25, ChannelLoses DEF LoseByte
<1>26. CASE UNCHANGED vars
  BY <1>26 DEF vars
<1> QED
  BY <1>1, <1>2, <1>3, <1>4, <1>5, <1>6, <1>7, <1>8, <1>9, <1>10, <1>11, <1>12, <1>13, <1>14, <1>15, <1>16, <1>17, <1>18, <1>19, <1>20, <1>21, <1>22, <1>23, <1>24, <1>25, <1>26 DEF Next, Task

LEMMA NumbersStep ==
    ASSUME IInv, [Next]_vars
    PROVE  Numbers'
<1> USE Constants DEF IInv, Numbers, Typed, Popped, Popping, Sending, SendfReturn, Goto, receive, parser, transmit, locals, host, counts
<1>1. CASE CheckRequested
  BY <1>1 DEF CheckRequested
<1>2. CASE CheckMasked
  BY <1>2 DEF CheckMasked
<1>3. CASE Wake
  BY <1>3 DEF Wake
<1>4. CASE RunTasks
  BY <1>4 DEF RunTasks
<1>5. CASE ConsoleTask
  BY <1>5 DEF ConsoleTask
<1>6. CASE FindNothing
  BY <1>6 DEF FindNothing
<1>7. CASE FindBlock
  <2>1. /\ Found[1] # SYNC /\ Found[1] = stream[1] /\ Len(ran) \in Nat
        /\ Expected(Found[1][1]) => Found[1][1] = Len(ran) + 1
    BY <1>7, FindBlockIs, LenProperties
  <2>2. next_sequence = Seq16(Len(ran) + 1) /\ UNCHANGED <<stream, ran>>
    BY <1>7 DEF FindBlock
  <2>3. Seq16(next_sequence + 1) = Seq16(Len(ran) + 2)
    BY <2>1, <2>2, SeqNext
  <2>4. \/ /\ Expected(Found[1][1])
           /\ next_sequence' = Seq16(next_sequence + 1) /\ pc' = "dispatch"
        \/ pc' = "sendf" /\ UNCHANGED next_sequence
    BY <1>7 DEF FindBlock
  <2>5. stream'[1] = stream[1] /\ Len(ran)' = Len(ran)
    BY <2>2
  <2> HIDE DEF IInv, Typed, Popped
  <2>6. CASE Expected(Found[1][1]) /\ pc' = "dispatch"
             /\ next_sequence' = Seq16(next_sequence + 1)
    <3>1. next_sequence' = Seq16(Len(ran)' + 2)
      BY <2>3, <2>5, <2>6
    <3>2. stream'[1] # SYNC /\ stream'[1][1] = Len(ran)' + 1
      BY <2>1, <2>5, <2>6
    <3> QED
      BY <2>6, <3>1, <3>2
  <2>7. CASE pc' = "sendf" /\ UNCHANGED next_sequence
    BY <2>2, <2>5, <2>7
  <2> QED
    BY <2>4, <2>6, <2>7
<1>8. CASE FindSync
  BY <1>8 DEF FindSync
<1>9. CASE FindError
  BY <1>9 DEF FindError
<1>10. CASE Dispatch
  <2>1. Len(ran)' + 1 = Len(ran) + 2 /\ pc' # "dispatch" /\ pc = "dispatch"
        /\ UNCHANGED next_sequence
    BY <1>10, DispatchIs DEF Dispatch
  <2> QED
    BY <2>1
<1>11. CASE DispatchShutdown
  <2>1. Len(ran)' + 1 = Len(ran) + 2 /\ pc' # "dispatch" /\ pc = "dispatch"
        /\ UNCHANGED next_sequence
    BY <1>11, DispatchIs DEF DispatchShutdown
  <2> QED
    BY <2>1
<1>12. CASE PopCopy
  BY <1>12 DEF PopCopy
<1>13. CASE PopDone
  BY <1>13 DEF PopDone
<1>14. CASE PopRaced
  BY <1>14 DEF PopRaced
<1>15. CASE SendfRoom
  BY <1>15 DEF SendfRoom
<1>16. CASE SendfMove
  BY <1>16 DEF SendfMove
<1>17. CASE SendfResume
  BY <1>17 DEF SendfResume
<1>18. CASE SendfPut
  BY <1>18 DEF SendfPut
<1>19. CASE RxByte
  <2>1. pc = "dispatch" => stream'[1] = stream[1]
    <3>1. Len(stream) \in Nat /\ (Full => stream' = stream)
          /\ (~Full => \A i \in 1..Len(stream) : stream'[i] = stream[i])
      BY <1>19, RxByteIs
    <3>2. pc = "dispatch" => Len(stream) > 0
      BY DispatchIs
    <3> QED
      BY <3>1, <3>2
  <2>2. UNCHANGED <<pc, ran, next_sequence>>
    BY <1>19 DEF RxByte
  <2> QED
    BY <2>1, <2>2
<1>20. CASE TxByte
  BY <1>20 DEF TxByte
<1>21. CASE PeriodicWake
  BY <1>21 DEF PeriodicWake
<1>22. CASE Give
  BY <1>22 DEF Give
<1>23. CASE Resend
  BY <1>23 DEF Resend
<1>24. CASE SendAgain
  BY <1>24 DEF SendAgain
<1>25. CASE LoseByte
  BY <1>25 DEF LoseByte
<1>26. CASE UNCHANGED vars
  BY <1>26 DEF vars
<1> QED
  BY <1>1, <1>2, <1>3, <1>4, <1>5, <1>6, <1>7, <1>8, <1>9, <1>10, <1>11, <1>12, <1>13, <1>14, <1>15, <1>16, <1>17, <1>18, <1>19, <1>20, <1>21, <1>22, <1>23, <1>24, <1>25, <1>26 DEF Next, Task

(* The numbers behind the responses.                                         *)
LEMMA ResponsesAdvance ==
    ASSUME IInv, UNCHANGED <<accepted, known>>, Len(ran) <= Len(ran)', Len(ran)' \in Nat
    PROVE  Responses'
<1>1. PICK ks \in Seq(Nat) : Covers(ks)
  BY DEF IInv, Responses
<1>2. Len(ran) \in Nat
  BY LenProperties DEF IInv, Typed
<1>3. known \in Nat
  BY Constants DEF IInv, Counts
<1>4. Covers(ks)'
  BY <1>1, <1>2, <1>3 DEF Covers
<1> QED
  BY <1>4 DEF Responses

LEMMA ResponsesPut ==
    ASSUME IInv, SendfPut
    PROVE  Responses'
<1>1. PICK ks \in Seq(Nat) : Covers(ks)
  BY DEF IInv, Responses
<1>2. /\ accepted \in Seq(0..(SEQ_MOD - 1)) /\ next_sequence \in 0..(SEQ_MOD - 1)
      /\ accepted' = Append(accepted, next_sequence) /\ UNCHANGED <<ran, known>>
      /\ next_sequence = Seq16(Len(ran) + 1)
  BY DEF IInv, Sends, Typed, Numbers, SendfPut, host
<1>3. /\ Len(ran) \in Nat /\ known \in Nat /\ known <= Len(ran)
      /\ Len(ks) \in Nat /\ Len(accepted) \in Nat
  BY <1>2, LenProperties, Constants DEF IInv, Typed, Counts
<1>4. PICK r \in Nat : r = Len(ran)
  BY <1>3
<1> DEFINE ls == Append(ks, r)
<1>5. /\ ls \in Seq(Nat) /\ Len(ls) = Len(ks) + 1
      /\ \A i \in 1..Len(ks) : ls[i] = ks[i]
      /\ ls[Len(ks) + 1] = r
  BY AppendProperties
<1>6. /\ Len(accepted') = Len(accepted) + 1
      /\ \A i \in 1..Len(accepted) : accepted'[i] = accepted[i]
      /\ accepted'[Len(accepted) + 1] = next_sequence
  BY <1>2, AppendProperties
<1>7. Len(ks) = Len(accepted)
  BY <1>1 DEF Covers
<1> HIDE DEF ls
<1>8. \A i \in 1..Len(ls) : i \in 1..Len(ks) \/ i = Len(ks) + 1
  BY <1>3, <1>5
<1>9. ASSUME NEW i \in 1..Len(ls)
      PROVE  ls[i] \in known..Len(ran) /\ accepted'[i] = Seq16(ls[i] + 1)
  <2>1. CASE i \in 1..Len(ks)
    BY <1>1, <1>5, <1>6, <1>7, <2>1 DEF Covers
  <2>2. CASE i = Len(ks) + 1
    BY <1>2, <1>3, <1>4, <1>5, <1>6, <1>7, <2>2
  <2> QED
    BY <1>8, <2>1, <2>2
<1>10. ASSUME NEW i \in 1..Len(ls), NEW j \in 1..Len(ls), i < j PROVE ls[i] <= ls[j]
  <2>1. i \in 1..Len(ks)
    BY <1>3, <1>5, <1>10
  <2>2. ls[i] = ks[i] /\ ks[i] \in known..Len(ran)
    BY <1>1, <1>5, <2>1 DEF Covers
  <2>3. CASE j \in 1..Len(ks)
    BY <1>1, <1>5, <1>10, <2>1, <2>2, <2>3 DEF Covers
  <2>4. CASE j = Len(ks) + 1
    BY <1>3, <1>4, <1>5, <2>2, <2>4
  <2> QED
    BY <1>8, <2>3, <2>4
<1>11. Covers(ls)'
  BY <1>2, <1>5, <1>6, <1>7, <1>9, <1>10 DEF Covers
<1> QED
  BY <1>5, <1>11 DEF Responses

LEMMA ResponsesSent ==
    ASSUME IInv, TxByte
    PROVE  Responses'
<1>1. PICK ks \in Seq(Nat) : Covers(ks)
  BY DEF IInv, Responses
<1>2. /\ known' \in {known, ks[1]} /\ ks[1] \in known..Len(ran)
      /\ UNCHANGED ran
  BY <1>1, KnownIs DEF TxByte
<1>3. /\ Len(accepted) > 0 /\ Len(accepted') = Len(accepted) - 1
      /\ \A i \in 1..Len(accepted') : accepted'[i] = accepted[i + 1]
  BY TxByteIs
<1>4. Len(ks) = Len(accepted) /\ Len(ks) \in Nat /\ ks # <<>> /\ Len(ran) \in Nat
      /\ known \in Nat
  BY <1>1, <1>3, LenProperties, EmptySeq, Constants DEF Covers, IInv, Typed, Counts
<1> DEFINE ls == Tail(ks)
<1>5. /\ ls \in Seq(Nat) /\ Len(ls) = Len(ks) - 1
      /\ \A i \in 1..Len(ls) : ls[i] = ks[i + 1]
  BY <1>4, HeadTailProperties
<1> HIDE DEF ls
<1>6. ASSUME NEW i \in 1..Len(ls)
      PROVE  ls[i] \in known'..Len(ran) /\ accepted'[i] = Seq16(ls[i] + 1)
  <2>1. i + 1 \in 1..Len(ks) /\ 1 \in 1..Len(ks) /\ 1 < i + 1 /\ i \in 1..Len(accepted')
    BY <1>3, <1>4, <1>5, SMTT(30)
  <2>2. ks[1] <= ks[i + 1] /\ ks[i + 1] \in known..Len(ran)
        /\ accepted[i + 1] = Seq16(ks[i + 1] + 1)
    BY <1>1, <2>1 DEF Covers
  <2>3. ls[i] = ks[i + 1] /\ accepted'[i] = accepted[i + 1]
    BY <1>3, <1>5, <2>1
  <2> QED
    BY <1>2, <1>4, <2>2, <2>3, SMTT(30)
<1>7. ASSUME NEW i \in 1..Len(ls), NEW j \in 1..Len(ls), i < j PROVE ls[i] <= ls[j]
  <2>1. i + 1 \in 1..Len(ks) /\ j + 1 \in 1..Len(ks) /\ i + 1 < j + 1
    BY <1>4, <1>5, <1>7
  <2> QED
    BY <1>1, <1>5, <2>1 DEF Covers
<1>8. Covers(ls)'
  BY <1>2, <1>3, <1>4, <1>5, <1>6, <1>7 DEF Covers
<1> QED
  BY <1>5, <1>8 DEF Responses

LEMMA ResponsesStep ==
    ASSUME IInv, [Next]_vars
    PROVE  Responses'
<1>1. Len(ran) \in Nat
  BY LenProperties DEF IInv, Typed
<1>2. CASE TxByte
  BY <1>2, ResponsesSent
<1>3. CASE SendfPut
  BY <1>3, ResponsesPut
<1>4. CASE Dispatch
  <2>1. UNCHANGED <<accepted, known>> /\ Len(ran)' = Len(ran) + 1
    BY <1>4, DispatchIs DEF Dispatch, transmit, host
  <2> QED
    BY <1>1, <2>1, ResponsesAdvance
<1>5. CASE DispatchShutdown
  <2>1. UNCHANGED <<accepted, known>> /\ Len(ran)' = Len(ran) + 1
    BY <1>5, DispatchIs DEF DispatchShutdown, transmit, host
  <2> QED
    BY <1>1, <2>1, ResponsesAdvance
<1>6. CASE UNCHANGED <<accepted, known, ran>>
  BY <1>1, <1>6, ResponsesAdvance
<1>7. \/ TxByte \/ SendfPut \/ Dispatch \/ DispatchShutdown
      \/ UNCHANGED <<accepted, known, ran>>
  BY DEF Next, Task, vars, transmit, host, CheckRequested, CheckMasked, Wake, RunTasks,
         ConsoleTask, FindNothing, FindBlock, FindSync, FindError, PopCopy, PopDone,
         PopRaced, SendfRoom, SendfMove, SendfResume, RxByte, PeriodicWake, Give,
         Resend, SendAgain, LoseByte
<1> QED
  BY <1>2, <1>3, <1>4, <1>5, <1>6, <1>7

-----------------------------------------------------------------------------
(* Bytes without a sync byte among them leave the task nothing to do.        *)
LEMMA PrefixIs ==
    ASSUME NEW s \in Seq(Byte), NEW i \in 1..Len(s)
    PROVE  /\ SubSeq(s, 1, i) \in Seq(Byte) /\ Len(SubSeq(s, 1, i)) = i
           /\ SubSeq(s, 1, i)[1] = s[1] /\ SubSeq(s, 1, i) # <<>>
           /\ \A j \in 1..i : SubSeq(s, 1, i)[j] = s[j]
<1>1. Len(s) \in Nat /\ \A j \in 1..i : s[j] \in Byte
  BY LenProperties, ElementOfSeq
<1>2. /\ SubSeq(s, 1, i) \in Seq(Byte) /\ Len(SubSeq(s, 1, i)) = i
      /\ \A j \in 1..(i - 1 + 1) : SubSeq(s, 1, i)[j] = s[1 + j - 1]
  BY <1>1, SubSeqProperties
<1>3. 1 \in 1..(i - 1 + 1)
  BY <1>1
<1> QED
  BY <1>1, <1>2, <1>3, EmptySeq

LEMMA PrefixNeedsMore ==
    ASSUME NEW s \in Seq(Byte), NEW i \in 1..Len(s), NEW state, NeedMore(s, state)
    PROVE  NeedMore(SubSeq(s, 1, i), state)
<1> DEFINE t == SubSeq(s, 1, i)
<1>1. Len(t) = i /\ t[1] = s[1] /\ Len(s) \in Nat /\ s # <<>>
  BY PrefixIs, LenProperties, EmptySeq
<1>2. /\ "need_sync" \notin state
      /\ Len(s) < IF StartsBlock(s) THEN BlockLen(s[1][1]) ELSE MESSAGE_MIN
  BY <1>1 DEF NeedMore
<1>3. Len(t) < IF StartsBlock(t) THEN BlockLen(t[1][1]) ELSE MESSAGE_MIN
  <2> USE Constants
  <2>1. CASE StartsBlock(t)
    <3>1. t[1] # SYNC /\ t[1][2] = 1 /\ i >= MESSAGE_MIN
      BY <1>1, <2>1 DEF StartsBlock
    <3>2. StartsBlock(s)
      BY <1>1, <3>1 DEF StartsBlock
    <3>3. Len(s) < BlockLen(s[1][1]) /\ BlockLen(s[1][1]) \in Nat
      BY <1>2, <3>2, LenTyped
    <3> HIDE DEF t
    <3> QED
      BY <1>1, <2>1, <3>3
  <2>2. CASE ~StartsBlock(t)
    <3>1. CASE StartsBlock(s)
      <4>1. s[1] # SYNC /\ s[1][2] = 1
        BY <3>1 DEF StartsBlock
      <4>2. ~(Len(t) >= MESSAGE_MIN)
        BY <1>1, <2>2, <4>1 DEF StartsBlock
      <4> HIDE DEF t
      <4> QED
        BY <1>1, <2>2, <4>2
    <3>2. CASE ~StartsBlock(s)
      <4> HIDE DEF t
      <4> QED
        BY <1>1, <1>2, <2>2, <3>2
    <3> QED
      BY <3>1, <3>2
  <2> QED
    BY <2>1, <2>2
<1> QED
  BY <1>2, <1>3 DEF NeedMore

(* A byte that is no sync byte, at the end of the buffer.                    *)
LEMMA SeenRx ==
    ASSUME IInv, RxByte, Served
    PROVE  Served'
<1>1. UNCHANGED <<stuck, sync_state>>
      /\ tasks_status' = IF wire[1] = SYNC THEN "requested" ELSE tasks_status
  BY RxByteIs DEF RxByte, parser
<1>2. CASE Requested \/ stuck \/ wire[1] = SYNC
  BY <1>1, <1>2 DEF Served, Requested
<1>3. CASE Seen /\ wire[1] # SYNC
  <2>1. CASE Full
    <3>1. receive_buf' = receive_buf
      BY <2>1, RxByteIs
    <3> QED
      BY <1>1, <1>3, <3>1 DEF Served, Seen
  <2>2. CASE ~Full
    <3>1. /\ receive_buf' \in Seq(Byte) /\ Len(receive_buf') = Len(receive_buf) + 1
          /\ \A i \in 1..Len(receive_buf) : receive_buf'[i] = receive_buf[i]
          /\ receive_buf'[Len(receive_buf) + 1] = wire[1]
          /\ Len(receive_buf) \in Nat /\ receive_buf \in Seq(Byte)
      BY <2>2, RxByteIs DEF IInv, Typed
    <3>2. ASSUME NEW i \in SyncAt(receive_buf')
          PROVE  /\ i \in SyncAt(receive_buf)
                 /\ SubSeq(receive_buf', 1, i) = SubSeq(receive_buf, 1, i)
      <4>1. i \in 1..Len(receive_buf') /\ receive_buf'[i] = SYNC
        BY DEF SyncAt
      <4>2. i \in 1..Len(receive_buf)
        BY <1>3, <3>1, <4>1
      <4>3. /\ SubSeq(receive_buf', 1, i) \in Seq(Byte) /\ SubSeq(receive_buf, 1, i) \in Seq(Byte)
            /\ Len(SubSeq(receive_buf', 1, i)) = i /\ Len(SubSeq(receive_buf, 1, i)) = i
            /\ \A j \in 1..i : SubSeq(receive_buf', 1, i)[j] = receive_buf'[j]
            /\ \A j \in 1..i : SubSeq(receive_buf, 1, i)[j] = receive_buf[j]
        BY <3>1, <4>1, <4>2, PrefixIs
      <4>4. \A j \in 1..i : j \in 1..Len(receive_buf)
        BY <3>1, <4>2
      <4>5. \A j \in 1..i : SubSeq(receive_buf', 1, i)[j] = SubSeq(receive_buf, 1, i)[j]
        BY <3>1, <4>3, <4>4
      <4>6. SubSeq(receive_buf', 1, i) = SubSeq(receive_buf, 1, i)
        BY <4>3, <4>5, SeqEqual
      <4>7. receive_buf[i] = SYNC
        BY <3>1, <4>1, <4>2
      <4> QED
        BY <4>2, <4>6, <4>7 DEF SyncAt
    <3> QED
      BY <1>1, <1>3, <3>2 DEF Served, Seen
  <2> QED
    BY <2>1, <2>2
<1> QED
  BY <1>2, <1>3 DEF Served

(* A buffer with nothing in it, and one where the task found nothing.        *)
LEMMA SeenEmpty == ASSUME Len(receive_buf) = 0 PROVE Seen
BY DEF Seen, SyncAt

LEMMA SeenFound ==
    ASSUME IInv, FindNothing
    PROVE  Served
<1>1. pc = "find" /\ NeedMore(Found, sync_state)
  BY DEF FindNothing
<1>2. CASE Requested
  BY <1>2 DEF Served
<1>3. CASE \A i \in SyncAt(receive_buf) : i <= rpos
  <2>1. Len(Found) = rpos /\ Found \in Seq(Byte) /\ rpos \in 0..Len(receive_buf)
        /\ receive_buf \in Seq(Byte) /\ Len(receive_buf) \in Nat
        /\ \A j \in 1..rpos : Found[j] = receive_buf[j]
    BY <1>1, FindIs, LenProperties DEF IInv, Typed
  <2>2. ASSUME NEW i \in SyncAt(receive_buf)
        PROVE  NeedMore(SubSeq(receive_buf, 1, i), sync_state)
    <3>1. i \in 1..rpos /\ i \in 1..Len(receive_buf) /\ i \in 1..Len(Found)
      BY <1>3, <2>1 DEF SyncAt
    <3>2. NeedMore(SubSeq(Found, 1, i), sync_state)
      BY <1>1, <2>1, <3>1, PrefixNeedsMore
    <3>3. /\ SubSeq(Found, 1, i) \in Seq(Byte) /\ SubSeq(receive_buf, 1, i) \in Seq(Byte)
          /\ Len(SubSeq(Found, 1, i)) = i /\ Len(SubSeq(receive_buf, 1, i)) = i
          /\ \A j \in 1..i : SubSeq(Found, 1, i)[j] = Found[j]
          /\ \A j \in 1..i : SubSeq(receive_buf, 1, i)[j] = receive_buf[j]
      BY <2>1, <3>1, PrefixIs
    <3>4. \A j \in 1..i : SubSeq(Found, 1, i)[j] = SubSeq(receive_buf, 1, i)[j]
      BY <2>1, <3>1, <3>3
    <3>5. SubSeq(Found, 1, i) = SubSeq(receive_buf, 1, i)
      BY <3>3, <3>4, SeqEqual
    <3> QED
      BY <3>2, <3>5
  <2> QED
    BY <2>2 DEF Served, Seen
<1> QED
  BY <1>1, <1>2, <1>3 DEF IInv, Awake

LEMMA AwakeStep ==
    ASSUME IInv, [Next]_vars
    PROVE  Awake'
<1>a. Awake /\ then \in {"loop", "pop"} /\ (then = "pop" => pc \in Sending)
  BY DEF IInv, Popped
<1> USE Constants DEF Awake, Sending, Requested, SendfReturn, Goto, receive, parser, transmit, locals, host, counts
<1>b. ASSUME UNCHANGED <<receive_buf, sync_state, stuck>>, Requested => Requested'
      PROVE  Served => Served'
  BY <1>b DEF Served, Seen
<1>1. CASE CheckRequested
  BY <1>1, <1>a, <1>b DEF CheckRequested, Served
<1>2. CASE CheckMasked
  BY <1>2, <1>a, <1>b DEF CheckMasked, Served
<1>3. CASE Wake
  BY <1>3, <1>a, <1>b DEF Wake, Served
<1>4. CASE RunTasks
  BY <1>4, <1>a, <1>b DEF RunTasks, Served
<1>5. CASE ConsoleTask
  BY <1>5, <1>a, LenProperties DEF ConsoleTask, SyncAt, IInv, Typed
<1>6. CASE FindNothing
  <2>1. Served /\ UNCHANGED <<receive_buf, sync_state, stuck, tasks_status>> /\ pc' = "loop"
    BY <1>6, SeenFound DEF FindNothing
  <2> QED
    BY <1>b, <2>1
<1>7. CASE FindBlock
  BY <1>7, <1>a, <1>b DEF FindBlock, Served
<1>8. CASE FindSync
  BY <1>8, <1>a, <1>b DEF FindSync, Served
<1>9. CASE FindError
  BY <1>9, <1>a, <1>b DEF FindError, Served
<1>10. CASE Dispatch
  BY <1>10, <1>a, <1>b DEF Dispatch, Served
<1>11. CASE DispatchShutdown
  BY <1>11, <1>a, <1>b DEF DispatchShutdown, Served
<1>12. CASE PopCopy
  BY <1>12, PopCopyIs DEF PopCopy
<1>13. CASE PopDone
  <2>1. /\ Len(receive_buf') = needcopy /\ UNCHANGED tasks_status /\ pc = "popped"
        /\ pc' \in {"sendf", "loop"}
    BY <1>13, PopDoneIs DEF PopDone
  <2>2. Served'
    <3>1. CASE needcopy = 0
      <4>1. Seen'
        BY <2>1, <3>1 DEF Seen, SyncAt
      <4> QED
        BY <4>1 DEF Served
    <3>2. CASE Requested
      BY <2>1, <3>2 DEF Served
    <3> QED
      BY <1>a, <2>1, <3>1, <3>2
  <2> QED
    BY <2>1, <2>2
<1>14. CASE PopRaced
  BY <1>14, <1>a, <1>b DEF PopRaced, Served
<1>15. CASE SendfRoom
  BY <1>15, <1>a, <1>b DEF SendfRoom, Served
<1>16. CASE SendfMove
  BY <1>16, <1>a, <1>b DEF SendfMove, Served
<1>17. CASE SendfResume
  BY <1>17, <1>a, <1>b DEF SendfResume, Served
<1>18. CASE SendfPut
  BY <1>18, <1>a, <1>b DEF SendfPut, Served
<1>19. CASE RxByte
  <2>1. Served => Served'
    BY <1>19, SeenRx
  <2>2. /\ UNCHANGED <<pc, rpos, then, needcopy>>
        /\ Requested => Requested'
        /\ tasks_status' = IF wire[1] = SYNC THEN "requested" ELSE tasks_status
    BY <1>19, RxByteIs DEF RxByte
  <2>3. ASSUME pc = "find", ~Requested', NEW i \in SyncAt(receive_buf') PROVE i <= rpos'
    <3>1. wire[1] # SYNC /\ \A j \in SyncAt(receive_buf) : j <= rpos
      BY <1>a, <2>2, <2>3
    <3>2. i \in SyncAt(receive_buf)
      <4>1. i \in 1..Len(receive_buf') /\ receive_buf'[i] = SYNC
        BY <2>3 DEF SyncAt
      <4> QED
        BY <1>19, <3>1, <4>1, RxByteIs DEF SyncAt
    <3>3. rpos' = rpos
      BY <2>2
    <3>4. i <= rpos
      BY <3>1, <3>2
    <3> QED
      BY <3>3, <3>4
  <2>4. pc' = pc /\ then' = then /\ needcopy' = needcopy
    BY <2>2
  <2>5. (pc' = "find") => (Requested' \/ \A i \in SyncAt(receive_buf') : i <= rpos')
    BY <2>3, <2>4
  <2>6. (pc' \in {"loop", "mask", "sleep"}) => Served'
    BY <1>a, <2>1, <2>4
  <2>7. (pc' \in Sending /\ then' = "loop") => Served'
    BY <1>a, <2>1, <2>4
  <2>8. (pc' = "popped") => (needcopy' = 0 \/ Requested')
    BY <1>a, <2>2, <2>4
  <2> QED
    BY <2>5, <2>6, <2>7, <2>8
<1>20. CASE TxByte
  BY <1>20, <1>a, <1>b DEF TxByte, Served
<1>21. CASE PeriodicWake
  BY <1>21, <1>a, <1>b DEF PeriodicWake, Served
<1>22. CASE Give
  BY <1>22, <1>a, <1>b DEF Give, Served
<1>23. CASE Resend
  BY <1>23, <1>a, <1>b DEF Resend, Served
<1>24. CASE SendAgain
  BY <1>24, <1>a, <1>b DEF SendAgain, Served
<1>25. CASE LoseByte
  BY <1>25, <1>a, <1>b DEF LoseByte, Served
<1>26. CASE UNCHANGED vars
  BY <1>26, <1>a, <1>b DEF vars
<1> QED
  BY <1>1, <1>2, <1>3, <1>4, <1>5, <1>6, <1>7, <1>8, <1>9, <1>10, <1>11, <1>12, <1>13, <1>14, <1>15, <1>16, <1>17, <1>18, <1>19, <1>20, <1>21, <1>22, <1>23, <1>24, <1>25, <1>26 DEF Next, Task

-----------------------------------------------------------------------------
LEMMA IInvStep == IInv /\ [Next]_vars => IInv'
BY TypedStep, CountsStep, PoppedStep, SendsStep, CoherentStep, ChannelStep, NumbersStep,
   ResponsesStep, AwakeStep DEF IInv

(* The invariant above holds in every state of the command link             *)
(* (src/command.c, src/generic/serial_irq.c).                               *)
THEOREM InvariantHolds == Spec => []IInv
BY IInvInit, IInvStep, PTL DEF Spec

(* Responses are sent once, unchanged and in order, although console_sendf  *)
(* moves the buffer under the interrupt that empties it.                    *)
THEOREM ResponsesKeepOrder == Spec => []ResponsesInOrder
<1>1. IInv => ResponsesInOrder
  <2> SUFFICES ASSUME IInv, pc \notin {"move", "moved"}
               PROVE  accepted = [i \in 1..(transmit_max - transmit_pos) |->
                                      transmit_buf[transmit_pos + i - 1]]
    BY DEF ResponsesInOrder
  <2>1. /\ accepted \in Seq(0..(SEQ_MOD - 1)) /\ Len(accepted) = transmit_max - transmit_pos
        /\ \A i \in 1..Len(accepted) : accepted[i] = transmit_buf[transmit_pos + i - 1]
    BY DEF IInv, Sends, First, Last1
  <2>2. accepted = [i \in 1..Len(accepted) |-> accepted[i]]
    BY <2>1, LenProperties
  <2> QED
    BY <2>1, <2>2
<1> QED
  BY <1>1, InvariantHolds, PTL

(* run_tasks never sleeps while console_task has something to do, however   *)
(* the interrupt that requests the tasks falls.                             *)
THEOREM NeverSleepsOnWork == Spec => []NoLostWakeup
<1>1. IInv => NoLostWakeup
  BY DEF IInv, Awake, Served, Requested, Seen, NoLostWakeup
<1> QED
  BY <1>1, InvariantHolds, PTL

(* The buffer, read around the gap of a pop, is the stream: position by     *)
(* position by Coherent, hence as sequences.                                *)
LEMMA BufferIs == IInv => BufferIsStream
<1> SUFFICES ASSUME IInv PROVE BufferIsStream
  OBVIOUS
<1>1. /\ receive_buf \in Seq(Byte) /\ stream \in Seq(Byte)
      /\ Len(stream) = Len(receive_buf) /\ Len(receive_buf) \in Nat
      /\ copied \in Nat /\ Gap \in Nat /\ copied + Gap <= Len(receive_buf)
  BY LenProperties DEF IInv, Typed, Popped, Popping, Gap
<1>2. /\ \A i \in 1..copied : receive_buf[i] = stream[Gap + i]
      /\ \A i \in (copied + Gap + 1)..Len(receive_buf) : receive_buf[i] = stream[i]
  BY DEF IInv, Coherent
<1> DEFINE s == SubSeq(receive_buf, 1, copied)
           t == SubSeq(receive_buf, copied + Gap + 1, Len(receive_buf))
           u == SubSeq(stream, Gap + 1, Len(stream))
           n == Len(receive_buf)
<1>3. BufferIsStream <=> s \o t = u
  BY DEF BufferIsStream, Gap
<1> HIDE DEF Gap
<1>4. /\ \A i \in 1..copied : receive_buf[i] \in Byte
      /\ \A i \in (copied + Gap + 1)..n : receive_buf[i] \in Byte
      /\ \A i \in (Gap + 1)..n : stream[i] \in Byte
  BY <1>1, ElementOfSeq
<1>5. /\ s \in Seq(Byte) /\ Len(s) = copied
      /\ \A i \in 1..copied : s[i] = receive_buf[i]
  <2>1. /\ s \in Seq(Byte) /\ Len(s) = (IF 1 <= copied THEN copied - 1 + 1 ELSE 0)
        /\ \A i \in 1..(copied - 1 + 1) : s[i] = receive_buf[1 + i - 1]
    BY <1>1, <1>4, SubSeqProperties
  <2> QED
    BY <1>1, <2>1
<1>6. /\ t \in Seq(Byte) /\ Len(t) = n - copied - Gap
      /\ \A i \in 1..(n - copied - Gap) : t[i] = receive_buf[copied + Gap + i]
  <2>1. /\ t \in Seq(Byte)
        /\ Len(t) = (IF copied + Gap + 1 <= n THEN n - (copied + Gap + 1) + 1 ELSE 0)
        /\ \A i \in 1..(n - (copied + Gap + 1) + 1) :
               t[i] = receive_buf[(copied + Gap + 1) + i - 1]
    BY <1>1, <1>4, SubSeqProperties
  <2>2. n - (copied + Gap + 1) + 1 = n - copied - Gap /\ n - copied - Gap >= 0
    BY <1>1
  <2>3. Len(t) = n - copied - Gap
    BY <1>1, <2>1, <2>2
  <2>4. ASSUME NEW i \in 1..(n - copied - Gap) PROVE t[i] = receive_buf[copied + Gap + i]
    <3>1. (copied + Gap + 1) + i - 1 = copied + Gap + i
      BY <1>1
    <3>2. i \in 1..(n - (copied + Gap + 1) + 1)
      BY <2>2
    <3> QED
      BY <2>1, <3>1, <3>2
  <2> QED
    BY <2>1, <2>3, <2>4
<1>7. /\ u \in Seq(Byte) /\ Len(u) = n - Gap
      /\ \A i \in 1..(n - Gap) : u[i] = stream[Gap + i]
  <2>1. /\ u \in Seq(Byte) /\ Len(u) = (IF Gap + 1 <= n THEN n - (Gap + 1) + 1 ELSE 0)
        /\ \A i \in 1..(n - (Gap + 1) + 1) : u[i] = stream[(Gap + 1) + i - 1]
    BY <1>1, <1>4, SubSeqProperties
  <2> QED
    BY <1>1, <2>1
<1> HIDE DEF s, t, u
<1>8. /\ s \o t \in Seq(Byte) /\ Len(s \o t) = n - Gap
      /\ \A i \in 1..(n - Gap) :
             (s \o t)[i] = IF i <= copied THEN s[i] ELSE t[i - copied]
  <2>1. /\ s \o t \in Seq(Byte) /\ Len(s \o t) = Len(s) + Len(t)
        /\ \A i \in 1..(Len(s) + Len(t)) :
               (s \o t)[i] = IF i <= Len(s) THEN s[i] ELSE t[i - Len(s)]
    BY <1>5, <1>6, ConcatProperties
  <2>2. Len(s) + Len(t) = n - Gap
    BY <1>1, <1>5, <1>6
  <2> QED
    BY <1>5, <2>1, <2>2
<1>9. ASSUME NEW i \in 1..(n - Gap) PROVE (s \o t)[i] = u[i]
  <2>1. u[i] = stream[Gap + i]
    BY <1>7
  <2>2. CASE i <= copied
    <3>1. i \in 1..copied
      BY <1>1, <2>2
    <3>2. (s \o t)[i] = s[i]
      BY <1>8, <2>2
    <3> QED
      BY <1>2, <1>5, <2>1, <3>1, <3>2
  <2>3. CASE i > copied
    <3>1. /\ i - copied \in 1..(n - copied - Gap)
          /\ copied + Gap + (i - copied) = Gap + i
          /\ Gap + i \in (copied + Gap + 1)..n
          /\ ~(i <= copied)
      BY <1>1, <2>3
    <3>2. (s \o t)[i] = t[i - copied]
      BY <1>8, <3>1
    <3>3. t[i - copied] = receive_buf[copied + Gap + (i - copied)]
      BY <1>6, <3>1
    <3>4. receive_buf[Gap + i] = stream[Gap + i]
      BY <1>2, <3>1
    <3> QED
      BY <2>1, <3>1, <3>2, <3>3, <3>4
  <2>4. i <= copied \/ i > copied
    BY <1>1
  <2> QED
    BY <2>2, <2>3, <2>4
<1>10. s \o t = u
  BY <1>7, <1>8, <1>9, SeqEqual
<1> QED
  BY <1>3, <1>10

(* The buffers keep to their sizes, and console_pop_input loses and doubles *)
(* no byte whatever the interrupt stores while it moves the rest down.      *)
THEOREM BuffersStaySound == Spec => []BuffersSound
<1>1. IInv => TypeOK
  BY LenProperties, Constants DEF IInv, Typed, Counts, Popped, Sends, TypeOK
<1>2. IInv => BuffersSound
  BY <1>1, BufferIs DEF BuffersSound
<1> QED
  BY <1>2, InvariantHolds, PTL

-----------------------------------------------------------------------------
(* A command run is CommandLink's Run, an acknowledgement that is news its  *)
(* Learn, a message given its Give; every other step leaves the three alone.*)
LEMMA LinkStep == IInv /\ [Next]_vars => [Link!Next]_(Link!vars)
<1> SUFFICES ASSUME IInv, [Next]_vars PROVE [Link!Next]_(Link!vars)
  OBVIOUS
<1>1. CASE Dispatch \/ DispatchShutdown
  <2>1. ran' = Append(ran, Len(ran) + 1) /\ UNCHANGED <<given, known>>
    BY <1>1, DispatchIs DEF Dispatch, DispatchShutdown, host
  <2>2. Len(ran) < given
    <3>1. /\ stream[1] # SYNC /\ stream[1][1] = Len(ran) + 1 /\ Len(ran) \in Nat
          /\ Len(stream) > 0 /\ Len(stream) \in Nat
      BY <1>1, DispatchIs DEF Dispatch, DispatchShutdown
    <3>2. 1 \in 1..Len(stream)
      BY <3>1
    <3>3. stream[1][1] \in 1..given
      BY <3>1, <3>2 DEF IInv, Channel, ChannelOf, Fresh
    <3>4. given \in Nat
      BY Constants DEF IInv, Counts
    <3> QED
      BY <3>1, <3>3, <3>4
  <2> QED
    BY <2>1, <2>2 DEF Link!Next, Link!Run
<1>2. CASE TxByte
  <2>1. PICK ks \in Seq(Nat) : Covers(ks)
    BY DEF IInv, Responses
  <2>2. known' \in {known, ks[1]} /\ ks[1] \in known..Len(ran) /\ UNCHANGED <<given, ran>>
    BY <1>2, <2>1, KnownIs DEF TxByte
  <2>3. known \in Nat /\ Len(ran) \in Nat
    BY LenProperties, Constants DEF IInv, Counts, Typed
  <2>4. CASE known' = known
    BY <2>2, <2>4 DEF Link!vars
  <2>5. CASE known' # known
    <3>1. known < Len(ran) /\ known' \in (known + 1)..Len(ran)
      BY <2>2, <2>3, <2>5
    <3> QED
      BY <2>2, <3>1 DEF Link!Next, Link!Learn
  <2> QED
    BY <2>4, <2>5
<1>3. CASE Give
  BY <1>3 DEF Give, Link!Next, Link!Give
<1>4. CASE UNCHANGED <<given, known, ran>>
  BY <1>4 DEF Link!vars
<1>5. Dispatch \/ DispatchShutdown \/ TxByte \/ Give \/ UNCHANGED <<given, known, ran>>
  BY DEF Next, Task, vars, host, CheckRequested, CheckMasked, Wake, RunTasks,
         ConsoleTask, FindNothing, FindBlock, FindSync, FindError, PopCopy, PopDone,
         PopRaced, SendfRoom, SendfMove, SendfResume, SendfPut, RxByte, PeriodicWake,
         Resend, SendAgain, LoseByte
<1> QED
  BY <1>1, <1>2, <1>3, <1>4, <1>5

(* The safety half of ImplementsLink: commands run once each, in the order  *)
(* given, and the host learns of none before it was run, whatever is lost,  *)
(* dropped, resent or shut down, for every window below SEQ_MOD.            *)
THEOREM LinkSafety == Spec => Link!Init /\ [][Link!Next]_(Link!vars)
<1>1. Init => Link!Init
  BY DEF Init, Link!Init
<1> QED
  BY <1>1, LinkStep, InvariantHolds, PTL DEF Spec

=============================================================================
