------------------------------ MODULE DeviceProofs -----------------------------
(***************************************************************************)
(* Theorems about the buttons, the configuration, the software SPI bus,    *)
(* the pollers, the UART and the coding of messages, each on its own and   *)
(* for every value of its constants.                                       *)
(*                                                                         *)
(* Every section has the inductive invariant of a device, one lemma for    *)
(* each action that it is delicate for, and what follows from it.          *)
(***************************************************************************)
EXTENDS Buttons, Config, SpiBus, Pollers, TmcUart, Codec, SequenceTheorems,
        FiniteSetTheorems, NaturalsInduction, WellFoundedInduction, TLAPS

(***************************************************************************)
(* Remainders.                                                             *)
(***************************************************************************)
LEMMA Distributes ==
    ASSUME NEW m \in Int, NEW x \in Int, NEW y \in Int
    PROVE  /\ m * (x - y) = m * x - m * y /\ m * (x - y) \in Int
           /\ m * (x + y) = m * x + m * y /\ m * (x + y) \in Int
OBVIOUS

LEMMA SmallMultiple ==
    ASSUME NEW m \in Nat, NEW q \in Int, m * q < m, -m < m * q
    PROVE  q = 0
<1>1. CASE q >= 1
  <2>1. m * q >= m
    BY <1>1, SMTT(30)
  <2> QED
    BY <2>1
<1>2. CASE q <= -1
  <2>1. m * q <= -m
    BY <1>2, m >= 0, SMTT(30)
  <2> QED
    BY <2>1
<1> QED
  BY <1>1, <1>2

LEMMA DivMod ==
    ASSUME NEW m \in Nat, m > 0, NEW a \in Int
    PROVE  /\ a \div m \in Int /\ a % m \in 0 .. (m - 1)
           /\ a = m * (a \div m) + (a % m)
OBVIOUS

LEMMA DivModUnique ==
    ASSUME NEW m \in Nat, m > 0, NEW q \in Int, NEW r \in 0 .. (m - 1),
           NEW a \in Int, a = m * q + r
    PROVE  a % m = r /\ a \div m = q
<1> DEFINE d == a \div m
           s == a % m
<1>1. a = m * d + s /\ d \in Int /\ s \in 0 .. (m - 1)
  BY DivMod
<1> HIDE DEF d, s
<1>2. m * (d - q) = r - s
  BY <1>1, Distributes
<1>3. d - q = 0
  BY <1>1, <1>2, SmallMultiple
<1>4. d = q
  BY <1>1, <1>3
<1>5. s = r
  BY <1>1, <1>4
<1> QED
  BY <1>4, <1>5 DEF d, s

(* A sum may be reduced before or after a term is added.                    *)
LEMMA ModAdd ==
    ASSUME NEW m \in Nat, m > 0, NEW a \in Int, NEW n \in Int
    PROVE  ((a % m) + n) % m = (a + n) % m
<1> DEFINE d == a \div m
           r == a % m
           e == (r + n) \div m
           s == (r + n) % m
<1>1. a = m * d + r /\ d \in Int /\ r \in 0 .. (m - 1)
  BY DivMod
<1> HIDE DEF d, r
<1>2. r + n = m * e + s /\ e \in Int /\ s \in 0 .. (m - 1)
  BY <1>1, DivMod
<1> HIDE DEF e, s
<1>3. a + n = m * (d + e) + s /\ d + e \in Int
  BY <1>1, <1>2, Distributes
<1>4. (a + n) % m = s
  BY <1>2, <1>3, DivModUnique
<1> QED
  BY <1>4 DEF s, r

-------------------------------------------------------------------------------
(***************************************************************************)
(* The buttons.  A report is under way from the poll that stores it to the *)
(* acknowledgement: the counts are equal modulo their width, and what is   *)
(* between them is a sum of the acknowledgements that are under way.       *)
(***************************************************************************)
Report == SUBSET Button
Message == [ack_count : Nat, state : Seq(Report)]
Fields == {"polled", "pressed", "last", "reports", "ack_count", "state",
           "retransmit"}
ButtonsTyped ==
    /\ DOMAIN buttons = Fields
    /\ buttons.polled \in BOOLEAN
    /\ buttons.pressed \in Report /\ buttons.last \in Report
    /\ buttons.reports \in Seq(Report) /\ buttons.ack_count \in Nat
    /\ buttons.state \in (0 .. 127) \cup {PENDING, ACKED}
    /\ buttons.retransmit \in 0 .. 127
    /\ stored \in Seq(Report) /\ taken \in Seq(Report)
    /\ acks \in Seq(Nat) /\ messages \in Seq(Message) /\ wake \in BOOLEAN

(* How many reports the firmware knows to be acknowledged.                  *)
Acked == Len(stored) - Len(buttons.reports)

Unpolled ==
    ~buttons.polled =>
        /\ stored = <<>> /\ taken = <<>> /\ acks = <<>> /\ messages = <<>>
        /\ buttons.reports = <<>> /\ task = Idle /\ ~wake

(* The reports kept are the last stored.                                    *)
Stores ==
    /\ Len(buttons.reports) <= REPORTS /\ Len(buttons.reports) <= Len(stored)
    /\ \A i \in 1 .. Len(buttons.reports) : buttons.reports[i] = stored[Acked + i]
    /\ buttons.ack_count = Acked % COUNTS

(* The reports taken are the first stored, and all that are acknowledged.   *)
Takes ==
    /\ Acked <= Len(taken) /\ Len(taken) <= Len(stored)
    /\ \A i \in 1 .. Len(taken) : taken[i] = stored[i]

(* The acknowledgements under way lead from what the firmware knows to what *)
(* the host has.                                                            *)
AcksLead(f) ==
    /\ f[0] = Acked /\ f[Len(acks)] = Len(taken)
    /\ \A i \in 1 .. Len(acks) : f[i] = f[i - 1] + acks[i]
    /\ \A i \in 0 .. Len(acks) : f[i] <= Len(taken)
AcksSum == \E f \in [0 .. Len(acks) -> Nat] : AcksLead(f)

(* A message m was built when a of the reports st were acknowledged.        *)
BuiltAt(m, a, st) ==
    /\ m.ack_count = a % COUNTS /\ Len(m.state) <= REPORTS
    /\ a + Len(m.state) <= Len(st)
    /\ \A k \in 1 .. Len(m.state) : m.state[k] = st[a + k]
MessagesFrom(g, ms, st, acked, takes) ==
    /\ \A i \in 1 .. Len(ms) :
           /\ BuiltAt(ms[i], g[i], st)
           /\ g[i] <= acked /\ takes <= g[i] + REPORTS
    /\ \A i, j \in 1 .. Len(ms) : i <= j => g[i] <= g[j]
MessagesBuilt ==
    \E g \in [1 .. Len(messages) -> Nat] :
        MessagesFrom(g, messages, stored, Acked, Len(taken))

(* The task, and why a report is not left behind.                           *)
TaskSound ==
    /\ task.at \in {"idle", "test", "generate", "send"}
    /\ task.at = "idle" => task = Idle
    /\ task.at = "send" => task.number \in 0 .. Len(buttons.reports)
    /\ buttons.reports # <<>> =>
           \/ buttons.state \notin {PENDING, ACKED}
           \/ buttons.state = PENDING /\ (wake \/ task.at \in {"test", "generate"})

ButtonsInv ==
    ButtonsTyped /\ Unpolled /\ Stores /\ Takes /\ AcksSum /\ MessagesBuilt /\ TaskSound

LEMMA ButtonsNumbers ==
    /\ REPORTS \in Nat \ {0} /\ COUNTS \in Nat /\ 2 * REPORTS <= COUNTS
    /\ Retransmit \subseteq 0 .. 127 /\ PENDING = 255 /\ ACKED = 254
BY ButtonsAssumption DEF PENDING, ACKED

(* buttons_event keeps the reports or adds one and wakes the task; where a  *)
(* retransmission is due, it wakes the task as well.                        *)
LEMMA EventIs ==
    ASSUME ButtonsTyped, NEW status \in Report, ButtonsEvent(status)
    PROVE  /\ DOMAIN buttons' = Fields /\ buttons'.polled /\ buttons.polled
           /\ buttons'.polled \in BOOLEAN
           /\ buttons'.pressed \in Report /\ buttons'.last \in Report
           /\ buttons'.ack_count = buttons.ack_count
           /\ buttons'.retransmit = buttons.retransmit
           /\ wake' \in BOOLEAN
           /\ buttons'.state \in (0 .. 127) \cup {PENDING, ACKED}
           /\ \/ /\ buttons'.reports = buttons.reports /\ stored' = stored
                 /\ wake => wake'
                 /\ \/ buttons.state \in {PENDING, ACKED} /\ buttons'.state = buttons.state
                    \/ /\ buttons.state \notin {PENDING, ACKED} /\ buttons.state = 0
                       /\ buttons'.state = PENDING /\ wake'
                    \/ /\ buttons.state \notin {PENDING, ACKED} /\ buttons.state # 0
                       /\ buttons'.state = buttons.state - 1
              \/ /\ Len(buttons.reports) < REPORTS
                 /\ buttons'.state = PENDING /\ wake'
                 /\ \E p \in Report : /\ buttons'.reports = Append(buttons.reports, p)
                                      /\ stored' = Append(stored, p)
<1> DEFINE b == buttons
           stable == Button \ Differ(status, b.last)
           changes == Differ(status, b.pressed) \cap stable # {}
           p == (b.pressed \ stable) \cup (status \cap stable)
           d == [b EXCEPT !.pressed = p]
           c == IF changes THEN Store(d) ELSE b
<1>1. /\ b.polled
      /\ buttons' = [c EXCEPT !.last = status,
                               !.state = IF c.state \in {PENDING, ACKED} THEN @
                                         ELSE IF @ = 0 THEN PENDING ELSE @ - 1]
      /\ stored' = IF c.reports = b.reports THEN stored ELSE Append(stored, c.pressed)
      /\ wake' = (wake \/ c.reports # b.reports \/ TimesOut(c))
  BY DEF ButtonsEvent
<1>2. /\ p \in Report /\ DOMAIN d = Fields /\ d.pressed = p /\ d.polled = b.polled
      /\ d.last = b.last /\ d.reports = b.reports /\ d.ack_count = b.ack_count
      /\ d.state = b.state /\ d.retransmit = b.retransmit
  BY DEF Report, ButtonsTyped, Fields
<1>3. /\ DOMAIN Store(d) = Fields /\ Store(d).polled = b.polled
      /\ Store(d).pressed = p /\ Store(d).last = b.last
      /\ Store(d).ack_count = b.ack_count /\ Store(d).retransmit = b.retransmit
      /\ \/ Store(d).reports = b.reports /\ Store(d).state = b.state
         \/ /\ Len(b.reports) < REPORTS /\ Store(d).reports = Append(b.reports, p)
            /\ Store(d).state = PENDING
  <2> HIDE DEF d, p
  <2>1. CASE Len(d.reports) < REPORTS
    BY <1>2, <2>1 DEF Store, Fields
  <2>2. CASE ~(Len(d.reports) < REPORTS)
    BY <1>2, <2>2 DEF Store
  <2> QED
    BY <2>1, <2>2
<1>4. /\ DOMAIN c = Fields /\ c.polled = b.polled /\ c.pressed \in Report
      /\ c.last = b.last /\ c.ack_count = b.ack_count /\ c.retransmit = b.retransmit
      /\ \/ c.reports = b.reports /\ c.state = b.state
         \/ /\ Len(b.reports) < REPORTS /\ c.reports = Append(b.reports, c.pressed)
            /\ c.state = PENDING
  <2> HIDE DEF d, p
  <2>1. CASE changes
    <3> HIDE DEF changes
    <3>1. c = Store(d)
      BY <2>1
    <3> HIDE DEF c
    <3> QED
      BY <1>2, <1>3, <3>1
  <2>2. CASE ~changes
    <3> HIDE DEF changes
    <3>1. c = b
      BY <2>2
    <3> HIDE DEF c
    <3> QED
      BY <3>1 DEF ButtonsTyped
  <2> QED
    BY <2>1, <2>2
<1> HIDE DEF c, changes, d, p, stable
<1>5. /\ DOMAIN buttons' = Fields /\ buttons'.polled = b.polled
      /\ buttons'.pressed = c.pressed /\ buttons'.last = status
      /\ buttons'.reports = c.reports /\ buttons'.ack_count = c.ack_count
      /\ buttons'.retransmit = c.retransmit
      /\ buttons'.state = IF c.state \in {PENDING, ACKED} THEN c.state
                          ELSE IF c.state = 0 THEN PENDING ELSE c.state - 1
  BY <1>1, <1>4, Zenon DEF Fields
<1>6. b.polled /\ b.polled \in BOOLEAN /\ wake' \in BOOLEAN
  BY <1>1 DEF ButtonsTyped
<1>7. CASE c.reports = b.reports /\ c.state = b.state
  <2>1. stored' = stored /\ (wake => wake') /\ (c.state = 0 => wake')
    BY <1>1, <1>7 DEF TimesOut
  <2>2. b.state \in (0 .. 127) \cup {PENDING, ACKED}
    BY DEF ButtonsTyped
  <2>3. /\ buttons'.state \in (0 .. 127) \cup {PENDING, ACKED}
        /\ \/ buttons.state \in {PENDING, ACKED} /\ buttons'.state = buttons.state
           \/ /\ buttons.state \notin {PENDING, ACKED} /\ buttons.state = 0
              /\ buttons'.state = PENDING
           \/ /\ buttons.state \notin {PENDING, ACKED} /\ buttons.state # 0
              /\ buttons'.state = buttons.state - 1
    BY <1>5, <1>7, <2>2, ButtonsNumbers
  <2> QED
    BY <1>4, <1>5, <1>6, <1>7, <2>1, <2>3, Zenon
<1>8. CASE /\ Len(b.reports) < REPORTS /\ c.reports = Append(b.reports, c.pressed)
           /\ c.state = PENDING
  <2>1. c.reports # b.reports
    <3>1. b.reports \in Seq(Report) /\ c.pressed \in Report
      BY <1>4 DEF ButtonsTyped
    <3> QED
      BY <1>8, <3>1, AppendProperties
  <2>2. stored' = Append(stored, c.pressed) /\ wake'
    BY <1>1, <2>1
  <2>3. /\ buttons'.state = PENDING
        /\ buttons'.state \in (0 .. 127) \cup {PENDING, ACKED}
    BY <1>5, <1>8
  <2> QED
    BY <1>4, <1>5, <1>6, <1>8, <2>2, <2>3, Zenon
<1> QED
  BY <1>4, <1>7, <1>8

(* Acknowledgements under way stay right as long as they and both their     *)
(* ends do; so do messages when reports are stored or acknowledged.         *)
LEMMA AcksKept ==
    ASSUME AcksSum, acks' = acks, Acked' = Acked, Len(taken') = Len(taken)
    PROVE  AcksSum'
BY DEF AcksSum, AcksLead

Extends ==
    /\ Len(stored) <= Len(stored')
    /\ \A i \in 1 .. Len(stored) : stored'[i] = stored[i]

LEMMA BuiltKept ==
    ASSUME NEW m \in Message, NEW a \in Nat, BuiltAt(m, a, stored), Extends,
           stored \in Seq(Report), stored' \in Seq(Report)
    PROVE  BuiltAt(m, a, stored')
<1>1. m.state \in Seq(Report)
  BY DEF Message
<1>2. ASSUME NEW k \in 1 .. Len(m.state) PROVE a + k \in 1 .. Len(stored)
  BY <1>1 DEF BuiltAt
<1> QED
  BY <1>1, <1>2 DEF BuiltAt, Extends

LEMMA MessagesKept ==
    ASSUME MessagesBuilt, ButtonsTyped, ButtonsTyped', messages' = messages,
           Acked <= Acked', Len(taken') = Len(taken), Extends
    PROVE  MessagesBuilt'
<1>1. PICK g \in [1 .. Len(messages) -> Nat] :
          MessagesFrom(g, messages, stored, Acked, Len(taken))
  BY DEF MessagesBuilt
<1>2. /\ Acked \in Int /\ Acked' \in Int /\ messages \in Seq(Message)
      /\ stored \in Seq(Report) /\ stored' \in Seq(Report)
  BY DEF Acked, ButtonsTyped
<1>3. ASSUME NEW i \in 1 .. Len(messages)
      PROVE  /\ BuiltAt(messages[i], g[i], stored')
             /\ g[i] <= Acked' /\ Len(taken') <= g[i] + REPORTS
  <2>1. messages[i] \in Message /\ g[i] \in Nat
    BY <1>2
  <2>2. BuiltAt(messages[i], g[i], stored)
    BY <1>1 DEF MessagesFrom
  <2>3. BuiltAt(messages[i], g[i], stored')
    BY <1>2, <2>1, <2>2, BuiltKept
  <2> QED
    BY <1>1, <1>2, <2>1, <2>3 DEF MessagesFrom
<1>4. MessagesFrom(g, messages', stored', Acked', Len(taken'))
  BY <1>1, <1>3 DEF MessagesFrom
<1> QED
  BY <1>4 DEF MessagesBuilt

-----------------------------------------------------------------------------
LEMMA QueryKeeps ==
    ASSUME ButtonsInv, NEW r \in Retransmit, NEW i \in SUBSET Button,
           ButtonsQuery(r, i)
    PROVE  ButtonsInv'
<1>1. /\ stored = <<>> /\ taken = <<>> /\ acks = <<>> /\ messages = <<>>
      /\ UNCHANGED <<stored, taken, acks, messages, task, wake>>
      /\ task = Idle /\ ~wake /\ wake \in BOOLEAN
  BY DEF ButtonsQuery, ButtonsInv, Unpolled, ButtonsTyped
<1>2. /\ DOMAIN buttons' = Fields /\ buttons'.polled /\ buttons'.polled \in BOOLEAN
      /\ buttons'.pressed = i
      /\ buttons'.last = i /\ buttons'.reports = <<>> /\ buttons'.ack_count = 0
      /\ buttons'.state = ACKED /\ buttons'.retransmit = r
  BY DEF ButtonsQuery, Fields
<1>3. ButtonsTyped'
  BY <1>1, <1>2, ButtonsNumbers DEF ButtonsTyped, Report
<1>4. Acked' = 0
  BY <1>1, <1>2 DEF Acked
<1>5. Unpolled' /\ Stores' /\ Takes' /\ TaskSound'
  BY <1>1, <1>2, <1>4, ButtonsNumbers DEF Unpolled, Stores, Takes, TaskSound, Idle
<1>6. AcksSum'
  <2> DEFINE z == [j \in {0} |-> 0]
  <2>1. /\ z \in [0 .. Len(acks') -> Nat] /\ z[0] = 0
        /\ Len(acks') = 0 /\ Len(taken') = 0
    BY <1>1
  <2> HIDE DEF z
  <2> QED
    BY <1>1, <1>4, <2>1 DEF AcksSum, AcksLead
<1>7. MessagesBuilt'
  <2>1. [j \in {} |-> 0] \in [1 .. Len(messages') -> Nat]
    BY <1>1
  <2>2. MessagesFrom([j \in {} |-> 0], messages', stored', Acked', Len(taken'))
    BY <1>1 DEF MessagesFrom
  <2> QED
    BY <2>1, <2>2 DEF MessagesBuilt
<1> QED
  BY <1>3, <1>5, <1>6, <1>7 DEF ButtonsInv

LEMMA EventKeeps ==
    ASSUME ButtonsInv, NEW status \in SUBSET Button, ButtonsEvent(status)
    PROVE  ButtonsInv'
<1>1. /\ ButtonsTyped /\ status \in Report
      /\ UNCHANGED <<now, shutdown, task, messages, acks, taken>>
  BY DEF ButtonsInv, Report, ButtonsEvent
<1>2. /\ DOMAIN buttons' = Fields /\ buttons'.polled /\ buttons.polled
      /\ buttons'.polled \in BOOLEAN
      /\ buttons'.pressed \in Report /\ buttons'.last \in Report
      /\ buttons'.ack_count = buttons.ack_count
      /\ buttons'.retransmit = buttons.retransmit
      /\ wake' \in BOOLEAN
      /\ buttons'.state \in (0 .. 127) \cup {PENDING, ACKED}
  BY <1>1, EventIs
<1>3. CASE /\ buttons'.reports = buttons.reports /\ stored' = stored
           /\ wake => wake'
           /\ \/ buttons.state \in {PENDING, ACKED} /\ buttons'.state = buttons.state
              \/ /\ buttons.state \notin {PENDING, ACKED} /\ buttons.state = 0
                 /\ buttons'.state = PENDING /\ wake'
              \/ /\ buttons.state \notin {PENDING, ACKED} /\ buttons.state # 0
                 /\ buttons'.state = buttons.state - 1
  <2>1. ButtonsTyped' /\ Acked' = Acked
    BY <1>1, <1>2, <1>3 DEF ButtonsTyped, Acked
  <2>2. Unpolled' /\ Stores' /\ Takes'
    BY <1>1, <1>2, <1>3, <2>1 DEF ButtonsInv, Unpolled, Stores, Takes
  <2>3. AcksSum'
    BY <1>1, <2>1, AcksKept DEF ButtonsInv
  <2>4. MessagesBuilt'
    BY <1>1, <1>3, <2>1, MessagesKept DEF ButtonsInv, Extends, ButtonsTyped, Acked
  <2>5. TaskSound'
    <3>1. buttons.state \in (0 .. 127) \cup {PENDING, ACKED} /\ TaskSound
      BY <1>1 DEF ButtonsTyped, ButtonsInv
    <3>2. \/ buttons'.state = buttons.state
          \/ buttons'.state = PENDING /\ wake'
          \/ buttons'.state \notin {PENDING, ACKED}
      BY <1>3, <3>1, ButtonsNumbers
    <3> QED
      BY <1>1, <1>3, <3>1, <3>2, Zenon DEF TaskSound
  <2> QED
    BY <2>1, <2>2, <2>3, <2>4, <2>5 DEF ButtonsInv
<1>4. CASE /\ Len(buttons.reports) < REPORTS
           /\ buttons'.state = PENDING /\ wake'
           /\ \E p \in Report : /\ buttons'.reports = Append(buttons.reports, p)
                                /\ stored' = Append(stored, p)
  <2>1. PICK p \in Report : /\ buttons'.reports = Append(buttons.reports, p)
                            /\ stored' = Append(stored, p)
    BY <1>4
  <2>2. /\ buttons.reports \in Seq(Report) /\ stored \in Seq(Report)
        /\ buttons'.reports \in Seq(Report) /\ stored' \in Seq(Report)
        /\ Len(buttons'.reports) = Len(buttons.reports) + 1
        /\ Len(stored') = Len(stored) + 1
        /\ Len(stored) \in Nat /\ Len(buttons.reports) \in Nat
    BY <1>1, <2>1 DEF ButtonsTyped
  <2>3. ButtonsTyped' /\ Acked' = Acked
    BY <1>1, <1>2, <2>2 DEF ButtonsTyped, Acked
  <2>4. Extends
    BY <2>1, <2>2 DEF Extends
  <2>5. Unpolled'
    BY <1>2 DEF Unpolled
  <2>6. Stores'
    <3>4. Stores
      BY DEF ButtonsInv
    <3>5. Len(buttons.reports) <= Len(stored)
      BY <3>4 DEF Stores
    <3>6. Acked \in Nat /\ Acked + Len(buttons.reports) = Len(stored)
      BY <2>2, <3>5 DEF Acked
    <3>1. Stores /\ Acked \in Nat
      BY <3>4, <3>6
    <3>2. ASSUME NEW i \in 1 .. Len(buttons'.reports)
          PROVE  buttons'.reports[i] = stored'[Acked' + i]
      <4>1. CASE i = Len(buttons.reports) + 1
        <5>1. Acked + i = Len(stored) + 1
          BY <2>2, <3>6, <4>1
        <5> QED
          BY <2>1, <2>2, <2>3, <4>1, <5>1
      <4>2. CASE i # Len(buttons.reports) + 1
        <5>1. i \in 1 .. Len(buttons.reports) /\ Acked + i \in 1 .. Len(stored)
          BY <2>2, <3>1, <4>2 DEF Acked
        <5>2. buttons.reports[i] = stored[Acked + i]
          BY <3>1, <5>1 DEF Stores
        <5> QED
          BY <2>1, <2>2, <2>3, <2>4, <5>1, <5>2 DEF Extends
      <4> QED
        BY <4>1, <4>2
    <3>3. /\ Len(buttons'.reports) <= REPORTS /\ Len(buttons'.reports) <= Len(stored')
          /\ buttons'.ack_count = Acked' % COUNTS
      BY <1>2, <1>4, <2>2, <2>3, <3>1, ButtonsNumbers DEF Stores
    <3> QED
      BY <3>2, <3>3 DEF Stores
  <2>7. Takes'
    <3>1. taken \in Seq(Report) /\ Takes
      BY <1>1 DEF ButtonsTyped, ButtonsInv
    <3> QED
      BY <1>1, <2>2, <2>3, <2>4, <3>1 DEF Takes, Extends
  <2>8. AcksSum'
    BY <1>1, <2>3, AcksKept DEF ButtonsInv
  <2>9. MessagesBuilt'
    <3>1. Acked \in Int
      BY <2>2 DEF Acked
    <3> QED
      BY <1>1, <2>3, <2>4, <3>1, MessagesKept DEF ButtonsInv
  <2>10. TaskSound'
    BY <1>1, <1>4, <2>2 DEF ButtonsInv, TaskSound
  <2> QED
    BY <2>3, <2>5, <2>6, <2>7, <2>8, <2>9, <2>10 DEF ButtonsInv
<1> QED
  BY <1>1, <1>3, <1>4, EventIs

(* A count acknowledged is one of reports that are kept.                    *)
LEMMA AckKeeps ==
    ASSUME ButtonsInv, ButtonsAck
    PROVE  ButtonsInv'
<1> DEFINE b == buttons
           count == Head(acks)
           n == Len(b.reports)
<1>1. /\ task = Idle /\ acks # <<>> /\ acks' = Tail(acks)
      /\ buttons' = Acknowledged(b, count)
      /\ UNCHANGED <<now, shutdown, task, wake, messages, taken, stored>>
  BY DEF ButtonsAck
<1>2. /\ ButtonsTyped /\ acks \in Seq(Nat) /\ b.reports \in Seq(Report)
      /\ stored \in Seq(Report) /\ taken \in Seq(Report) /\ b.ack_count \in Nat
  BY DEF ButtonsInv, ButtonsTyped
<1>3. /\ count = acks[1] /\ count \in Nat /\ n \in Nat /\ Len(stored) \in Nat
      /\ Len(acks') = Len(acks) - 1 /\ Len(acks) \in Nat /\ Len(acks) >= 1
      /\ acks' \in Seq(Nat) /\ \A i \in 1 .. Len(acks') : acks'[i] = acks[i + 1]
      /\ Len(taken) \in Nat /\ Acked = Len(stored) - n
  BY <1>1, <1>2 DEF Acked
<1>4. PICK f \in [0 .. Len(acks) -> Nat] : AcksLead(f)
  BY DEF ButtonsInv, AcksSum
<1>5. f[1] = Acked + count /\ f[1] <= Len(taken)
  <2>1. 1 \in 1 .. Len(acks) /\ 1 \in 0 .. Len(acks) /\ 1 - 1 = 0
    BY <1>3
  <2>2. f[1] = f[1 - 1] + acks[1] /\ f[1] <= Len(taken) /\ f[0] = Acked
    BY <1>4, <2>1, Zenon DEF AcksLead
  <2> QED
    BY <1>3, <2>1, <2>2
<1>6. Stores /\ Takes /\ n <= Len(stored) /\ Len(taken) <= Len(stored) /\ n <= REPORTS
  BY DEF ButtonsInv, Stores, Takes
<1>7. count <= n
  BY <1>3, <1>5, <1>6
<1> HIDE DEF count
<1>8. /\ DOMAIN buttons' = Fields /\ buttons'.polled = b.polled
      /\ buttons'.pressed = b.pressed /\ buttons'.last = b.last
      /\ buttons'.retransmit = b.retransmit
      /\ buttons'.ack_count = (b.ack_count + count) % COUNTS
      /\ buttons'.reports \in Seq(Report) /\ Len(buttons'.reports) = n - count
      /\ \A i \in 1 .. (n - count) : buttons'.reports[i] = b.reports[i + count]
      /\ \/ buttons'.reports = <<>> /\ buttons'.state = ACKED
         \/ buttons'.reports # <<>> /\ buttons'.state = b.state /\ b.reports # <<>>
  <2>1. DOMAIN b = Fields
    BY <1>2 DEF ButtonsTyped
  <2>2. CASE count >= n
    <3>1. buttons' = [b EXCEPT !.ack_count = (@ + count) % COUNTS,
                               !.reports = <<>>, !.state = ACKED]
      BY <1>1, <2>2 DEF Acknowledged
    <3>2. count = n
      BY <1>3, <1>7, <2>2
    <3>3. /\ DOMAIN buttons' = Fields /\ buttons'.polled = b.polled
          /\ buttons'.pressed = b.pressed /\ buttons'.last = b.last
          /\ buttons'.retransmit = b.retransmit
          /\ buttons'.ack_count = (b.ack_count + count) % COUNTS
          /\ buttons'.reports = <<>> /\ buttons'.state = ACKED
      BY <2>1, <3>1, Zenon DEF Fields
    <3> QED
      BY <1>3, <3>2, <3>3
  <2>3. CASE ~(count >= n)
    <3>1. buttons' = [b EXCEPT !.ack_count = (@ + count) % COUNTS,
                               !.reports = SubSeq(@, count + 1, Len(@))]
      BY <1>1, <2>3 DEF Acknowledged
    <3>2. /\ DOMAIN buttons' = Fields /\ buttons'.polled = b.polled
          /\ buttons'.pressed = b.pressed /\ buttons'.last = b.last
          /\ buttons'.retransmit = b.retransmit
          /\ buttons'.ack_count = (b.ack_count + count) % COUNTS
          /\ buttons'.reports = SubSeq(b.reports, count + 1, n)
          /\ buttons'.state = b.state
      BY <2>1, <3>1, Zenon DEF Fields
    <3> DEFINE rs == b.reports
    <3> HIDE DEF rs
    <3>5. rs \in Seq(Report) /\ Len(rs) = n /\ n \in Nat /\ count \in Nat /\ count < n
      BY <1>2, <1>3, <2>3 DEF rs
    <3> HIDE DEF n
    <3>6. /\ SubSeq(rs, count + 1, n) \in Seq(Report)
          /\ Len(SubSeq(rs, count + 1, n)) = n - count
          /\ \A i \in 1 .. (n - count) : SubSeq(rs, count + 1, n)[i] = rs[i + count]
      BY <3>5
    <3>3. /\ SubSeq(b.reports, count + 1, n) \in Seq(Report)
          /\ Len(SubSeq(b.reports, count + 1, n)) = n - count
          /\ \A i \in 1 .. (n - count) :
                SubSeq(b.reports, count + 1, n)[i] = b.reports[i + count]
      BY <3>6 DEF rs
    <3>7. SubSeq(rs, count + 1, n) # <<>> /\ rs # <<>>
      BY <3>5, <3>6
    <3>4. SubSeq(b.reports, count + 1, n) # <<>> /\ b.reports # <<>>
      BY <3>7 DEF rs
    <3> QED
      BY <3>2, <3>3, <3>4
  <2> QED
    BY <2>2, <2>3
<1> HIDE DEF n
<1>9. Acked' = Acked + count /\ Acked \in Nat
  <2>1. Acked' = Len(stored) - (n - count)
    BY <1>1, <1>8 DEF Acked
  <2>2. Acked = Len(stored) - n /\ Acked \in Nat /\ Len(stored) \in Nat
    BY <1>3, <1>6
  <2>3. n \in Nat /\ count \in Nat
    BY <1>3, <1>6
  <2> QED
    BY ONLY <2>1, <2>2, <2>3
<1>10. ButtonsTyped'
  <2>1. buttons'.ack_count \in Nat
    <3>1. COUNTS \in Nat /\ COUNTS > 0 /\ b.ack_count + count \in Int
      BY <1>2, <1>3, ButtonsNumbers
    <3>2. (b.ack_count + count) % COUNTS \in 0 .. (COUNTS - 1)
      BY <3>1, DivMod
    <3> QED
      BY <1>8, <3>1, <3>2
  <2> QED
    BY <1>1, <1>2, <1>3, <1>8, <2>1 DEF ButtonsTyped
<1>11. Unpolled'
  <2>1. b.polled
    BY <1>1 DEF ButtonsInv, Unpolled
  <2> QED
    BY <1>8, <2>1 DEF Unpolled
<1>12. Stores'
  <2>1. buttons'.ack_count = Acked' % COUNTS
    <3>1. buttons'.ack_count = ((Acked % COUNTS) + count) % COUNTS
      BY <1>6, <1>8 DEF Stores
    <3>2. COUNTS \in Nat /\ COUNTS > 0
      BY ButtonsNumbers
    <3>3. ((Acked % COUNTS) + count) % COUNTS = (Acked + count) % COUNTS
      <4>1. Acked \in Int /\ count \in Int
        BY <1>3, <1>9
      <4> QED
        BY <3>2, <4>1, ModAdd, Zenon
    <3> QED
      BY <1>9, <3>1, <3>3
  <2>2. /\ Len(buttons'.reports) <= REPORTS
        /\ Len(buttons'.reports) <= Len(stored')
    BY <1>1, <1>3, <1>6, <1>8, ButtonsNumbers
  <2>3. ASSUME NEW i \in 1 .. Len(buttons'.reports)
        PROVE  buttons'.reports[i] = stored'[Acked' + i]
    <3>4. i \in 1 .. (n - count)
      BY <1>8
    <3>5. i + count \in 1 .. n
      BY <1>3, <3>4
    <3>6. Acked' + i = Acked + (i + count)
      BY <1>3, <1>9, <3>4
    <3>1. /\ i \in 1 .. (n - count) /\ i + count \in 1 .. n
          /\ Acked' + i = Acked + (i + count)
      BY <3>4, <3>5, <3>6
    <3>2. buttons'.reports[i] = b.reports[i + count]
      BY <1>8, <3>1
    <3>3. b.reports[i + count] = stored[Acked + (i + count)]
      BY <1>6, <3>1 DEF Stores, n
    <3> QED
      BY <1>1, <3>1, <3>2, <3>3
  <2> QED
    BY <2>1, <2>2, <2>3 DEF Stores
<1>13. Takes'
  BY <1>1, <1>5, <1>6, <1>9 DEF Takes
<1>14. AcksSum'
  <2> DEFINE h == [i \in 0 .. (Len(acks) - 1) |-> f[i + 1]]
  <2>1. /\ h \in [0 .. Len(acks') -> Nat]
        /\ \A i \in 0 .. (Len(acks) - 1) : h[i] = f[i + 1]
    BY <1>3
  <2> HIDE DEF h
  <2>2. h[0] = Acked' /\ h[Len(acks')] = Len(taken')
    <3>1. 0 \in 0 .. (Len(acks) - 1) /\ Len(acks') \in 0 .. (Len(acks) - 1)
          /\ Len(acks') + 1 = Len(acks) /\ 0 + 1 = 1
      BY <1>3
    <3>2. h[0] = f[1] /\ h[Len(acks')] = f[Len(acks)]
      BY <2>1, <3>1
    <3>3. f[Len(acks)] = Len(taken)
      BY <1>4 DEF AcksLead
    <3> QED
      BY <1>1, <1>5, <1>9, <3>2, <3>3
  <2>3. ASSUME NEW i \in 1 .. Len(acks')
        PROVE  h[i] = h[i - 1] + acks'[i]
    <3>1. /\ i \in 0 .. (Len(acks) - 1) /\ i - 1 \in 0 .. (Len(acks) - 1)
          /\ i + 1 \in 1 .. Len(acks) /\ (i + 1) - 1 = (i - 1) + 1
      BY <1>3
    <3>2. f[i + 1] = f[(i + 1) - 1] + acks[i + 1]
      BY <1>4, <3>1 DEF AcksLead
    <3> QED
      BY <1>3, <2>1, <3>1, <3>2
  <2>4. ASSUME NEW i \in 0 .. Len(acks')
        PROVE  h[i] <= Len(taken')
    <3>1. i \in 0 .. (Len(acks) - 1) /\ i + 1 \in 0 .. Len(acks)
      BY <1>3
    <3> QED
      BY <1>1, <1>4, <2>1, <3>1 DEF AcksLead
  <2> QED
    BY <2>1, <2>2, <2>3, <2>4 DEF AcksSum, AcksLead
<1>15. MessagesBuilt'
  <2>1. Extends /\ Acked <= Acked'
    BY <1>1, <1>3, <1>9 DEF Extends
  <2> QED
    BY <1>1, <1>2, <1>10, <2>1, MessagesKept DEF ButtonsInv
<1>16. TaskSound'
  BY <1>1, <1>8, Zenon DEF ButtonsInv, TaskSound, Idle
<1> QED
  BY <1>10, <1>11, <1>12, <1>13, <1>14, <1>15, <1>16 DEF ButtonsInv

(* A step of the task that leaves reports and messages alone.               *)
LEMMA TaskKeeps ==
    ASSUME ButtonsInv, UNCHANGED buttonVars, wake' \in BOOLEAN,
           buttons.polled, TaskSound'
    PROVE  ButtonsInv'
<1>1. ButtonsTyped'
  BY DEF ButtonsInv, ButtonsTyped, buttonVars
<1>2. Acked' = Acked /\ UNCHANGED <<buttons, messages, acks, taken, stored>>
  BY DEF Acked, buttonVars
<1>3. Unpolled' /\ Stores' /\ Takes'
  BY <1>2 DEF ButtonsInv, Unpolled, Stores, Takes
<1>4. AcksSum'
  BY <1>2, AcksKept DEF ButtonsInv
<1>5. MessagesBuilt'
  <2>1. Extends /\ Acked <= Acked'
    <3>1. stored \in Seq(Report) /\ buttons.reports \in Seq(Report)
      BY DEF ButtonsInv, ButtonsTyped
    <3> QED
      BY <1>2, <3>1 DEF Extends, Acked
  <2> QED
    BY <1>1, <1>2, <2>1, MessagesKept DEF ButtonsInv
<1> QED
  BY <1>1, <1>3, <1>4, <1>5 DEF ButtonsInv

LEMMA ButtonsTaskKeeps ==
    ASSUME ButtonsInv, ButtonsTask
    PROVE  ButtonsInv'
<1>1. /\ task = Idle /\ wake /\ wake' = FALSE /\ task' = [at |-> "test"]
      /\ UNCHANGED buttonVars
  BY DEF ButtonsTask, Woken
<1>2. buttons.polled
  BY <1>1 DEF ButtonsInv, Unpolled
<1>3. task'.at = "test" /\ UNCHANGED buttons /\ wake' \in BOOLEAN
  BY <1>1 DEF buttonVars
<1>4. TaskSound'
  <2>1. \/ buttons.reports = <<>> \/ buttons.state \notin {PENDING, ACKED}
        \/ buttons.state = PENDING
    BY DEF ButtonsInv, TaskSound
  <2> QED
    BY <1>3, <2>1 DEF TaskSound
<1> QED
  BY <1>1, <1>2, <1>3, <1>4, TaskKeeps

LEMMA NotIdle == ASSUME ButtonsInv, task.at # "idle" PROVE buttons.polled
BY DEF ButtonsInv, Unpolled, Idle

LEMMA ButtonsTestKeeps ==
    ASSUME ButtonsInv, ButtonsTest
    PROVE  ButtonsInv'
<1>1. /\ task.at = "test" /\ UNCHANGED buttonVars /\ UNCHANGED wake
      /\ task' = IF buttons.state # PENDING THEN Idle ELSE [at |-> "generate"]
  BY DEF ButtonsTest
<1>2. buttons.polled /\ wake' \in BOOLEAN /\ UNCHANGED buttons
  BY <1>1, NotIdle DEF ButtonsInv, ButtonsTyped, buttonVars
<1>3. TaskSound /\ Idle.at = "idle"
  BY DEF ButtonsInv, Idle
<1>4. TaskSound'
  <2>1. CASE buttons.state # PENDING
    BY <1>1, <1>2, <1>3, <2>1 DEF TaskSound
  <2>2. CASE buttons.state = PENDING
    BY <1>1, <1>2, <1>3, <2>2 DEF TaskSound
  <2> QED
    BY <2>1, <2>2
<1> QED
  BY <1>1, <1>2, <1>4, TaskKeeps

LEMMA ButtonsGenerateKeeps ==
    ASSUME ButtonsInv, ButtonsGenerate
    PROVE  ButtonsInv'
<1> DEFINE empty == buttons.reports = <<>>
<1>1. /\ task.at = "generate"
      /\ buttons' = [buttons EXCEPT
              !.state = IF empty THEN @ ELSE buttons.retransmit]
      /\ task' = IF empty THEN Idle
                 ELSE [at |-> "send", number |-> Len(buttons.reports)]
      /\ UNCHANGED <<now, shutdown, wake, messages, acks, taken, stored>>
  BY DEF ButtonsGenerate
<1>2. ButtonsTyped /\ buttons.polled
  BY <1>1, NotIdle DEF ButtonsInv
<1>3. /\ DOMAIN buttons' = Fields /\ buttons'.polled = buttons.polled
      /\ buttons'.pressed = buttons.pressed /\ buttons'.last = buttons.last
      /\ buttons'.reports = buttons.reports
      /\ buttons'.ack_count = buttons.ack_count
      /\ buttons'.retransmit = buttons.retransmit
      /\ buttons'.state = IF empty THEN buttons.state ELSE buttons.retransmit
  BY <1>1, <1>2, Zenon DEF ButtonsTyped, Fields
<1>4. ButtonsTyped'
  BY <1>1, <1>2, <1>3 DEF ButtonsTyped
<1>5. Acked' = Acked
  BY <1>1, <1>3 DEF Acked
<1>6. Unpolled' /\ Stores' /\ Takes'
  BY <1>1, <1>2, <1>3, <1>5 DEF ButtonsInv, Unpolled, Stores, Takes
<1>7. AcksSum'
  BY <1>1, <1>5, AcksKept DEF ButtonsInv
<1>8. MessagesBuilt'
  <2>1. Extends /\ Acked <= Acked'
    <3>1. stored \in Seq(Report) /\ buttons.reports \in Seq(Report)
      BY <1>2 DEF ButtonsTyped
    <3> QED
      BY <1>1, <1>5, <3>1 DEF Extends, Acked
  <2> QED
    BY <1>1, <1>2, <1>4, <2>1, MessagesKept DEF ButtonsInv
<1>9. TaskSound'
  <2>1. CASE empty
    BY <1>1, <1>3, <2>1 DEF TaskSound, Idle
  <2>2. CASE ~empty
    <3>1. task'.at = "send" /\ task'.number = Len(buttons.reports)
      BY <1>1, <2>2
    <3>3. buttons.retransmit \in 0 .. 127 /\ buttons'.state = buttons.retransmit
      BY <1>2, <1>3, <2>2, Zenon DEF ButtonsTyped
    <3>4. Len(buttons.reports) \in Nat
      BY <1>2 DEF ButtonsTyped
    <3>2. Len(buttons.reports) \in Nat /\ buttons'.state \notin {PENDING, ACKED}
      <4> DEFINE v == buttons'.state
      <4>1. v \in 0 .. 127
        BY <3>3
      <4> HIDE DEF v
      <4>2. v \notin {PENDING, ACKED}
        BY <4>1, ButtonsNumbers
      <4> QED
        BY <3>4, <4>2 DEF v
    <3> QED
      BY <1>3, <3>1, <3>2 DEF TaskSound
  <2> QED
    BY <2>1, <2>2
<1> QED
  BY <1>4, <1>6, <1>7, <1>8, <1>9 DEF ButtonsInv

(* A message holds the first of the reports that are not acknowledged.      *)
LEMMA ButtonsSendKeeps ==
    ASSUME ButtonsInv, ButtonsSend
    PROVE  ButtonsInv'
<1> DEFINE n == task.number
           m == [ack_count |-> buttons.ack_count, state |-> SubSeq(buttons.reports, 1, n)]
<1>1. /\ task.at = "send" /\ task' = Idle
      /\ messages' = messages \/ messages' = Append(messages, m)
      /\ UNCHANGED <<now, shutdown, wake, buttons, acks, taken, stored>>
  BY DEF ButtonsSend
<1>2. /\ ButtonsTyped /\ buttons.polled /\ TaskSound /\ Stores /\ Takes
      /\ buttons.reports \in Seq(Report) /\ stored \in Seq(Report)
      /\ Len(buttons.reports) \in Nat /\ Len(stored) \in Nat /\ Acked \in Int
  BY <1>1, NotIdle DEF ButtonsInv, ButtonsTyped, Acked
<1>3. n \in 0 .. Len(buttons.reports)
  BY <1>1, <1>2 DEF TaskSound
<1>4. TaskSound'
  BY <1>1, <1>2 DEF TaskSound, Idle
<1>5. CASE messages' = messages
  <2>1. UNCHANGED buttonVars /\ wake' \in BOOLEAN
    BY <1>1, <1>2, <1>5 DEF buttonVars, ButtonsTyped
  <2> QED
    BY <1>2, <1>4, <2>1, TaskKeeps
<1>6. CASE messages' = Append(messages, m)
  <2>1. /\ m.ack_count = buttons.ack_count /\ m.state \in Seq(Report)
        /\ Len(m.state) = n
        /\ \A k \in 1 .. n : m.state[k] = buttons.reports[k]
    <3> DEFINE rs == buttons.reports
    <3> HIDE DEF rs, n
    <3>1. rs \in Seq(Report) /\ n \in 0 .. Len(rs)
      BY <1>2, <1>3 DEF rs
    <3>2. /\ SubSeq(rs, 1, n) \in Seq(Report) /\ Len(SubSeq(rs, 1, n)) = n
          /\ \A k \in 1 .. n : SubSeq(rs, 1, n)[k] = rs[k]
      BY <3>1
    <3> QED
      BY <3>2 DEF rs
  <2>2. m \in Message
    BY <1>2, <2>1 DEF Message, ButtonsTyped
  <2> HIDE DEF m, n
  <2>3. /\ messages \in Seq(Message) /\ messages' \in Seq(Message)
        /\ Len(messages') = Len(messages) + 1 /\ Len(messages) \in Nat
        /\ \A i \in 1 .. Len(messages) : messages'[i] = messages[i]
        /\ messages'[Len(messages) + 1] = m
    BY <1>2, <1>6, <2>2 DEF ButtonsTyped
  <2>4. ButtonsTyped'
    BY <1>1, <1>2, <2>3 DEF ButtonsTyped
  <2>5. Acked' = Acked /\ Acked \in Nat
    <3>1. Len(buttons.reports) <= Len(stored)
      BY <1>2 DEF Stores
    <3> QED
      BY <1>1, <1>2, <3>1 DEF Acked
  <2>6. Unpolled' /\ Stores' /\ Takes'
    BY <1>1, <1>2, <2>5 DEF ButtonsInv, Unpolled, Stores, Takes
  <2>7. AcksSum'
    BY <1>1, <2>5, AcksKept DEF ButtonsInv
  <2>8. BuiltAt(m, Acked, stored)
    <3>1. m.ack_count = Acked % COUNTS
      BY <1>2, <2>1 DEF Stores
    <3>2. Len(m.state) <= REPORTS /\ Len(buttons.reports) <= REPORTS
      BY <1>2, <1>3, <2>1, ButtonsNumbers DEF Stores
    <3>3. Acked + Len(m.state) <= Len(stored)
      BY <1>2, <1>3, <2>1, <2>5 DEF Acked
    <3>4. \A k \in 1 .. Len(m.state) : m.state[k] = stored[Acked + k]
      BY <1>2, <1>3, <2>1 DEF Stores
    <3> QED
      BY <3>1, <3>2, <3>3, <3>4 DEF BuiltAt
  <2>9. MessagesBuilt'
    <3>1. PICK g \in [1 .. Len(messages) -> Nat] :
                MessagesFrom(g, messages, stored, Acked, Len(taken))
      BY DEF ButtonsInv, MessagesBuilt
    <3> DEFINE h == [i \in 1 .. (Len(messages) + 1) |->
                        IF i = Len(messages) + 1 THEN Acked ELSE g[i]]
    <3>2. /\ h \in [1 .. Len(messages') -> Nat]
          /\ h[Len(messages) + 1] = Acked
          /\ \A i \in 1 .. Len(messages) : h[i] = g[i] /\ g[i] \in Nat
      BY <2>3, <2>5
    <3> HIDE DEF h
    <3>4. Len(taken) <= Acked + REPORTS /\ Len(taken) \in Nat
      <4>1. taken \in Seq(Report) /\ Len(taken) <= Len(stored)
            /\ Len(buttons.reports) <= REPORTS
        BY <1>2 DEF Takes, Stores, ButtonsTyped
      <4>2. Acked = Len(stored) - Len(buttons.reports) /\ Len(taken) \in Nat
        BY <4>1 DEF Acked
      <4> QED
        BY <1>2, <4>1, <4>2, ButtonsNumbers
    <3>5. ASSUME NEW i \in 1 .. Len(messages')
          PROVE  /\ BuiltAt(messages'[i], h[i], stored')
                 /\ h[i] <= Acked' /\ Len(taken') <= h[i] + REPORTS
      <4>1. CASE i = Len(messages) + 1
        BY <1>1, <2>2, <2>3, <2>5, <2>8, <3>2, <3>4, <4>1
      <4>2. CASE i # Len(messages) + 1
        <5>1. i \in 1 .. Len(messages)
          BY <2>3, <4>2
        <5>2. /\ BuiltAt(messages[i], g[i], stored) /\ g[i] <= Acked
              /\ Len(taken) <= g[i] + REPORTS
          BY <3>1, <5>1 DEF MessagesFrom
        <5> QED
          BY <1>1, <2>3, <2>5, <3>2, <5>1, <5>2
      <4> QED
        BY <4>1, <4>2
    <3>6. ASSUME NEW i \in 1 .. Len(messages'), NEW j \in 1 .. Len(messages'), i <= j
          PROVE  h[i] <= h[j]
      <4>1. CASE j = Len(messages) + 1
        BY <2>5, <3>2, <3>5, <4>1
      <4>2. CASE j # Len(messages) + 1
        <5>1. i \in 1 .. Len(messages) /\ j \in 1 .. Len(messages)
          BY <2>3, <3>6, <4>2
        <5> QED
          BY <3>1, <3>2, <3>6, <5>1 DEF MessagesFrom
      <4> QED
        BY <4>1, <4>2
    <3>7. MessagesFrom(h, messages', stored', Acked', Len(taken'))
      BY <3>5, <3>6 DEF MessagesFrom
    <3> QED
      BY <3>2, <3>7 DEF MessagesBuilt
  <2> QED
    BY <1>4, <2>4, <2>6, <2>7, <2>9 DEF ButtonsInv
<1> QED
  BY <1>1, <1>5, <1>6

(* The host takes from a message what it has not, whatever is known by then.*)
LEMMA NearestIs ==
    ASSUME NEW n \in Nat, NEW a \in Nat, a <= n, n <= a + REPORTS
    PROVE  Nearest(n, a % COUNTS) = a
<1> DEFINE d == ((a % COUNTS) - n) % COUNTS
<1>1. /\ COUNTS \in Nat /\ COUNTS > 0 /\ REPORTS \in Nat /\ 2 * REPORTS <= COUNTS
      /\ REPORTS > 0
  BY ButtonsNumbers
<1>2. d = (a - n) % COUNTS
  <2>1. a \in Int /\ -n \in Int /\ a % COUNTS \in Int
    BY <1>1, DivMod
  <2>2. ((a % COUNTS) + (-n)) % COUNTS = (a + (-n)) % COUNTS
    BY <1>1, <2>1, ModAdd
  <2>3. (a % COUNTS) + (-n) = (a % COUNTS) - n /\ a + (-n) = a - n
    BY <2>1
  <2> QED
    BY <2>2, <2>3
<1>3. COUNTS \div 2 \in Nat /\ 2 * (COUNTS \div 2) <= COUNTS
      /\ COUNTS <= 2 * (COUNTS \div 2) + 1
  BY <1>1
<1> HIDE DEF d
<1>4. CASE a = n
  <2>1. a - n = COUNTS * 0 + 0 /\ 0 \in 0 .. (COUNTS - 1)
    BY <1>1, <1>4
  <2>2. d = 0
    BY <1>1, <1>2, <2>1, DivModUnique
  <2>3. COUNTS \div 2 > 0
    BY <1>1, <1>3
  <2> QED
    BY <1>3, <1>4, <2>2, <2>3 DEF Nearest, d
<1>5. CASE a # n
  <2>1. a - n = COUNTS * (-1) + (COUNTS + a - n) /\ COUNTS + a - n \in 0 .. (COUNTS - 1)
    BY <1>1, <1>5
  <2>2. d = COUNTS + a - n
    BY <1>1, <1>2, <2>1, DivModUnique
  <2>3. d >= COUNTS \div 2 /\ d \in Int
    BY <1>1, <1>3, <2>2
  <2>4. Nearest(n, a % COUNTS) = n + (d - COUNTS)
    BY <2>3 DEF Nearest, d
  <2> QED
    BY <1>1, <2>2, <2>4
<1> QED
  BY <1>4, <1>5

LEMMA HostTakesKeeps ==
    ASSUME ButtonsInv, HostTakes
    PROVE  ButtonsInv'
<1> DEFINE m == Head(messages)
           T == Len(taken)
           new == Nearest(T, m.ack_count) + Len(m.state) - T
<1>1. /\ messages # <<>> /\ messages' = Tail(messages)
      /\ \/ new <= 0 /\ UNCHANGED <<acks, taken>>
         \/ /\ new > 0
            /\ taken' = taken \o SubSeq(m.state, Len(m.state) - new + 1, Len(m.state))
            /\ acks' = Append(acks, new)
      /\ UNCHANGED <<now, shutdown, task, wake, buttons, stored>>
  BY DEF HostTakes
<1>2. /\ ButtonsTyped /\ Stores /\ Takes /\ TaskSound
      /\ messages \in Seq(Message) /\ acks \in Seq(Nat) /\ taken \in Seq(Report)
      /\ stored \in Seq(Report) /\ T \in Nat /\ Len(stored) \in Nat /\ Acked \in Int
  BY DEF ButtonsInv, ButtonsTyped, Acked
<1>3. /\ m = messages[1] /\ m \in Message /\ m.state \in Seq(Report)
      /\ Len(messages') = Len(messages) - 1 /\ Len(messages) \in Nat
      /\ Len(messages) >= 1 /\ messages' \in Seq(Message)
      /\ \A i \in 1 .. Len(messages') : messages'[i] = messages[i + 1]
      /\ Len(m.state) \in Nat
  <2>1. /\ m = messages[1] /\ m \in Message
        /\ Len(messages') = Len(messages) - 1 /\ Len(messages) \in Nat
        /\ Len(messages) >= 1 /\ messages' \in Seq(Message)
        /\ \A i \in 1 .. Len(messages') : messages'[i] = messages[i + 1]
    BY <1>1, <1>2
  <2> HIDE DEF m
  <2>2. m.state \in Seq(Report)
    BY <2>1 DEF Message
  <2>3. Len(m.state) \in Nat
    BY <2>2
  <2> QED
    BY <2>1, <2>2, <2>3
<1>4. PICK g \in [1 .. Len(messages) -> Nat] :
          MessagesFrom(g, messages, stored, Acked, T)
  BY DEF ButtonsInv, MessagesBuilt
<1> DEFINE a == g[1]
<1>5. /\ a \in Nat /\ BuiltAt(m, a, stored) /\ a <= Acked /\ T <= a + REPORTS
      /\ \A i \in 1 .. Len(messages) : a <= g[i] /\ g[i] \in Nat
  <2>1. 1 \in 1 .. Len(messages)
    BY <1>3
  <2> QED
    BY <1>3, <1>4, <2>1 DEF MessagesFrom
<1> HIDE DEF a, m
<1>6. /\ m.ack_count = a % COUNTS /\ Len(m.state) <= REPORTS
      /\ a + Len(m.state) <= Len(stored)
      /\ \A k \in 1 .. Len(m.state) : m.state[k] = stored[a + k]
  BY <1>5 DEF BuiltAt
<1>7. Acked <= T /\ T <= Len(stored) /\ \A i \in 1 .. T : taken[i] = stored[i]
  BY <1>2 DEF Takes
<1>8. new = a + Len(m.state) - T
  <2>1. a <= T
    BY <1>2, <1>5, <1>7
  <2>2. Nearest(T, a % COUNTS) = a
    BY <1>2, <1>5, <2>1, NearestIs
  <2> QED
    BY <1>6, <2>2
<1> HIDE DEF new, T
<1>9. Acked' = Acked
  BY <1>1 DEF Acked
(* What is the same whether or not something is new.                        *)
<1>10. /\ Unpolled' /\ Stores' /\ TaskSound'
  <2>1. buttons.polled
    BY <1>1 DEF ButtonsInv, Unpolled
  <2> QED
    BY <1>1, <1>2, <1>9, <2>1 DEF Unpolled, Stores, TaskSound
<1>11. ASSUME Len(taken') \in Nat, T <= Len(taken'),
              Len(taken') = T \/ Len(taken') = a + Len(m.state)
       PROVE  MessagesBuilt'
  <2> DEFINE h == [i \in 1 .. (Len(messages) - 1) |-> g[i + 1]]
  <2>1. /\ h \in [1 .. Len(messages') -> Nat]
        /\ \A i \in 1 .. Len(messages') : h[i] = g[i + 1]
    BY <1>3
  <2> HIDE DEF h
  <2>2. ASSUME NEW i \in 1 .. Len(messages')
        PROVE  /\ BuiltAt(messages'[i], h[i], stored')
               /\ h[i] <= Acked' /\ Len(taken') <= h[i] + REPORTS
    <3>1. i + 1 \in 1 .. Len(messages)
      BY <1>3
    <3>2. /\ BuiltAt(messages[i + 1], g[i + 1], stored) /\ g[i + 1] <= Acked
          /\ T <= g[i + 1] + REPORTS /\ a <= g[i + 1] /\ g[i + 1] \in Nat
      BY <1>4, <1>5, <3>1 DEF MessagesFrom, T
    <3>3. BuiltAt(messages'[i], h[i], stored') /\ h[i] = g[i + 1]
      BY <1>1, <1>3, <2>1, <3>2
    <3>4. Len(taken') <= h[i] + REPORTS
      <4>1. Len(m.state) \in Nat /\ REPORTS \in Nat
        BY <1>3, ButtonsNumbers
      <4> DEFINE k == g[i + 1]
                 l == Len(m.state)
                 t == Len(taken')
      <4>2. /\ l <= REPORTS /\ a <= k /\ T <= k + REPORTS /\ h[i] = k
            /\ t = T \/ t = a + l
            /\ a \in Nat /\ k \in Nat /\ l \in Nat /\ REPORTS \in Nat
        BY <1>5, <1>6, <1>11, <3>2, <3>3, <4>1
      <4> HIDE DEF k, l, t
      <4>3. t <= k + REPORTS
        BY ONLY <4>2
      <4> QED
        BY <4>2, <4>3 DEF t
    <3> QED
      BY <1>9, <3>2, <3>3, <3>4
  <2>3. ASSUME NEW i \in 1 .. Len(messages'), NEW j \in 1 .. Len(messages'), i <= j
        PROVE  h[i] <= h[j]
    <3>1. i + 1 \in 1 .. Len(messages) /\ j + 1 \in 1 .. Len(messages) /\ i + 1 <= j + 1
      BY <1>3, <2>3
    <3>2. g[i + 1] <= g[j + 1]
      BY <1>4, <3>1 DEF MessagesFrom
    <3> QED
      BY <2>1, <3>2
  <2>4. MessagesFrom(h, messages', stored', Acked', Len(taken'))
    BY <2>2, <2>3 DEF MessagesFrom
  <2> QED
    BY <2>1, <2>4 DEF MessagesBuilt
<1>12. CASE new <= 0 /\ UNCHANGED <<acks, taken>>
  <2>1. ButtonsTyped'
    BY <1>1, <1>2, <1>3, <1>12 DEF ButtonsTyped
  <2>2. Takes'
    BY <1>1, <1>2, <1>9, <1>12 DEF Takes
  <2>3. AcksSum'
    BY <1>9, <1>12, AcksKept DEF ButtonsInv
  <2>4. MessagesBuilt'
    BY <1>2, <1>11, <1>12 DEF T
  <2> QED
    BY <1>10, <2>1, <2>2, <2>3, <2>4 DEF ButtonsInv
<1>13. CASE /\ new > 0
            /\ taken' = taken \o SubSeq(m.state, Len(m.state) - new + 1, Len(m.state))
            /\ acks' = Append(acks, new)
  <2> DEFINE L == Len(m.state)
             s == SubSeq(m.state, L - new + 1, L)
  <2>1. /\ L \in Nat /\ new \in Nat /\ new > 0 /\ new <= L /\ new = a + L - T /\ T \in Nat
        /\ L - new = T - a /\ a <= T
    <3>1. /\ L \in Nat /\ T \in Nat /\ a \in Nat /\ T >= Acked /\ Acked \in Int
          /\ a <= Acked /\ new > 0 /\ new = a + L - T
      BY <1>2, <1>3, <1>5, <1>7, <1>8, <1>13 DEF T
    <3> HIDE DEF L
    <3> QED
      BY ONLY <3>1
  <2> HIDE DEF L
  <2>2. /\ s \in Seq(Report) /\ Len(s) = new
        /\ \A k \in 1 .. new : s[k] = m.state[(L - new) + k]
    <3> DEFINE st == m.state
    <3> HIDE DEF st
    <3>1. st \in Seq(Report) /\ L = Len(st)
      BY <1>3 DEF st, L
    <3> DEFINE i == L - new + 1
               q == SubSeq(st, i, L)
    <3>2. i \in 1 .. (Len(st) + 1) /\ L \in (i - 1) .. Len(st) /\ L - i + 1 = new
      BY <2>1, <3>1
    <3>3. \A k \in 1 .. new : i + k - 1 = (L - new) + k
      BY <2>1
    <3> HIDE DEF i
    <3>4. /\ q \in Seq(Report) /\ Len(q) = L - i + 1
          /\ \A k \in 1 .. (L - i + 1) : q[k] = st[i + k - 1]
      BY <3>1, <3>2, SubSeqProperties
    <3>5. \A k \in 1 .. new : q[k] = st[(L - new) + k]
      BY <3>2, <3>3, <3>4
    <3>6. s = q
      BY DEF i, st
    <3> QED
      BY <3>2, <3>4, <3>5, <3>6 DEF st
  <2>3. taken' = taken \o s
    BY <1>13 DEF L
  <2> HIDE DEF s
  <2>4. /\ taken' \in Seq(Report) /\ Len(taken') = T + new
        /\ \A i \in 1 .. T : taken'[i] = taken[i]
        /\ \A k \in 1 .. new : taken'[T + k] = s[k]
    <3>1. s \in Seq(Report) /\ taken \in Seq(Report) /\ new \in Nat /\ Len(s) = new
      BY <1>2, <2>1, <2>2
    <3>2. /\ taken \o s \in Seq(Report) /\ Len(taken \o s) = Len(taken) + Len(s)
          /\ \A i \in 1 .. Len(taken) : (taken \o s)[i] = taken[i]
          /\ \A k \in 1 .. Len(s) : (taken \o s)[Len(taken) + k] = s[k]
      BY ONLY <3>1
    <3> QED
      BY <2>3, <3>1, <3>2 DEF T
  <2>5. Len(taken') = a + Len(m.state) /\ Len(taken') \in Nat /\ T <= Len(taken')
    BY <1>2, <1>3, <1>5, <2>1, <2>4 DEF L
  <2>6. ButtonsTyped'
    <3>1. acks' \in Seq(Nat)
      BY <1>2, <1>13, <2>1
    <3> QED
      BY <1>1, <1>2, <1>3, <2>4, <3>1 DEF ButtonsTyped
  <2>7. Takes'
    <3>1. ASSUME NEW i \in 1 .. Len(taken') PROVE taken'[i] = stored[i]
      <4>1. CASE i \in 1 .. T
        BY <1>7, <2>4, <4>1
      <4>2. CASE i \notin 1 .. T
        <5>1. i - T \in 1 .. new /\ T + (i - T) = i
          BY <2>1, <2>4, <4>2
        <5>2. taken'[i] = m.state[(L - new) + (i - T)]
          BY <2>2, <2>4, <5>1
        <5>3. (L - new) + (i - T) \in 1 .. L /\ a + ((L - new) + (i - T)) = i
          BY <1>5, <2>1, <5>1
        <5> QED
          BY <1>6, <5>2, <5>3 DEF L
      <4> QED
        BY <4>1, <4>2
    <3>2. Acked' <= Len(taken') /\ Len(taken') <= Len(stored')
      BY <1>1, <1>2, <1>6, <1>7, <1>9, <2>1, <2>5
    <3> QED
      BY <1>1, <3>1, <3>2 DEF Takes
  <2>8. AcksSum'
    <3>1. PICK f \in [0 .. Len(acks) -> Nat] : AcksLead(f)
      BY DEF ButtonsInv, AcksSum
    <3> DEFINE k == Len(acks)
               h == [i \in 0 .. (k + 1) |-> IF i = k + 1 THEN T + new ELSE f[i]]
    <3>2. /\ k \in Nat /\ Len(acks') = k + 1 /\ acks'[k + 1] = new
          /\ \A i \in 1 .. k : acks'[i] = acks[i]
      <4>1. acks \in Seq(Nat) /\ new \in Nat /\ acks' = Append(acks, new)
        BY <1>2, <1>13, <2>1
      <4> QED
        BY ONLY <4>1 DEF k
    <3> HIDE DEF k
    <3>3. /\ h \in [0 .. Len(acks') -> Nat] /\ h[k + 1] = T + new
          /\ \A i \in 0 .. k : h[i] = f[i] /\ f[i] \in Nat
      <4> DEFINE e == T + new
      <4>1. e \in Nat /\ f \in [0 .. k -> Nat] /\ k \in Nat
        BY <2>1, <3>2 DEF k
      <4> HIDE DEF e
      <4>2. \A i \in 0 .. (k + 1) : h[i] = IF i = k + 1 THEN e ELSE f[i]
        BY DEF e
      <4>3. \A i \in 0 .. k : h[i] = f[i] /\ f[i] \in Nat
        BY <4>1, <4>2
      <4>4. \A i \in 0 .. (k + 1) : h[i] \in Nat
        BY <4>1, <4>2
      <4>5. h = [i \in 0 .. (k + 1) |-> h[i]] /\ h[k + 1] = e
        BY <4>1, <4>2
      <4> QED
        BY <3>2, <4>3, <4>4, <4>5 DEF e
    <3>4. /\ f[0] = Acked /\ f[k] = T
          /\ \A i \in 1 .. k : f[i] = f[i - 1] + acks[i]
          /\ \A i \in 0 .. k : f[i] <= T
      BY <3>1 DEF AcksLead, T, k
    <3> HIDE DEF h, k
    <3>5. h[0] = Acked' /\ h[Len(acks')] = Len(taken')
      BY <1>9, <2>4, <3>2, <3>3, <3>4
    <3>6. ASSUME NEW i \in 1 .. Len(acks')
          PROVE  h[i] = h[i - 1] + acks'[i]
      <4>1. CASE i = k + 1
        <5>1. i - 1 = k /\ k \in 0 .. k /\ acks'[i] = new
          BY <3>2, <4>1
        <5>2. h[i - 1] = T /\ h[i] = T + new
          BY <3>3, <3>4, <4>1, <5>1
        <5> QED
          BY <5>1, <5>2
      <4>2. CASE i # k + 1
        <5>1. i \in 1 .. k /\ i \in 0 .. k /\ i - 1 \in 0 .. k
          BY <3>2, <4>2
        <5> QED
          BY <3>2, <3>3, <3>4, <5>1
      <4> QED
        BY <4>1, <4>2
    <3>7. ASSUME NEW i \in 0 .. Len(acks')
          PROVE  h[i] <= Len(taken')
      <4>1. CASE i = k + 1
        BY <2>1, <2>4, <3>3, <4>1
      <4>2. CASE i # k + 1
        <5>1. i \in 0 .. k
          BY <3>2, <4>2
        <5>2. h[i] <= T /\ h[i] \in Nat /\ Len(taken') = T + new
          BY <2>4, <3>3, <3>4, <5>1
        <5> QED
          BY <2>1, <5>2
      <4> QED
        BY <4>1, <4>2
    <3> QED
      BY <3>3, <3>5, <3>6, <3>7 DEF AcksSum, AcksLead
  <2>9. MessagesBuilt'
    BY <1>11, <2>5
  <2> QED
    BY <1>10, <2>6, <2>7, <2>8, <2>9 DEF ButtonsInv
<1> QED
  BY <1>1, <1>12, <1>13 DEF new, T, m

LEMMA ButtonsInit0 == BoardInit /\ ButtonsInit => ButtonsInv
<1> SUFFICES ASSUME BoardInit, ButtonsInit PROVE ButtonsInv
  OBVIOUS
<1>1. /\ stored = <<>> /\ taken = <<>> /\ acks = <<>> /\ messages = <<>>
      /\ task = Idle /\ wake = FALSE
      /\ buttons = [polled |-> FALSE, pressed |-> {}, last |-> {}, reports |-> <<>>,
                    ack_count |-> 0, state |-> 0, retransmit |-> 0]
  BY DEF BoardInit, ButtonsInit
<1>2. /\ DOMAIN buttons = Fields /\ buttons.polled = FALSE
      /\ buttons.pressed = {} /\ buttons.last = {} /\ buttons.reports = <<>>
      /\ buttons.ack_count = 0 /\ buttons.state = 0 /\ buttons.retransmit = 0
  BY <1>1 DEF Fields
<1>3. ButtonsTyped
  <2>1. wake \in BOOLEAN /\ buttons.polled \in BOOLEAN
    BY <1>1, <1>2, Zenon
  <2>2. buttons.state \in (0 .. 127) \cup {PENDING, ACKED} /\ buttons.ack_count \in Nat
        /\ buttons.retransmit \in 0 .. 127
    BY <1>2
  <2>3. \A S : <<>> \in Seq(S)
    OBVIOUS
  <2>4. buttons.pressed \in Report /\ buttons.last \in Report
    BY <1>2 DEF Report
  <2> QED
    BY <1>1, <1>2, <2>1, <2>2, <2>3, <2>4, Zenon DEF ButtonsTyped
<1>4. Acked = 0
  BY <1>1, <1>2 DEF Acked
<1>5. Stores
  <2>1. 0 % COUNTS = 0
    <3>1. 0 = COUNTS * 0 + 0 /\ COUNTS \in Nat /\ COUNTS > 0
      BY ButtonsNumbers
    <3> QED
      BY <3>1, DivModUnique
  <2> QED
    BY <1>1, <1>2, <1>4, <2>1, ButtonsNumbers DEF Stores
<1>6. Unpolled /\ Takes /\ TaskSound
  BY <1>1, <1>2, <1>4 DEF Unpolled, Takes, TaskSound, Idle
<1>7. AcksSum
  <2> DEFINE z == [j \in {0} |-> 0]
  <2>1. z \in [0 .. Len(acks) -> Nat] /\ z[0] = 0 /\ Len(acks) = 0 /\ Len(taken) = 0
    BY <1>1
  <2> HIDE DEF z
  <2>2. AcksLead(z)
    BY <1>4, <2>1 DEF AcksLead
  <2> QED
    BY <2>1, <2>2 DEF AcksSum
<1>8. MessagesBuilt
  <2>1. [j \in {} |-> 0] \in [1 .. Len(messages) -> Nat]
    BY <1>1
  <2>2. MessagesFrom([j \in {} |-> 0], messages, stored, Acked, Len(taken))
    BY <1>1 DEF MessagesFrom
  <2> QED
    BY <2>1, <2>2 DEF MessagesBuilt
<1> QED
  BY <1>3, <1>5, <1>6, <1>7, <1>8 DEF ButtonsInv

LEMMA ButtonsInvNext == ButtonsInv /\ [ButtonsNext]_ButtonsAll => ButtonsInv'
<1> SUFFICES ASSUME ButtonsInv, [ButtonsNext]_ButtonsAll PROVE ButtonsInv'
  OBVIOUS
<1>1. CASE UNCHANGED ButtonsAll
  <2>1. UNCHANGED <<task, wake, buttonVars>>
    BY <1>1 DEF ButtonsAll
  <2>2. ButtonsTyped' /\ Unpolled' /\ TaskSound'
    BY <2>1 DEF buttonVars, ButtonsInv, ButtonsTyped, Unpolled, TaskSound
  <2>3. Stores' /\ Takes'
    BY <2>1 DEF buttonVars, ButtonsInv, Stores, Takes, Acked
  <2>4. AcksSum' /\ MessagesBuilt'
    BY <2>1 DEF buttonVars, ButtonsInv, AcksSum, AcksLead, MessagesBuilt, Acked
  <2> QED
    BY <2>2, <2>3, <2>4 DEF ButtonsInv
<1> QED
  BY <1>1, QueryKeeps, EventKeeps, AckKeeps, ButtonsTaskKeeps, ButtonsTestKeeps,
     ButtonsGenerateKeeps, ButtonsSendKeeps, HostTakesKeeps DEF ButtonsNext

(* The host takes each stored report once and in order, for every number of *)
(* buttons and every size of the report buffer, and for every width of      *)
(* ack_count that counts twice the buffer; and a report that the firmware   *)
(* does not know acknowledged is going to be sent.                          *)
THEOREM ReportsReachHost == ButtonsSpec => []ButtonsTold
<1>1. BoardInit /\ ButtonsInit => ButtonsInv
  BY ButtonsInit0
<1>2. ButtonsInv /\ [ButtonsNext]_ButtonsAll => ButtonsInv'
  BY ButtonsInvNext
<1>3. ButtonsInv => ButtonsTold
  <2> SUFFICES ASSUME ButtonsInv PROVE ButtonsTold
    OBVIOUS
  <2>1. /\ taken \in Seq(Report) /\ stored \in Seq(Report) /\ Takes /\ TaskSound
    BY DEF ButtonsInv, ButtonsTyped
  <2>2. /\ Len(taken) <= Len(stored)
        /\ \A i \in 1 .. Len(taken) : taken[i] = stored[i]
    BY <2>1 DEF Takes
  <2>3. taken = SubSeq(stored, 1, Len(taken))
    <3>1. /\ SubSeq(stored, 1, Len(taken)) \in Seq(Report)
          /\ Len(SubSeq(stored, 1, Len(taken))) = Len(taken)
          /\ \A i \in 1 .. Len(taken) :
                SubSeq(stored, 1, Len(taken))[i] = stored[i]
      BY <2>1, <2>2
    <3> QED
      BY <2>1, <2>2, <3>1, SeqEqual
  <2> QED
    BY <2>1, <2>2, <2>3 DEF TaskSound, ButtonsTold
<1> QED
  BY <1>1, <1>2, <1>3, PTL DEF ButtonsSpec

-------------------------------------------------------------------------------
(***************************************************************************)
(* The configuration.  What was given out lies below alloc_end, and what is *)
(* given out next lies from there on; the time of the last stats is kept in *)
(* two words, and is never a turn of the clock ago.                        *)
(***************************************************************************)
Entry == [type : OidType \cup {Nil}, data : Nat \cup {Nil}, whole : BOOLEAN]
MemoryFields == {"alloc_end", "oids", "move_list"}
ConfigTyped ==
    /\ DOMAIN memory = MemoryFields /\ memory.alloc_end \in 0 .. MemorySize
    /\ memory.oids \in Nat \cup {Nil} /\ memory.move_list \in Nat \cup {Nil}
    /\ oids \in Seq(Entry)
    /\ \A i \in 1 .. Len(oids) : oids[i].data # Nil => oids[i].type \in OidType
    /\ \A i \in 1 .. Len(oids) : oids[i].whole => oids[i].type \in OidType
    /\ DOMAIN moves = {"count", "item_size"}
    /\ moves.count \in Nat /\ moves.item_size \in Nat
    /\ now \in Nat

(* There are ids only in a table, and moves only in a list; the moves hold  *)
(* those of every whole object before they are made, too.                   *)
Tables ==
    /\ memory.oids = Nil => oids = <<>>
    /\ moves.count = 0 => memory.move_list = Nil
    /\ \A i \in 1 .. Len(oids) :
           oids[i].whole => MoveSize[oids[i].type] <= moves.item_size

(* The areas A were given out up to e.                                      *)
Apart(A, e) ==
    /\ \A a \in A : /\ a.from \in Nat /\ a.to \in Nat
                    /\ a.from <= a.to /\ a.to <= e
    /\ \A a, b \in A : a = b \/ a.to <= b.from \/ b.to <= a.from
Placed ==
    /\ Apart(Areas, memory.alloc_end)
    /\ \A i, j \in Objects : i = j \/ oids[i].data # oids[j].data

(* The time at which stats were sent last, in full.                         *)
SentAt == TURN * stats.high + stats.send_time
StatsKept ==
    /\ DOMAIN stats = {"send_time", "high", "called"}
    /\ stats.high \in Nat /\ stats.send_time \in 0 .. (TURN - 1)
    /\ stats.called \in Nat /\ stats.called <= now
    /\ now <= stats.called + StatsLate
    /\ SentAt <= stats.called /\ stats.called < SentAt + StatsTicks

ConfigInv == ConfigTyped /\ Tables /\ Placed /\ StatsKept

(* Apart when something is given out from e to f.                           *)
LEMMA Placing ==
    ASSUME NEW A, NEW B, NEW e \in Nat, NEW f \in Nat, e <= f, Apart(A, e),
           B \subseteq A \cup {[from |-> e, to |-> f]}
    PROVE  Apart(B, f)
<1> DEFINE n == [from |-> e, to |-> f]
<1>1. n.from = e /\ n.to = f
  OBVIOUS
<1> HIDE DEF n
<1>2. \A a \in B : a \in A \/ a = n
  BY DEF n
<1>3. \A a \in A : a.from \in Nat /\ a.to \in Nat /\ a.from <= a.to /\ a.to <= e
  BY DEF Apart
<1>4. \A a \in B : a.from \in Nat /\ a.to \in Nat /\ a.from <= a.to /\ a.to <= f
  BY <1>1, <1>2, <1>3
<1>5. ASSUME NEW a \in B, NEW b \in B
      PROVE  a = b \/ a.to <= b.from \/ b.to <= a.from
  <2>1. CASE a \in A /\ b \in A
    BY <2>1 DEF Apart
  <2>2. CASE a \in A /\ b = n
    BY <2>2, <1>1, <1>3
  <2>3. CASE a = n /\ b \in A
    BY <2>3, <1>1, <1>3
  <2> QED
    BY <2>1, <2>2, <2>3, <1>2
<1> QED
  BY <1>4, <1>5 DEF Apart

LEMMA MaxOfTwo ==
    ASSUME NEW a \in Int, NEW b \in Int
    PROVE  Max({a, b}) \in {a, b} /\ Max({a, b}) >= a /\ Max({a, b}) >= b
<1>1. \E x \in {a, b} : \A y \in {a, b} : x >= y
  <2>1. CASE a >= b
    BY <2>1
  <2>2. CASE b >= a
    BY <2>2
  <2> QED
    BY <2>1, <2>2
<1> QED
  BY <1>1 DEF Max

LEMMA MinOfTwo ==
    ASSUME NEW a \in Int, NEW b \in Int
    PROVE  Min({a, b}) \in {a, b} /\ Min({a, b}) <= a /\ Min({a, b}) <= b
<1>1. \E x \in {a, b} : \A y \in {a, b} : x <= y
  <2>1. CASE a <= b
    BY <2>1
  <2>2. CASE b <= a
    BY <2>2
  <2> QED
    BY <2>1, <2>2
<1> QED
  BY <1>1 DEF Min

(* As many as fit, fit.                                                     *)
LEMMA Fit ==
    ASSUME NEW room \in Nat, NEW size \in Nat, size > 0, NEW n \in Nat,
           n <= room \div size
    PROVE  n * size <= room
<1> DEFINE d == room \div size
           r == room % size
<1>1. room = size * d + r /\ d \in Int /\ r \in 0 .. (size - 1)
  BY DivMod
<1> HIDE DEF d, r
<1>2. n <= d
  BY DEF d
<1>3. size * (d - n) >= 0
  BY <1>1, <1>2, SMTT(30)
<1>4. size * (d - n) = size * d - size * n
  BY <1>1, Distributes
<1>5. size * n \in Int /\ size * d \in Int
  BY <1>1
<1>6. size * n <= room
  BY <1>1, <1>3, <1>4, <1>5
<1> QED
  BY <1>6

LEMMA QuotientNat ==
    ASSUME NEW room \in Nat, NEW size \in Nat, size > 0
    PROVE  room \div size \in Nat
<1> DEFINE d == room \div size
           r == room % size
<1>1. room = size * d + r /\ d \in Int /\ r \in 0 .. (size - 1)
  BY DivMod
<1> HIDE DEF d, r
<1>2. CASE d <= -1
  <2>1. size * d <= -size
    BY <1>1, <1>2, SMTT(30)
  <2>2. size * d \in Int
    BY <1>1
  <2> QED
    BY <1>1, <2>1, <2>2
<1> QED
  BY <1>1, <1>2 DEF d

-------------------------------------------------------------------------------
LEMMA ConfigFacts ==
    /\ Nil \notin Int /\ MemorySize \in Nat /\ MaxMoves \in Nat \ {0}
    /\ \A t \in OidType : ObjectSize[t] \in Nat \ {0} /\ MoveSize[t] \in Nat
    /\ \A n \in OidCounts : n \in Nat
    /\ TURN \in Nat /\ StatsTicks \in Nat \ {0} /\ StatsLate \in Nat \ {0}
    /\ StatsTicks + StatsLate < TURN
BY ConfigAssumption, BoardAssumption DEF Nil

LEMMA ConfigStarts ==
    ASSUME ConfigInit, now = 0
    PROVE  ConfigInv
<1> USE DEF ConfigInit
<1>1. ConfigTyped
  BY ConfigFacts DEF ConfigTyped, NoMemory, NoMoves, MemoryFields
<1>2. Tables
  BY DEF Tables, NoMemory, NoMoves
<1>3. Objects = {}
  BY DEF Objects
<1>4. Areas = {}
  BY <1>3 DEF Areas, NoMemory
<1>5. Placed
  BY <1>3, <1>4 DEF Placed, Apart
<1>6. StatsKept
  BY ConfigFacts DEF StatsKept, SentAt, NoStats
<1> QED
  BY <1>1, <1>2, <1>5, <1>6 DEF ConfigInv

LEMMA AllocateOidsPreserves ==
    ASSUME ConfigTyped, Tables, Placed, NEW count \in Nat,
           AllocateOids(count), now' = now
    PROVE  ConfigTyped' /\ Tables' /\ Placed'
<1> USE ConfigFacts
<1>1. CASE Rejected
  BY <1>1 DEF Rejected, configVars, ConfigTyped, Tables, Placed, Apart, Areas, Objects
<1>2. CASE ~Rejected
  <2> DEFINE e == memory.alloc_end
             f == e + count * OID_SIZE
             n == [from |-> e, to |-> f]
  <2>1. /\ memory.oids = Nil /\ f <= MemorySize
        /\ memory' = [memory EXCEPT !.oids = e, !.alloc_end = e + count * OID_SIZE]
        /\ oids' = [i \in 1 .. count |-> Blank]
        /\ UNCHANGED <<moves, stats>>
    BY <1>2 DEF AllocateOids, HasRoom
  <2>2. e \in Nat /\ f \in Nat /\ e <= f
    <3>1. e \in Nat
      BY DEF ConfigTyped
    <3>2. count * OID_SIZE \in Nat
      BY DEF OID_SIZE
    <3> QED
      BY <3>1, <3>2
  <2>3. /\ DOMAIN memory' = MemoryFields /\ memory'.alloc_end = f
        /\ memory'.oids = e /\ memory'.move_list = memory.move_list
    BY <2>1 DEF ConfigTyped, MemoryFields
  <2>4. /\ oids' \in Seq(Entry) /\ Len(oids') = count
        /\ \A i \in 1 .. count : oids'[i].data = Nil /\ ~oids'[i].whole
    <3>1. Blank \in Entry /\ Blank.data = Nil /\ ~Blank.whole
      BY DEF Blank, Entry
    <3> HIDE DEF Blank
    <3>2. oids' \in Seq(Entry) /\ Len(oids') = count
      BY <2>1, <3>1, SMTT(20)
    <3> QED
      BY <2>1, <3>1, <3>2
  <2>5. ConfigTyped'
    BY <2>1, <2>2, <2>3, <2>4, SMTT(20) DEF ConfigTyped
  <2>6. Tables'
    BY <2>1, <2>2, <2>3, <2>4 DEF Tables
  <2>7. Objects' = {}
    BY <2>4 DEF Objects
  <2>8. Areas' \subseteq Areas \cup {n}
    <3>1. Areas' = {Area(e, OID_SIZE * count)}
            \cup (IF memory.move_list = Nil THEN {}
                  ELSE {Area(memory.move_list, moves.count * moves.item_size)})
      BY <2>1, <2>2, <2>3, <2>4, <2>7 DEF Areas
    <3>2. Area(e, OID_SIZE * count) = n
      BY <2>2 DEF Area, OID_SIZE
    <3> QED
      BY <3>1, <3>2 DEF Areas
  <2>9. Apart(Areas', f)
    BY <2>2, <2>8, Placing DEF Placed
  <2> QED
    BY <2>3, <2>5, <2>6, <2>7, <2>9 DEF Placed, Apart
<1> QED
  BY <1>1, <1>2

LEMMA ConfigObjectPreserves ==
    ASSUME ConfigTyped, Tables, Placed, NEW oid \in Nat \ {0}, NEW type \in OidType,
           ConfigObject(oid, type), now' = now
    PROVE  ConfigTyped' /\ Tables' /\ Placed'
<1> USE ConfigFacts
<1> DEFINE e == memory.alloc_end
           s == ObjectSize[type]
           n == [from |-> e, to |-> e + s]
<1>1. CASE Rejected
  BY <1>1 DEF Rejected, configVars, ConfigTyped, Tables, Placed, Apart, Areas, Objects
<1>2. ASSUME Assignable(oid), NEW room \in BOOLEAN, NEW whole \in BOOLEAN,
             room = HasRoom(s), whole => room,
             NoteOid(oid, type, IF room THEN e ELSE Nil, whole),
             memory' = IF room THEN [memory EXCEPT !.alloc_end = @ + s] ELSE memory,
             moves' = IF whole
                      THEN [moves EXCEPT !.item_size = Max({@, MoveSize[type]})] ELSE moves
      PROVE  ConfigTyped' /\ Tables' /\ Placed'
  <2>1. /\ oid <= Len(oids) /\ moves.count <= 0
        /\ oids' = [oids EXCEPT ![oid] =
                [type |-> type, data |-> IF room THEN e ELSE Nil, whole |-> whole]]
    BY <1>2 DEF Assignable, NoteOid, is_finalized, ConfigTyped
  <2>2. e \in Nat /\ s \in Nat \ {0} /\ e + s \in Nat /\ e <= e + s
    BY DEF ConfigTyped
  <2>3. /\ oid \in 1 .. Len(oids) /\ oids # <<>> /\ memory.oids # Nil
        /\ moves.count = 0 /\ memory.move_list = Nil
    BY <2>1 DEF Tables, ConfigTyped
  <2>4. /\ Len(oids') = Len(oids) /\ DOMAIN oids' = 1 .. Len(oids)
        /\ DOMAIN oids = 1 .. Len(oids)
        /\ \A i \in 1 .. Len(oids) : i # oid => oids'[i] = oids[i]
        /\ oids'[oid].type = type
        /\ oids'[oid].data = (IF room THEN e ELSE Nil) /\ oids'[oid].whole = whole
    BY <2>1, <2>3 DEF ConfigTyped
  <2>5. oids' \in Seq(Entry)
    <3> DEFINE b == [type |-> type, data |-> IF room THEN e ELSE Nil, whole |-> whole]
    <3>1. b \in Entry
      BY <2>2 DEF Entry
    <3>2. oids' = [oids EXCEPT ![oid] = b]
      BY <2>1
    <3> HIDE DEF b
    <3> QED
      BY <2>3, <3>1, <3>2 DEF ConfigTyped
  <2>6. \A i \in 1 .. Len(oids') : /\ oids'[i].data # Nil => oids'[i].type \in OidType
                                   /\ oids'[i].whole => oids'[i].type \in OidType
    BY <2>3, <2>4 DEF ConfigTyped
  <2>7. /\ DOMAIN moves' = {"count", "item_size"} /\ moves'.count = 0
        /\ moves'.item_size \in Nat /\ moves'.item_size >= moves.item_size
        /\ whole => moves'.item_size >= MoveSize[type]
    <3> DEFINE a == moves.item_size
               b == MoveSize[type]
    <3>1. a \in Nat /\ b \in Nat /\ DOMAIN moves = {"count", "item_size"}
      BY DEF ConfigTyped
    <3>2. /\ DOMAIN moves' = {"count", "item_size"} /\ moves'.count = 0
          /\ moves'.item_size = IF whole THEN Max({a, b}) ELSE a
      BY <1>2, <2>3, <3>1
    <3> HIDE DEF a, b
    <3>3. Max({a, b}) \in {a, b} /\ Max({a, b}) >= a /\ Max({a, b}) >= b
      <4>1. a \in Int /\ b \in Int
        BY <3>1
      <4> QED
        BY <4>1, MaxOfTwo
    <3>4. /\ moves'.item_size \in Nat /\ moves'.item_size >= a
          /\ whole => moves'.item_size >= b
      BY <3>1, <3>2, <3>3
    <3> QED
      BY <3>2, <3>4 DEF a, b
  <2>8. Tables'
    <3>1. ASSUME NEW i \in 1 .. Len(oids'), oids'[i].whole
          PROVE  MoveSize[oids'[i].type] <= moves'.item_size
      <4>1. CASE i = oid
        BY <2>4, <2>7, <3>1, <4>1
      <4>2. CASE i # oid
        <5>1. /\ i \in 1 .. Len(oids) /\ oids'[i] = oids[i] /\ oids[i].whole
              /\ oids[i].type \in OidType /\ moves.item_size \in Nat
          BY <2>4, <3>1, <4>2 DEF ConfigTyped
        <5>2. MoveSize[oids[i].type] \in Nat /\ MoveSize[oids[i].type] <= moves.item_size
          BY <5>1 DEF Tables
        <5> QED
          BY <2>7, <5>1, <5>2
      <4> QED
        BY <4>1, <4>2
    <3>2. memory'.oids = memory.oids /\ memory'.move_list = memory.move_list
      BY <1>2 DEF ConfigTyped, MemoryFields
    <3> QED
      BY <2>3, <3>1, <3>2 DEF Tables
  <2>9. CASE ~room
    <3>1. UNCHANGED memory
      BY <1>2, <2>9
    <3>2. ConfigTyped'
      BY <2>5, <2>6, <2>7, <3>1 DEF ConfigTyped
    <3>3. Objects' \subseteq Objects
      BY <2>4, <2>9 DEF Objects
    <3>4. \A i \in Objects' : oids'[i] = oids[i]
      BY <2>4, <2>9 DEF Objects
    <3>5. Areas' \subseteq Areas
      BY <2>3, <2>4, <3>1, <3>3, <3>4 DEF Areas
    <3> QED
      BY <2>8, <3>1, <3>2, <3>3, <3>4, <3>5 DEF Placed, Apart
  <2>10. CASE room
    <3>1. /\ DOMAIN memory' = MemoryFields /\ memory'.alloc_end = e + s
          /\ memory'.oids = memory.oids /\ memory'.move_list = memory.move_list
      BY <1>2, <2>10 DEF ConfigTyped, MemoryFields
    <3>2. e + s <= MemorySize
      BY <1>2, <2>10 DEF HasRoom
    <3>3. ConfigTyped'
      <4>1. memory'.alloc_end \in 0 .. MemorySize
        BY <2>2, <3>1, <3>2
      <4>2. memory'.oids \in Nat \cup {Nil} /\ memory'.move_list \in Nat \cup {Nil}
        BY <3>1 DEF ConfigTyped
      <4>3. now' \in Nat
        BY DEF ConfigTyped
      <4> QED
        BY <2>5, <2>6, <2>7, <3>1, <4>1, <4>2, <4>3 DEF ConfigTyped
    <3>4. Objects' \subseteq Objects \cup {oid}
      BY <2>4 DEF Objects
    <3>5. Areas' \subseteq Areas \cup {n}
      <4>1. ASSUME NEW i \in Objects'
            PROVE  Area(oids'[i].data, ObjectSize[oids'[i].type]) \in Areas \cup {n}
        <5>1. CASE i = oid
          BY <2>4, <2>10, <5>1 DEF Area
        <5>2. CASE i # oid
          <6>1. i \in Objects /\ oids'[i] = oids[i]
            BY <2>4, <3>4, <5>2 DEF Objects
          <6> QED
            BY <6>1 DEF Areas
        <5> QED
          BY <5>1, <5>2
      <4>2. Areas' = {Area(oids'[i].data, ObjectSize[oids'[i].type]) : i \in Objects'}
                        \cup {Area(memory.oids, OID_SIZE * Len(oids))}
        BY <2>3, <2>4, <2>7, <3>1 DEF Areas
      <4>3. Area(memory.oids, OID_SIZE * Len(oids)) \in Areas
        BY <2>3 DEF Areas
      <4> HIDE DEF n
      <4> QED
        BY <4>1, <4>2, <4>3
    <3>6. Apart(Areas', e + s)
      BY <2>2, <3>5, Placing DEF Placed
    <3>7. \A i \in Objects : oids[i].data \in Nat /\ oids[i].data < e
      <4> TAKE i \in Objects
      <4>1. /\ i \in 1 .. Len(oids) /\ oids[i].data # Nil /\ oids[i].type \in OidType
            /\ oids[i] \in Entry
        BY DEF Objects, ConfigTyped
      <4>2. oids[i].data \in Nat /\ ObjectSize[oids[i].type] \in Nat \ {0}
        BY <4>1 DEF Entry
      <4> DEFINE a == Area(oids[i].data, ObjectSize[oids[i].type])
      <4>3. a \in Areas
        BY DEF Areas
      <4>4. a.to <= e
        BY <4>3 DEF Placed, Apart
      <4>5. a.to = oids[i].data + ObjectSize[oids[i].type]
        BY DEF Area
      <4> QED
        BY <2>2, <4>2, <4>4, <4>5
    <3>8. ASSUME NEW i \in Objects', NEW j \in Objects', i # j
           PROVE  oids'[i].data # oids'[j].data
      <4>1. i \in 1 .. Len(oids) /\ j \in 1 .. Len(oids)
        BY <2>4 DEF Objects
      <4>2. CASE i = oid
        BY <2>2, <2>4, <2>10, <3>4, <3>7, <3>8, <4>1, <4>2
      <4>3. CASE j = oid
        BY <2>2, <2>4, <2>10, <3>4, <3>7, <3>8, <4>1, <4>3
      <4>4. CASE i # oid /\ j # oid
        BY <2>4, <3>4, <3>8, <4>1, <4>4 DEF Placed
      <4> QED
        BY <4>2, <4>3, <4>4
    <3> QED
      BY <2>8, <3>1, <3>3, <3>6, <3>8 DEF Placed
  <2> QED
    BY <2>9, <2>10
<1>3. ASSUME Assignable(oid), ~HasRoom(s), NoteOid(oid, type, Nil, FALSE),
             UNCHANGED <<memory, moves>>
      PROVE  ConfigTyped' /\ Tables' /\ Placed'
  <2> DEFINE room == FALSE
  <2> HIDE DEF room
  <2>1. room = HasRoom(s) /\ ~room /\ room \in BOOLEAN
    BY <1>3 DEF room, HasRoom
  <2> QED
    BY <1>2, <1>3, <2>1
<1>4. ASSUME Assignable(oid), HasRoom(s), memory' = [memory EXCEPT !.alloc_end = @ + s],
             NEW whole \in BOOLEAN, NoteOid(oid, type, e, whole),
             moves' = IF whole
                      THEN [moves EXCEPT !.item_size = Max({@, MoveSize[type]})] ELSE moves
      PROVE  ConfigTyped' /\ Tables' /\ Placed'
  <2> DEFINE room == TRUE
  <2> HIDE DEF room
  <2>1. room = HasRoom(s) /\ room /\ room \in BOOLEAN
    BY <1>4 DEF room, HasRoom
  <2> QED
    BY <1>2, <1>4, <2>1
<1> QED
  BY <1>1, <1>3, <1>4 DEF ConfigObject

LEMMA FinalizePreserves ==
    ASSUME ConfigTyped, Tables, Placed, FinalizeConfig, now' = now
    PROVE  ConfigTyped' /\ Tables' /\ Placed'
<1> USE ConfigFacts
<1> DEFINE e == memory.alloc_end
           size == Max({moves.item_size, 1})
           count == Min({MaxMoves, (MemorySize - e) \div size})
           f == e + count * size
           n == [from |-> e, to |-> f]
<1>1. CASE Rejected
  BY <1>1 DEF Rejected, configVars, ConfigTyped, Tables, Placed, Apart, Areas, Objects
<1>2. CASE ~Rejected
  <2>1. /\ ~is_finalized(moves) /\ count # 0
        /\ moves' = [count |-> count, item_size |-> size]
        /\ memory' = [memory EXCEPT !.move_list = e, !.alloc_end = e + count * size]
        /\ UNCHANGED oids
    BY <1>2 DEF FinalizeConfig
  <2>2. /\ size \in Nat /\ size >= moves.item_size /\ size >= 1
        /\ moves.item_size \in Nat
    <3> DEFINE a == moves.item_size
    <3>1. a \in Nat
      BY DEF ConfigTyped
    <3> HIDE DEF a
    <3>2. a \in Int /\ 1 \in Int
      BY <3>1
    <3>3. Max({a, 1}) \in {a, 1} /\ Max({a, 1}) >= a /\ Max({a, 1}) >= 1
      BY <3>2, MaxOfTwo
    <3>4. size = Max({a, 1})
      BY DEF a
    <3>5. size \in Nat /\ size >= a /\ size >= 1
      BY <3>1, <3>3, <3>4
    <3> QED
      BY <3>1, <3>5 DEF a
  <2>3. MemorySize - e \in Nat /\ e \in Nat
    BY DEF ConfigTyped
  <2> HIDE DEF size
  <2>4. (MemorySize - e) \div size \in Nat
    BY <2>2, <2>3, QuotientNat
  <2>5. count \in Nat /\ count <= (MemorySize - e) \div size
    <3> DEFINE d == (MemorySize - e) \div size
    <3>1. d \in Nat
      BY <2>4
    <3> HIDE DEF d
    <3>2. d \in Int /\ MaxMoves \in Int
      BY <3>1
    <3>3. Min({MaxMoves, d}) \in {MaxMoves, d} /\ Min({MaxMoves, d}) <= d
      BY <3>2, MinOfTwo
    <3>4. count = Min({MaxMoves, d})
      BY DEF d
    <3>5. count \in Nat /\ count <= d
      BY <3>1, <3>3, <3>4
    <3> QED
      BY <3>5 DEF d
  <2> HIDE DEF count
  <2>6. count * size <= MemorySize - e
    BY <2>2, <2>3, <2>5, Fit
  <2>7. count * size \in Nat
    BY <2>2, <2>5
  <2>8. f \in Nat /\ e <= f /\ f <= MemorySize
    BY <2>3, <2>6, <2>7
  <2>9. moves.count = 0 /\ memory.move_list = Nil
    BY <2>1 DEF is_finalized, ConfigTyped, Tables
  <2>10. /\ DOMAIN memory' = MemoryFields /\ memory'.alloc_end = f
         /\ memory'.oids = memory.oids /\ memory'.move_list = e
    BY <2>1 DEF ConfigTyped, MemoryFields
  <2>11. /\ DOMAIN moves' = {"count", "item_size"} /\ moves'.count = count
         /\ moves'.item_size = size
    BY <2>1
  <2>12. ConfigTyped'
    BY <2>1, <2>2, <2>3, <2>5, <2>8, <2>10, <2>11 DEF ConfigTyped
  <2>13. Tables'
    <3>1. \A i \in 1 .. Len(oids) : oids[i].whole =>
              MoveSize[oids[i].type] \in Nat /\ MoveSize[oids[i].type] <= moves.item_size
      BY DEF Tables, ConfigTyped
    <3>2. \A i \in 1 .. Len(oids) : oids[i].whole => MoveSize[oids[i].type] <= moves'.item_size
      BY <2>2, <2>11, <3>1
    <3>3. memory'.oids = Nil => oids' = <<>>
      BY <2>1, <2>10 DEF Tables
    <3> QED
      BY <2>1, <2>11, <3>2, <3>3 DEF Tables
  <2>14. Objects' = Objects
    BY <2>1 DEF Objects
  <2>15. Areas' \subseteq Areas \cup {n}
    <3> DEFINE X == {Area(oids[i].data, ObjectSize[oids[i].type]) : i \in Objects}
               Y == IF memory.oids = Nil THEN {}
                    ELSE {Area(memory.oids, OID_SIZE * Len(oids))}
    <3>1. X' = X
      BY <2>1, <2>14
    <3>2. Y' = Y
      BY <2>1, <2>10
    <3>3. Areas' = X' \cup Y' \cup (IF memory'.move_list = Nil THEN {}
                      ELSE {Area(memory'.move_list, moves'.count * moves'.item_size)})
      BY DEF Areas
    <3>4. Area(e, count * size) = n
      BY DEF Area
    <3>5. X \subseteq Areas /\ Y \subseteq Areas
      BY DEF Areas
    <3>6. memory'.move_list # Nil
      BY <2>3, <2>10
    <3>7. Areas' = X \cup Y \cup {n}
      BY <2>10, <2>11, <3>1, <3>2, <3>3, <3>4, <3>6
    <3> HIDE DEF X, Y, n
    <3> QED
      BY <3>5, <3>7
  <2>16. Apart(Areas', f)
    <3> HIDE DEF f
    <3> QED
      BY <2>3, <2>8, <2>15, Placing DEF Placed
  <2> QED
    BY <2>1, <2>10, <2>12, <2>13, <2>14, <2>16 DEF Placed
<1> QED
  BY <1>1, <1>2

LEMMA SinceSent ==
    ASSUME StatsKept, ConfigTyped
    PROVE  /\ now - SentAt \in 0 .. (TURN - 1) /\ SentAt \in Nat
           /\ stats.send_time \in 0 .. (TURN - 1) /\ stats.high \in Nat
           /\ ((now % TURN) - stats.send_time) % TURN = now - SentAt
           /\ now = TURN * (stats.high + (IF now % TURN < stats.send_time THEN 1 ELSE 0))
                    + (now % TURN)
<1> USE ConfigFacts
<1> DEFINE q == now \div TURN
           r == now % TURN
           h == stats.high
           c == stats.send_time
<1>1. TURN > 0 /\ now \in Nat
  BY DEF ConfigTyped
<1>2. now = TURN * q + r /\ q \in Int /\ r \in 0 .. (TURN - 1)
  BY <1>1, DivMod
<1>3. h \in Nat /\ c \in 0 .. (TURN - 1)
  BY DEF StatsKept
<1>4. SentAt = TURN * h + c
  BY DEF SentAt
<1>5. TURN * h \in Nat
  BY <1>3
<1>6. SentAt \in Nat
  BY <1>3, <1>4, <1>5
<1>7. now - SentAt \in 0 .. (TURN - 1)
  BY <1>1, <1>6 DEF StatsKept
<1> HIDE DEF q, r, h, c
<1>8. TURN * (q - h) = (now - SentAt) + (c - r)
  BY <1>2, <1>3, <1>4, <1>5, <1>6, Distributes
<1>9. CASE r < c
  <2>1. TURN * ((q - h) - 1) = TURN * (q - h) - TURN
    BY <1>2, <1>3, Distributes
  <2>2. (q - h) - 1 = 0
    <3>1. (q - h) - 1 \in Int
      BY <1>2, <1>3
    <3>2. TURN * ((q - h) - 1) < TURN /\ -TURN < TURN * ((q - h) - 1)
      BY <1>1, <1>2, <1>3, <1>6, <1>7, <1>8, <1>9, <2>1
    <3> QED
      BY <3>1, <3>2, SmallMultiple
  <2>3. r - c = TURN * (-1) + (now - SentAt)
    BY <1>1, <1>2, <1>3, <1>6, <1>8, <2>1, <2>2
  <2>4. (r - c) % TURN = now - SentAt
    BY <1>1, <1>2, <1>3, <1>7, <2>3, DivModUnique
  <2>5. q = h + 1
    BY <1>2, <1>3, <2>2
  <2>6. now = TURN * (h + (IF r < c THEN 1 ELSE 0)) + r
    BY <1>2, <1>9, <2>5
  <2> QED
    BY <1>3, <1>6, <1>7, <2>4, <2>6 DEF r, h, c
<1>10. CASE r >= c
  <2>1. q - h = 0
    <3>1. TURN * (q - h) < TURN /\ -TURN < TURN * (q - h)
      BY <1>1, <1>2, <1>3, <1>6, <1>7, <1>8, <1>10
    <3> QED
      BY <1>2, <1>3, <3>1, SmallMultiple
  <2>2. r - c = TURN * 0 + (now - SentAt)
    BY <1>1, <1>2, <1>3, <1>6, <1>8, <2>1
  <2>3. (r - c) % TURN = now - SentAt
    BY <1>1, <1>2, <1>3, <1>7, <2>2, DivModUnique
  <2>4. q = h + 0
    BY <1>2, <1>3, <2>1
  <2>5. ~(r < c)
    BY <1>2, <1>3, <1>10
  <2>6. now = TURN * (h + (IF r < c THEN 1 ELSE 0)) + r
    BY <1>2, <2>4, <2>5
  <2> QED
    BY <1>3, <1>6, <1>7, <2>3, <2>6 DEF r, h, c
<1> QED
  BY <1>2, <1>3, <1>9, <1>10

LEMMA UptimeIsRight ==
    ASSUME StatsKept, ConfigTyped
    PROVE  UptimeRight
<1> USE ConfigFacts
<1> DEFINE r == now % TURN
           b == IF r < stats.send_time THEN 1 ELSE 0
<1>1. now = TURN * (stats.high + b) + r /\ stats.high \in Nat
  BY SinceSent
<1>2. r \in 0 .. (TURN - 1) /\ now \in Nat
  BY DivMod DEF ConfigTyped
<1>3. stats.high + b \in Int
  BY <1>1
<1> HIDE DEF r, b
<1>4. now \div TURN = stats.high + b
  <2> DEFINE q == stats.high + b
  <2>1. /\ TURN \in Nat /\ TURN > 0 /\ q \in Int /\ r \in 0 .. (TURN - 1)
        /\ now \in Int /\ now = TURN * q + r
    BY <1>1, <1>2, <1>3
  <2> HIDE DEF q
  <2>2. now \div TURN = q
    BY <2>1, DivModUnique
  <2> QED
    BY <2>2 DEF q
<1> QED
  BY <1>4 DEF UptimeRight, r, b

LEMMA StatsUpdatePreserves ==
    ASSUME ConfigTyped, StatsKept, StatsUpdate
    PROVE  StatsKept'
<1> USE ConfigFacts
<1> DEFINE cur == now % TURN
           b == IF cur < stats.send_time THEN 1 ELSE 0
<1>1. /\ now - SentAt \in 0 .. (TURN - 1) /\ SentAt \in Nat
      /\ stats.send_time \in 0 .. (TURN - 1) /\ stats.high \in Nat
      /\ (cur - stats.send_time) % TURN = now - SentAt
      /\ now = TURN * (stats.high + b) + cur
  BY SinceSent
<1>2. cur \in 0 .. (TURN - 1) /\ now \in Nat
  <2>1. now \in Nat /\ now \in Int /\ TURN \in Nat /\ TURN > 0
    BY DEF ConfigTyped
  <2> QED
    BY <2>1, DivMod
<1>3. b \in {0, 1}
  OBVIOUS
<1>4. now' = now /\ DOMAIN stats = {"send_time", "high", "called"}
  BY DEF StatsUpdate, StatsKept
<1> HIDE DEF b
<1>5. CASE (cur - stats.send_time) % TURN < StatsTicks
  <2>1. stats' = [stats EXCEPT !.called = now]
    BY <1>5 DEF StatsUpdate
  <2>2. /\ DOMAIN stats' = {"send_time", "high", "called"} /\ stats'.called = now
        /\ stats'.high = stats.high /\ stats'.send_time = stats.send_time
    BY <1>4, <2>1
  <2>3. SentAt' = SentAt
    BY <2>2 DEF SentAt
  <2>4. now - SentAt < StatsTicks
    BY <1>1, <1>5
  <2> QED
    BY <1>1, <1>2, <1>4, <2>2, <2>3, <2>4 DEF StatsKept
<1>6. CASE ~((cur - stats.send_time) % TURN < StatsTicks)
  <2>1. stats' = [called |-> now, send_time |-> cur, high |-> stats.high + b]
    BY <1>6 DEF StatsUpdate, b
  <2> HIDE DEF cur
  <2>2. /\ DOMAIN stats' = {"send_time", "high", "called"} /\ stats'.called = now
        /\ stats'.high = stats.high + b /\ stats'.send_time = cur
    BY <2>1
  <2>3. stats'.high \in Nat
    BY <1>1, <1>3, <2>2
  <2>4. SentAt' = now
    BY <1>1, <2>2 DEF SentAt
  <2> QED
    BY <1>2, <1>4, <2>2, <2>3, <2>4 DEF StatsKept
<1> QED
  BY <1>5, <1>6

LEMMA ConfigRestarts == (ConfigInit /\ now = 0)' => ConfigInv'
<1>1. ConfigInit /\ now = 0 => ConfigInv
  BY ConfigStarts
<1> QED
  BY <1>1, PTL

LEMMA ConfigStep ==
    ASSUME ConfigInv, [ConfigNext]_ConfigAll
    PROVE  ConfigInv'
<1> USE ConfigFacts
<1>1. ConfigTyped /\ Tables /\ Placed /\ StatsKept
  BY DEF ConfigInv
<1>2. CASE /\ UNCHANGED now
           /\ \/ \E count \in OidCounts : AllocateOids(count)
              \/ \E count \in OidCounts : \E oid \in 1 .. count, t \in OidType :
                     ConfigObject(oid, t)
              \/ FinalizeConfig
  <2>0. UNCHANGED stats
    BY <1>2 DEF AllocateOids, ConfigObject, FinalizeConfig, Rejected, configVars
  <2>1. StatsKept'
    BY <1>1, <1>2, <2>0 DEF StatsKept, SentAt
  <2>2. CASE \E count \in OidCounts : AllocateOids(count)
    <3>1. PICK count \in OidCounts : AllocateOids(count)
      BY <2>2
    <3> QED
      BY <1>1, <1>2, <2>1, <3>1, AllocateOidsPreserves DEF ConfigInv
  <2>3. CASE \E count \in OidCounts : \E oid \in 1 .. count, t \in OidType :
                 ConfigObject(oid, t)
    <3>0. PICK count \in OidCounts : \E oid \in 1 .. count, t \in OidType :
              ConfigObject(oid, t)
      BY <2>3
    <3>1. PICK oid \in 1 .. count, t \in OidType : ConfigObject(oid, t)
      BY <3>0
    <3>2. oid \in Nat \ {0}
      OBVIOUS
    <3> QED
      BY <1>1, <1>2, <2>1, <3>1, <3>2, ConfigObjectPreserves DEF ConfigInv
  <2>4. CASE FinalizeConfig
    BY <1>1, <1>2, <2>1, <2>4, FinalizePreserves DEF ConfigInv
  <2> QED
    BY <1>2, <2>2, <2>3, <2>4
<1>3. CASE UNCHANGED <<now, configVars>>
  BY <1>1, <1>3 DEF configVars, ConfigInv, ConfigTyped, Tables, Placed, Apart, Areas,
     Objects, StatsKept, SentAt
<1>4. CASE ResetBoard
  BY <1>4, ConfigRestarts DEF ResetBoard, ConfigInit
<1>5. CASE ConfigTick
  <2>1. /\ now' = now + 1 /\ now < stats.called + StatsLate /\ UNCHANGED configVars
    BY <1>5 DEF ConfigTick
  <2>2. ConfigTyped' /\ Tables' /\ Placed'
    BY <1>1, <2>1 DEF configVars, ConfigTyped, Tables, Placed, Apart, Areas, Objects
  <2>3. StatsKept'
    <3>1. stats' = stats /\ SentAt' = SentAt
      BY <2>1 DEF configVars, SentAt
    <3>2. now \in Nat /\ stats.called \in Nat
      BY <1>1 DEF ConfigTyped, StatsKept
    <3>3. stats.called <= now' /\ now' <= stats.called + StatsLate
      BY <1>1, <2>1, <3>2 DEF StatsKept
    <3> QED
      BY <1>1, <3>1, <3>3 DEF StatsKept
  <2> QED
    BY <2>2, <2>3 DEF ConfigInv
<1>6. CASE StatsUpdate
  <2>1. UNCHANGED <<now, memory, oids, moves>>
    BY <1>6 DEF StatsUpdate
  <2>2. ConfigTyped' /\ Tables' /\ Placed'
    BY <1>1, <2>1 DEF ConfigTyped, Tables, Placed, Apart, Areas, Objects
  <2> QED
    BY <1>1, <1>6, <2>2, StatsUpdatePreserves DEF ConfigInv
<1> QED
  BY <1>2, <1>3, <1>4, <1>5, <1>6 DEF ConfigNext, ConfigAll, EmergencyStop

LEMMA ConfigSoundFromInv ==
    ASSUME ConfigInv
    PROVE  ConfigSound
<1>1. ConfigTyped /\ Tables /\ Placed /\ StatsKept
  BY DEF ConfigInv
<1>2. MemoryDisjoint
  <2>1. memory.alloc_end \in Nat /\ memory.alloc_end <= MemorySize /\ MemorySize \in Nat
    BY <1>1, ConfigFacts DEF ConfigTyped
  <2> QED
    BY <1>1, <2>1 DEF Placed, Apart, MemoryDisjoint
<1>3. MovesHold
  <2>1. DOMAIN oids = 1 .. Len(oids)
    BY <1>1 DEF ConfigTyped
  <2> QED
    BY <1>1, <2>1 DEF Tables, MovesHold
<1>4. UptimeRight
  BY <1>1, UptimeIsRight
<1> QED
  BY <1>2, <1>3, <1>4 DEF ConfigSound

(* However the host configures, and fails to: nothing that alloc_chunk and  *)
(* alloc_chunks give out overlaps or leaves the pool, each move of the pool *)
(* is as large as those of any object whose configuration command ran to    *)
(* its end, and the uptime counts every turn of the clock as long as        *)
(* stats_update comes by in time.                                           *)
THEOREM ConfigStaysSound == ConfigSpec => []ConfigSound
<1>1. BoardInit /\ ConfigInit => ConfigInv
  BY ConfigStarts DEF BoardInit
<1>2. ConfigInv /\ [ConfigNext]_ConfigAll => ConfigInv'
  BY ConfigStep
<1> QED
  BY <1>1, <1>2, ConfigSoundFromInv, PTL DEF ConfigSpec

-------------------------------------------------------------------------------
(***************************************************************************)
(* The software SPI bus.  At each stage of a transfer the clock is where the *)
(* mode of the device wants it, one device is selected, and it has got and *)
(* shifted as many bits as the firmware has sent and read.                 *)
(***************************************************************************)
Bits == Seq({0, 1})
Payload == SpiMessages \cup {ShutdownMsg}
Sends == Seq([dev : SpiDevice, data : Payload])
Stages == {"prepare", "select", "first", "second", "release"}
SpiTyped ==
    /\ ready \subseteq SpiDevice /\ shutdown \in BOOLEAN
    /\ wire \in [sclk : {0, 1}, mosi : {0, 1}, cs : SUBSET SpiDevice]
    /\ slave \in [SpiDevice -> [got : Bits, shifts : Nat]]
    /\ task = Idle \/ task \in [at : Stages, dev : SpiDevice, data : Payload,
                                got : Bits, queue : Sends]

(* The device s has got n bits of the message data and shifted k times.     *)
Heard(s, data, n, k) ==
    /\ Len(s.got) = n /\ \A i \in 1 .. n : s.got[i] = data[i]
    /\ s.shifts = k

(* Where the clock, the device and the bits read are at each stage of the   *)
(* transfer t, in the wires w; c is the phase of the device, and p the      *)
(* level of the clock at rest.                                              *)
AtStage(t, w, s, c, p) ==
    LET n == Len(t.got)
    IN /\ \A i \in 1 .. n : t.got[i] = Answer[i]
       /\ w.cs = IF t.at \in {"prepare", "select"} THEN {} ELSE {t.dev}
       /\ t.at \in {"prepare", "select"} => n = 0
       /\ t.at \in {"first", "second"} => n < Len(t.data)
       /\ t.at \in {"select", "first"} => w.sclk = p
       /\ t.at = "first" => Heard(s, t.data, n, n)
       /\ t.at = "second" =>
              /\ w.sclk = 1 - p /\ w.mosi = t.data[n + 1]
              /\ Heard(s, t.data, n + (1 - c), n + c)
       /\ t.at = "release" => n = Len(t.data) /\ Heard(s, t.data, n, n)
Transferring ==
    IF task = Idle THEN wire.cs = {}
    ELSE AtStage(task, wire, slave[task.dev], PHASE(task.dev), SpiMode[task.dev] \div 2)

(* In a shutdown, a device has got its message or is still to get it.       *)
Warned ==
    shutdown =>
        /\ task # Idle =>
               /\ task.data = ShutdownMsg
               /\ \A i \in 1 .. Len(task.queue) : task.queue[i].data = ShutdownMsg
        /\ \A d \in ready :
               \/ slave[d].got = ShutdownMsg
               \/ task # Idle /\ task.dev = d
               \/ task # Idle /\ \E i \in 1 .. Len(task.queue) : task.queue[i].dev = d

SpiInv == SpiTyped /\ Transferring /\ Warned

LEMMA SpiFacts ==
    /\ SpiDevice = 1 .. Len(SpiMode) /\ Len(SpiMode) \in Nat
    /\ \A d \in SpiDevice : SpiMode[d] \in 0 .. 3
    /\ \A m \in Payload : m \in Bits /\ Len(m) \in 1 .. Len(Answer)
    /\ Answer \in Bits /\ Len(Answer) \in Nat
BY SpiBusAssumption DEF SpiDevice, Payload, Bits

(* At which level of the clock a device takes a bit.                        *)
LEMMA Levels ==
    ASSUME NEW d \in SpiDevice
    PROVE  LET p == SpiMode[d] \div 2
           IN /\ p \in {0, 1} /\ PHASE(d) \in {0, 1}
              /\ (SpiMode[d] \in {0, 3}) = (1 - p = 1) <=> PHASE(d) = 0
              /\ (SpiMode[d] \in {0, 3}) = (p = 1) <=> PHASE(d) = 1
<1> DEFINE m == SpiMode[d]
<1>1. m \in 0 .. 3
  BY SpiFacts
<1>2. m = 0 \/ m = 1 \/ m = 2 \/ m = 3
  BY <1>1
<1> HIDE DEF m
<1>3. /\ m = 0 => m \div 2 = 0 /\ m % 2 = 0
      /\ m = 1 => m \div 2 = 0 /\ m % 2 = 1
      /\ m = 2 => m \div 2 = 1 /\ m % 2 = 0
      /\ m = 3 => m \div 2 = 1 /\ m % 2 = 1
  BY <1>2
<1>4. PHASE(d) = m % 2
  BY DEF PHASE, m
<1>5. CASE m = 0
  BY <1>3, <1>4, <1>5 DEF m
<1>6. CASE m = 1
  BY <1>3, <1>4, <1>6 DEF m
<1>7. CASE m = 2
  BY <1>3, <1>4, <1>7 DEF m
<1>8. CASE m = 3
  BY <1>3, <1>4, <1>8 DEF m
<1> QED
  BY <1>2, <1>5, <1>6, <1>7, <1>8

LEMMA Queued ==
    ASSUME NEW queue \in Sends
    PROVE  /\ queue = <<>> => Transfers(queue) = Idle
           /\ queue # <<>> =>
                  /\ Transfers(queue) \in [at : Stages, dev : SpiDevice, data : Payload,
                                           got : Bits, queue : Sends]
                  /\ Transfers(queue) # Idle
                  /\ Transfers(queue).at = "prepare" /\ Transfers(queue).got = <<>>
                  /\ Transfers(queue).dev = queue[1].dev
                  /\ Transfers(queue).data = queue[1].data
                  /\ Len(Transfers(queue).queue) = Len(queue) - 1
                  /\ \A i \in 1 .. (Len(queue) - 1) :
                         Transfers(queue).queue[i] = queue[i + 1]
<1>1. CASE queue = <<>>
  BY <1>1 DEF Transfers
<1>2. CASE queue # <<>>
  <2> DEFINE q == Tail(queue)
             d == queue[1].dev
             m == queue[1].data
  <2>1. Len(queue) \in Nat /\ Len(queue) >= 1 /\ queue[1] \in [dev : SpiDevice, data : Payload]
    <3> DEFINE S == [dev : SpiDevice, data : Payload]
    <3>1. queue \in Seq(S)
      BY DEF Sends
    <3> HIDE DEF S
    <3>2. Len(queue) \in Nat /\ Len(queue) # 0
      BY <1>2, <3>1, EmptySeq
    <3>3. 1 \in 1 .. Len(queue)
      BY <3>2
    <3>4. queue[1] \in S
      BY <3>1, <3>3
    <3> QED
      BY <3>2, <3>3, <3>4 DEF S
  <2>2. d \in SpiDevice /\ m \in Payload
    BY <2>1
  <2>3. /\ q \in Sends /\ Len(q) = Len(queue) - 1
        /\ \A i \in 1 .. (Len(queue) - 1) : q[i] = queue[i + 1]
    BY <1>2 DEF Sends
  <2>4. Transfers(queue) = [at |-> "prepare", dev |-> d, data |-> m, got |-> <<>>,
                            queue |-> q]
    BY <1>2 DEF Transfers
  <2>5. <<>> \in Bits /\ "prepare" \in Stages
    BY DEF Bits, Stages
  <2> HIDE DEF q, d, m
  <2>6. /\ Transfers(queue) \in [at : Stages, dev : SpiDevice, data : Payload,
                                 got : Bits, queue : Sends]
        /\ Transfers(queue).at = "prepare" /\ Transfers(queue).got = <<>>
        /\ Transfers(queue).dev = d /\ Transfers(queue).data = m
        /\ Transfers(queue).queue = q
    BY <2>2, <2>3, <2>4, <2>5
  <2>7. Transfers(queue) # Idle
    BY <2>6 DEF Idle
  <2> QED
    BY <1>2, <2>3, <2>6, <2>7 DEF d, m
<1> QED
  BY <1>1, <1>2

(* The next transfer of a queue begins with no device selected.             *)
LEMMA NextTransfer ==
    ASSUME NEW queue \in Sends, SpiTyped, SpiTyped', task' = Transfers(queue),
           wire'.cs = {}
    PROVE  Transferring'
<1>1. CASE queue = <<>>
  BY <1>1, Queued DEF Transferring
<1>2. CASE queue # <<>>
  <2>1. task' # Idle /\ task'.at = "prepare" /\ task'.got = <<>>
    BY <1>2, Queued
  <2>2. AtStage(task', wire', slave'[task'.dev], PHASE(task'.dev), SpiMode[task'.dev] \div 2)
    BY <2>1 DEF AtStage
  <2>3. PHASE(task.dev)' = PHASE(task'.dev)
    BY DEF PHASE
  <2> QED
    BY <2>1, <2>2, <2>3 DEF Transferring
<1> QED
  BY <1>1, <1>2

LEMMA SpiStarts ==
    ASSUME SpiInit, task = Idle, shutdown = FALSE
    PROVE  SpiInv
<1>1. <<>> \in Bits
  BY DEF Bits
<1>2. SpiTyped
  BY <1>1 DEF SpiInit, SpiTyped
<1>3. Transferring
  BY DEF SpiInit, Transferring
<1> QED
  BY <1>2, <1>3 DEF SpiInv, Warned

(* What a level of the clock does to the device that is selected alone.     *)
LEMMA ClockedOne ==
    ASSUME SpiTyped, NEW d \in SpiDevice, wire.cs = {d},
           NEW level \in {0, 1}, NEW bit \in {0, 1}
    PROVE  /\ Clocked(level, bit) \in [SpiDevice -> [got : Bits, shifts : Nat]]
           /\ \A x \in SpiDevice : x # d => Clocked(level, bit)[x] = slave[x]
           /\ (SpiMode[d] \in {0, 3}) = (level = 1) =>
                  /\ Clocked(level, bit)[d].got = Append(slave[d].got, bit)
                  /\ Clocked(level, bit)[d].shifts = slave[d].shifts
           /\ ~((SpiMode[d] \in {0, 3}) = (level = 1)) =>
                  /\ Clocked(level, bit)[d].got = slave[d].got
                  /\ Clocked(level, bit)[d].shifts = slave[d].shifts + 1
<1> DEFINE takes(x) == (SpiMode[x] \in {0, 3}) = (level = 1)
           longer(x) == Append(slave[x].got, bit)
           with(x) == [slave[x] EXCEPT !.got = longer(x)]
           shifted(x) == [slave[x] EXCEPT !.shifts = @ + 1]
<1>1. ASSUME NEW x \in SpiDevice
      PROVE  /\ slave[x] \in [got : Bits, shifts : Nat]
             /\ with(x).got = longer(x) /\ with(x).shifts = slave[x].shifts
             /\ shifted(x).got = slave[x].got /\ shifted(x).shifts = slave[x].shifts + 1
             /\ with(x) \in [got : Bits, shifts : Nat]
             /\ shifted(x) \in [got : Bits, shifts : Nat]
  <2>1. slave[x] \in [got : Bits, shifts : Nat]
    BY DEF SpiTyped
  <2> DEFINE g == slave[x].got
             k == slave[x].shifts
  <2>2. slave[x] = [got |-> g, shifts |-> k] /\ g \in Bits /\ k \in Nat
    BY <2>1
  <2>3. longer(x) \in Bits
    BY <2>2 DEF Bits
  <2> HIDE DEF longer
  <2>4. with(x) = [got |-> longer(x), shifts |-> k]
    BY <2>2
  <2>5. shifted(x) = [got |-> g, shifts |-> k + 1]
    BY <2>2
  <2> HIDE DEF g, k, with, shifted
  <2> QED
    BY <2>1, <2>2, <2>3, <2>4, <2>5
<1>2. Clocked(level, bit) =
        [x \in SpiDevice |-> IF x \notin wire.cs THEN slave[x]
                             ELSE IF takes(x) THEN with(x) ELSE shifted(x)]
  BY DEF Clocked
<1> HIDE DEF takes, longer, with, shifted
<1>3. \A x \in SpiDevice :
        Clocked(level, bit)[x] = IF x # d THEN slave[x]
                                 ELSE IF takes(x) THEN with(x) ELSE shifted(x)
  BY <1>2
<1>4. Clocked(level, bit) \in [SpiDevice -> [got : Bits, shifts : Nat]]
  BY <1>1, <1>2
<1>5. takes(d) => Clocked(level, bit)[d] = with(d)
  BY <1>3
<1>6. ~takes(d) => Clocked(level, bit)[d] = shifted(d)
  BY <1>3
<1>7. takes(d) <=> (SpiMode[d] \in {0, 3}) = (level = 1)
  BY DEF takes
<1>8. longer(d) = Append(slave[d].got, bit)
  BY DEF longer
<1>9. takes(d) =>
        /\ Clocked(level, bit)[d].got = Append(slave[d].got, bit)
        /\ Clocked(level, bit)[d].shifts = slave[d].shifts
  BY <1>1, <1>5, <1>8
<1>10. ~takes(d) =>
        /\ Clocked(level, bit)[d].got = slave[d].got
        /\ Clocked(level, bit)[d].shifts = slave[d].shifts + 1
  BY <1>1, <1>6
<1> QED
  BY <1>3, <1>4, <1>7, <1>9, <1>10

LEMMA Active ==
    ASSUME SpiTyped, task # Idle
    PROVE  /\ task \in [at : Stages, dev : SpiDevice, data : Payload,
                        got : Bits, queue : Sends]
           /\ task.dev \in SpiDevice /\ task.data \in Payload
           /\ task.got \in Bits /\ task.queue \in Sends
           /\ Len(task.got) \in Nat /\ Len(task.data) \in Nat
           /\ task.data \in Bits /\ Len(task.data) >= 1
           /\ Len(task.data) <= Len(Answer)
<1>1. task \in [at : Stages, dev : SpiDevice, data : Payload, got : Bits, queue : Sends]
  BY DEF SpiTyped
<1>2. /\ task.dev \in SpiDevice /\ task.data \in Payload
      /\ task.got \in Bits /\ task.queue \in Sends
  BY <1>1
<1>3. Len(task.got) \in Nat
  BY <1>2 DEF Bits
<1> QED
  BY <1>1, <1>2, <1>3, SpiFacts

LEMMA InStage ==
    ASSUME task.at \in Stages
    PROVE  task # Idle
BY DEF Stages, Idle

(* A step of a transfer leaves the other devices alone.                     *)
LEMMA StillWarned ==
    ASSUME SpiTyped, Warned, UNCHANGED <<shutdown, ready>>, task # Idle, task' # Idle,
           task'.dev = task.dev, task'.data = task.data, task'.queue = task.queue,
           \A d \in SpiDevice : d # task.dev => slave'[d] = slave[d]
    PROVE  Warned'
BY DEF Warned, SpiTyped

LEMMA PreparePreserves ==
    ASSUME SpiInv, Prepare
    PROVE  SpiInv'
<1>1. SpiTyped /\ Transferring /\ Warned
  BY DEF SpiInv
<1>2. task # Idle /\ task.at = "prepare"
  BY InStage DEF Prepare, Stages
<1>3. /\ task \in [at : Stages, dev : SpiDevice, data : Payload, got : Bits, queue : Sends]
      /\ task.dev \in SpiDevice
  BY <1>1, <1>2, Active
<1> DEFINE p == SpiMode[task.dev] \div 2
<1>4. p \in {0, 1}
  BY <1>3, Levels
<1>5. /\ wire' = [wire EXCEPT !.sclk = p]
      /\ slave' = Clocked(wire'.sclk, wire.mosi)
      /\ task' = [task EXCEPT !.at = "select"]
      /\ UNCHANGED <<shutdown, ready>>
  BY DEF Prepare, Prepared
<1>6. wire.cs = {} /\ Len(task.got) = 0
  BY <1>1, <1>2 DEF Transferring, AtStage
<1>7. slave' = slave
  <2>1. slave' = [d \in SpiDevice |-> slave[d]]
    BY <1>5, <1>6 DEF Clocked
  <2> QED
    BY <1>1, <2>1 DEF SpiTyped
<1> HIDE DEF p
<1>8. /\ task' \in [at : Stages, dev : SpiDevice, data : Payload, got : Bits, queue : Sends]
      /\ task'.at = "select" /\ task'.dev = task.dev /\ task'.data = task.data
      /\ task'.got = task.got /\ task'.queue = task.queue
  BY <1>3, <1>5 DEF Stages
<1>9. task' # Idle
  BY <1>8 DEF Idle
<1>10. /\ wire' \in [sclk : {0, 1}, mosi : {0, 1}, cs : SUBSET SpiDevice]
       /\ wire'.sclk = p /\ wire'.cs = {}
  BY <1>1, <1>4, <1>5, <1>6 DEF SpiTyped
<1>11. SpiTyped'
  BY <1>1, <1>5, <1>7, <1>8, <1>10 DEF SpiTyped
<1>12. Warned'
  BY <1>1, <1>2, <1>5, <1>7, <1>8, <1>9, StillWarned
<1>13. Transferring'
  <2>1. AtStage(task', wire', slave'[task'.dev], PHASE(task'.dev), p)
    BY <1>6, <1>8, <1>10 DEF AtStage
  <2>2. SpiMode[task'.dev] \div 2 = p
    BY <1>8 DEF p
  <2>3. PHASE(task.dev)' = PHASE(task'.dev)
    BY DEF PHASE
  <2> QED
    BY <1>9, <2>1, <2>2, <2>3 DEF Transferring
<1> QED
  BY <1>11, <1>12, <1>13 DEF SpiInv

LEMMA SelectPreserves ==
    ASSUME SpiInv, SelectDevice
    PROVE  SpiInv'
<1>1. SpiTyped /\ Transferring /\ Warned
  BY DEF SpiInv
<1>2. task # Idle /\ task.at = "select"
  BY InStage DEF SelectDevice, Stages
<1>3. /\ task \in [at : Stages, dev : SpiDevice, data : Payload, got : Bits, queue : Sends]
      /\ task.dev \in SpiDevice /\ Len(task.data) >= 1 /\ Len(task.data) \in Nat
  BY <1>1, <1>2, Active
<1> DEFINE p == SpiMode[task.dev] \div 2
<1>5. /\ wire' = [wire EXCEPT !.cs = wire.cs \cup {task.dev}]
      /\ slave' = [slave EXCEPT ![task.dev] = [got |-> <<>>, shifts |-> 0]]
      /\ task' = [task EXCEPT !.at = "first"]
      /\ UNCHANGED <<shutdown, ready>>
  BY DEF SelectDevice
<1>6. wire.cs = {} /\ wire.sclk = p /\ Len(task.got) = 0
  BY <1>1, <1>2 DEF Transferring, AtStage
<1> HIDE DEF p
<1>7. /\ slave' \in [SpiDevice -> [got : Bits, shifts : Nat]]
      /\ \A d \in SpiDevice : d # task.dev => slave'[d] = slave[d]
      /\ slave'[task.dev].got = <<>> /\ slave'[task.dev].shifts = 0
  <2>1. <<>> \in Bits
    BY DEF Bits
  <2>2. [got |-> <<>>, shifts |-> 0] \in [got : Bits, shifts : Nat]
    BY <2>1
  <2> QED
    BY <1>1, <1>3, <1>5, <2>2 DEF SpiTyped
<1>8. /\ task' \in [at : Stages, dev : SpiDevice, data : Payload, got : Bits, queue : Sends]
      /\ task'.at = "first" /\ task'.dev = task.dev /\ task'.data = task.data
      /\ task'.got = task.got /\ task'.queue = task.queue
  BY <1>3, <1>5 DEF Stages
<1>9. task' # Idle
  BY <1>8 DEF Idle
<1>10. /\ wire' \in [sclk : {0, 1}, mosi : {0, 1}, cs : SUBSET SpiDevice]
       /\ wire'.sclk = p /\ wire'.cs = {task.dev}
  BY <1>1, <1>3, <1>5, <1>6 DEF SpiTyped
<1>11. SpiTyped'
  BY <1>1, <1>5, <1>7, <1>8, <1>10 DEF SpiTyped
<1>12. Warned'
  BY <1>1, <1>2, <1>5, <1>7, <1>8, <1>9, StillWarned
<1>13. Transferring'
  <2>0. Heard(slave'[task.dev], task.data, 0, 0)
    BY <1>7 DEF Heard
  <2>1. AtStage(task', wire', slave'[task'.dev], PHASE(task'.dev), p)
    BY <1>3, <1>6, <1>8, <1>10, <2>0 DEF AtStage
  <2>2. SpiMode[task'.dev] \div 2 = p
    BY <1>8 DEF p
  <2>3. PHASE(task.dev)' = PHASE(task'.dev)
    BY DEF PHASE
  <2> QED
    BY <1>9, <2>1, <2>2, <2>3 DEF Transferring
<1> QED
  BY <1>11, <1>12, <1>13 DEF SpiInv

LEMMA FirstHalfPreserves ==
    ASSUME SpiInv, FirstHalf
    PROVE  SpiInv'
<1>1. SpiTyped /\ Transferring /\ Warned
  BY DEF SpiInv
<1>2. task # Idle /\ task.at = "first"
  BY InStage DEF FirstHalf, Stages
<1>3. /\ task \in [at : Stages, dev : SpiDevice, data : Payload, got : Bits, queue : Sends]
      /\ task.dev \in SpiDevice /\ Len(task.data) \in Nat /\ Len(task.got) \in Nat
      /\ task.data \in Bits
  BY <1>1, <1>2, Active
<1> DEFINE d == task.dev
           n == Len(task.got)
           p == SpiMode[d] \div 2
           c == PHASE(d)
           bit == task.data[n + 1]
           out == IF c = 1 THEN wire.mosi ELSE bit
<1>4. /\ p \in {0, 1} /\ c \in {0, 1}
      /\ (SpiMode[d] \in {0, 3}) = (1 - p = 1) <=> c = 0
  BY <1>3, Levels
<1>5. /\ wire' = [wire EXCEPT !.sclk = 1 - wire.sclk, !.mosi = bit]
      /\ slave' = Clocked(1 - wire.sclk, out)
      /\ task' = [task EXCEPT !.at = "second"]
      /\ UNCHANGED <<shutdown, ready>>
  BY DEF FirstHalf
<1>6. /\ wire.cs = {d} /\ wire.sclk = p /\ n < Len(task.data)
      /\ Heard(slave[d], task.data, n, n)
      /\ \A i \in 1 .. n : task.got[i] = Answer[i]
  BY <1>1, <1>2 DEF Transferring, AtStage
<1>7. bit \in {0, 1} /\ out \in {0, 1} /\ 1 - p \in {0, 1} /\ n + 1 \in 1 .. Len(task.data)
  <2>1. n + 1 \in 1 .. Len(task.data)
    BY <1>3, <1>6
  <2>2. bit \in {0, 1}
    BY <1>3, <2>1 DEF Bits
  <2> QED
    BY <1>1, <1>4, <2>1, <2>2 DEF SpiTyped
<1>8. /\ task' \in [at : Stages, dev : SpiDevice, data : Payload, got : Bits, queue : Sends]
      /\ task'.at = "second" /\ task'.dev = task.dev /\ task'.data = task.data
      /\ task'.got = task.got /\ task'.queue = task.queue
  BY <1>3, <1>5 DEF Stages
<1>9. task' # Idle
  BY <1>8 DEF Idle
<1> HIDE DEF p, c, bit, out
<1>10. /\ wire' \in [sclk : {0, 1}, mosi : {0, 1}, cs : SUBSET SpiDevice]
       /\ wire'.sclk = 1 - p /\ wire'.cs = {d} /\ wire'.mosi = bit
  BY <1>1, <1>5, <1>6, <1>7 DEF SpiTyped
<1>11. /\ slave' \in [SpiDevice -> [got : Bits, shifts : Nat]]
       /\ \A x \in SpiDevice : x # d => slave'[x] = slave[x]
       /\ c = 0 => /\ slave'[d].got = Append(slave[d].got, out)
                   /\ slave'[d].shifts = slave[d].shifts
       /\ c # 0 => /\ slave'[d].got = slave[d].got
                   /\ slave'[d].shifts = slave[d].shifts + 1
  <2>1. slave' = Clocked(1 - p, out)
    BY <1>5, <1>6
  <2> HIDE DEF d
  <2>2. d \in SpiDevice
    BY <1>3 DEF d
  <2> DEFINE level == 1 - p
             one == Clocked(level, out)
             takes == (SpiMode[d] \in {0, 3}) = (level = 1)
  <2>3. level \in {0, 1} /\ out \in {0, 1} /\ wire.cs = {d} /\ slave' = one
    BY <1>6, <1>7, <2>1
  <2>4. takes <=> c = 0
    BY <1>4
  <2> HIDE DEF level
  <2>5. /\ one \in [SpiDevice -> [got : Bits, shifts : Nat]]
        /\ \A x \in SpiDevice : x # d => one[x] = slave[x]
        /\ takes => /\ one[d].got = Append(slave[d].got, out)
                    /\ one[d].shifts = slave[d].shifts
        /\ ~takes => /\ one[d].got = slave[d].got
                     /\ one[d].shifts = slave[d].shifts + 1
    BY <1>1, <2>2, <2>3, ClockedOne
  <2> HIDE DEF one, takes
  <2> QED
    BY <2>3, <2>4, <2>5
<1>12. SpiTyped'
  BY <1>1, <1>5, <1>8, <1>10, <1>11 DEF SpiTyped
<1>13. Warned'
  BY <1>1, <1>2, <1>5, <1>8, <1>9, <1>11, StillWarned
<1>14. Heard(slave'[d], task.data, n + (1 - c), n + c)
  <2>1. slave[d].got \in Bits /\ slave[d].shifts \in Nat
    BY <1>1, <1>3 DEF SpiTyped
  <2>2. CASE c = 0
    <3>1. out = bit
      BY <2>2 DEF out
    <3>2. /\ Len(slave[d].got) = n
          /\ \A i \in 1 .. n : slave[d].got[i] = task.data[i]
      BY <1>6 DEF Heard
    <3>3. /\ Len(slave'[d].got) = n + 1
          /\ \A i \in 1 .. n : slave'[d].got[i] = task.data[i]
          /\ slave'[d].got[n + 1] = bit
      <4> DEFINE g == slave[d].got
                 h == slave'[d].got
      <4>1. h = Append(g, bit) /\ g \in Seq({0, 1}) /\ bit \in {0, 1}
        BY <1>7, <1>11, <2>1, <2>2, <3>1 DEF Bits
      <4>2. Len(g) = n /\ \A i \in 1 .. n : g[i] = task.data[i]
        BY <3>2
      <4> HIDE DEF g, h, n
      <4>3. /\ Len(h) = Len(g) + 1 /\ h[Len(g) + 1] = bit
            /\ \A i \in 1 .. Len(g) : h[i] = g[i]
        BY <4>1, AppendProperties
      <4> QED
        BY <4>2, <4>3 DEF h
    <3>4. \A i \in 1 .. (n + 1) : i \in 1 .. n \/ i = n + 1
      BY <1>3
    <3>5. \A i \in 1 .. (n + 1) : slave'[d].got[i] = task.data[i]
      BY <3>3, <3>4 DEF bit
    <3>6. slave'[d].shifts = n
      BY <1>6, <1>11, <2>2 DEF Heard
    <3>7. n + (1 - c) = n + 1 /\ n + c = n
      BY <1>3, <2>2
    <3> QED
      BY <3>3, <3>5, <3>6, <3>7 DEF Heard
  <2>3. CASE c = 1
    <3>1. n + (1 - c) = n /\ n + c = n + 1
      BY <1>3, <2>3
    <3>2. slave'[d].got = slave[d].got /\ slave'[d].shifts = n + 1
      BY <1>6, <1>11, <2>3 DEF Heard
    <3> QED
      BY <1>6, <3>1, <3>2 DEF Heard
  <2> QED
    BY <1>4, <2>2, <2>3
<1>15. Transferring'
  <2>1. AtStage(task', wire', slave'[task'.dev], c, p)
    BY <1>6, <1>8, <1>10, <1>14 DEF AtStage, bit
  <2>2. SpiMode[task'.dev] \div 2 = p /\ PHASE(task'.dev) = c
    BY <1>8 DEF p, c
  <2>3. PHASE(task.dev)' = PHASE(task'.dev)
    BY DEF PHASE
  <2> QED
    BY <1>9, <2>1, <2>2, <2>3 DEF Transferring
<1> QED
  BY <1>12, <1>13, <1>15 DEF SpiInv

LEMMA SecondHalfPreserves ==
    ASSUME SpiInv, SecondHalf
    PROVE  SpiInv'
<1>1. SpiTyped /\ Transferring /\ Warned
  BY DEF SpiInv
<1>2. task # Idle /\ task.at = "second"
  BY InStage DEF SecondHalf, Stages
<1>3. /\ task \in [at : Stages, dev : SpiDevice, data : Payload, got : Bits, queue : Sends]
      /\ task.dev \in SpiDevice /\ Len(task.data) \in Nat /\ Len(task.got) \in Nat
      /\ task.data \in Bits /\ task.got \in Bits
      /\ Len(task.data) <= Len(Answer)
  BY <1>1, <1>2, Active
<1> DEFINE d == task.dev
           n == Len(task.got)
           p == SpiMode[d] \div 2
           c == PHASE(d)
           got == Append(task.got, Miso(d))
           next == IF Len(got) = Len(task.data) THEN "release" ELSE "first"
<1>4. /\ p \in {0, 1} /\ c \in {0, 1}
      /\ (SpiMode[d] \in {0, 3}) = (p = 1) <=> c = 1
  BY <1>3, Levels
<1>5. /\ wire' = [wire EXCEPT !.sclk = 1 - wire.sclk]
      /\ slave' = Clocked(1 - wire.sclk, wire.mosi)
      /\ task' = [task EXCEPT !.got = got, !.at = next]
      /\ UNCHANGED <<shutdown, ready>>
  BY DEF SecondHalf
<1>6. /\ wire.cs = {d} /\ wire.sclk = 1 - p /\ n < Len(task.data)
      /\ wire.mosi = task.data[n + 1]
      /\ Heard(slave[d], task.data, n + (1 - c), n + c)
      /\ \A i \in 1 .. n : task.got[i] = Answer[i]
  BY <1>1, <1>2 DEF Transferring, AtStage
<1>7. /\ n + 1 \in 1 .. Len(task.data) /\ n + 1 \in 1 .. Len(Answer)
      /\ wire.mosi \in {0, 1}
  BY <1>1, <1>3, <1>6, SpiFacts DEF SpiTyped
<1>8. Miso(d) = Answer[n + 1] /\ Miso(d) \in {0, 1}
  <2>1. slave[d].shifts + (1 - c) = n + 1
    BY <1>3, <1>4, <1>6 DEF Heard
  <2>2. DOMAIN Answer = 1 .. Len(Answer) /\ Answer \in Seq({0, 1})
    BY SpiFacts DEF Bits
  <2>3. Answer[n + 1] \in {0, 1}
    BY <1>7, <2>2
  <2> HIDE DEF c
  <2>4. Miso(d) = Answer[n + 1]
    BY <1>7, <2>1, <2>2 DEF Miso, c
  <2> QED
    BY <2>3, <2>4
<1>9. /\ got \in Bits /\ Len(got) = n + 1 /\ \A i \in 1 .. (n + 1) : got[i] = Answer[i]
  <2> DEFINE g == task.got
             b == Miso(d)
  <2>1. g \in Seq({0, 1}) /\ b \in {0, 1} /\ got = Append(g, b) /\ n = Len(g)
    BY <1>3, <1>8 DEF Bits
  <2>2. \A i \in 1 .. n : g[i] = Answer[i]
    BY <1>6
  <2>3. b = Answer[n + 1]
    BY <1>8
  <2> HIDE DEF g, b, got, n
  <2>4. /\ got \in Seq({0, 1}) /\ Len(got) = Len(g) + 1 /\ got[Len(g) + 1] = b
        /\ \A i \in 1 .. Len(g) : got[i] = g[i]
    BY <2>1, AppendProperties
  <2>5. n \in Nat
    BY <2>1
  <2>6. \A i \in 1 .. (n + 1) : i \in 1 .. n \/ i = n + 1
    BY <2>5
  <2> QED
    BY <2>1, <2>2, <2>3, <2>4, <2>6 DEF Bits
<1> HIDE DEF got
<1>10. next \in Stages /\ next \in {"release", "first"}
  BY DEF Stages
<1>11. next = "release" => n + 1 = Len(task.data)
  BY <1>9
<1>12. next = "first" => n + 1 < Len(task.data)
  BY <1>3, <1>7, <1>9
<1> HIDE DEF next
<1>13. /\ task' \in [at : Stages, dev : SpiDevice, data : Payload, got : Bits, queue : Sends]
       /\ task'.at = next /\ task'.dev = task.dev /\ task'.data = task.data
       /\ task'.got = got /\ task'.queue = task.queue
  BY <1>3, <1>5, <1>9, <1>10
<1>14. task' # Idle
  BY <1>10, <1>13 DEF Idle
<1> HIDE DEF p, c
<1>15. wire.sclk = 1 - p /\ 1 - wire.sclk = p
  BY <1>4, <1>6
<1>16. /\ wire' \in [sclk : {0, 1}, mosi : {0, 1}, cs : SUBSET SpiDevice]
       /\ wire'.sclk = p /\ wire'.cs = {d}
  BY <1>1, <1>4, <1>5, <1>6, <1>15 DEF SpiTyped
<1>17. /\ slave' \in [SpiDevice -> [got : Bits, shifts : Nat]]
       /\ \A x \in SpiDevice : x # d => slave'[x] = slave[x]
       /\ c = 1 => /\ slave'[d].got = Append(slave[d].got, wire.mosi)
                   /\ slave'[d].shifts = slave[d].shifts
       /\ c # 1 => /\ slave'[d].got = slave[d].got
                   /\ slave'[d].shifts = slave[d].shifts + 1
  <2>1. slave' = Clocked(p, wire.mosi)
    BY <1>5, <1>15
  <2> HIDE DEF d
  <2>2. d \in SpiDevice
    BY <1>3 DEF d
  <2>3. wire.cs = {d} /\ p \in {0, 1} /\ wire.mosi \in {0, 1}
    BY <1>4, <1>6, <1>7
  <2> DEFINE b == wire.mosi
             takes == (SpiMode[d] \in {0, 3}) = (p = 1)
  <2> HIDE DEF b
  <2>4. /\ Clocked(p, b) \in [SpiDevice -> [got : Bits, shifts : Nat]]
        /\ \A x \in SpiDevice : x # d => Clocked(p, b)[x] = slave[x]
        /\ takes => /\ Clocked(p, b)[d].got = Append(slave[d].got, b)
                    /\ Clocked(p, b)[d].shifts = slave[d].shifts
        /\ ~takes => /\ Clocked(p, b)[d].got = slave[d].got
                     /\ Clocked(p, b)[d].shifts = slave[d].shifts + 1
    BY <1>1, <2>2, <2>3, ClockedOne DEF b
  <2>5. takes <=> c = 1
    BY <1>4 DEF d
  <2> HIDE DEF takes
  <2> QED
    BY <2>1, <2>4, <2>5 DEF b
<1>18. SpiTyped'
  BY <1>1, <1>5, <1>13, <1>16, <1>17 DEF SpiTyped
<1>19. Warned'
  BY <1>1, <1>2, <1>5, <1>13, <1>14, <1>17, StillWarned
<1>20. Heard(slave'[d], task.data, n + 1, n + 1)
  <2>1. slave[d].got \in Bits /\ slave[d].shifts \in Nat
    BY <1>1, <1>3 DEF SpiTyped
  <2>2. CASE c = 1
    <3>1. n + (1 - c) = n /\ n + c = n + 1
      BY <1>3, <2>2
    <3>2. /\ Len(slave[d].got) = n /\ slave[d].shifts = n + 1
          /\ \A i \in 1 .. n : slave[d].got[i] = task.data[i]
      BY <1>6, <3>1 DEF Heard
    <3>3. /\ Len(slave'[d].got) = n + 1
          /\ \A i \in 1 .. n : slave'[d].got[i] = task.data[i]
          /\ slave'[d].got[n + 1] = wire.mosi
      <4> DEFINE g == slave[d].got
                 h == slave'[d].got
                 b == wire.mosi
      <4>1. h = Append(g, b) /\ g \in Seq({0, 1}) /\ b \in {0, 1}
        BY <1>7, <1>17, <2>1, <2>2 DEF Bits
      <4>2. Len(g) = n /\ \A i \in 1 .. n : g[i] = task.data[i]
        BY <3>2
      <4> HIDE DEF g, h, n, b
      <4>3. /\ Len(h) = Len(g) + 1 /\ h[Len(g) + 1] = b
            /\ \A i \in 1 .. Len(g) : h[i] = g[i]
        BY <4>1, AppendProperties
      <4> QED
        BY <4>2, <4>3 DEF h, b
    <3>4. \A i \in 1 .. (n + 1) : i \in 1 .. n \/ i = n + 1
      BY <1>3
    <3>5. \A i \in 1 .. (n + 1) : slave'[d].got[i] = task.data[i]
      BY <1>6, <3>3, <3>4
    <3>6. slave'[d].shifts = n + 1
      BY <1>17, <2>2, <3>2
    <3> QED
      BY <3>3, <3>5, <3>6 DEF Heard
  <2>3. CASE c = 0
    <3>1. n + (1 - c) = n + 1 /\ n + c = n
      BY <1>3, <2>3
    <3>2. slave'[d].got = slave[d].got /\ slave'[d].shifts = n + 1
      BY <1>6, <1>17, <2>3, <3>1 DEF Heard
    <3> QED
      BY <1>6, <3>1, <3>2 DEF Heard
  <2> QED
    BY <1>4, <2>2, <2>3
<1>21. Transferring'
  <2>1. AtStage(task', wire', slave'[task'.dev], c, p)
    BY <1>9, <1>10, <1>11, <1>12, <1>13, <1>16, <1>20 DEF AtStage
  <2>2. SpiMode[task'.dev] \div 2 = p /\ PHASE(task'.dev) = c
    BY <1>13 DEF p, c
  <2>3. PHASE(task.dev)' = PHASE(task'.dev)
    BY DEF PHASE
  <2> QED
    BY <1>14, <2>1, <2>2, <2>3 DEF Transferring
<1> QED
  BY <1>18, <1>19, <1>21 DEF SpiInv

(* The next transfer of the queue, or none.                                 *)
LEMMA PopPreserves ==
    ASSUME SpiTyped, Warned, task # Idle, task' = Transfers(task.queue),
           UNCHANGED <<shutdown, ready, slave>>, wire'.cs = {},
           wire' \in [sclk : {0, 1}, mosi : {0, 1}, cs : SUBSET SpiDevice],
           shutdown => task.dev \notin ready \/ slave[task.dev].got = ShutdownMsg
    PROVE  SpiInv'
<1> DEFINE q == task.queue
<1>1. q \in Sends
  BY Active
<1>2. Len(q) \in Nat /\ (q = <<>> <=> Len(q) = 0)
  <2>1. q \in Seq([dev : SpiDevice, data : Payload])
    BY <1>1 DEF Sends
  <2> HIDE DEF q
  <2> QED
    BY <2>1, EmptySeq
<1>3. SpiTyped'
  BY <1>1, Queued DEF SpiTyped
<1>4. Transferring'
  BY <1>1, <1>3, NextTransfer
<1>5. Warned'
  <2>1. SUFFICES ASSUME shutdown PROVE Warned'
    BY DEF Warned
  <2>2. /\ \A i \in 1 .. Len(q) : q[i].data = ShutdownMsg
        /\ \A d \in ready : \/ slave[d].got = ShutdownMsg \/ task.dev = d
                            \/ \E i \in 1 .. Len(q) : q[i].dev = d
    BY <2>1 DEF Warned
  <2>3. \A d \in ready : \/ slave[d].got = ShutdownMsg
                         \/ \E i \in 1 .. Len(q) : q[i].dev = d
    BY <2>1, <2>2
  <2>4. CASE q = <<>>
    <3>1. task' = Idle
      BY <1>1, <2>4, Queued
    <3>2. \A d \in ready : slave[d].got = ShutdownMsg
      BY <1>2, <2>3, <2>4
    <3> QED
      BY <3>1, <3>2 DEF Warned
  <2>5. CASE q # <<>>
    <3>1. /\ task' # Idle /\ task'.dev = q[1].dev /\ task'.data = q[1].data
          /\ Len(task'.queue) = Len(q) - 1
          /\ \A i \in 1 .. (Len(q) - 1) : task'.queue[i] = q[i + 1]
      BY <1>1, <2>5, Queued
    <3> HIDE DEF q
    <3>2. 1 \in 1 .. Len(q) /\ \A i \in 1 .. (Len(q) - 1) : i + 1 \in 1 .. Len(q)
      BY <1>2, <2>5
    <3>3. /\ task'.data = ShutdownMsg
          /\ \A i \in 1 .. Len(task'.queue) : task'.queue[i].data = ShutdownMsg
      BY <2>2, <3>1, <3>2
    <3>4. ASSUME NEW i \in 1 .. Len(q)
          PROVE  \/ task'.dev = q[i].dev
                 \/ \E j \in 1 .. Len(task'.queue) : task'.queue[j].dev = q[i].dev
      <4>1. CASE i = 1
        BY <3>1, <4>1
      <4>2. CASE i # 1
        <5>1. i - 1 \in 1 .. (Len(q) - 1) /\ (i - 1) + 1 = i
          BY <1>2, <4>2
        <5>2. task'.queue[i - 1] = q[i]
          BY <3>1, <5>1
        <5> QED
          BY <3>1, <5>1, <5>2
      <4> QED
        BY <4>1, <4>2
    <3>5. \A d \in ready : \/ slave[d].got = ShutdownMsg \/ task'.dev = d
                           \/ \E j \in 1 .. Len(task'.queue) : task'.queue[j].dev = d
      BY <2>3, <3>4
    <3> QED
      BY <3>1, <3>3, <3>5 DEF Warned
  <2> QED
    BY <2>4, <2>5
<1> QED
  BY <1>3, <1>4, <1>5 DEF SpiInv

LEMMA NoBusPreserves ==
    ASSUME SpiInv, NoBus
    PROVE  SpiInv'
<1>1. SpiTyped /\ Transferring /\ Warned
  BY DEF SpiInv
<1>2. task # Idle /\ task.at = "prepare" /\ task.dev \notin ready
  BY InStage DEF NoBus, Stages
<1>3. wire.cs = {}
  BY <1>1, <1>2 DEF Transferring, AtStage
<1>4. task' = Transfers(task.queue) /\ UNCHANGED <<shutdown, ready, slave, wire>>
  BY DEF NoBus, spiVars
<1> QED
  BY <1>1, <1>2, <1>3, <1>4, PopPreserves DEF SpiTyped

LEMMA ReleasePreserves ==
    ASSUME SpiInv, Release
    PROVE  SpiInv'
<1>1. SpiTyped /\ Transferring /\ Warned
  BY DEF SpiInv
<1>2. task # Idle /\ task.at = "release"
  BY InStage DEF Release, Stages
<1>3. /\ wire.cs = {task.dev}
      /\ Heard(slave[task.dev], task.data, Len(task.data), Len(task.data))
  BY <1>1, <1>2 DEF Transferring, AtStage
<1>4. slave[task.dev].got = task.data
  <2>1. slave[task.dev].got \in Bits /\ task.data \in Bits
    BY <1>1, <1>2, Active DEF SpiTyped
  <2> DEFINE g == slave[task.dev].got
             m == task.data
  <2>2. Len(g) = Len(m) /\ \A i \in 1 .. Len(m) : g[i] = m[i]
    BY <1>3 DEF Heard
  <2>3. g \in Seq({0, 1}) /\ m \in Seq({0, 1})
    BY <2>1 DEF Bits
  <2> HIDE DEF g, m
  <2>4. g = m
    BY <2>2, <2>3, SeqEqual
  <2> QED
    BY <2>4 DEF g, m
<1>5. task' = Transfers(task.queue) /\ UNCHANGED <<shutdown, ready, slave>>
  BY DEF Release
<1>6. /\ wire' \in [sclk : {0, 1}, mosi : {0, 1}, cs : SUBSET SpiDevice]
      /\ wire'.cs = {}
  <2>1. wire' = [wire EXCEPT !.cs = wire.cs \ {task.dev}]
    BY DEF Release
  <2> QED
    BY <1>1, <1>3, <2>1 DEF SpiTyped
<1>7. shutdown => slave[task.dev].got = ShutdownMsg
  BY <1>1, <1>2, <1>4 DEF Warned
<1> QED
  BY <1>1, <1>2, <1>5, <1>6, <1>7, PopPreserves

LEMMA SpiTransferPreserves ==
    ASSUME SpiInv, task = Idle, ~shutdown, UNCHANGED shutdown,
           NEW d \in SpiDevice, NEW data \in SpiMessages, SpiTransfer(d, data)
    PROVE  SpiInv'
<1>1. SpiTyped /\ wire.cs = {}
  BY DEF SpiInv, Transferring
<1> DEFINE q == <<[dev |-> d, data |-> data]>>
<1>2. q \in Sends /\ q # <<>>
  <2>1. [dev |-> d, data |-> data] \in [dev : SpiDevice, data : Payload]
    BY DEF Payload
  <2> DEFINE r == [dev |-> d, data |-> data]
  <2> HIDE DEF r
  <2> QED
    BY <2>1 DEF Sends, r
<1>3. task' = Transfers(q) /\ UNCHANGED spiVars
  BY DEF SpiTransfer
<1> HIDE DEF q
<1>4. SpiTyped'
  BY <1>1, <1>2, <1>3, Queued DEF SpiTyped, spiVars
<1>5. Transferring'
  BY <1>1, <1>2, <1>3, <1>4, NextTransfer DEF spiVars
<1> QED
  BY <1>4, <1>5 DEF SpiInv, Warned

LEMMA SpiShutdownPreserves ==
    ASSUME SpiInv, SpiShutdown
    PROVE  SpiInv'
<1>1. SpiTyped
  BY DEF SpiInv
<1> DEFINE q == [d \in SpiDevice |-> [dev |-> d, data |-> ShutdownMsg]]
<1>2. /\ q \in Sends /\ Len(q) = Len(SpiMode) /\ Len(SpiMode) \in Nat
      /\ SpiDevice = 1 .. Len(SpiMode)
      /\ \A d \in SpiDevice : q[d].dev = d /\ q[d].data = ShutdownMsg
  <2> DEFINE S == [dev : SpiDevice, data : Payload]
  <2>1. \A d \in SpiDevice : [dev |-> d, data |-> ShutdownMsg] \in S
    BY DEF Payload
  <2>2. SpiDevice = 1 .. Len(SpiMode) /\ Len(SpiMode) \in Nat
    BY SpiFacts
  <2>3. q \in [SpiDevice -> S]
    BY <2>1
  <2>4. \A d \in SpiDevice : q[d].dev = d /\ q[d].data = ShutdownMsg
    OBVIOUS
  <2>5. DOMAIN q = 1 .. Len(SpiMode)
    BY <2>2
  <2> HIDE DEF q, S
  <2>6. q \in Seq(S)
    BY <2>2, <2>3, IsASeq
  <2>7. Len(q) = Len(SpiMode)
    BY <2>2, <2>5, <2>6, LenProperties
  <2> QED
    BY <2>2, <2>4, <2>6, <2>7 DEF Sends, S
<1>3. /\ shutdown' = TRUE /\ wire' = [wire EXCEPT !.cs = {}]
      /\ task' = Transfers(q) /\ UNCHANGED <<ready, slave>>
  BY DEF SpiShutdown
<1> HIDE DEF q
<1>4. /\ wire' \in [sclk : {0, 1}, mosi : {0, 1}, cs : SUBSET SpiDevice]
      /\ wire'.cs = {}
  BY <1>1, <1>3 DEF SpiTyped
<1>5. SpiTyped'
  BY <1>1, <1>2, <1>3, <1>4, Queued DEF SpiTyped
<1>6. Transferring'
  BY <1>1, <1>2, <1>3, <1>4, <1>5, NextTransfer
<1>7. Warned'
  <2>1. CASE q = <<>>
    <3>1. Len(q) = 0
      BY <2>1
    <3>2. SpiDevice = {}
      BY <1>2, <3>1
    <3> QED
      BY <1>1, <1>2, <1>3, <2>1, <3>2, Queued DEF Warned, SpiTyped
  <2>2. CASE q # <<>>
    <3>1. /\ task' # Idle /\ task'.dev = q[1].dev /\ task'.data = q[1].data
          /\ Len(task'.queue) = Len(q) - 1
          /\ \A i \in 1 .. (Len(q) - 1) : task'.queue[i] = q[i + 1]
      BY <1>2, <1>3, <2>2, Queued
    <3>2. Len(q) # 0
      <4>1. q \in Seq([dev : SpiDevice, data : Payload])
        BY <1>2 DEF Sends
      <4> QED
        BY <2>2, <4>1, EmptySeq
    <3>3. 1 \in SpiDevice /\ \A i \in 1 .. (Len(q) - 1) : i + 1 \in SpiDevice
      BY <1>2, <3>2
    <3>4. /\ task'.dev = 1 /\ task'.data = ShutdownMsg
          /\ \A i \in 1 .. Len(task'.queue) :
                 /\ task'.queue[i].data = ShutdownMsg /\ task'.queue[i].dev = i + 1
      BY <1>2, <3>1, <3>3
    <3>5. ASSUME NEW d \in ready'
          PROVE  \/ task'.dev = d
                 \/ \E i \in 1 .. Len(task'.queue) : task'.queue[i].dev = d
      <4>1. d \in 1 .. Len(SpiMode)
        BY <1>1, <1>2, <1>3 DEF SpiTyped
      <4>2. CASE d = 1
        BY <3>4, <4>2
      <4>3. CASE d # 1
        <5>1. d - 1 \in 1 .. Len(task'.queue) /\ (d - 1) + 1 = d
          BY <1>2, <3>1, <4>1, <4>3
        <5> QED
          BY <3>4, <5>1
      <4> QED
        BY <4>2, <4>3
    <3> QED
      BY <3>1, <3>4, <3>5 DEF Warned
  <2> QED
    BY <2>1, <2>2
<1> QED
  BY <1>5, <1>6, <1>7 DEF SpiInv

LEMMA SpiStep ==
    ASSUME SpiInv, [SpiNext]_SpiAll
    PROVE  SpiInv'
<1>1. SpiTyped /\ Transferring /\ Warned
  BY DEF SpiInv
<1>2. CASE Command /\ \E d \in SpiDevice : SpiSetBus(d)
  <2>1. task = Idle /\ ~shutdown /\ UNCHANGED <<shutdown, task, wire, slave>>
    BY <1>2 DEF Command, AnyCommand, SpiSetBus
  <2>2. ready' \subseteq SpiDevice
    BY <1>1, <1>2 DEF SpiSetBus, SpiTyped
  <2>3. Transferring' /\ Warned'
    BY <1>1, <2>1 DEF Transferring, Warned
  <2> QED
    BY <1>1, <2>1, <2>2, <2>3 DEF SpiInv, SpiTyped
<1>3. CASE Command /\ \E d \in SpiDevice : \E data \in SpiMessages : SpiTransfer(d, data)
  <2>1. PICK d \in SpiDevice, data \in SpiMessages : SpiTransfer(d, data)
    BY <1>3
  <2>2. task = Idle /\ ~shutdown /\ UNCHANGED shutdown
    BY <1>3, <2>1 DEF Command, AnyCommand, SpiTransfer
  <2> QED
    BY <2>1, <2>2, SpiTransferPreserves
<1>4. CASE ClearShutdown /\ UNCHANGED <<task, spiVars>>
  <2>1. shutdown' = FALSE /\ UNCHANGED <<task, ready, wire, slave>>
    BY <1>4 DEF ClearShutdown, spiVars
  <2>2. SpiTyped'
    BY <1>1, <2>1 DEF SpiTyped
  <2>3. Transferring'
    <3>1. task' = task /\ wire' = wire /\ slave' = slave
      BY <2>1
    <3> QED
      BY <1>1, <3>1 DEF Transferring, AtStage, Heard, PHASE
  <2>4. Warned'
    BY <2>1 DEF Warned
  <2> QED
    BY <2>2, <2>3, <2>4 DEF SpiInv
<1>5. CASE UNCHANGED SpiAll
  <2>1. UNCHANGED <<shutdown, task, ready, wire, slave>>
    BY <1>5 DEF SpiAll, spiVars
  <2>2. SpiTyped'
    BY <1>1, <2>1 DEF SpiTyped
  <2>3. Transferring'
    BY <1>1, <2>1 DEF Transferring, AtStage, Heard, PHASE
  <2>4. Warned'
    BY <1>1, <2>1 DEF Warned
  <2> QED
    BY <2>2, <2>3, <2>4 DEF SpiInv
<1> QED
  BY <1>2, <1>3, <1>4, <1>5, NoBusPreserves, PreparePreserves, SelectPreserves,
     FirstHalfPreserves, SecondHalfPreserves, ReleasePreserves, SpiShutdownPreserves
     DEF SpiNext

LEMMA SpiSoundFromInv ==
    ASSUME SpiInv
    PROVE  SpiSound
<1>1. SpiTyped /\ Transferring /\ Warned
  BY DEF SpiInv
<1>2. ASSUME task.at = "release"
      PROVE  /\ slave[task.dev].got = task.data
             /\ task.got = SubSeq(Answer, 1, Len(task.data))
  <2>1. task # Idle
    BY <1>2, InStage DEF Stages
  <2> DEFINE g == slave[task.dev].got
             m == task.data
             a == task.got
  <2>2. /\ g \in Seq({0, 1}) /\ m \in Seq({0, 1}) /\ a \in Seq({0, 1})
        /\ Len(m) <= Len(Answer) /\ Len(m) \in Nat
    BY <1>1, <2>1, Active DEF SpiTyped, Bits
  <2>3. /\ Len(a) = Len(m) /\ \A i \in 1 .. Len(m) : a[i] = Answer[i]
        /\ Len(g) = Len(m) /\ \A i \in 1 .. Len(m) : g[i] = m[i]
    BY <1>1, <1>2, <2>1 DEF Transferring, AtStage, Heard
  <2> HIDE DEF g, m, a
  <2>4. g = m
    BY <2>2, <2>3, SeqEqual
  <2>5. Answer \in Seq({0, 1}) /\ Len(Answer) \in Nat
    BY SpiFacts DEF Bits
  <2> DEFINE s == SubSeq(Answer, 1, Len(m))
  <2>6. s \in Seq({0, 1}) /\ Len(s) = Len(m) /\ \A i \in 1 .. Len(m) : s[i] = Answer[i]
    BY <2>2, <2>5
  <2> HIDE DEF s
  <2>7. a = s
    BY <2>2, <2>3, <2>6, SeqEqual
  <2> QED
    BY <2>4, <2>7 DEF g, m, a, s
<1>3. ShutdownHeard
  BY <1>1 DEF Warned, ShutdownHeard
<1> QED
  BY <1>2, <1>3 DEF SpiSound, TransferExact

(* Every transfer gives its device the message and gets its answer bit for  *)
(* bit, in each of the four modes, whatever mode the transfer before it had *)
(* and wherever a shutdown cut one off; and once spidev_shutdown is through *)
(* every device with a bus has got its shutdown message.                    *)
THEOREM TransfersAreExact == SpiSpec => []SpiSound
<1>1. BoardInit /\ SpiInit => SpiInv
  BY SpiStarts DEF BoardInit
<1>2. SpiInv /\ [SpiNext]_SpiAll => SpiInv'
  BY SpiStep
<1> QED
  BY <1>1, <1>2, SpiSoundFromInv, PTL DEF SpiSpec

-------------------------------------------------------------------------------
(***************************************************************************)
(* The pollers.  A poll has counted all pulses, or all but one that came   *)
(* after it; what the task tells was true of the pulses of its time, and new *)
(* ones are later.                                                         *)
(***************************************************************************)
CounterFields == {"on", "time", "count", "last_count_time", "next_sample_time",
                  "pending", "queried"}
PollersTyped ==
    /\ now \in Nat /\ IsFiniteSet(pulses) /\ pulses \subseteq 0 .. now
    /\ DOMAIN counter = CounterFields
    /\ counter.on \in BOOLEAN /\ counter.pending \in BOOLEAN
    /\ counter.queried \in BOOLEAN
    /\ counter.time \in Nat /\ counter.count \in Nat
    /\ counter.last_count_time \in Nat /\ counter.next_sample_time \in Nat
    /\ DOMAIN thermo = {"time", "pending", "invalid_count"}
    /\ thermo.time \in Nat \cup {Off} /\ thermo.pending \in BOOLEAN
    /\ thermo.invalid_count \in Nat /\ bad \in Nat

(* Of the pulses P, a poll due at `poll` or one before it has counted       *)
(* `count`, the last of them at `clock`; the rest came after it.            *)
Sees(P, count, poll, clock) ==
    \E s \in SUBSET P :
        /\ count = Cardinality(s)
        /\ \A t \in s : t <= poll + MaxLate /\ t - MaxLate <= clock
        /\ \A t \in P \ s : poll <= t

LastPoll == counter.time - PollTicks
Counted ==
    /\ Sees(pulses, counter.count, LastPoll, counter.last_count_time)
    /\ Cardinality(pulses) \in {counter.count, counter.count + 1}
    /\ counter.on => LastPoll <= now /\ now <= counter.time + MaxLate
    /\ counter.last_count_time <= counter.time
    /\ counter.pending => counter.last_count_time <= LastPoll
    /\ ~counter.queried =>
           /\ pulses = {} /\ ~counter.on /\ ~counter.pending
           /\ counter.count = 0 /\ counter.last_count_time = 0

Telling ==
    task.at = "tell" =>
        LET poll == task.next_clock - PollTicks
        IN /\ task.next_clock \in Nat /\ task.count_clock \in Nat
           /\ Sees(pulses, task.count, poll, task.count_clock)
           /\ task.count_clock <= poll
           /\ counter.on => poll <= now

(* What the host asked for bounds the bad results, not the firmware's count.*)
FaultsCounted == bad <= thermo.invalid_count /\ bad < MaxInvalid

PollersInv == PollersTyped /\ Counted /\ Telling /\ FaultsCounted

LEMMA PollersFacts ==
    /\ PollTicks \in Nat \ {0} /\ SampleEvery \in Nat \ {0} /\ ThermoRest \in Nat \ {0}
    /\ MaxInvalid \in Nat \ {0} /\ MaxLate \in Nat /\ Off \notin Int
BY PollersAssumption, BoardAssumption

(* A later pulse, or a later look.                                          *)
LEMMA SeesMore ==
    ASSUME NEW P \in SUBSET Nat, NEW count, NEW poll \in Int, NEW clock,
           NEW x \in Nat, poll <= x, Sees(P, count, poll, clock)
    PROVE  Sees(P \cup {x}, count, poll, clock)
<1>1. PICK s \in SUBSET P :
        /\ count = Cardinality(s)
        /\ \A t \in s : t <= poll + MaxLate /\ t - MaxLate <= clock
        /\ \A t \in P \ s : poll <= t
  BY DEF Sees
<1>2. s \in SUBSET (P \cup {x}) /\ \A t \in (P \cup {x}) \ s : poll <= t
  BY <1>1
<1> QED
  BY <1>1, <1>2 DEF Sees

LEMMA SeesAll ==
    ASSUME NEW P, NEW poll \in Int, NEW clock \in Int,
           \A t \in P : t <= poll + MaxLate /\ t - MaxLate <= clock
    PROVE  Sees(P, Cardinality(P), poll, clock)
BY DEF Sees

(* A poll has seen them all, or all but pulses that came after it.          *)
LEMMA SeenOrLater ==
    ASSUME NEW P, IsFiniteSet(P), NEW count, NEW poll, NEW clock,
           Sees(P, count, poll, clock), Cardinality(P) \in {count, count + 1}
    PROVE  /\ count = Cardinality(P) =>
                  \A t \in P : t <= poll + MaxLate /\ t - MaxLate <= clock
           /\ count # Cardinality(P) => \E t \in P : poll <= t
           /\ count \in Nat /\ Cardinality(P) \in Nat
<1>1. PICK s \in SUBSET P :
        /\ count = Cardinality(s)
        /\ \A t \in s : t <= poll + MaxLate /\ t - MaxLate <= clock
        /\ \A t \in P \ s : poll <= t
  BY DEF Sees
<1>2. /\ IsFiniteSet(s) /\ Cardinality(s) <= Cardinality(P)
      /\ Cardinality(P) = Cardinality(s) => P = s
  BY FS_Subset
<1>3. Cardinality(P) \in Nat /\ Cardinality(s) \in Nat
  BY <1>2, FS_CardinalityType
<1>4. count # Cardinality(P) => P \ s # {}
  BY <1>1, <1>2
<1> QED
  BY <1>1, <1>2, <1>3, <1>4

LEMMA Parity ==
    ASSUME NEW a \in Nat, NEW b \in Nat, b \in {a, a + 1}
    PROVE  (a % 2 # b % 2) <=> b = a + 1
<1>1. (a + 1) % 2 # a % 2
  OBVIOUS
<1> QED
  BY <1>1

LEMMA PollersStarts ==
    ASSUME PollersInit, task = Idle, now = 0
    PROVE  PollersInv
<1> USE PollersFacts DEF PollersInit
<1>1. IsFiniteSet({}) /\ Cardinality({}) = 0
  BY FS_EmptySet
<1>2. PollersTyped
  BY <1>1 DEF PollersTyped, CounterFields
<1>3. Counted
  <2>1. LastPoll \in Int
    BY DEF LastPoll
  <2>2. Sees(pulses, 0, LastPoll, 0)
    BY <1>1, <2>1, SeesAll
  <2> QED
    BY <1>1, <2>2 DEF Counted
<1>4. Telling
  BY DEF Telling, Idle
<1>5. FaultsCounted
  BY DEF FaultsCounted
<1> QED
  BY <1>2, <1>3, <1>4, <1>5 DEF PollersInv

LEMMA PollersTickPreserves ==
    ASSUME PollersInv, PollersTick
    PROVE  PollersInv'
<1> USE PollersFacts
<1>1. PollersTyped /\ Counted /\ Telling /\ FaultsCounted
  BY DEF PollersInv
<1>2. /\ now' = now + 1 /\ UNCHANGED <<counter, pulses, thermo, bad, task>>
      /\ \A v \in {CounterTime, thermo.time} : v # Off => now - v < MaxLate
  BY DEF PollersTick, Tick, PollTimes, pollerVars
<1>3. PollersTyped'
  BY <1>1, <1>2 DEF PollersTyped
<1>4. counter.on => now' <= counter.time + MaxLate
  <2>1. SUFFICES ASSUME counter.on PROVE now' <= counter.time + MaxLate
    OBVIOUS
  <2>2. CounterTime = counter.time /\ counter.time \in Nat /\ now \in Nat
    BY <1>1, <2>1 DEF CounterTime, PollersTyped
  <2> QED
    BY <1>2, <2>2
<1>5. Counted'
  <2>1. counter.on => LastPoll <= now'
    <3>1. now \in Nat /\ LastPoll \in Int
      BY <1>1 DEF PollersTyped, LastPoll
    <3> QED
      BY <1>1, <1>2, <3>1 DEF Counted
  <2>2. LastPoll' = LastPoll
    BY <1>2 DEF LastPoll
  <2> QED
    BY <1>1, <1>2, <1>4, <2>1, <2>2 DEF Counted
<1>6. Telling'
  <2>1. CASE task.at = "tell"
    <3>1. task.next_clock \in Nat /\ now \in Nat
      BY <1>1, <2>1 DEF Telling, PollersTyped
    <3>2. counter.on => task.next_clock - PollTicks <= now'
      BY <1>1, <1>2, <2>1, <3>1 DEF Telling
    <3> QED
      BY <1>1, <1>2, <2>1, <3>2 DEF Telling
  <2>2. CASE task.at # "tell"
    BY <1>2, <2>2 DEF Telling
  <2> QED
    BY <2>1, <2>2
<1> QED
  BY <1>1, <1>2, <1>3, <1>5, <1>6 DEF PollersInv, FaultsCounted

LEMMA PinChangesPreserves ==
    ASSUME PollersInv, PinChanges
    PROVE  PollersInv'
<1> USE PollersFacts
<1>1. PollersTyped /\ Counted /\ Telling /\ FaultsCounted
  BY DEF PollersInv
<1>2. /\ counter.on /\ \A t \in pulses : now - t > PollTicks + MaxLate
      /\ pulses' = pulses \cup {now} /\ UNCHANGED <<counter, thermo, bad, task, now>>
  BY DEF PinChanges
<1>3. /\ counter.time \in Nat /\ LastPoll \in Int /\ LastPoll <= now
      /\ now <= counter.time + MaxLate /\ now \in Nat /\ pulses \in SUBSET Nat
      /\ IsFiniteSet(pulses) /\ LastPoll = counter.time - PollTicks
  BY <1>1, <1>2 DEF PollersTyped, Counted, LastPoll
<1>4. counter.count = Cardinality(pulses) /\ counter.count \in Nat
  <2>1. /\ counter.count # Cardinality(pulses) => \E t \in pulses : LastPoll <= t
        /\ counter.count \in Nat
    <3>1. /\ Sees(pulses, counter.count, LastPoll, counter.last_count_time)
          /\ Cardinality(pulses) \in {counter.count, counter.count + 1}
      BY <1>1 DEF Counted
    <3>2. IsFiniteSet(pulses)
      BY <1>3
    <3> QED
      BY ONLY <3>1, <3>2, SeenOrLater
  <2>2. ASSUME NEW t \in pulses, LastPoll <= t PROVE FALSE
    <3>1. now - t > PollTicks + MaxLate /\ t \in Nat
      BY <1>2, <1>3
    <3> QED
      BY <1>3, <2>2, <3>1
  <2> QED
    BY <2>1, <2>2
<1>5. now \notin pulses
  <2>1. ~(now - now > PollTicks + MaxLate)
    BY <1>3
  <2> QED
    BY <1>2, <2>1
<1>6. IsFiniteSet(pulses') /\ Cardinality(pulses') = counter.count + 1
  <2>1. IsFiniteSet(pulses)
    BY <1>3
  <2>2. /\ IsFiniteSet(pulses \cup {now})
        /\ Cardinality(pulses \cup {now}) = Cardinality(pulses) + 1
    BY ONLY <1>5, <2>1, FS_AddElement
  <2> QED
    BY <1>2, <1>4, <2>2
<1>7. PollersTyped'
  <2>1. now \in 0 .. now
    BY <1>3
  <2>2. pulses' \subseteq 0 .. now
    BY <1>1, <1>2, <2>1 DEF PollersTyped
  <2> QED
    BY <1>1, <1>2, <1>6, <2>2 DEF PollersTyped
<1>8. LastPoll' = LastPoll
  BY <1>2 DEF LastPoll
<1>9. counter.queried
  BY <1>1, <1>2 DEF Counted
<1>10. Sees(pulses', counter.count, LastPoll, counter.last_count_time)
  BY <1>1, <1>2, <1>3, SeesMore DEF Counted
<1>11. Counted'
  BY <1>1, <1>2, <1>3, <1>6, <1>8, <1>9, <1>10 DEF Counted
<1>12. Telling'
  <2>1. CASE task.at = "tell"
    <3> DEFINE poll == task.next_clock - PollTicks
    <3>1. poll \in Int /\ poll <= now /\ Sees(pulses, task.count, poll, task.count_clock)
      BY <1>1, <1>2, <2>1 DEF Telling
    <3> HIDE DEF poll
    <3>2. Sees(pulses', task.count, poll, task.count_clock)
      BY <1>2, <1>3, <3>1, SeesMore
    <3> QED
      BY <1>1, <1>2, <2>1, <3>2 DEF Telling, poll
  <2>2. CASE task.at # "tell"
    BY <1>2, <2>2 DEF Telling
  <2> QED
    BY <2>1, <2>2
<1> QED
  BY <1>1, <1>2, <1>7, <1>11, <1>12 DEF PollersInv, FaultsCounted

LEMMA CounterEventPreserves ==
    ASSUME PollersInv, CounterEvent
    PROVE  PollersInv'
<1> USE PollersFacts
<1> DEFINE differs == counter.count % 2 # Level
           due == counter.next_sample_time < counter.time
           n == counter.count + (IF differs THEN 1 ELSE 0)
           last == IF differs THEN counter.time ELSE counter.last_count_time
           sample == IF due THEN counter.time + SampleEvery ELSE counter.next_sample_time
           T == counter.time
<1>1. PollersTyped /\ Counted /\ Telling /\ FaultsCounted
  BY DEF PollersInv
<1>2. /\ counter' = [counter EXCEPT !.count = n, !.last_count_time = last,
                                    !.pending = counter.pending \/ due,
                                    !.next_sample_time = sample,
                                    !.time = T + PollTicks]
      /\ UNCHANGED <<pulses, thermo, bad, task, now>>
  BY DEF CounterEvent
<1>3. counter.on /\ T <= now
  BY DEF CounterEvent, Runs, CounterTime
<1>4. /\ T \in Nat /\ now \in Nat /\ now <= T + MaxLate
      /\ pulses \subseteq 0 .. now /\ IsFiniteSet(pulses)
      /\ counter.last_count_time \in Nat /\ counter.last_count_time <= T
      /\ counter.next_sample_time \in Nat
  BY <1>1, <1>3 DEF PollersTyped, Counted
<1>5. /\ counter.count \in Nat /\ Cardinality(pulses) \in Nat
      /\ Cardinality(pulses) \in {counter.count, counter.count + 1}
      /\ counter.count = Cardinality(pulses) =>
             \A t \in pulses : t - MaxLate <= counter.last_count_time
  BY <1>1, <1>4, SeenOrLater DEF Counted
<1>6. differs <=> Cardinality(pulses) = counter.count + 1
  BY <1>5, Parity DEF Level
<1>7. n = Cardinality(pulses)
  BY <1>5, <1>6
<1>8. \A t \in pulses : t - MaxLate <= last
  <2>1. CASE differs
    BY <1>4, <2>1
  <2>2. CASE ~differs
    BY <1>5, <1>6, <2>2
  <2> QED
    BY <2>1, <2>2
<1>9. last \in Nat /\ last <= T /\ sample \in Nat
  BY <1>4
<1> HIDE DEF differs, n, last, sample, T
<1>10. /\ DOMAIN counter' = CounterFields
       /\ counter'.count = n /\ counter'.last_count_time = last
       /\ counter'.time = T + PollTicks /\ counter'.next_sample_time = sample
       /\ counter'.on = counter.on /\ counter'.queried = counter.queried
       /\ counter'.pending = (counter.pending \/ due)
  BY <1>1, <1>2 DEF PollersTyped, CounterFields
<1>11. (counter.pending \/ due) \in BOOLEAN
  BY <1>1 DEF PollersTyped
<1>12. PollersTyped'
  <2>1. n \in Nat /\ T + PollTicks \in Nat
    BY <1>4, <1>5, <1>7
  <2> QED
    BY <1>1, <1>2, <1>9, <1>10, <1>11, <2>1 DEF PollersTyped
<1>13. Counted'
  <2>1. LastPoll' = T
    BY <1>4, <1>10 DEF LastPoll
  <2>2. \A t \in pulses : t <= T + MaxLate /\ t - MaxLate <= last
    BY <1>4, <1>8
  <2>3. Sees(pulses, Cardinality(pulses), T, last)
    <3>1. T \in Int /\ last \in Int
      BY <1>4, <1>9 DEF T
    <3> QED
      BY <2>2, <3>1, SeesAll
  <2>4. T <= now /\ now <= (T + PollTicks) + MaxLate /\ last <= T + PollTicks
    BY <1>3, <1>4, <1>9 DEF T
  <2>5. counter.queried
    BY <1>1, <1>3 DEF Counted
  <2> QED
    BY <1>2, <1>7, <1>9, <1>10, <2>1, <2>3, <2>4, <2>5 DEF Counted
<1>14. Telling'
  BY <1>1, <1>2, <1>10 DEF Telling
<1> QED
  BY <1>1, <1>2, <1>12, <1>13, <1>14 DEF PollersInv, FaultsCounted

(* Steps of the tasks and commands that leave the counter's tally alone.    *)
LEMMA CounterKept ==
    ASSUME PollersTyped, Counted, UNCHANGED <<pulses, now>>,
           counter'.count = counter.count, counter'.time = counter.time,
           counter'.last_count_time = counter.last_count_time,
           counter'.queried = counter.queried,
           counter'.on => counter.on, counter'.pending => counter.pending
    PROVE  Counted'
<1>1. LastPoll' = LastPoll
  BY DEF LastPoll
<1> QED
  BY <1>1 DEF Counted

LEMMA QueryCounterPreserves ==
    ASSUME PollersInv, task = Idle, QueryCounter
    PROVE  PollersInv'
<1> USE PollersFacts
<1>1. PollersTyped /\ Counted /\ Telling /\ FaultsCounted
  BY DEF PollersInv
<1>2. /\ ~counter.queried
      /\ counter' = [counter EXCEPT !.time = now + 1, !.next_sample_time = now + 1,
                                    !.queried = TRUE, !.on = TRUE]
      /\ UNCHANGED <<pulses, thermo, bad, task, now>>
  BY DEF QueryCounter
<1>3. pulses = {} /\ ~counter.pending /\ counter.count = 0 /\ counter.last_count_time = 0
  BY <1>1, <1>2 DEF Counted
<1>4. /\ DOMAIN counter' = CounterFields
      /\ counter'.count = 0 /\ counter'.last_count_time = 0
      /\ counter'.time = now + 1 /\ counter'.next_sample_time = now + 1
      /\ counter'.on = TRUE /\ counter'.queried = TRUE
      /\ counter'.pending = counter.pending
  BY <1>1, <1>2, <1>3 DEF PollersTyped, CounterFields
<1>5. now \in Nat /\ now + 1 \in Nat
  BY <1>1 DEF PollersTyped
<1>6. PollersTyped'
  BY <1>1, <1>2, <1>4, <1>5 DEF PollersTyped
<1>7. Counted'
  <2>1. Cardinality(pulses) = 0
    BY <1>3, FS_EmptySet
  <2>2. LastPoll' = (now + 1) - PollTicks
    BY <1>4 DEF LastPoll
  <2>3. Sees(pulses, 0, (now + 1) - PollTicks, 0)
    BY <1>3, <1>5, <2>1, SeesAll
  <2>4. (now + 1) - PollTicks <= now /\ now <= (now + 1) + MaxLate /\ 0 <= now + 1
    BY <1>5
  <2>5. pulses' = pulses /\ now' = now
    BY <1>2
  <2> QED
    BY <1>3, <1>4, <2>1, <2>2, <2>3, <2>4, <2>5 DEF Counted
<1>8. Telling'
  BY <1>2 DEF Telling, Idle
<1> QED
  BY <1>1, <1>2, <1>6, <1>7, <1>8 DEF PollersInv, FaultsCounted

LEMMA TakeCountPreserves ==
    ASSUME PollersInv, TakeCount
    PROVE  PollersInv'
<1> USE PollersFacts
<1>1. PollersTyped /\ Counted /\ Telling /\ FaultsCounted
  BY DEF PollersInv
<1>2. /\ counter.pending /\ counter' = [counter EXCEPT !.pending = FALSE]
      /\ task' = [at |-> "tell", next_clock |-> counter.time,
                  count |-> counter.count, count_clock |-> counter.last_count_time]
      /\ UNCHANGED <<pulses, thermo, bad, now>>
  BY DEF TakeCount, NextClock
<1>3. /\ DOMAIN counter' = CounterFields /\ counter'.pending = FALSE
      /\ counter'.count = counter.count /\ counter'.time = counter.time
      /\ counter'.last_count_time = counter.last_count_time
      /\ counter'.next_sample_time = counter.next_sample_time
      /\ counter'.on = counter.on /\ counter'.queried = counter.queried
  BY <1>1, <1>2 DEF PollersTyped, CounterFields
<1>4. PollersTyped'
  BY <1>1, <1>2, <1>3 DEF PollersTyped
<1>5. Counted'
  BY <1>1, <1>2, <1>3, CounterKept
<1>6. /\ task'.next_clock = counter.time /\ task'.count = counter.count
      /\ task'.count_clock = counter.last_count_time
  BY <1>2
<1>7. Telling'
  <2>1. counter.time - PollTicks = LastPoll
    BY DEF LastPoll
  <2>2. /\ counter.time \in Nat /\ counter.last_count_time \in Nat
        /\ Sees(pulses, counter.count, LastPoll, counter.last_count_time)
        /\ counter.last_count_time <= LastPoll
        /\ counter.on => LastPoll <= now
    BY <1>1, <1>2 DEF PollersTyped, Counted
  <2>3. pulses' = pulses /\ now' = now
    BY <1>2
  <2> QED
    BY <1>3, <1>6, <2>1, <2>2, <2>3 DEF Telling
<1> QED
  BY <1>1, <1>2, <1>4, <1>5, <1>7 DEF PollersInv, FaultsCounted

LEMMA ThermoRespondPreserves ==
    ASSUME PollersInv, ThermoRespond
    PROVE  PollersInv'
<1> USE PollersFacts
<1>1. PollersTyped /\ Counted /\ Telling /\ FaultsCounted
  BY DEF PollersInv
<1>2. PICK isBad \in BOOLEAN :
        LET count == IF isBad THEN thermo.invalid_count + 1 ELSE 0
            stop == isBad /\ count >= MaxInvalid
            stops == stop /\ ~shutdown
        IN /\ task' = Idle
           /\ thermo' = [thermo EXCEPT
                  !.invalid_count = IF stop /\ ~stops THEN 0 ELSE count,
                  !.time = IF stops THEN Off ELSE thermo.time]
           /\ counter' = [counter EXCEPT !.on = counter.on /\ ~stops]
           /\ bad' = IF isBad /\ ~stop THEN bad + 1 ELSE 0
           /\ UNCHANGED <<now, pulses>>
  BY DEF ThermoRespond
<1> DEFINE count == IF isBad THEN thermo.invalid_count + 1 ELSE 0
           stop == isBad /\ count >= MaxInvalid
           stops == stop /\ ~shutdown
<1>3. /\ task' = Idle
      /\ thermo' = [thermo EXCEPT
             !.invalid_count = IF stop /\ ~stops THEN 0 ELSE count,
             !.time = IF stops THEN Off ELSE thermo.time]
      /\ counter' = [counter EXCEPT !.on = counter.on /\ ~stops]
      /\ bad' = IF isBad /\ ~stop THEN bad + 1 ELSE 0
      /\ now' = now /\ pulses' = pulses
  BY <1>2
<1>4. count \in Nat /\ thermo.invalid_count \in Nat /\ bad \in Nat
  BY <1>1 DEF PollersTyped
<1>5. isBad /\ ~stop => bad + 1 <= count /\ bad + 1 < MaxInvalid
  BY <1>1, <1>4 DEF FaultsCounted
<1> HIDE DEF count, stop, stops
<1>6. /\ DOMAIN counter' = CounterFields /\ counter'.pending = counter.pending
      /\ counter'.count = counter.count /\ counter'.time = counter.time
      /\ counter'.last_count_time = counter.last_count_time
      /\ counter'.next_sample_time = counter.next_sample_time
      /\ counter'.on = (counter.on /\ ~stops) /\ counter'.queried = counter.queried
  BY <1>1, <1>3 DEF PollersTyped, CounterFields
<1>7. counter'.on \in BOOLEAN /\ (counter'.on => counter.on)
  BY <1>6
<1>8. /\ DOMAIN thermo' = {"time", "pending", "invalid_count"}
      /\ thermo'.pending = thermo.pending
      /\ thermo'.invalid_count = IF stop /\ ~stops THEN 0 ELSE count
      /\ thermo'.time \in {Off, thermo.time}
  BY <1>1, <1>3 DEF PollersTyped
<1>9. bad' \in Nat
  BY <1>3, <1>4
<1>10. thermo'.invalid_count \in Nat /\ thermo'.time \in Nat \cup {Off}
  <2>1. thermo.time \in Nat \cup {Off}
    BY <1>1 DEF PollersTyped
  <2> QED
    BY <1>4, <1>8, <2>1
<1>11. PollersTyped'
  BY <1>1, <1>3, <1>6, <1>7, <1>8, <1>9, <1>10 DEF PollersTyped
<1>12. Counted'
  BY <1>1, <1>3, <1>6, <1>7, CounterKept
<1>13. FaultsCounted'
  <2>1. CASE isBad /\ ~stop
    BY <1>3, <1>4, <1>5, <1>8, <2>1 DEF FaultsCounted
  <2>2. CASE ~(isBad /\ ~stop)
    <3>1. bad' = 0
      BY <1>3, <2>2
    <3> QED
      BY <1>10, <3>1 DEF FaultsCounted
  <2> QED
    BY <2>1, <2>2
<1>14. Telling'
  BY <1>3 DEF Telling, Idle
<1> QED
  BY <1>11, <1>12, <1>13, <1>14 DEF PollersInv

(* The steps that leave the counter and its pulses alone.                   *)
LEMMA OthersPreserve ==
    ASSUME PollersInv, UNCHANGED <<counter, pulses, now>>,
           task'.at = "tell" => task' = task,
           \/ thermo' = thermo /\ bad' = bad
           \/ /\ DOMAIN thermo' = {"time", "pending", "invalid_count"}
              /\ thermo'.time \in Nat \cup {Off} /\ thermo'.pending \in BOOLEAN
              /\ \/ thermo'.invalid_count = thermo.invalid_count /\ bad' = bad
                 \/ thermo'.invalid_count = 0 /\ bad' = 0
    PROVE  PollersInv'
<1>1. PollersTyped /\ Counted /\ Telling /\ FaultsCounted
  BY DEF PollersInv
<1>2. PollersTyped'
  BY <1>1 DEF PollersTyped
<1>3. Counted'
  BY <1>1, CounterKept
<1>4. Telling'
  BY <1>1 DEF Telling
<1>5. FaultsCounted'
  BY <1>1, PollersFacts DEF FaultsCounted
<1> QED
  BY <1>2, <1>3, <1>4, <1>5 DEF PollersInv

LEMMA PollersStep ==
    ASSUME PollersInv, [PollersNext]_PollersAll
    PROVE  PollersInv'
<1>1. PollersTyped /\ Telling
  BY DEF PollersInv
<1>2. CASE Command /\ QueryCounter
  BY <1>2, QueryCounterPreserves DEF Command, AnyCommand
<1>3. CASE Command /\ QueryThermo
  <2>1. now + 1 \in Nat
    BY <1>1 DEF PollersTyped
  <2>2. /\ thermo' = [thermo EXCEPT !.time = now + 1, !.invalid_count = 0] /\ bad' = 0
        /\ UNCHANGED <<counter, pulses, now, task>>
    BY <1>3 DEF QueryThermo
  <2>3. /\ DOMAIN thermo' = {"time", "pending", "invalid_count"}
        /\ thermo'.time = now + 1 /\ thermo'.pending = thermo.pending
        /\ thermo'.invalid_count = 0
    BY <1>1, <2>2 DEF PollersTyped
  <2>4. thermo.pending \in BOOLEAN
    BY <1>1 DEF PollersTyped
  <2> QED
    BY <2>1, <2>2, <2>3, <2>4, OthersPreserve
<1>4. CASE Command /\ EndThermo
  <2>1. /\ thermo' = [thermo EXCEPT !.time = Off]
        /\ UNCHANGED <<counter, pulses, now, task, bad>>
    BY <1>4 DEF EndThermo
  <2>2. /\ DOMAIN thermo' = {"time", "pending", "invalid_count"}
        /\ thermo'.time = Off /\ thermo'.pending = thermo.pending
        /\ thermo'.invalid_count = thermo.invalid_count
    BY <1>1, <2>1 DEF PollersTyped
  <2>3. thermo.pending \in BOOLEAN
    BY <1>1 DEF PollersTyped
  <2> QED
    BY <2>1, <2>2, <2>3, OthersPreserve
<1>5. CASE UNCHANGED <<now, task, pollerVars>>
  BY <1>5, OthersPreserve DEF pollerVars
<1>6. CASE ThermoEvent
  <2>1. /\ thermo' = [thermo EXCEPT !.pending = TRUE, !.time = thermo.time + ThermoRest]
        /\ thermo.time # Off /\ UNCHANGED <<counter, pulses, now, task, bad>>
    BY <1>6 DEF ThermoEvent, Runs
  <2>2. thermo.time + ThermoRest \in Nat
    BY <1>1, <2>1, PollersFacts DEF PollersTyped
  <2>3. /\ DOMAIN thermo' = {"time", "pending", "invalid_count"}
        /\ thermo'.time = thermo.time + ThermoRest /\ thermo'.pending = TRUE
        /\ thermo'.invalid_count = thermo.invalid_count
    BY <1>1, <2>1 DEF PollersTyped
  <2> QED
    BY <2>1, <2>2, <2>3, OthersPreserve
<1>7. CASE PollersTask
  <2>1. UNCHANGED <<counter, pulses, now, thermo, bad>>
    BY <1>7 DEF PollersTask, pollerVars
  <2>2. task'.at # "tell"
    BY <1>7 DEF PollersTask, Idle
  <2> QED
    BY <2>1, <2>2, OthersPreserve
<1>8. CASE TellCount
  <2>1. UNCHANGED <<counter, pulses, now, thermo, bad>>
    BY <1>8 DEF TellCount, pollerVars
  <2>2. task'.at # "tell"
    BY <1>8 DEF TellCount, Idle
  <2> QED
    BY <2>1, <2>2, OthersPreserve
<1>9. CASE TakeThermo
  <2>1. /\ thermo' = [thermo EXCEPT !.pending = FALSE] /\ task' = [at |-> "respond"]
        /\ UNCHANGED <<counter, pulses, now, bad>>
    BY <1>9 DEF TakeThermo
  <2>2. /\ DOMAIN thermo' = {"time", "pending", "invalid_count"}
        /\ thermo'.time = thermo.time /\ thermo'.pending = FALSE
        /\ thermo'.invalid_count = thermo.invalid_count
    BY <1>1, <2>1 DEF PollersTyped
  <2>3. task'.at # "tell" /\ thermo.time \in Nat \cup {Off}
    BY <1>1, <2>1 DEF PollersTyped
  <2> QED
    BY <2>1, <2>2, <2>3, OthersPreserve
<1> QED
  BY <1>2, <1>3, <1>4, <1>5, <1>6, <1>7, <1>8, <1>9, PollersTickPreserves,
     PinChangesPreserves, CounterEventPreserves, TakeCountPreserves,
     ThermoRespondPreserves DEF PollersNext, PollersAll

LEMMA PollersSoundFromInv ==
    ASSUME PollersInv
    PROVE  PollersSound
<1> USE PollersFacts
<1>1. PollersTyped /\ Counted /\ Telling /\ FaultsCounted
  BY DEF PollersInv
<1>2. FaultsStop
  BY <1>1 DEF FaultsStop, FaultsCounted
<1>3. ASSUME task.at = "tell"
      PROVE  LET poll == task.next_clock - PollTicks
                 Seen(until) == {t \in pulses : t <= until}
             IN /\ Cardinality(Seen(poll - 1)) <= task.count
                /\ task.count <= Cardinality(Seen(poll + MaxLate))
                /\ task.count_clock <= poll
                /\ \A t \in Seen(poll - 1) : task.count_clock >= t - MaxLate
  <2> DEFINE poll == task.next_clock - PollTicks
             clock == task.count_clock
             Seen(until) == {t \in pulses : t <= until}
  <2>1. /\ poll \in Int /\ clock \in Nat /\ clock <= poll
        /\ Sees(pulses, task.count, poll, clock)
    BY <1>1, <1>3 DEF Telling
  <2> HIDE DEF poll, clock
  <2>2. PICK s \in SUBSET pulses :
          /\ task.count = Cardinality(s)
          /\ \A t \in s : t <= poll + MaxLate /\ t - MaxLate <= clock
          /\ \A t \in pulses \ s : poll <= t
    BY <2>1 DEF Sees
  <2>3. IsFiniteSet(pulses) /\ pulses \subseteq Nat
    BY <1>1 DEF PollersTyped
  <2>4. Seen(poll - 1) \subseteq s /\ s \subseteq Seen(poll + MaxLate)
    <3>1. ASSUME NEW t \in Seen(poll - 1) PROVE t \in s
      <4>1. t \in pulses /\ t \in Int /\ t <= poll - 1
        BY <2>3
      <4>2. ~(poll <= t)
        BY <2>1, <4>1
      <4> QED
        BY <2>2, <4>1, <4>2
    <3> QED
      BY <2>2, <3>1
  <2>5. Seen(poll + MaxLate) \subseteq pulses
    OBVIOUS
  <2> HIDE DEF Seen
  <2>6. IsFiniteSet(Seen(poll + MaxLate))
    BY <2>3, <2>5, FS_Subset
  <2>7. IsFiniteSet(s) /\ Cardinality(s) <= Cardinality(Seen(poll + MaxLate))
    BY <2>4, <2>6, FS_Subset
  <2>8. Cardinality(Seen(poll - 1)) <= Cardinality(s)
    BY <2>4, <2>7, FS_Subset
  <2>9. \A t \in Seen(poll - 1) : clock >= t - MaxLate
    <3>1. \A t \in s : t \in Int /\ t - MaxLate <= clock
      BY <2>2, <2>3
    <3> QED
      BY <2>1, <2>4, <3>1
  <2> QED
    BY <2>1, <2>2, <2>7, <2>8, <2>9 DEF poll, clock, Seen
<1> QED
  BY <1>2, <1>3 DEF PollersSound, CountTold

(* However late the timer interrupt and the task are: the host is told of   *)
(* every pulse before the poll it is told the time of and of none after the *)
(* poll was made, with the time at which the last was seen; and a reader    *)
(* fails as often in a row as the host allows only into a shutdown.         *)
THEOREM ReportsAreDated == PollersSpec => []PollersSound
<1>1. BoardInit /\ PollersInit => PollersInv
  BY PollersStarts DEF BoardInit
<1>2. PollersInv /\ [PollersNext]_PollersAll => PollersInv'
  BY PollersStep
<1> QED
  BY <1>1, <1>2, PollersSoundFromInv, PTL DEF PollersSpec
-------------------------------------------------------------------------------
(***************************************************************************)
(* The UART.  The edges sent so far are where the bits of the request      *)
(* change, each late by no more than the interrupt; what was read is what  *)
(* was heard from the first start bit on.                                  *)
(***************************************************************************)
Writing == {"send", "send_sync", "send_finish"}
UartFields == {"time", "func", "high", "active", "sync", "report", "pos", "reads",
               "writes", "bit", "data"}
TmcTyped ==
    /\ now \in Int /\ wake \in BOOLEAN
    /\ DOMAIN uart = UartFields
    /\ uart.time \in Int \cup {Off} /\ uart.func \in Writing \cup {"read_sync", "read"}
    /\ uart.high \in BOOLEAN /\ uart.active \in BOOLEAN /\ uart.sync \in BOOLEAN
    /\ uart.report \in BOOLEAN /\ uart.pos \in Nat /\ uart.reads \in Nat
    /\ uart.writes \in Nat /\ uart.bit \in Int /\ uart.data \in Seq({0, 1})
    /\ edges \in Seq(Int) /\ heard \in Seq({0, 1})
    /\ DOMAIN request = {"bits", "reads", "open"} /\ request.open \in BOOLEAN
    /\ request.open => request.bits \in Requests /\ request.reads \in Nat

(* When the request r, begun at s, is to have its edge before bit x, with   *)
(* the edges e sent so far and the measured bit.                            *)
Planned(r, s, e, bit, x) ==
    IF BeginsWithSync(r) /\ x > 4 THEN e[5] - (e[1] - s) + (x - 4) * bit
    ELSE s + x * CfgBitTime

(* The edges e come before the bits b of the request, and make its first n. *)
Drawn(r, s, e, bit, b, n) ==
    /\ \A i \in 1 .. Len(e) : /\ b[i] \in 0 .. (n - 1)
                              /\ e[i] - Planned(r, s, e, bit, b[i]) \in 0 .. MaxLate
    /\ \A i, j \in 1 .. Len(e) : i < j => b[i] < b[j]
    /\ e # <<>> => b[1] = 0
    /\ BeginsWithSync(r) =>
           /\ \A i \in 1 .. Len(e) : i <= 5 => b[i] = i - 1
           /\ n > 4 => Len(e) >= 5
    /\ \A k \in 0 .. (n - 1) : \E m \in 0 .. Len(e) :
           /\ r[k + 1] = (IF m % 2 = 0 THEN 1 ELSE 0)
           /\ \A i \in 1 .. Len(e) : i <= m <=> b[i] <= k

(* The next edge, or the end, comes before this bit.                        *)
NextBit == IF uart.func = "send_finish" THEN Len(request.bits) ELSE uart.pos
Sent ==
    request.open /\ uart.func \in Writing =>
        \E s \in Int, b \in [1 .. Len(edges) -> Nat] :
            /\ Drawn(request.bits, s, edges, uart.bit, b, NextBit)
            /\ uart.time # Off =>
                   uart.time = Planned(request.bits, s, edges, uart.bit, NextBit)
            /\ uart.func = "send_sync" /\ edges # <<>> => uart.bit = edges[1] - s
BitMeasured ==
    request.open /\ uart.func # "send_sync" =>
        IF BeginsWithSync(request.bits)
        THEN uart.bit = CfgBitTime + Quarter(edges[5] - edges[1] - 4 * CfgBitTime)
        ELSE uart.bit = CfgBitTime
Sending ==
    uart.active /\ uart.func \in Writing =>
        /\ heard = <<>> /\ ~uart.sync
        /\ uart.writes = Len(request.bits)
        /\ \A k \in 1 .. uart.writes : uart.data[k] = request.bits[k]
        /\ uart.high = (Len(edges) % 2 = 0)
        /\ uart.func # "send_finish" =>
               /\ uart.pos < uart.writes
               /\ request.bits[uart.pos + 1] # Driven(uart)
        /\ uart.func = "send" /\ BeginsWithSync(request.bits) => uart.pos >= 5
        /\ uart.func = "send_sync" =>
               /\ uart.pos = Len(edges) /\ uart.pos <= 4
               /\ BeginsWithSync(request.bits)
Reading ==
    /\ uart.active /\ uart.func = "read_sync" =>
           /\ uart.reads # 0 /\ uart.pos = Len(heard) /\ uart.pos <= SyncLimit
           /\ uart.sync <=> \E i \in 1 .. Len(heard) : heard[i] = 1
           /\ Starts(heard) = {}
    /\ uart.active /\ uart.func = "read" =>
           \E s \in Starts(heard) :
               /\ \A t \in Starts(heard) : s <= t
               /\ uart.pos = Len(heard) - s /\ uart.pos < uart.reads
               /\ Len(uart.data) >= uart.pos
               /\ \A j \in 1 .. uart.pos : uart.data[j] = heard[s + j]
Timed ==
    /\ uart.active <=> uart.time # Off
    /\ uart.active => /\ request.open /\ ~uart.report /\ uart.reads = request.reads
                      /\ now <= uart.time + MaxLate
    /\ ~uart.active => uart.high
    /\ uart.func # "send_sync" => uart.bit >= 0

TmcInv == TmcTyped /\ Timed /\ Sending /\ Sent /\ BitMeasured /\ Reading
          /\ RequestAnswered

LEMMA UartFacts ==
    /\ CfgBitTime \in Nat \ {0} /\ SendDelay \in Nat /\ SyncLimit \in Nat
    /\ MaxLate \in Nat /\ 2 * MaxLate < CfgBitTime /\ Off \notin Int
    /\ \A r \in Requests : r \in Seq({0, 1}) /\ Len(r) \in Nat \ {0} /\ r[1] = 0
    /\ \A n \in ReplyBits : n \in Nat
<1>1. \A r \in Requests : r \in Seq({0, 1}) /\ r # <<>> /\ Head(r) = 0
  BY TmcUartAssumption
<1>2. \A r \in Requests : Len(r) \in Nat \ {0} /\ r[1] = 0
  BY <1>1
<1> QED
  BY <1>1, <1>2, TmcUartAssumption, TmcTimingAssumption, BoardAssumption

LEMMA SyncBits ==
    ASSUME NEW r \in Requests, BeginsWithSync(r)
    PROVE  /\ Len(r) >= 6
           /\ \A i \in 1 .. 6 : r[i] = (i - 1) % 2
<1> DEFINE t == SubSeq(r, 1, 6)
<1>1. r \in Seq({0, 1}) /\ Len(r) >= 6
  BY UartFacts DEF BeginsWithSync
<1>2. \A i \in 1 .. 6 : t[i] = r[1 + i - 1]
  <2>1. 6 - 1 + 1 = 6
    OBVIOUS
  <2> QED
    BY <1>1, <2>1, SubSeqProperties
<1>3. t = <<0, 1, 0, 1, 0, 1>>
  BY DEF BeginsWithSync
<1> HIDE DEF t
<1>4. \A i \in 1 .. 6 : r[i] = t[i]
  <2> TAKE i \in 1 .. 6
  <2>1. 1 + i - 1 = i
    OBVIOUS
  <2> QED
    BY <1>2, <2>1
<1>5. t[1] = 0 /\ t[2] = 1 /\ t[3] = 0 /\ t[4] = 1 /\ t[5] = 0 /\ t[6] = 1
  BY <1>3
<1>6. \A i \in 1 .. 6 : t[i] = (i - 1) % 2
  <2> TAKE i \in 1 .. 6
  <2>1. i = 1 \/ i = 2 \/ i = 3 \/ i = 4 \/ i = 5 \/ i = 6
    OBVIOUS
  <2> QED
    BY <1>5, <2>1
<1> QED
  BY <1>1, <1>4, <1>6

(* How far the measured bit is off.                                         *)
Rounding == IF MaxLate < 2 THEN MaxLate ELSE 2

LEMMA QuarterIs ==
    ASSUME NEW d \in Int, -MaxLate <= d, d <= MaxLate
    PROVE  /\ Quarter(d) \in Int /\ 4 * Quarter(d) - d <= Rounding
           /\ -Rounding <= 4 * Quarter(d) - d
<1> USE DEF Rounding
<1>0. MaxLate \in Nat
  BY UartFacts
<1>1. CASE d >= 0
  <2> DEFINE q == (d + 2) \div 4
  <2>1. q \in Int /\ 4 * q <= d + 2 /\ d + 2 < 4 * q + 4
    OBVIOUS
  <2>2. Quarter(d) = q
    BY <1>1 DEF Quarter
  <2> HIDE DEF q
  <2>3. d = 0 => q = 0
    BY <2>1
  <2>4. d = 1 => q = 0
    BY <2>1
  <2> QED
    BY <1>0, <1>1, <2>1, <2>2, <2>3, <2>4
<1>2. CASE d < 0
  <2> DEFINE q == (2 - d) \div 4
  <2>1. q \in Int /\ 4 * q <= 2 - d /\ 2 - d < 4 * q + 4
    OBVIOUS
  <2>2. Quarter(d) = -q
    BY <1>2 DEF Quarter
  <2> HIDE DEF q
  <2>3. d = -1 => q = 0
    BY <2>1
  <2>4. Quarter(d) \in Int /\ 4 * Quarter(d) = -(4 * q)
    BY <2>1, <2>2
  <2> QED
    BY <1>0, <1>2, <2>1, <2>3, <2>4
<1> QED
  BY <1>1, <1>2

LEMMA MeasureIs ==
    ASSUME NEW s \in Int, NEW e1 \in Int, NEW e5 \in Int,
           e1 - s \in 0 .. MaxLate, e5 - (s + 4 * CfgBitTime) \in 0 .. MaxLate
    PROVE  LET d == e5 - e1 - 4 * CfgBitTime
           IN d \in Int /\ -MaxLate <= d /\ d <= MaxLate /\ Quarter(d) \in Int
<1> DEFINE d == e5 - e1 - 4 * CfgBitTime
<1>1. d \in Int /\ -MaxLate <= d /\ d <= MaxLate
  BY UartFacts
<1> HIDE DEF d
<1>2. Quarter(d) \in Int
  BY <1>1, QuarterIs
<1> QED
  BY <1>1, <1>2 DEF d

LEMMA Scaled ==
    ASSUME NEW a \in Int, NEW b \in Int, NEW c \in Int, a <= b, c >= 0
    PROVE  a * c <= b * c /\ a * c \in Int /\ b * c \in Int
<1>1. (b - a) * c >= 0
  BY SMTT(30)
<1>2. b * c = a * c + (b - a) * c
  OBVIOUS
<1>3. a * c \in Int /\ b * c \in Int /\ (b - a) * c \in Int
  OBVIOUS
<1> QED
  BY <1>1, <1>2, <1>3

LEMMA Expanded ==
    ASSUME NEW k \in Int, NEW c \in Int
    PROVE  /\ (2 * k + 1) * c = 2 * (k * c) + c /\ k * c \in Int
           /\ (k + 1) * c = k * c + c /\ (k - 4) * c = k * c - 4 * c
           /\ k * (4 * c) = 4 * (k * c)
OBVIOUS

(* An edge planned b bits of length c after the first is before the middle  *)
(* of bit k just when b <= k.                                               *)
LEMMA OnTime ==
    ASSUME NEW s \in Int, NEW e1 \in Int, NEW e \in Int, NEW b \in Int, NEW k \in Int,
           e1 - s \in 0 .. MaxLate, e - (s + b * CfgBitTime) \in 0 .. MaxLate
    PROVE  8 * e <= 8 * e1 + (2 * k + 1) * (4 * CfgBitTime) <=> b <= k
<1> DEFINE c == CfgBitTime
           x == b * c
           y == k * c
<1>1. c \in Nat /\ MaxLate \in Nat /\ 2 * MaxLate < c /\ c > 0
  BY UartFacts
<1> HIDE DEF c
<1>2. x \in Int /\ y \in Int /\ (2 * k + 1) * (4 * c) = 8 * y + 4 * c
  <2>1. (2 * k + 1) * (4 * c) = 2 * (k * (4 * c)) + 4 * c
    BY <1>1, Expanded
  <2>2. k * (4 * c) = 4 * (k * c) /\ k * c \in Int /\ b * c \in Int
    BY <1>1, Expanded
  <2> QED
    BY <1>1, <2>1, <2>2
<1>3. b <= k => x <= y
  BY <1>1, Scaled
<1>4. b > k => x >= y + c
  <2>1. (k + 1) * c = k * c + c
    BY <1>1, Expanded
  <2>2. b > k => (k + 1) * c <= b * c
    BY <1>1, Scaled
  <2> QED
    BY <2>1, <2>2
<1>5. e1 - s \in 0 .. MaxLate /\ e - (s + x) \in 0 .. MaxLate
  BY DEF c
<1> HIDE DEF x, y
<1> DEFINE z == (2 * k + 1) * (4 * c)
<1>6. z = 8 * y + 4 * c
  BY <1>2
<1> HIDE DEF z
<1>7. b <= k => 8 * e <= 8 * e1 + z
  <2>1. 8 * (e - e1) <= 8 * x + 8 * MaxLate
    BY <1>1, <1>2, <1>5
  <2> QED
    BY <1>1, <1>2, <1>3, <1>5, <1>6, <2>1
<1>8. b > k => ~(8 * e <= 8 * e1 + z)
  <2>1. 8 * (e - e1) >= 8 * x - 8 * MaxLate
    BY <1>1, <1>2, <1>5
  <2> QED
    BY <1>1, <1>2, <1>4, <1>5, <1>6, <2>1
<1>9. 8 * e <= 8 * e1 + z <=> b <= k
  BY <1>7, <1>8
<1> QED
  BY <1>9 DEF z, c

(* An edge e before bit b of n, where the first and the fifth are e1 and e5.*)
Measured(s, e1, e5, e, b, n, bit) ==
    /\ s \in Int /\ e1 \in Int /\ e5 \in Int /\ e \in Int
    /\ b \in Nat /\ n \in Nat /\ bit \in Int
    /\ e1 - s \in 0 .. MaxLate /\ e5 - (s + 4 * CfgBitTime) \in 0 .. MaxLate
    /\ b < n /\ n >= 5 /\ (b = 0 => e = e1) /\ (b = 4 => e = e5)
    /\ bit = CfgBitTime + Quarter(e5 - e1 - 4 * CfgBitTime)
    /\ IF b > 4 THEN e - (e5 - (e1 - s) + (b - 4) * bit) \in 0 .. MaxLate
       ELSE e - (s + b * CfgBitTime) \in 0 .. MaxLate
    /\ 9 * MaxLate + 2 * (n - 5) * Rounding < 4 * CfgBitTime

(* So it is where the bit is measured: by the chip from the first edge to   *)
(* the fifth, and to a tick by the firmware.                                *)
LEMMA OnTimeMeasured ==
    ASSUME NEW s, NEW e1, NEW e5, NEW e, NEW b, NEW n, NEW bit, NEW k \in Nat,
           Measured(s, e1, e5, e, b, n, bit)
    PROVE  8 * e <= 8 * e1 + (2 * k + 1) * (e5 - e1) <=> b <= k
<1>0. /\ s \in Int /\ e1 \in Int /\ e5 \in Int /\ e \in Int
      /\ b \in Nat /\ n \in Nat /\ bit \in Int
      /\ e1 - s \in 0 .. MaxLate /\ e5 - (s + 4 * CfgBitTime) \in 0 .. MaxLate
      /\ b < n /\ n >= 5 /\ (b = 0 => e = e1) /\ (b = 4 => e = e5)
      /\ bit = CfgBitTime + Quarter(e5 - e1 - 4 * CfgBitTime)
      /\ IF b > 4 THEN e - (e5 - (e1 - s) + (b - 4) * bit) \in 0 .. MaxLate
         ELSE e - (s + b * CfgBitTime) \in 0 .. MaxLate
      /\ 9 * MaxLate + 2 * (n - 5) * Rounding < 4 * CfgBitTime
  BY DEF Measured
<1> USE <1>0
<1> DEFINE c == CfgBitTime
           d == e5 - e1 - 4 * c
           D == e5 - e1
           z == (2 * k + 1) * D
           R == Rounding
<1>1. c \in Nat /\ MaxLate \in Nat /\ 2 * MaxLate < c /\ c > 0
  BY UartFacts
<1>2. d \in Int /\ -MaxLate <= d /\ d <= MaxLate
  BY <1>1
<1>3. Quarter(d) \in Int /\ 4 * Quarter(d) - d <= R /\ -R <= 4 * Quarter(d) - d
  BY <1>2, QuarterIs
<1>4. R \in Nat /\ 9 * MaxLate + 2 * (n - 5) * R < 4 * c
  BY <1>1 DEF Rounding
<1>5. bit = c + Quarter(d)
  OBVIOUS
<1> DEFINE r == 4 * bit - D
<1>6. D \in Int /\ D = 4 * c + d /\ D > 0 /\ r \in Int /\ -R <= r /\ r <= R
  BY <1>1, <1>2, <1>3, <1>5
<1>7. e1 - s \in 0 .. MaxLate /\ e5 - (s + 4 * c) \in 0 .. MaxLate
  OBVIOUS
<1>8. 4 * bit = D + r
  BY <1>6
<1>9. z = 2 * (k * D) + D /\ k * D \in Int
  BY <1>6, Expanded
<1> HIDE DEF R, r, z
(* Whatever D is, what is right for the nearest bit is right for all.       *)
<1>10. ASSUME NEW u \in Int, 8 * u <= (2 * b + 1) * D, 8 * u > (2 * b - 1) * D,
              e = e1 + u
       PROVE  8 * e <= 8 * e1 + z <=> b <= k
  <2> HIDE DEF D
  <2>1. (2 * b + 1) * D = 2 * (b * D) + D /\ b * D \in Int
    BY <1>6, Expanded
  <2>2. (2 * b - 1) * D = 2 * (b * D) - D
    BY <1>6
  <2>3. b <= k => b * D <= k * D
    BY <1>6, Scaled
  <2>4. b > k => k * D + D <= b * D
    <3>1. (k + 1) * D = k * D + D
      BY <1>6, Expanded
    <3>2. b > k => (k + 1) * D <= b * D
      BY <1>6, Scaled
    <3> QED
      BY <3>1, <3>2
  <2> DEFINE p == b * D
             q == k * D
             hi == (2 * b + 1) * D
             lo == (2 * b - 1) * D
  <2>5. /\ p \in Int /\ q \in Int /\ hi = 2 * p + D /\ lo = 2 * p - D /\ z = 2 * q + D
        /\ b <= k => p <= q
        /\ b > k => q + D <= p
        /\ 8 * u <= hi /\ 8 * u > lo
    BY <1>9, <1>10, <2>1, <2>2, <2>3, <2>4
  <2> HIDE DEF p, q, hi, lo
  <2>6. b <= k => 8 * e <= 8 * e1 + z
    BY <1>6, <1>10, <2>5
  <2>7. b > k => ~(8 * e <= 8 * e1 + z)
    BY <1>6, <1>10, <2>5
  <2> QED
    BY <2>6, <2>7
<1>11. CASE b <= 4
  <2> DEFINE l1 == e1 - s
             l5 == e5 - (s + 4 * c)
             l == e - (s + b * c)
  <2>1. l1 \in 0 .. MaxLate /\ l5 \in 0 .. MaxLate /\ l \in 0 .. MaxLate
    BY <1>11
  <2>2. d = l5 - l1
    BY <1>1
  <2> DEFINE u == e - e1
  <2>3. u \in Int /\ e = e1 + u
    OBVIOUS
  <2>4. b = 0 \/ b = 1 \/ b = 2 \/ b = 3 \/ b = 4
    BY <1>11
  <2>5. b = 0 => u = 0
    OBVIOUS
  <2>6. b = 4 => u = D
    OBVIOUS
  <2>7. b \in 1 .. 3 => u = b * c + l - l1
    BY <1>1
  <2> HIDE DEF l1, l5, l, u, D, d
  <2>8. 8 * u <= (2 * b + 1) * D /\ 8 * u > (2 * b - 1) * D
    <3>1. CASE b = 0
      BY <1>6, <2>3, <2>5, <3>1
    <3>2. CASE b = 1
      BY <1>1, <1>6, <2>1, <2>2, <2>7, <3>2
    <3>3. CASE b = 2
      BY <1>1, <1>6, <2>1, <2>2, <2>7, <3>3
    <3>4. CASE b = 3
      BY <1>1, <1>6, <2>1, <2>2, <2>7, <3>4
    <3>5. CASE b = 4
      BY <1>6, <2>6, <3>5
    <3> QED
      BY <2>4, <3>1, <3>2, <3>3, <3>4, <3>5
  <2>9. 8 * e <= 8 * e1 + z <=> b <= k
    BY <1>10, <2>3, <2>8
  <2> QED
    BY <2>9 DEF z, D
<1>12. CASE b > 4
  <2> DEFINE g == b - 4
             l1 == e1 - s
             l == e - (e5 - (e1 - s) + g * bit)
             u == e - e1
  <2>1. l1 \in 0 .. MaxLate /\ l \in 0 .. MaxLate /\ g \in Nat /\ g >= 1 /\ g <= n - 5
    BY <1>12
  <2>2. g * bit \in Int
    BY <2>1
  <2>3. u = D + g * bit + l - l1
    BY <2>2
  <2>4. u \in Int /\ e = e1 + u
    OBVIOUS
  <2> HIDE DEF l1, l, u, D
  <2>5. 4 * (g * bit) = g * D + g * r
    <3>0. g \in Int
      BY <2>1
    <3> HIDE DEF g
    <3>1. 4 * (g * bit) = g * (4 * bit)
      BY <3>0, Expanded
    <3>2. g * (D + r) = g * D + g * r
      BY <1>6, <2>1, Distributes
    <3> QED
      BY <1>8, <3>1, <3>2
  <2>6. -(g * R) <= g * r /\ g * r <= g * R /\ g * R <= (n - 5) * R
    <3>1. r * g <= R * g /\ (-R) * g <= r * g
      BY <1>4, <1>6, <2>1, Scaled
    <3>2. r * g = g * r /\ R * g = g * R /\ (-R) * g = -(g * R)
      BY <1>4, <1>6, <2>1
    <3>3. g * R <= (n - 5) * R
      BY <1>4, <2>1, Scaled
    <3> QED
      BY <3>1, <3>2, <3>3
  <2>7. (2 * b + 1) * D = 2 * (g * D) + 9 * D /\ (2 * b - 1) * D = 2 * (g * D) + 7 * D
    <3>1. b = g + 4
      OBVIOUS
    <3> HIDE DEF g
    <3>2. (2 * (g + 4) + 1) * D = 2 * (g * D) + 9 * D
      BY <1>6, <2>1
    <3>3. (2 * (g + 4) - 1) * D = 2 * (g * D) + 7 * D
      BY <1>6, <2>1
    <3> QED
      BY <3>1, <3>2, <3>3
  <2> DEFINE x == g * D
             y == g * r
             w == g * bit
             v == g * R
             t == (n - 5) * R
             hi == (2 * b + 1) * D
             lo == (2 * b - 1) * D
  <2>8. /\ x \in Int /\ y \in Int /\ w \in Int /\ v \in Int /\ t \in Int
        /\ 4 * w = x + y /\ -v <= y /\ y <= v /\ v <= t
        /\ hi = 2 * x + 9 * D /\ lo = 2 * x + 7 * D /\ u = D + w + l - l1
    BY <1>4, <1>6, <2>1, <2>2, <2>3, <2>5, <2>6, <2>7
  <2>9. 9 * MaxLate + 2 * t < 4 * c
    <3>1. 2 * (n - 5) * R = 2 * t
      BY <1>4
    <3> QED
      BY <1>4, <3>1
  <2>10. 4 * c <= D + MaxLate
    BY <1>1, <1>2, <1>6
  <2> HIDE DEF x, y, w, v, t, hi, lo, d
  <2>11. 8 * u <= hi /\ 8 * u > lo
    BY <1>1, <1>6, <2>1, <2>8, <2>9, <2>10
  <2>12. 8 * e <= 8 * e1 + z <=> b <= k
    BY <1>10, <2>4, <2>11 DEF hi, lo
  <2> QED
    BY <2>12 DEF z, D
<1> QED
  BY <1>11, <1>12

(* The line a request leaves: what the chip reads in the middle of a bit.   *)
LEMMA WireShows ==
    ASSUME NEW r \in Requests, NEW s \in Int, NEW b \in [1 .. Len(edges) -> Nat],
           edges \in Seq(Int), Drawn(r, s, edges, uart.bit, b, Len(r)),
           BeginsWithSync(r) =>
               uart.bit = CfgBitTime + Quarter(edges[5] - edges[1] - 4 * CfgBitTime),
           NEW k \in 0 .. (Len(r) - 1)
    PROVE  LineAt(Middle(r, k)) = r[k + 1]
<1> DEFINE n == Len(r)
           e == edges
<1>1. r \in Seq({0, 1}) /\ n \in Nat \ {0} /\ r[1] = 0 /\ MaxLate \in Nat
      /\ CfgBitTime \in Nat /\ CfgBitTime > 0
  BY UartFacts
<1>2. /\ \A i \in 1 .. Len(e) : /\ b[i] \in 0 .. (n - 1)
                                /\ e[i] - Planned(r, s, e, uart.bit, b[i]) \in 0 .. MaxLate
      /\ \A i, j \in 1 .. Len(e) : i < j => b[i] < b[j]
      /\ e # <<>> => b[1] = 0
      /\ BeginsWithSync(r) =>
             /\ \A i \in 1 .. Len(e) : i <= 5 => b[i] = i - 1
             /\ n > 4 => Len(e) >= 5
      /\ \A j \in 0 .. (n - 1) : \E m \in 0 .. Len(e) :
             /\ r[j + 1] = (IF m % 2 = 0 THEN 1 ELSE 0)
             /\ \A i \in 1 .. Len(e) : i <= m <=> b[i] <= j
  BY DEF Drawn
<1> HIDE DEF n, e
<1>a. e \in Seq(Int) /\ Len(e) \in Nat /\ \A i \in 1 .. Len(e) : e[i] \in Int
  BY DEF e
<1>3. Len(e) >= 1 /\ b[1] = 0
  <2>1. 0 \in 0 .. (n - 1) /\ 0 + 1 = 1
    BY <1>1
  <2>2. PICK m \in 0 .. Len(e) : r[0 + 1] = (IF m % 2 = 0 THEN 1 ELSE 0)
    BY <1>2, <2>1
  <2>3. m # 0
    BY <1>1, <2>1, <2>2
  <2>4. Len(e) >= 1
    BY <1>a, <2>3
  <2>5. e # <<>>
    BY <2>4
  <2> QED
    BY <1>2, <2>4, <2>5
<1>4. e[1] - s \in 0 .. MaxLate /\ 1 \in 1 .. Len(e)
  <2>1. 1 \in 1 .. Len(e)
    BY <1>3, <1>a
  <2>2. e[1] - Planned(r, s, e, uart.bit, 0) \in 0 .. MaxLate
    BY <1>2, <1>3, <2>1
  <2>3. ~(0 > 4) /\ s + 0 * CfgBitTime = s
    BY <1>1
  <2> QED
    BY <2>1, <2>2, <2>3 DEF Planned
<1> DEFINE t == Middle(r, k)
<1>5. \A i \in 1 .. Len(e) : 8 * e[i] <= t <=> b[i] <= k
  <2> SUFFICES ASSUME NEW i \in 1 .. Len(e) PROVE 8 * e[i] <= t <=> b[i] <= k
    OBVIOUS
  <2>1. /\ e[i] \in Int /\ e[1] \in Int /\ b[i] \in Nat /\ k \in Nat /\ b[i] < n
        /\ e[i] - Planned(r, s, e, uart.bit, b[i]) \in 0 .. MaxLate
    <3>1. b[i] \in 0 .. (n - 1) /\ e[i] - Planned(r, s, e, uart.bit, b[i]) \in 0 .. MaxLate
      BY <1>2
    <3>2. b[i] \in Nat /\ b[i] < n
      BY <1>1, <3>1
    <3>3. k \in Nat
      OBVIOUS
    <3>4. e[i] \in Int /\ e[1] \in Int
      BY <1>4, <1>a
    <3> QED
      BY <3>1, <3>2, <3>3, <3>4
  <2>2. CASE ~BeginsWithSync(r)
    <3>1. t = 8 * e[1] + (2 * k + 1) * (4 * CfgBitTime)
      BY <2>2 DEF Middle, ChipBit, e
    <3>2. e[i] - (s + b[i] * CfgBitTime) \in 0 .. MaxLate
      BY <2>1, <2>2 DEF Planned
    <3>3. b[i] \in Int /\ k \in Int /\ e[1] - s \in 0 .. MaxLate
      BY <1>4, <2>1
    <3> HIDE DEF t
    <3>4. 8 * e[i] <= 8 * e[1] + (2 * k + 1) * (4 * CfgBitTime) <=> b[i] <= k
      BY ONLY s \in Int, <2>1, <3>2, <3>3, OnTime
    <3> QED
      BY <3>1, <3>4
  <2>3. CASE BeginsWithSync(r)
    <3>1. t = 8 * e[1] + (2 * k + 1) * (e[5] - e[1])
      BY <2>3 DEF Middle, ChipBit, e
    <3>2. n >= 6 /\ Len(e) >= 5 /\ n \in Nat
      BY <1>1, <1>2, <2>3, SyncBits DEF n
    <3>3. 5 \in 1 .. Len(e) /\ b[5] = 4
      <4>1. 5 \in 1 .. Len(e) /\ 5 - 1 = 4
        BY <1>a, <3>2
      <4> QED
        BY <1>2, <2>3, <4>1
    <3>4. e[5] \in Int /\ e[5] - (s + 4 * CfgBitTime) \in 0 .. MaxLate
      <4>1. e[5] - Planned(r, s, e, uart.bit, 4) \in 0 .. MaxLate
        BY <1>2, <3>3
      <4> QED
        BY <1>a, <3>3, <4>1 DEF Planned
    <3>5. b[i] = 0 => e[i] = e[1]
      <4>1. i # 1 => 1 < i
        BY <1>4
      <4>2. i # 1 => b[1] < b[i]
        BY <1>2, <1>4, <4>1
      <4>3. ~(0 < 0)
        OBVIOUS
      <4> QED
        BY <1>3, <4>2, <4>3
    <3>6. b[i] = 4 => e[i] = e[5]
      <4>1. i = 5 \/ i < 5 \/ 5 < i
        BY <3>3
      <4>2. i < 5 => b[i] < 4
        BY <1>2, <3>3
      <4>3. 5 < i => 4 < b[i]
        BY <1>2, <3>3
      <4> QED
        BY <2>1, <4>1, <4>2, <4>3
    <3>7. uart.bit = CfgBitTime + Quarter(e[5] - e[1] - 4 * CfgBitTime)
      BY <2>3 DEF e
    <3>8. uart.bit \in Int
      <4>1. e[1] - s \in 0 .. MaxLate /\ e[1] \in Int /\ s \in Int
        BY <1>4, <2>1
      <4> DEFINE e1 == e[1]
                 e5 == e[5]
      <4> HIDE DEF e1, e5
      <4>2. Quarter(e5 - e1 - 4 * CfgBitTime) \in Int
        BY <4>1, <3>4, MeasureIs DEF e1, e5
      <4> QED
        BY <1>1, <3>7, <4>2 DEF e1, e5
    <3>9. IF b[i] > 4 THEN e[i] - (e[5] - (e[1] - s) + (b[i] - 4) * uart.bit) \in 0 .. MaxLate
          ELSE e[i] - (s + b[i] * CfgBitTime) \in 0 .. MaxLate
      BY <2>1, <2>3 DEF Planned
    <3>10. 9 * MaxLate + 2 * (n - 5) * Rounding < 4 * CfgBitTime
      BY <2>3, TmcTimingAssumption DEF n, Rounding
    <3>11. n >= 5
      BY <3>2
    <3> HIDE DEF t
    <3>12. 8 * e[i] <= 8 * e[1] + (2 * k + 1) * (e[5] - e[1]) <=> b[i] <= k
      <4> DEFINE e1 == e[1]
                 e5 == e[5]
                 ei == e[i]
                 bi == b[i]
                 bit == uart.bit
      <4>1. Measured(s, e1, e5, ei, bi, n, bit)
        BY <1>4, <2>1, <3>2, <3>4, <3>5, <3>6, <3>7, <3>8, <3>9, <3>10, <3>11 DEF Measured
      <4> HIDE DEF e1, e5, ei, bi, bit
      <4>2. 8 * ei <= 8 * e1 + (2 * k + 1) * (e5 - e1) <=> bi <= k
        BY ONLY <2>1, <4>1, OnTimeMeasured
      <4> QED
        BY <4>2 DEF e1, e5, ei, bi
    <3> QED
      BY <3>1, <3>12
  <2> QED
    BY <2>2, <2>3
<1>6. PICK m \in 0 .. Len(e) :
         /\ r[k + 1] = (IF m % 2 = 0 THEN 1 ELSE 0)
         /\ \A i \in 1 .. Len(e) : i <= m <=> b[i] <= k
  BY <1>2 DEF n
<1> HIDE DEF t
<1>7. {i \in DOMAIN e : 8 * e[i] <= t} = 1 .. m
  <2>1. DOMAIN e = 1 .. Len(e)
    BY <1>a
  <2>2. \A i \in 1 .. m : i \in 1 .. Len(e)
    BY <1>6, <1>a
  <2>3. \A i \in 1 .. Len(e) : i <= m <=> i \in 1 .. m
    BY <1>6, <1>a
  <2> QED
    BY <1>5, <1>6, <2>1, <2>2, <2>3
<1>8. Cardinality(1 .. m) = m
  <2>1. Cardinality(1 .. m) = IF 1 > m THEN 0 ELSE m - 1 + 1
    <3>1. m \in Int /\ 1 \in Int
      BY <1>6, <1>a
    <3> QED
      BY ONLY <3>1, FS_Interval
  <2>2. m \in Nat
    BY <1>6, <1>a
  <2> QED
    BY ONLY <2>1, <2>2
<1>9. LineAt(t) = IF m % 2 = 0 THEN 1 ELSE 0
  BY <1>7, <1>8 DEF LineAt, e
<1> QED
  BY <1>6, <1>9 DEF t

LEMMA OnWireFromInv ==
    ASSUME TmcInv
    PROVE  RequestOnWire
<1> SUFFICES ASSUME uart.func = "send_finish", request.open,
                    NEW k \in 0 .. (Len(request.bits) - 1)
             PROVE  LineAt(Middle(request.bits, k)) = request.bits[k + 1]
  BY DEF RequestOnWire
<1>1. TmcTyped /\ Sent /\ BitMeasured
  BY DEF TmcInv
<1>2. NextBit = Len(request.bits) /\ uart.func \in Writing
  BY DEF NextBit, Writing
<1>3. PICK s \in Int, b \in [1 .. Len(edges) -> Nat] :
          Drawn(request.bits, s, edges, uart.bit, b, NextBit)
  BY <1>1, <1>2 DEF Sent
<1>4. request.bits \in Requests /\ edges \in Seq(Int)
  BY <1>1 DEF TmcTyped
<1>5. BeginsWithSync(request.bits) =>
          uart.bit = CfgBitTime + Quarter(edges[5] - edges[1] - 4 * CfgBitTime)
  BY <1>1 DEF BitMeasured
<1> QED
  BY <1>2, <1>3, <1>4, <1>5, WireShows

LEMMA SmallestOf ==
    ASSUME NEW T \in SUBSET Nat, T # {}
    PROVE  Min(T) \in T /\ \A y \in T : Min(T) <= y
<1> DEFINE R == OpToRel(<, Nat)
<1>1. \A a, b \in Nat : <<a, b>> \in R <=> a < b
  BY DEF OpToRel
<1>2. IsWellFoundedOn(R, Nat)
  BY NatLessThanWellFounded
<1> HIDE DEF R
<1>3. T \subseteq Nat
  OBVIOUS
<1>4. \E x \in T : \A y \in T : ~(<<y, x>> \in R)
  BY <1>2, <1>3, WFMin
<1>5. PICK x \in T : \A y \in T : ~(<<y, x>> \in R)
  BY <1>4
<1>6. ASSUME NEW y \in T PROVE x <= y
  <2>1. ~(y < x) /\ x \in Nat /\ y \in Nat
    BY <1>1, <1>5
  <2> QED
    BY <2>1
<1> QED
  BY <1>5, <1>6 DEF Min

LEMMA TmcStarts == BoardInit /\ TmcInit => TmcInv
<1> SUFFICES ASSUME BoardInit, TmcInit PROVE TmcInv
  OBVIOUS
<1>1. /\ now = 0 /\ wake = FALSE /\ edges = <<>> /\ heard = <<>> /\ ~request.open
      /\ DOMAIN request = {"bits", "reads", "open"}
      /\ DOMAIN uart = UartFields /\ uart.time = Off /\ uart.func = "send"
      /\ uart.high = TRUE /\ uart.active = FALSE /\ uart.sync = FALSE
      /\ uart.report = FALSE /\ uart.pos = 0 /\ uart.reads = 0 /\ uart.writes = 0
      /\ uart.bit = 0 /\ uart.data = <<>> /\ request.open \in BOOLEAN
  BY DEF BoardInit, TmcInit, UartFields
<1>2. TmcTyped
  <2>1. <<>> \in Seq(Int) /\ <<>> \in Seq({0, 1})
    OBVIOUS
  <2>2. uart.time \in Int \cup {Off} /\ uart.func \in Writing \cup {"read_sync", "read"}
    BY <1>1 DEF Writing
  <2>3. /\ now \in Int /\ uart.pos \in Nat /\ uart.reads \in Nat /\ uart.writes \in Nat
        /\ uart.bit \in Int
    BY <1>1
  <2>4. /\ wake \in BOOLEAN /\ uart.high \in BOOLEAN /\ uart.active \in BOOLEAN
        /\ uart.sync \in BOOLEAN /\ uart.report \in BOOLEAN
    BY <1>1
  <2>5. edges \in Seq(Int) /\ heard \in Seq({0, 1}) /\ uart.data \in Seq({0, 1})
    BY <1>1, <2>1
  <2> QED
    BY <1>1, <2>2, <2>3, <2>4, <2>5 DEF TmcTyped
<1>3. Timed /\ Sending /\ Sent /\ BitMeasured /\ Reading /\ RequestAnswered
  BY <1>1, UartFacts DEF Timed, Sending, Sent, BitMeasured, Reading, RequestAnswered
<1> QED
  BY <1>2, <1>3 DEF TmcInv

(* The steps that leave the UART's own state alone.                         *)
LEMMA UartKept ==
    ASSUME TmcInv, tmcVars' = tmcVars, now' \in Int, wake' \in BOOLEAN,
           uart.time # Off => now' <= uart.time + MaxLate,
           request.open /\ uart.time = Off => wake' \/ task'.at = "report"
    PROVE  TmcInv'
<1>1. uart' = uart /\ edges' = edges /\ heard' = heard /\ request' = request
  BY DEF tmcVars
<1>2. TmcTyped /\ Timed /\ Sending /\ Sent /\ BitMeasured /\ Reading /\ RequestAnswered
  BY DEF TmcInv
<1>3. TmcTyped'
  BY <1>1, <1>2 DEF TmcTyped
<1>4. Timed'
  BY <1>1, <1>2 DEF Timed
<1>5. Sending' /\ BitMeasured'
  BY <1>1, <1>2 DEF Sending, BitMeasured, Driven
<1>6. Sent'
  BY <1>1, <1>2 DEF Sent, NextBit
<1>7. Reading'
  BY <1>1, <1>2 DEF Reading, Starts
<1>8. RequestAnswered'
  BY <1>1, <1>2 DEF RequestAnswered, Starts
<1> QED
  BY <1>3, <1>4, <1>5, <1>6, <1>7, <1>8 DEF TmcInv

LEMMA TmcTickKeeps ==
    ASSUME TmcInv, TmcTick
    PROVE  TmcInv'
<1>1. /\ tmcVars' = tmcVars /\ now' = now + 1 /\ UNCHANGED <<task, wake>>
      /\ uart.time # Off => now - uart.time < MaxLate
  BY DEF TmcTick, Tick
<1>2. TmcTyped /\ RequestAnswered /\ MaxLate \in Nat
  BY UartFacts DEF TmcInv
<1>3. /\ now' \in Int /\ wake' \in BOOLEAN
      /\ uart.time # Off => now' <= uart.time + MaxLate
  BY <1>1, <1>2 DEF TmcTyped
<1>4. request.open /\ uart.time = Off => wake' \/ task'.at = "report"
  BY <1>1, <1>2 DEF RequestAnswered
<1> QED
  BY <1>1, <1>3, <1>4, UartKept

LEMMA TmcTaskKeeps ==
    ASSUME TmcInv, TmcTask
    PROVE  TmcInv'
<1>1. tmcVars' = tmcVars /\ now' = now /\ task'.at = "report" /\ wake' = FALSE
  BY DEF TmcTask, Woken
<1>2. TmcTyped /\ Timed
  BY DEF TmcInv
<1>3. now' \in Int /\ wake' \in BOOLEAN
  BY <1>1, <1>2 DEF TmcTyped
<1>4. uart.time # Off => now' <= uart.time + MaxLate
  BY <1>1, <1>2 DEF Timed
<1> QED
  BY <1>1, <1>3, <1>4, UartKept

(* The steps after which no request is open.                                *)
LEMMA ClosedKeeps ==
    ASSUME TmcInv, UNCHANGED now, wake' \in BOOLEAN, ~request'.open,
           DOMAIN request' = {"bits", "reads", "open"}, request'.open \in BOOLEAN,
           edges' = <<>>, heard' = <<>>,
           DOMAIN uart' = UartFields, uart'.time = Off, uart'.active = FALSE,
           uart'.func = uart.func, uart'.high = TRUE, uart'.sync \in BOOLEAN,
           uart'.report \in BOOLEAN, uart'.pos = uart.pos, uart'.reads = uart.reads,
           uart'.writes = uart.writes, uart'.bit = uart.bit, uart'.data = uart.data
    PROVE  TmcInv'
<1>1. TmcTyped /\ Timed
  BY DEF TmcInv
<1>2. TmcTyped'
  <2>1. <<>> \in Seq(Int) /\ <<>> \in Seq({0, 1})
    OBVIOUS
  <2>2. edges' \in Seq(Int) /\ heard' \in Seq({0, 1}) /\ uart'.active \in BOOLEAN
        /\ uart'.time \in Int \cup {Off} /\ uart'.high \in BOOLEAN
    BY <2>1
  <2>3. /\ now' \in Int /\ uart'.func \in Writing \cup {"read_sync", "read"}
        /\ uart'.pos \in Nat /\ uart'.reads \in Nat /\ uart'.writes \in Nat
        /\ uart'.bit \in Int /\ uart'.data \in Seq({0, 1})
    BY <1>1 DEF TmcTyped
  <2> QED
    BY <2>2, <2>3 DEF TmcTyped
<1>3. /\ Timed' /\ Sending' /\ Sent' /\ BitMeasured' /\ Reading' /\ RequestAnswered'
  BY <1>1 DEF Timed, Sending, Sent, BitMeasured, Reading, RequestAnswered
<1> QED
  BY <1>2, <1>3 DEF TmcInv

LEMMA TmcReportKeeps ==
    ASSUME TmcInv, TmcReport
    PROVE  TmcInv'
<1>1. /\ UNCHANGED <<now, wake>>
      /\ edges' = (IF request'.open THEN edges ELSE <<>>)
      /\ heard' = (IF request'.open THEN heard ELSE <<>>)
  BY DEF TmcReport
<1>2. TmcTyped /\ Timed /\ RequestAnswered
  BY DEF TmcInv
<1>3. /\ DOMAIN uart = UartFields /\ DOMAIN request = {"bits", "reads", "open"}
      /\ request.open \in BOOLEAN /\ wake \in BOOLEAN /\ now \in Int
      /\ uart.high \in BOOLEAN /\ uart.sync \in BOOLEAN /\ uart.report \in BOOLEAN
  BY <1>2 DEF TmcTyped
<1>4. CASE uart.report
  <2>1. uart' = [uart EXCEPT !.report = FALSE] /\ request' = [request EXCEPT !.open = FALSE]
    BY <1>4 DEF TmcReport
  <2>2. /\ DOMAIN uart' = UartFields /\ uart'.report = FALSE /\ uart'.time = uart.time
        /\ uart'.active = uart.active /\ uart'.func = uart.func /\ uart'.high = uart.high
        /\ uart'.sync = uart.sync /\ uart'.pos = uart.pos /\ uart'.reads = uart.reads
        /\ uart'.writes = uart.writes /\ uart'.bit = uart.bit /\ uart'.data = uart.data
    BY <1>3, <2>1 DEF UartFields
  <2>3. request'.open = FALSE /\ DOMAIN request' = {"bits", "reads", "open"}
    BY <1>3, <2>1
  <2>4. uart.active = FALSE /\ uart.time = Off
    <3>1. uart.active \in BOOLEAN
      BY <1>2 DEF TmcTyped
    <3> QED
      BY <1>2, <1>4, <3>1 DEF Timed
  <2>5. edges' = <<>> /\ heard' = <<>>
    BY <1>1, <2>3
  <2>6. now' = now /\ wake' \in BOOLEAN /\ request'.open \in BOOLEAN /\ ~request'.open
    BY <1>1, <1>3, <2>3
  <2>7. uart'.high = TRUE /\ uart'.sync \in BOOLEAN /\ uart'.report \in BOOLEAN
    BY <1>2, <1>3, <2>2, <2>4 DEF Timed
  <2>8. uart'.active = FALSE /\ uart'.time = Off
    BY <2>2, <2>4
  <2> QED
    BY <2>2, <2>3, <2>5, <2>6, <2>7, <2>8, ClosedKeeps
<1>5. CASE ~uart.report
  <2>1. uart' = uart /\ request' = request
    BY <1>5 DEF TmcReport
  <2>2. CASE request.open
    <3>1. tmcVars' = tmcVars
      BY <1>1, <2>1, <2>2 DEF tmcVars
    <3>2. uart.time # Off
      BY <1>2, <1>5, <2>2 DEF RequestAnswered
    <3>3. now' \in Int /\ wake' \in BOOLEAN
      BY <1>1, <1>3
    <3>4. now' <= uart.time + MaxLate
      BY <1>1, <1>2, <3>2 DEF Timed
    <3> QED
      BY <3>1, <3>2, <3>3, <3>4, UartKept
  <2>3. CASE ~request.open
    <3>1. uart.active = FALSE /\ uart.time = Off
      <4>1. uart.active \in BOOLEAN
        BY <1>2 DEF TmcTyped
      <4> QED
        BY <1>2, <2>3, <4>1 DEF Timed
    <3>2. edges' = <<>> /\ heard' = <<>> /\ ~request'.open
      BY <1>1, <2>1, <2>3
    <3>3. DOMAIN request' = {"bits", "reads", "open"} /\ request'.open \in BOOLEAN
          /\ wake' \in BOOLEAN /\ now' = now /\ DOMAIN uart' = UartFields
          /\ uart'.active = FALSE /\ uart'.time = Off
      BY <1>1, <1>3, <2>1, <3>1
    <3>4. uart'.high = TRUE /\ uart'.sync \in BOOLEAN /\ uart'.report \in BOOLEAN
      BY <1>2, <1>3, <2>1, <3>1 DEF Timed
    <3> QED
      BY <2>1, <3>2, <3>3, <3>4, ClosedKeeps
  <2> QED
    BY <2>2, <2>3
<1> QED
  BY <1>4, <1>5

LEMMA TmcShutDownKeeps ==
    ASSUME TmcInv, TmcShutDown
    PROVE  TmcInv'
<1>1. TmcTyped /\ Timed
  BY DEF TmcInv
<1>2. /\ DOMAIN uart = UartFields /\ DOMAIN request = {"bits", "reads", "open"}
      /\ wake \in BOOLEAN
  BY <1>1 DEF TmcTyped
<1>3. /\ UNCHANGED <<now, wake>> /\ edges' = <<>> /\ heard' = <<>>
      /\ request' = [request EXCEPT !.open = FALSE]
      /\ uart' = [ResetLine(uart) EXCEPT !.time = Off]
  BY DEF TmcShutDown
<1>4. /\ DOMAIN uart' = UartFields /\ uart'.report = FALSE /\ uart'.time = Off
      /\ uart'.active = FALSE /\ uart'.func = uart.func /\ uart'.high = TRUE
      /\ uart'.sync = FALSE /\ uart'.pos = uart.pos /\ uart'.reads = uart.reads
      /\ uart'.writes = uart.writes /\ uart'.bit = uart.bit /\ uart'.data = uart.data
  BY <1>2, <1>3 DEF UartFields, ResetLine
<1>5. request'.open = FALSE /\ DOMAIN request' = {"bits", "reads", "open"}
  BY <1>2, <1>3
<1>6. now' = now /\ wake' \in BOOLEAN /\ request'.open \in BOOLEAN /\ ~request'.open
  BY <1>2, <1>3, <1>5
<1>7. uart'.high = TRUE /\ uart'.sync \in BOOLEAN /\ uart'.report \in BOOLEAN
  BY <1>4
<1> QED
  BY <1>3, <1>4, <1>5, <1>6, <1>7, ClosedKeeps

(* One more edge, before bit n; the next that changes is p.                 *)
Extended(b, k, n) == [i \in 1 .. (k + 1) |-> IF i <= k THEN b[i] ELSE n]

LEMMA DrawnGrows ==
    ASSUME NEW r, NEW s \in Int, NEW e \in Seq(Int), NEW b \in [1 .. Len(e) -> Nat],
           NEW bit, NEW bit2, NEW n \in Nat, NEW p \in Nat, NEW at \in Int,
           Drawn(r, s, e, bit, b, n), n < p,
           at - Planned(r, s, e, bit, n) \in 0 .. MaxLate,
           \A x \in 0 .. n : Planned(r, s, Append(e, at), bit2, x) = Planned(r, s, e, bit, x),
           \A k \in n .. (p - 1) : r[k + 1] = (IF (Len(e) + 1) % 2 = 0 THEN 1 ELSE 0),
           e = <<>> => n = 0,
           BeginsWithSync(r) => /\ Len(e) <= 4 => n = Len(e)
                                /\ p > 4 => Len(e) >= 4
    PROVE  LET b2 == Extended(b, Len(e), n)
           IN /\ b2 \in [1 .. Len(Append(e, at)) -> Nat]
              /\ Drawn(r, s, Append(e, at), bit2, b2, p)
<1> DEFINE f == Append(e, at)
           l == Len(e)
           c == Extended(b, l, n)
<1>1. /\ f \in Seq(Int) /\ Len(f) = l + 1 /\ l \in Nat /\ f[l + 1] = at
      /\ \A i \in 1 .. l : f[i] = e[i]
  OBVIOUS
<1>2. c[l + 1] = n /\ \A i \in 1 .. l : c[i] = b[i]
  <2>1. \A i \in 1 .. (l + 1) : c[i] = IF i <= l THEN b[i] ELSE n
    BY DEF Extended
  <2>2. l + 1 \in 1 .. (l + 1) /\ ~(l + 1 <= l) /\ \A i \in 1 .. l : i \in 1 .. (l + 1) /\ i <= l
    BY <1>1
  <2> QED
    BY <2>1, <2>2
<1>3. c \in [1 .. Len(f) -> Nat]
  <2>1. \A i \in 1 .. (l + 1) : (IF i <= l THEN b[i] ELSE n) \in Nat
    BY <1>1
  <2>2. c \in [1 .. (l + 1) -> Nat]
    BY <2>1 DEF Extended
  <2> QED
    BY <1>1, <2>2
<1>4. /\ \A i \in 1 .. l : /\ b[i] \in 0 .. (n - 1)
                           /\ e[i] - Planned(r, s, e, bit, b[i]) \in 0 .. MaxLate
      /\ \A i, j \in 1 .. l : i < j => b[i] < b[j]
      /\ e # <<>> => b[1] = 0
      /\ BeginsWithSync(r) =>
             /\ \A i \in 1 .. l : i <= 5 => b[i] = i - 1
             /\ n > 4 => l >= 5
      /\ \A k \in 0 .. (n - 1) : \E m \in 0 .. l :
             /\ r[k + 1] = (IF m % 2 = 0 THEN 1 ELSE 0)
             /\ \A i \in 1 .. l : i <= m <=> b[i] <= k
  BY DEF Drawn
<1>a. (l = 0 => e = <<>>) /\ (l > 0 => e # <<>>)
  <2>1. \A q \in Seq(Int) : Len(q) = 0 <=> q = <<>>
    OBVIOUS
  <2> QED
    BY <2>1
<1> HIDE DEF f, l, c
<1>5. \A i \in 1 .. (l + 1) : i \in 1 .. l \/ i = l + 1
  BY <1>1
<1>6. ASSUME NEW i \in 1 .. (l + 1)
      PROVE  c[i] \in 0 .. (p - 1) /\ f[i] - Planned(r, s, f, bit2, c[i]) \in 0 .. MaxLate
  <2>1. CASE i \in 1 .. l
    <3>1. c[i] = b[i] /\ f[i] = e[i] /\ b[i] \in 0 .. (n - 1)
      BY <1>1, <1>2, <1>4, <2>1
    <3>2. b[i] \in 0 .. n /\ b[i] \in 0 .. (p - 1)
      BY <3>1
    <3>3. Planned(r, s, f, bit2, b[i]) = Planned(r, s, e, bit, b[i])
      BY <3>2 DEF f
    <3> QED
      BY <1>4, <2>1, <3>1, <3>2, <3>3
  <2>2. CASE i = l + 1
    <3>1. c[i] = n /\ f[i] = at
      BY <1>1, <1>2, <2>2
    <3>2. n \in 0 .. n /\ n \in 0 .. (p - 1)
      OBVIOUS
    <3>3. Planned(r, s, f, bit2, n) = Planned(r, s, e, bit, n)
      BY <3>2 DEF f
    <3> QED
      BY <3>1, <3>2, <3>3
  <2> QED
    BY <1>5, <2>1, <2>2
<1>7. ASSUME NEW i \in 1 .. (l + 1), NEW j \in 1 .. (l + 1), i < j
      PROVE  c[i] < c[j]
  <2>1. i \in 1 .. l
    BY <1>1, <1>7
  <2>2. CASE j \in 1 .. l
    BY <1>2, <1>4, <1>7, <2>1, <2>2
  <2>3. CASE j = l + 1
    <3>1. b[i] \in 0 .. (n - 1) /\ c[i] = b[i] /\ c[j] = n
      BY <1>2, <1>4, <2>1, <2>3
    <3> QED
      BY <3>1
  <2> QED
    BY <1>5, <2>2, <2>3
<1>8. c[1] = 0
  <2>1. CASE l = 0
    BY <1>2, <1>a, <2>1
  <2>2. CASE l > 0
    <3>1. 1 \in 1 .. l
      BY <1>1, <2>2
    <3> QED
      BY <1>2, <1>4, <1>a, <2>2, <3>1
  <2> QED
    BY <1>1, <2>1, <2>2
<1>9. BeginsWithSync(r) => /\ \A i \in 1 .. (l + 1) : i <= 5 => c[i] = i - 1
                           /\ p > 4 => l + 1 >= 5
  <2> SUFFICES ASSUME BeginsWithSync(r)
               PROVE  /\ \A i \in 1 .. (l + 1) : i <= 5 => c[i] = i - 1
                      /\ p > 4 => l + 1 >= 5
    OBVIOUS
  <2>1. (l <= 4 => n = l) /\ (p > 4 => l >= 4)
    BY DEF l
  <2>2. ASSUME NEW i \in 1 .. (l + 1), i <= 5 PROVE c[i] = i - 1
    <3>1. CASE i \in 1 .. l
      BY <1>2, <1>4, <2>2, <3>1
    <3>2. CASE i = l + 1
      BY <1>1, <1>2, <2>1, <2>2, <3>2
    <3> QED
      BY <1>5, <3>1, <3>2
  <2> QED
    BY <1>1, <2>1, <2>2
<1>10. ASSUME NEW k \in 0 .. (p - 1)
       PROVE  \E m \in 0 .. (l + 1) :
                  /\ r[k + 1] = (IF m % 2 = 0 THEN 1 ELSE 0)
                  /\ \A i \in 1 .. (l + 1) : i <= m <=> c[i] <= k
  <2>1. CASE k < n
    <3>1. k \in 0 .. (n - 1)
      BY <2>1
    <3>2. PICK m \in 0 .. l : /\ r[k + 1] = (IF m % 2 = 0 THEN 1 ELSE 0)
                              /\ \A i \in 1 .. l : i <= m <=> b[i] <= k
      BY <1>4, <3>1
    <3>3. m \in 0 .. (l + 1)
      BY <1>1, <3>2
    <3>4. ASSUME NEW i \in 1 .. (l + 1) PROVE i <= m <=> c[i] <= k
      <4>1. CASE i \in 1 .. l
        BY <1>2, <3>2, <4>1
      <4>2. CASE i = l + 1
        <5>1. c[i] = n /\ ~(n <= k) /\ ~(i <= m)
          BY <1>1, <1>2, <2>1, <3>2, <4>2
        <5> QED
          BY <5>1
      <4> QED
        BY <1>5, <4>1, <4>2
    <3> QED
      BY <3>2, <3>3, <3>4
  <2>2. CASE k >= n
    <3>1. k \in n .. (p - 1)
      BY <2>2
    <3>2. r[k + 1] = (IF (l + 1) % 2 = 0 THEN 1 ELSE 0)
      BY <3>1 DEF l
    <3>3. l + 1 \in 0 .. (l + 1) /\ \A i \in 1 .. (l + 1) : i <= l + 1
      BY <1>1
    <3>4. ASSUME NEW i \in 1 .. (l + 1) PROVE c[i] <= k
      <4>1. CASE i \in 1 .. l
        <5>1. c[i] = b[i] /\ b[i] \in 0 .. (n - 1)
          BY <1>2, <1>4, <4>1
        <5> QED
          BY <2>2, <5>1
      <4>2. CASE i = l + 1
        BY <1>2, <2>2, <4>2
      <4> QED
        BY <1>5, <4>1, <4>2
    <3> QED
      BY <3>2, <3>3, <3>4
  <2> QED
    BY <2>1, <2>2
<1>11. Drawn(r, s, f, bit2, c, p)
  BY <1>1, <1>6, <1>7, <1>8, <1>9, <1>10 DEF Drawn
<1> QED
  BY <1>3, <1>11 DEF f, l, c

LEMMA EventFacts ==
    ASSUME TmcInv, Runs(uart.time, {uart.time})
    PROVE  /\ uart.time \in Int /\ uart.time # Off /\ now \in Int /\ uart.active
           /\ request.open /\ ~uart.report /\ uart.reads = request.reads
           /\ now - uart.time \in 0 .. MaxLate
           /\ request.bits \in Requests /\ request.reads \in Nat
           /\ request.bits \in Seq({0, 1}) /\ Len(request.bits) \in Nat \ {0}
<1>1. TmcTyped /\ Timed
  BY DEF TmcInv
<1>2. uart.time # Off /\ uart.time <= now /\ uart.time \in Int /\ now \in Int
  BY <1>1 DEF Runs, TmcTyped
<1>3. uart.active /\ request.open /\ ~uart.report /\ uart.reads = request.reads
      /\ now <= uart.time + MaxLate
  BY <1>1, <1>2 DEF Timed
<1>4. now - uart.time \in 0 .. MaxLate
  BY <1>2, <1>3, UartFacts
<1>5. request.bits \in Requests /\ request.reads \in Nat
  BY <1>1, <1>3 DEF TmcTyped
<1> QED
  BY <1>2, <1>3, <1>4, <1>5, UartFacts

LEMMA NextChange ==
    ASSUME NEW u, u.pos \in Nat, u.writes \in Nat, u.pos < u.writes
    PROVE  LET p == Min(Changes(u) \cup {u.writes})
           IN /\ p \in (u.pos + 1) .. u.writes
              /\ \A k \in (u.pos + 1) .. (p - 1) : BitAt(u, k) = Driven(u)
              /\ p # u.writes => BitAt(u, p) # Driven(u)
<1> DEFINE T == Changes(u) \cup {u.writes}
           p == Min(T)
<1>1. Changes(u) \subseteq (u.pos + 1) .. (u.writes - 1)
  BY DEF Changes
<1>2. T \subseteq (u.pos + 1) .. u.writes /\ T \in SUBSET Nat /\ T # {}
  BY <1>1
<1>3. p \in T /\ \A y \in T : p <= y
  <2> HIDE DEF T
  <2> QED
    BY <1>2, SmallestOf
<1> HIDE DEF p
<1>4. p \in (u.pos + 1) .. u.writes
  BY <1>2, <1>3
<1>5. ASSUME NEW k \in (u.pos + 1) .. (p - 1) PROVE BitAt(u, k) = Driven(u)
  <2>1. k \in (u.pos + 1) .. (u.writes - 1) /\ ~(p <= k)
    BY <1>4
  <2>2. k \notin Changes(u)
    BY <1>3, <2>1
  <2> QED
    BY <2>1, <2>2 DEF Changes
<1>6. p # u.writes => BitAt(u, p) # Driven(u)
  BY <1>3 DEF Changes
<1> QED
  BY <1>4, <1>5, <1>6 DEF p

LEMMA FlippedParity ==
    ASSUME NEW n \in Nat
    PROVE  (n + 1) % 2 = 0 <=> ~(n % 2 = 0)
OBVIOUS

(* A request whose first bit is drawn has had its first edge.               *)
LEMMA FirstEdge ==
    ASSUME NEW r \in Requests, NEW s, NEW e \in Seq(Int), NEW bit, NEW b, NEW n \in Nat,
           Drawn(r, s, e, bit, b, n), e = <<>>
    PROVE  n = 0
<1> SUFFICES ASSUME n # 0 PROVE FALSE
  OBVIOUS
<1>1. 0 \in 0 .. (n - 1) /\ Len(e) = 0 /\ 0 + 1 = 1
  OBVIOUS
<1>2. PICK m \in 0 .. Len(e) : r[0 + 1] = (IF m % 2 = 0 THEN 1 ELSE 0)
  BY <1>1 DEF Drawn
<1>3. m = 0 /\ r[1] = 0
  BY <1>1, <1>2, UartFacts
<1> QED
  BY <1>1, <1>2, <1>3

LEMMA SendEventKeeps ==
    ASSUME TmcInv, Runs(uart.time, {uart.time}), SendEvent
    PROVE  TmcInv'
<1> DEFINE u == Toggle(uart)
           p == Min(Changes(u) \cup {u.writes})
           r == request.bits
           n == uart.pos
<1>1. TmcTyped /\ Timed /\ Sending /\ Sent /\ BitMeasured
  BY DEF TmcInv
<1>2. /\ uart.time \in Int /\ uart.time # Off /\ now \in Int /\ uart.active
      /\ request.open /\ ~uart.report /\ uart.reads = request.reads
      /\ now - uart.time \in 0 .. MaxLate
      /\ r \in Requests /\ r \in Seq({0, 1}) /\ Len(r) \in Nat \ {0}
  BY EventFacts
<1>3. /\ DOMAIN uart = UartFields /\ uart.pos \in Nat /\ uart.writes \in Nat
      /\ uart.bit \in Int /\ uart.high \in BOOLEAN /\ edges \in Seq(Int)
  BY <1>1 DEF TmcTyped
<1>4. /\ uart.func = "send" /\ edges' = Append(edges, now)
      /\ UNCHANGED <<now, wake, heard, request>>
      /\ uart' = [u EXCEPT !.time = @ + (p - u.pos) * u.bit,
                           !.pos = IF p = u.writes THEN @ ELSE p,
                           !.func = IF p = u.writes THEN "send_finish" ELSE @]
  BY DEF SendEvent, Quiet
<1>5. /\ DOMAIN u = UartFields /\ u.high = ~uart.high /\ u.pos = n
      /\ u.writes = uart.writes /\ u.data = uart.data /\ u.bit = uart.bit
      /\ u.time = uart.time /\ u.active = uart.active /\ u.sync = uart.sync
      /\ u.report = uart.report /\ u.reads = uart.reads /\ u.func = uart.func
  BY <1>3 DEF Toggle, UartFields
<1> HIDE DEF u
<1>6. /\ DOMAIN uart' = UartFields /\ uart'.time = uart.time + (p - n) * uart.bit
      /\ uart'.pos = (IF p = uart.writes THEN n ELSE p)
      /\ uart'.func = (IF p = uart.writes THEN "send_finish" ELSE "send")
      /\ uart'.high = ~uart.high /\ uart'.writes = uart.writes
      /\ uart'.data = uart.data /\ uart'.bit = uart.bit /\ uart'.active = uart.active
      /\ uart'.sync = uart.sync /\ uart'.report = uart.report
      /\ uart'.reads = uart.reads
  BY <1>4, <1>5 DEF UartFields
<1>7. /\ heard = <<>> /\ ~uart.sync /\ uart.writes = Len(r)
      /\ \A k \in 1 .. uart.writes : uart.data[k] = r[k]
      /\ uart.high = (Len(edges) % 2 = 0)
      /\ n < uart.writes /\ r[n + 1] # Driven(uart)
      /\ BeginsWithSync(r) => n >= 5
  BY <1>1, <1>2, <1>4 DEF Sending, Writing
<1>8. /\ p \in (n + 1) .. uart.writes
      /\ \A k \in (n + 1) .. (p - 1) : BitAt(u, k) = Driven(u)
      /\ p # uart.writes => BitAt(u, p) # Driven(u)
  BY <1>3, <1>5, <1>7, NextChange
<1> HIDE DEF p, n, r
<1>9. n \in Nat /\ p \in Nat /\ n < p /\ p <= Len(r) /\ Len(edges) \in Nat
  <2>1. n \in Nat /\ uart.writes \in Nat /\ uart.writes = Len(r)
    BY <1>3, <1>7 DEF n
  <2>2. p \in (n + 1) .. uart.writes
    BY <1>8
  <2>3. Len(edges) \in Nat
    BY <1>3
  <2> QED
    BY <2>1, <2>2, <2>3
<1>10. Driven(u) = IF (Len(edges) + 1) % 2 = 0 THEN 1 ELSE 0
  <2>1. (Len(edges) + 1) % 2 = 0 <=> ~(Len(edges) % 2 = 0)
    BY <1>9, FlippedParity
  <2> QED
    BY <1>5, <1>7, <2>1 DEF Driven
<1>11. \A k \in n .. (p - 1) : r[k + 1] = Driven(u)
  <2> SUFFICES ASSUME NEW k \in n .. (p - 1) PROVE r[k + 1] = Driven(u)
    OBVIOUS
  <2>1. k + 1 \in 1 .. uart.writes
    BY <1>7, <1>9
  <2>2. CASE k = n
    <3>1. r[n + 1] \in {0, 1}
      BY <1>2, <1>7, <2>1, <2>2
    <3> QED
      BY <1>3, <1>5, <1>7, <2>2, <3>1 DEF Driven
  <2>3. CASE k # n
    <3>1. k \in (n + 1) .. (p - 1)
      BY <1>9, <2>3
    <3>2. uart.data[k + 1] = Driven(u)
      BY <1>5, <1>8, <3>1 DEF BitAt
    <3> QED
      BY <1>7, <2>1, <3>2
  <2> QED
    BY <2>2, <2>3
<1>12. PICK s \in Int, b \in [1 .. Len(edges) -> Nat] :
         /\ Drawn(r, s, edges, uart.bit, b, n)
         /\ uart.time = Planned(r, s, edges, uart.bit, n)
  <2>1. NextBit = n /\ uart.func \in Writing
    BY <1>4 DEF NextBit, Writing, n
  <2> QED
    BY <1>1, <1>2, <2>1 DEF Sent, r
<1>13. BeginsWithSync(r) => Len(edges) >= 5
  BY <1>7, <1>9, <1>12 DEF Drawn
<1>14. BeginsWithSync(r) => edges'[5] = edges[5] /\ edges'[1] = edges[1]
  BY <1>3, <1>4, <1>13
<1>15. \A x \in 0 .. p : Planned(r, s, edges', uart.bit, x) = Planned(r, s, edges, uart.bit, x)
  BY <1>14 DEF Planned
<1>16. uart'.time = Planned(r, s, edges', uart.bit, p)
  <2>1. p \in 0 .. p
    BY <1>9
  <2>2. Planned(r, s, edges', uart.bit, p) = Planned(r, s, edges, uart.bit, p)
    BY <1>15, <2>1
  <2>3. CASE BeginsWithSync(r)
    <3>1. n > 4 /\ p > 4
      BY <1>7, <1>9, <2>3
    <3> DEFINE o == edges[5] - (edges[1] - s)
    <3>2. o \in Int
      BY <1>3, <1>13, <2>3
    <3>3. uart.time = o + (n - 4) * uart.bit
      BY <1>12, <2>3, <3>1 DEF Planned
    <3>4. Planned(r, s, edges, uart.bit, p) = o + (p - 4) * uart.bit
      BY <2>3, <3>1 DEF Planned
    <3> HIDE DEF o
    <3>5. (n - 4) * uart.bit + (p - n) * uart.bit = (p - 4) * uart.bit
          /\ (n - 4) * uart.bit \in Int /\ (p - n) * uart.bit \in Int
      BY <1>3, <1>9
    <3> QED
      BY <1>6, <2>2, <3>2, <3>3, <3>4, <3>5
  <2>4. CASE ~BeginsWithSync(r)
    <3>1. uart.bit = CfgBitTime /\ CfgBitTime \in Int
      BY <1>1, <1>2, <1>4, <2>4, UartFacts DEF BitMeasured, r
    <3>2. uart.time = s + n * CfgBitTime
          /\ Planned(r, s, edges, uart.bit, p) = s + p * CfgBitTime
      BY <1>12, <2>4 DEF Planned
    <3>3. n * CfgBitTime + (p - n) * CfgBitTime = p * CfgBitTime
          /\ n * CfgBitTime \in Int /\ (p - n) * CfgBitTime \in Int
      BY <3>1, <1>9
    <3> QED
      BY <1>6, <2>2, <3>1, <3>2, <3>3
  <2> QED
    BY <2>3, <2>4
<1> DEFINE c == Extended(b, Len(edges), n)
<1>17. c \in [1 .. Len(edges') -> Nat] /\ Drawn(r, s, edges', uart.bit, c, p)
  <2>1. now - Planned(r, s, edges, uart.bit, n) \in 0 .. MaxLate
    BY <1>2, <1>12
  <2>2. \A x \in 0 .. n : x \in 0 .. p
    BY <1>9
  <2>3. \A x \in 0 .. n : Planned(r, s, Append(edges, now), uart.bit, x)
                              = Planned(r, s, edges, uart.bit, x)
    BY <1>4, <1>15, <2>2
  <2>4. edges = <<>> => n = 0
    BY <1>2, <1>3, <1>9, <1>12, FirstEdge DEF r
  <2>5. BeginsWithSync(r) => /\ Len(edges) <= 4 => n = Len(edges)
                             /\ p > 4 => Len(edges) >= 4
    BY <1>9, <1>13
  <2>6. \A k \in n .. (p - 1) : r[k + 1] = (IF (Len(edges) + 1) % 2 = 0 THEN 1 ELSE 0)
    BY <1>10, <1>11
  <2>7. now \in Int /\ edges \in Seq(Int) /\ n \in Nat /\ p \in Nat /\ n < p
    BY <1>2, <1>3, <1>9
  <2>8. c \in [1 .. Len(Append(edges, now)) -> Nat]
        /\ Drawn(r, s, Append(edges, now), uart.bit, c, p)
    BY <1>12, <2>1, <2>3, <2>4, <2>5, <2>6, <2>7, DrawnGrows
  <2> QED
    BY <1>4, <2>8
<1> HIDE DEF c
<1>18. NextBit' = p
  <2>1. CASE p = uart.writes
    BY <1>4, <1>6, <1>7, <2>1 DEF NextBit, r
  <2>2. CASE p # uart.writes
    BY <1>6, <2>2 DEF NextBit
  <2> QED
    BY <2>1, <2>2
<1>19. Sent'
  <2>1. uart'.time = Planned(request'.bits, s, edges', uart'.bit, NextBit')
        /\ Drawn(request'.bits, s, edges', uart'.bit, c, NextBit')
    BY <1>4, <1>6, <1>16, <1>17, <1>18 DEF r
  <2>2. uart'.func # "send_sync"
    BY <1>6
  <2> QED
    BY <1>17, <2>1, <2>2 DEF Sent
<1>20. BitMeasured'
  <2>1. uart.func # "send_sync"
    BY <1>4
  <2>2. IF BeginsWithSync(r)
        THEN uart.bit = CfgBitTime + Quarter(edges[5] - edges[1] - 4 * CfgBitTime)
        ELSE uart.bit = CfgBitTime
    BY <1>1, <1>2, <2>1 DEF BitMeasured, r
  <2> QED
    BY <1>4, <1>6, <1>14, <2>2 DEF BitMeasured, r
<1>21. Timed'
  <2>1. uart.bit >= 0
    BY <1>1, <1>4 DEF Timed
  <2>2. (p - n) * uart.bit >= 0 /\ (p - n) * uart.bit \in Int
    <3>1. 0 <= p - n /\ p - n \in Int
      BY <1>9
    <3>2. 0 * uart.bit <= (p - n) * uart.bit
      BY <1>3, <2>1, <3>1, Scaled
    <3> QED
      BY <1>3, <3>1, <3>2
  <2>3. uart'.time \in Int /\ now' <= uart'.time + MaxLate
    <3> DEFINE ahead == (p - n) * uart.bit
    <3>1. ahead \in Int /\ ahead >= 0 /\ uart'.time = uart.time + ahead /\ now' = now
      BY <1>4, <1>6, <2>2
    <3>2. MaxLate \in Nat
      BY UartFacts
    <3> HIDE DEF ahead
    <3> QED
      BY <1>2, <3>1, <3>2
  <2>4. uart'.time # Off
    BY <2>3, UartFacts
  <2> QED
    BY <1>1, <1>2, <1>4, <1>6, <2>1, <2>3, <2>4 DEF Timed
<1>22. Sending'
  <2>1. uart'.high = (Len(edges') % 2 = 0)
    <3>1. Len(edges') = Len(edges) + 1
      BY <1>2, <1>3, <1>4
    <3> QED
      BY <1>6, <1>7, <1>9, <3>1, FlippedParity
  <2>2. p # uart.writes => r[p + 1] # Driven(uart')
    <3>1. Driven(uart') = Driven(u)
      BY <1>5, <1>6 DEF Driven
    <3>2. p # uart.writes => p + 1 \in 1 .. uart.writes
      BY <1>3, <1>7, <1>9
    <3>3. p # uart.writes => uart.data[p + 1] # Driven(u)
      BY <1>5, <1>8 DEF BitAt
    <3> QED
      BY <1>7, <3>1, <3>2, <3>3
  <2>3. /\ heard' = <<>> /\ ~uart'.sync /\ uart'.writes = Len(request'.bits)
        /\ \A k \in 1 .. uart'.writes : uart'.data[k] = request'.bits[k]
    BY <1>4, <1>6, <1>7 DEF r
  <2>4. uart'.func # "send_finish" =>
            /\ uart'.pos < uart'.writes
            /\ request'.bits[uart'.pos + 1] # Driven(uart')
    <3> SUFFICES ASSUME uart'.func # "send_finish"
                 PROVE  /\ uart'.pos < uart'.writes
                        /\ request'.bits[uart'.pos + 1] # Driven(uart')
      OBVIOUS
    <3>1. p # uart.writes /\ uart'.pos = p
      BY <1>6
    <3>2. p < uart.writes
      BY <1>3, <1>8, <3>1
    <3> QED
      BY <1>4, <1>6, <2>2, <3>1, <3>2 DEF r
  <2>5. uart'.func = "send" /\ BeginsWithSync(request'.bits) => uart'.pos >= 5
    <3>1. BeginsWithSync(r) => n >= 5 /\ p >= 5
      BY <1>7, <1>9
    <3> QED
      BY <1>4, <1>6, <3>1 DEF r
  <2>6. uart'.func # "send_sync"
    BY <1>6
  <2> QED
    BY <2>1, <2>3, <2>4, <2>5, <2>6 DEF Sending
<1>23. TmcTyped'
  <2>1. uart'.time \in Int \cup {Off}
    <3>1. (p - n) * uart.bit \in Int
      BY <1>3, <1>9
    <3> QED
      BY <1>2, <1>6, <3>1
  <2>2. uart'.pos \in Nat /\ uart'.func \in Writing \cup {"read_sync", "read"}
    BY <1>6, <1>9 DEF Writing
  <2>3. uart'.high \in BOOLEAN /\ edges' \in Seq(Int)
    <3>1. Append(edges, now) \in Seq(Int)
      BY <1>2, <1>3
    <3>2. (~uart.high) \in BOOLEAN
      OBVIOUS
    <3> QED
      BY <1>4, <1>6, <3>1, <3>2
  <2> QED
    BY <1>1, <1>4, <1>6, <2>1, <2>2, <2>3 DEF TmcTyped
<1>24. Reading' /\ RequestAnswered'
  <2>1. uart'.func \notin {"read_sync", "read"}
    BY <1>6
  <2>2. uart'.time # Off
    BY <1>2, <1>6, <1>21 DEF Timed
  <2> QED
    BY <2>1, <2>2 DEF Reading, RequestAnswered
<1> QED
  BY <1>19, <1>20, <1>21, <1>22, <1>23, <1>24 DEF TmcInv

LEMMA SendSyncKeeps ==
    ASSUME TmcInv, Runs(uart.time, {uart.time}), SendSyncEvent
    PROVE  TmcInv'
<1> DEFINE r == request.bits
           n == uart.pos
           diff == (now - uart.time) - uart.bit
           done == n + 1 >= 5
<1>1. TmcTyped /\ Timed /\ Sending /\ Sent
  BY DEF TmcInv
<1>2. /\ uart.time \in Int /\ uart.time # Off /\ now \in Int /\ uart.active
      /\ request.open /\ ~uart.report /\ uart.reads = request.reads
      /\ now - uart.time \in 0 .. MaxLate
      /\ r \in Requests /\ r \in Seq({0, 1}) /\ Len(r) \in Nat \ {0}
  BY EventFacts
<1>3. /\ DOMAIN uart = UartFields /\ n \in Nat /\ uart.writes \in Nat
      /\ uart.bit \in Int /\ uart.high \in BOOLEAN /\ edges \in Seq(Int)
      /\ CfgBitTime \in Nat /\ CfgBitTime > 0 /\ MaxLate \in Nat /\ 2 * MaxLate < CfgBitTime
  BY <1>1, UartFacts DEF TmcTyped
<1>4. /\ uart.func = "send_sync" /\ edges' = Append(edges, now)
      /\ UNCHANGED <<now, wake, heard, request>>
  BY DEF SendSyncEvent, Quiet
<1>5. /\ DOMAIN uart' = UartFields
      /\ uart'.time = (IF done THEN uart.time + diff + uart'.bit ELSE uart.time + CfgBitTime)
      /\ uart'.bit = (IF done THEN CfgBitTime + Quarter(diff)
                      ELSE IF n + 1 = 1 THEN now - uart.time ELSE uart.bit)
      /\ uart'.func = (IF done THEN "send" ELSE "send_sync") /\ uart'.pos = n + 1
      /\ uart'.high = ~uart.high /\ uart'.writes = uart.writes
      /\ uart'.data = uart.data /\ uart'.active = uart.active /\ uart'.sync = uart.sync
      /\ uart'.report = uart.report /\ uart'.reads = uart.reads
  <2> DEFINE u == [Toggle(uart) EXCEPT !.pos = @ + 1]
  <2>1. /\ DOMAIN u = UartFields /\ u.high = ~uart.high /\ u.pos = n + 1
        /\ u.writes = uart.writes /\ u.data = uart.data /\ u.bit = uart.bit
        /\ u.time = uart.time /\ u.active = uart.active /\ u.sync = uart.sync
        /\ u.report = uart.report /\ u.reads = uart.reads /\ u.func = uart.func
    BY <1>3 DEF Toggle, UartFields
  <2>2. uart' = IF u.pos >= 5
                THEN [u EXCEPT !.bit = CfgBitTime + Quarter((now - u.time) - u.bit),
                               !.func = "send",
                               !.time = @ + ((now - u.time) - u.bit)
                                          + (CfgBitTime + Quarter((now - u.time) - u.bit))]
                ELSE [u EXCEPT !.bit = IF u.pos = 1 THEN now - u.time ELSE @,
                               !.time = @ + CfgBitTime]
    BY DEF SendSyncEvent
  <2> HIDE DEF u
  <2>3. CASE done
    <3>1. uart' = [u EXCEPT !.bit = CfgBitTime + Quarter(diff), !.func = "send",
                            !.time = @ + diff + (CfgBitTime + Quarter(diff))]
      BY <2>1, <2>2, <2>3
    <3> HIDE DEF diff
    <3> QED
      BY <1>4, <2>1, <2>3, <3>1 DEF UartFields
  <2>4. CASE ~done
    <3>1. uart' = [u EXCEPT !.bit = IF n + 1 = 1 THEN now - uart.time ELSE @,
                            !.time = @ + CfgBitTime]
      BY <2>1, <2>2, <2>4
    <3> HIDE DEF diff
    <3> QED
      BY <1>4, <2>1, <2>4, <3>1 DEF UartFields
  <2> QED
    BY <2>3, <2>4
<1> HIDE DEF diff
<1>6. /\ heard = <<>> /\ ~uart.sync /\ uart.writes = Len(r)
      /\ \A k \in 1 .. uart.writes : uart.data[k] = r[k]
      /\ uart.high = (Len(edges) % 2 = 0)
      /\ n = Len(edges) /\ n <= 4 /\ BeginsWithSync(r)
  BY <1>1, <1>2, <1>4 DEF Sending, Writing
<1>7. Len(r) >= 6 /\ \A i \in 1 .. 6 : r[i] = (i - 1) % 2
  BY <1>2, <1>6, SyncBits
<1>8. n \in 0 .. 4 /\ n + 1 \in 1 .. 6 /\ n + 2 \in 1 .. 6
  <2>1. n \in Nat /\ n <= 4
    BY <1>3, <1>6
  <2> HIDE DEF n
  <2> QED
    BY <2>1
<1>9. PICK s \in Int, b \in [1 .. Len(edges) -> Nat] :
         /\ Drawn(r, s, edges, uart.bit, b, n)
         /\ uart.time = Planned(r, s, edges, uart.bit, n)
         /\ edges # <<>> => uart.bit = edges[1] - s
  <2>1. NextBit = n /\ uart.func \in Writing
    BY <1>4 DEF NextBit, Writing
  <2> QED
    BY <1>1, <1>2, <1>4, <2>1 DEF Sent
<1> HIDE DEF r, n
<1>10. uart.time = s + n * CfgBitTime
  <2>1. ~(n > 4)
    BY <1>8
  <2> QED
    BY <1>9, <2>1 DEF Planned
<1>11. \A e, bit : \A x \in 0 .. n : Planned(r, s, e, bit, x) = s + x * CfgBitTime
  <2>1. \A x \in 0 .. n : ~(x > 4)
    BY <1>8
  <2> QED
    BY <2>1 DEF Planned
<1> DEFINE c == Extended(b, Len(edges), n)
           f == Append(edges, now)
<1>12. c \in [1 .. Len(f) -> Nat] /\ Drawn(r, s, f, uart'.bit, c, n + 1)
  <2>1. now - Planned(r, s, edges, uart.bit, n) \in 0 .. MaxLate
    BY <1>2, <1>9
  <2>2. \A x \in 0 .. n : Planned(r, s, Append(edges, now), uart'.bit, x)
                              = Planned(r, s, edges, uart.bit, x)
    BY <1>11
  <2>3. edges = <<>> => n = 0
    BY <1>6
  <2>4. BeginsWithSync(r) => /\ Len(edges) <= 4 => n = Len(edges)
                             /\ n + 1 > 4 => Len(edges) >= 4
    BY <1>6, <1>8
  <2>5. \A k \in n .. ((n + 1) - 1) : r[k + 1] = (IF (Len(edges) + 1) % 2 = 0 THEN 1 ELSE 0)
    <3>1. r[n + 1] = n % 2
      <4>1. (n + 1) - 1 = n
        BY <1>8
      <4> QED
        BY <1>7, <1>8, <4>1
    <3>2. n % 2 = (IF (n + 1) % 2 = 0 THEN 1 ELSE 0)
      BY <1>8
    <3>3. \A k \in n .. ((n + 1) - 1) : k = n
      BY <1>8
    <3> QED
      BY <1>6, <3>1, <3>2, <3>3
  <2>6. now \in Int /\ edges \in Seq(Int) /\ n \in Nat /\ n + 1 \in Nat /\ n < n + 1
    BY <1>2, <1>3, <1>8
  <2> QED
    BY <1>9, <2>1, <2>2, <2>3, <2>4, <2>5, <2>6, DrawnGrows
<1> HIDE DEF c
<1>13. Len(f) = n + 1 /\ f \in Seq(Int) /\ f[n + 1] = now /\ \A i \in 1 .. n : f[i] = edges[i]
  BY <1>2, <1>3, <1>6
<1>14. n > 0 => edges # <<>> /\ f[1] = edges[1] /\ edges[1] \in Int
  <2>1. n > 0 => 1 \in 1 .. n
    BY <1>8
  <2>2. n > 0 => edges # <<>>
    BY <1>6
  <2>3. n > 0 => edges[1] \in Int
    BY <1>3, <1>6
  <2> QED
    BY <1>13, <2>1, <2>2, <2>3
<1>15. n = 0 => f[1] = now /\ uart.time = s
  BY <1>3, <1>9, <1>10, <1>13
<1> HIDE DEF f
<1>16. ~done => uart'.bit = f[1] - s /\ uart'.bit \in Int
  <2> SUFFICES ASSUME ~done PROVE uart'.bit = f[1] - s /\ uart'.bit \in Int
    OBVIOUS
  <2>1. CASE n = 0
    BY <1>2, <1>5, <1>15, <2>1
  <2>2. CASE n > 0
    <3>1. uart'.bit = uart.bit
      BY <1>5, <1>8, <2>2
    <3> QED
      BY <1>3, <1>9, <1>14, <2>2, <3>1
  <2> QED
    BY <1>8, <2>1, <2>2
<1>17. done => /\ n = 4 /\ f[5] = now /\ f[1] = edges[1] /\ f[1] \in Int
               /\ uart.bit = f[1] - s /\ diff = f[5] - f[1] - 4 * CfgBitTime
               /\ diff \in Int /\ -MaxLate <= diff /\ diff <= MaxLate
               /\ f[1] - s \in 0 .. MaxLate
  <2> SUFFICES ASSUME done
               PROVE  /\ n = 4 /\ f[5] = now /\ f[1] = edges[1] /\ f[1] \in Int
                      /\ uart.bit = f[1] - s /\ diff = f[5] - f[1] - 4 * CfgBitTime
                      /\ diff \in Int /\ -MaxLate <= diff /\ diff <= MaxLate
                      /\ f[1] - s \in 0 .. MaxLate
    OBVIOUS
  <2>1. n = 4
    BY <1>8
  <2>2. f[5] = now /\ f[1] = edges[1] /\ edges[1] \in Int /\ uart.bit = f[1] - s
    BY <1>9, <1>13, <1>14, <2>1
  <2>3. uart.time = s + 4 * CfgBitTime
    BY <1>10, <2>1
  <2>4. f[1] - s \in 0 .. MaxLate
    <3>1. 1 \in 1 .. Len(f) /\ c[1] = 0 /\ BeginsWithSync(r)
      <4>1. 1 \in 1 .. Len(f) /\ 1 <= 5 /\ 1 - 1 = 0
        BY <1>13, <2>1
      <4> QED
        BY <1>6, <1>12, <4>1 DEF Drawn, f, r
    <3>2. f[1] - Planned(r, s, f, uart'.bit, 0) \in 0 .. MaxLate
      BY <1>12, <3>1 DEF Drawn, f
    <3>3. 0 \in 0 .. n /\ s + 0 * CfgBitTime = s
      BY <1>3, <1>8
    <3>4. Planned(r, s, f, uart'.bit, 0) = s
      BY <1>11, <3>3
    <3> QED
      BY <3>2, <3>4
  <2>5. diff = f[5] - f[1] - 4 * CfgBitTime
    BY <1>2, <1>3, <2>2, <2>3 DEF diff
  <2>6. f[5] - (s + 4 * CfgBitTime) \in 0 .. MaxLate
    BY <1>2, <2>2, <2>3
  <2>7. diff \in Int /\ -MaxLate <= diff /\ diff <= MaxLate
    <3> DEFINE e1 == f[1]
               e5 == f[5]
    <3>1. e1 \in Int /\ e5 \in Int /\ e1 - s \in 0 .. MaxLate
          /\ e5 - (s + 4 * CfgBitTime) \in 0 .. MaxLate
      BY <1>2, <2>2, <2>4, <2>6
    <3> HIDE DEF e1, e5
    <3>2. LET d == e5 - e1 - 4 * CfgBitTime
          IN d \in Int /\ -MaxLate <= d /\ d <= MaxLate
      BY <3>1, MeasureIs
    <3> QED
      BY <2>5, <3>2 DEF e1, e5
  <2> QED
    BY <2>1, <2>2, <2>4, <2>5, <2>7
<1>18. done => /\ uart'.bit \in Int /\ uart'.bit >= 0 /\ diff + uart'.bit >= 0
               /\ uart'.bit = CfgBitTime + Quarter(diff)
  <2> SUFFICES ASSUME done
               PROVE  /\ uart'.bit \in Int /\ uart'.bit >= 0 /\ diff + uart'.bit >= 0
                      /\ uart'.bit = CfgBitTime + Quarter(diff)
    OBVIOUS
  <2>1. /\ Quarter(diff) \in Int /\ -Rounding <= 4 * Quarter(diff) - diff
        /\ diff \in Int /\ -MaxLate <= diff /\ uart'.bit = CfgBitTime + Quarter(diff)
    BY <1>5, <1>17, QuarterIs
  <2>2. -Rounding >= -MaxLate /\ Rounding \in Nat
    BY <1>3 DEF Rounding
  <2> QED
    BY <1>3, <2>1, <2>2
<1>19. uart'.time = Planned(r, s, f, uart'.bit, n + 1)
  <2>1. CASE done
    <3>1. n + 1 > 4 /\ (n + 1) - 4 = 1 /\ n = 4
      BY <1>17, <2>1
    <3>2. Planned(r, s, f, uart'.bit, n + 1) = f[5] - (f[1] - s) + 1 * uart'.bit
      BY <1>6, <3>1 DEF Planned, r
    <3>3. uart'.time = uart.time + diff + uart'.bit
      BY <1>5, <2>1
    <3>4. uart.time = s + 4 * CfgBitTime
      BY <1>10, <3>1
    <3> DEFINE x == f[5]
               y == f[1]
               bit == uart'.bit
    <3>5. /\ x \in Int /\ y \in Int /\ bit \in Int /\ diff = x - y - 4 * CfgBitTime
          /\ Planned(r, s, f, bit, n + 1) = x - (y - s) + 1 * bit
          /\ uart'.time = s + 4 * CfgBitTime + diff + bit
      BY <1>2, <1>17, <1>18, <2>1, <3>2, <3>3, <3>4
    <3> HIDE DEF done, x, y, bit
    <3>6. uart'.time = Planned(r, s, f, bit, n + 1)
      BY <1>3, <3>5
    <3> QED
      BY <3>6 DEF bit
  <2>2. CASE ~done
    <3>1. ~(n + 1 > 4)
      BY <1>8, <2>2
    <3>2. Planned(r, s, f, uart'.bit, n + 1) = s + (n + 1) * CfgBitTime
      BY <3>1 DEF Planned
    <3>3. (n + 1) * CfgBitTime = n * CfgBitTime + CfgBitTime /\ n * CfgBitTime \in Int
      BY <1>3, <1>8, Expanded
    <3>4. uart'.time = uart.time + CfgBitTime
      BY <1>5, <2>2
    <3> QED
      BY <1>3, <1>10, <3>2, <3>3, <3>4
  <2> QED
    BY <2>1, <2>2
<1>20. Sent'
  <2>1. NextBit' = n + 1
    BY <1>5 DEF NextBit
  <2>2. edges' = f /\ request'.bits = r
    BY <1>4 DEF f, r
  <2>3. uart'.func = "send_sync" => uart'.bit = edges'[1] - s
    BY <1>5, <1>16, <2>2
  <2>4. /\ c \in [1 .. Len(edges') -> Nat]
        /\ Drawn(request'.bits, s, edges', uart'.bit, c, NextBit')
        /\ uart'.time = Planned(request'.bits, s, edges', uart'.bit, NextBit')
    BY <1>12, <1>19, <2>1, <2>2 DEF f
  <2> QED
    BY <2>3, <2>4 DEF Sent
<1>21. BitMeasured'
  <2>1. edges' = f /\ request'.bits = r /\ BeginsWithSync(r)
    BY <1>4, <1>6 DEF f, r
  <2> SUFFICES ASSUME uart'.func # "send_sync"
               PROVE  uart'.bit = CfgBitTime + Quarter(f[5] - f[1] - 4 * CfgBitTime)
    BY <2>1 DEF BitMeasured
  <2>2. done
    BY <1>5
  <2> QED
    BY <1>17, <1>18, <2>2
<1>22. Timed'
  <2>1. uart'.time \in Int /\ now' <= uart'.time + MaxLate
    <3>1. CASE done
      <4>1. uart'.time = uart.time + diff + uart'.bit
        BY <1>5, <3>1
      <4>2. now <= uart.time + MaxLate /\ now' = now /\ uart.time \in Int /\ now \in Int
        BY <1>2, <1>3, <1>4
      <4> DEFINE ahead == diff + uart'.bit
      <4>3. ahead \in Int /\ ahead >= 0 /\ uart'.time = uart.time + ahead
        <5>1. diff \in Int /\ uart'.bit \in Int /\ diff + uart'.bit >= 0
          BY <1>17, <1>18, <3>1
        <5> HIDE DEF done
        <5> QED
          BY <4>1, <4>2, <5>1
      <4> HIDE DEF done, ahead
      <4> QED
        BY <1>3, <4>2, <4>3
    <3>2. CASE ~done
      <4>1. uart'.time = uart.time + CfgBitTime
        BY <1>5, <3>2
      <4> QED
        BY <1>2, <1>3, <1>4, <4>1
    <3> QED
      BY <3>1, <3>2
  <2>2. uart'.time # Off
    BY <2>1, UartFacts
  <2>3. uart'.func # "send_sync" => uart'.bit >= 0
    BY <1>5, <1>18
  <2> QED
    BY <1>1, <1>2, <1>4, <1>5, <2>1, <2>2, <2>3 DEF Timed
<1>23. Sending'
  <2>1. uart'.high = (Len(edges') % 2 = 0)
    <3>1. Len(edges') = n + 1
      BY <1>4, <1>13 DEF f
    <3>2. (n + 1) % 2 = 0 <=> ~(n % 2 = 0)
      BY <1>8, FlippedParity
    <3>3. uart.high = (n % 2 = 0)
      BY <1>6
    <3> QED
      BY <1>5, <3>1, <3>2, <3>3
  <2>2. uart'.pos = n + 1 /\ request'.bits = r /\ edges' = f /\ Len(f) = n + 1
    BY <1>4, <1>5, <1>13 DEF f, r
  <2>3. r[n + 2] # Driven(uart')
    <3>1. r[n + 2] = (n + 1) % 2
      <4>1. (n + 2) - 1 = n + 1
        BY <1>8
      <4> QED
        BY <1>7, <1>8, <4>1
    <3>2. Driven(uart') = IF (n + 1) % 2 = 0 THEN 1 ELSE 0
      BY <2>1, <2>2 DEF Driven
    <3>3. (n + 1) % 2 = 0 \/ (n + 1) % 2 = 1
      BY <1>8
    <3> QED
      BY <3>1, <3>2, <3>3
  <2>4. uart'.pos < uart'.writes /\ request'.bits[uart'.pos + 1] # Driven(uart')
    <3>1. n + 1 < Len(r) /\ (n + 1) + 1 = n + 2
      BY <1>2, <1>7, <1>8
    <3> QED
      BY <1>5, <1>6, <2>2, <2>3, <3>1 DEF r
  <2>5. /\ heard' = <<>> /\ ~uart'.sync /\ uart'.writes = Len(request'.bits)
        /\ \A k \in 1 .. uart'.writes : uart'.data[k] = request'.bits[k]
    BY <1>4, <1>5, <1>6 DEF r
  <2>6. uart'.func = "send" => uart'.pos >= 5
    BY <1>5
  <2>7. uart'.func = "send_sync" => /\ uart'.pos = Len(edges') /\ uart'.pos <= 4
                                    /\ BeginsWithSync(request'.bits)
    BY <1>5, <1>6, <1>8, <2>2 DEF r
  <2> QED
    BY <2>1, <2>4, <2>5, <2>6, <2>7 DEF Sending
<1>24. TmcTyped'
  <2>1. uart'.time \in Int \cup {Off} /\ uart'.bit \in Int
    <3>1. uart'.time \in Int
      <4>1. CASE done
        <5>1. uart'.time = uart.time + diff + uart'.bit
          BY <1>5, <4>1
        <5>2. diff \in Int /\ uart'.bit \in Int /\ uart.time \in Int
          BY <1>2, <1>17, <1>18, <4>1
        <5> HIDE DEF done
        <5> QED
          BY <5>1, <5>2
      <4>2. CASE ~done
        BY <1>2, <1>3, <1>5, <4>2
      <4> QED
        BY <4>1, <4>2
    <3> QED
      BY <1>16, <1>18, <3>1
  <2>2. uart'.pos \in Nat /\ uart'.func \in Writing \cup {"read_sync", "read"}
    BY <1>5, <1>8 DEF Writing
  <2>3. uart'.high \in BOOLEAN /\ edges' \in Seq(Int)
    BY <1>4, <1>5, <1>13 DEF f
  <2> QED
    BY <1>1, <1>4, <1>5, <2>1, <2>2, <2>3 DEF TmcTyped
<1>25. Reading' /\ RequestAnswered'
  <2>1. uart'.func \notin {"read_sync", "read"}
    BY <1>5
  <2>2. uart'.time # Off
    BY <1>2, <1>5, <1>22 DEF Timed
  <2> QED
    BY <2>1, <2>2 DEF Reading, RequestAnswered
<1> QED
  BY <1>20, <1>21, <1>22, <1>23, <1>24, <1>25 DEF TmcInv

LEMMA FinalizeIs ==
    ASSUME NEW u, DOMAIN u = UartFields, Finalize(u)
    PROVE  /\ wake' = TRUE /\ DOMAIN uart' = UartFields /\ uart'.time = Off
           /\ uart'.high = TRUE /\ uart'.active = FALSE /\ uart'.sync = FALSE
           /\ uart'.report = TRUE /\ uart'.func = u.func /\ uart'.pos = u.pos
           /\ uart'.reads = u.reads /\ uart'.writes = u.writes /\ uart'.bit = u.bit
           /\ uart'.data = u.data
BY DEF Finalize, ResetLine, UartFields

LEMMA SendFinishKeeps ==
    ASSUME TmcInv, Runs(uart.time, {uart.time}), SendFinishEvent
    PROVE  TmcInv'
<1>1. TmcTyped /\ Timed /\ Sending /\ Sent /\ BitMeasured
  BY DEF TmcInv
<1>2. /\ uart.time \in Int /\ uart.time # Off /\ now \in Int /\ uart.active
      /\ request.open /\ ~uart.report /\ uart.reads = request.reads
      /\ now <= uart.time + MaxLate /\ request.bits \in Requests
  BY <1>1, EventFacts DEF Timed
<1>3. /\ uart.func = "send_finish" /\ UNCHANGED <<now, edges, heard, request>>
  BY DEF SendFinishEvent, Quiet
<1>4. DOMAIN uart = UartFields /\ uart.bit \in Int /\ uart.bit >= 0
  BY <1>1, <1>3 DEF TmcTyped, Timed
<1>5. heard = <<>> /\ ~uart.sync
  BY <1>1, <1>2, <1>3 DEF Sending, Writing
<1>6. CASE uart.reads = 0 /\ Finalize(uart)
  <2>1. /\ wake' = TRUE /\ DOMAIN uart' = UartFields /\ uart'.time = Off
        /\ uart'.high = TRUE /\ uart'.active = FALSE /\ uart'.sync = FALSE
        /\ uart'.report = TRUE /\ uart'.func = uart.func /\ uart'.pos = uart.pos
        /\ uart'.reads = uart.reads /\ uart'.writes = uart.writes /\ uart'.bit = uart.bit
        /\ uart'.data = uart.data
    BY <1>4, <1>6, FinalizeIs
  <2>2. TmcTyped'
    <3>1. /\ wake' \in BOOLEAN /\ uart'.high \in BOOLEAN /\ uart'.active \in BOOLEAN
          /\ uart'.sync \in BOOLEAN /\ uart'.report \in BOOLEAN
      BY <2>1
    <3> QED
      BY <1>1, <1>3, <2>1, <3>1 DEF TmcTyped
  <2>3. Sent'
    <3>1. uart.func \in Writing /\ NextBit' = NextBit
      BY <1>3, <2>1 DEF Writing, NextBit
    <3>2. PICK s \in Int, b \in [1 .. Len(edges) -> Nat] :
              Drawn(request.bits, s, edges, uart.bit, b, NextBit)
      BY <1>1, <1>2, <3>1 DEF Sent
    <3>3. /\ Drawn(request'.bits, s, edges', uart'.bit, b, NextBit')
          /\ b \in [1 .. Len(edges') -> Nat]
      BY <1>3, <2>1, <3>1, <3>2
    <3>4. uart'.time = Off /\ uart'.func # "send_sync"
      BY <1>3, <2>1
    <3> QED
      BY <3>3, <3>4 DEF Sent
  <2>4. BitMeasured'
    BY <1>1, <1>3, <2>1 DEF BitMeasured
  <2>5. Timed' /\ Sending' /\ Reading'
    BY <1>4, <2>1 DEF Timed, Sending, Reading
  <2>6. RequestAnswered'
    BY <1>2, <1>3, <1>6, <2>1 DEF RequestAnswered
  <2> QED
    BY <2>2, <2>3, <2>4, <2>5, <2>6 DEF TmcInv
<1>7. CASE uart.reads # 0 /\ uart' = [uart EXCEPT !.pos = 0, !.func = "read_sync",
                                                  !.time = @ + 4 * uart.bit]
           /\ wake' = wake
  <2>1. /\ DOMAIN uart' = UartFields /\ uart'.time = uart.time + 4 * uart.bit
        /\ uart'.high = uart.high /\ uart'.active = uart.active /\ uart'.sync = uart.sync
        /\ uart'.report = uart.report /\ uart'.func = "read_sync" /\ uart'.pos = 0
        /\ uart'.reads = uart.reads /\ uart'.writes = uart.writes /\ uart'.bit = uart.bit
        /\ uart'.data = uart.data
    BY <1>4, <1>7 DEF UartFields
  <2>2. uart'.time \in Int /\ now' <= uart'.time + MaxLate /\ uart'.time # Off
    <3>1. uart'.time \in Int /\ now' <= uart'.time + MaxLate
      BY <1>2, <1>3, <1>4, <2>1, UartFacts
    <3> QED
      BY <3>1, UartFacts
  <2>3. TmcTyped'
    <3>1. uart'.pos \in Nat /\ uart'.func \in Writing \cup {"read_sync", "read"}
          /\ uart'.time \in Int \cup {Off}
      BY <2>1, <2>2
    <3> QED
      BY <1>1, <1>3, <1>7, <2>1, <3>1 DEF TmcTyped
  <2>4. Sent' /\ Sending'
    BY <2>1 DEF Sent, Sending, Writing
  <2>5. BitMeasured'
    BY <1>1, <1>3, <2>1 DEF BitMeasured
  <2>6. Timed'
    BY <1>1, <1>2, <1>3, <1>4, <2>1, <2>2 DEF Timed
  <2>7. Reading'
    <3>1. heard' = <<>> /\ Len(<<>>) = 0 /\ SyncLimit \in Nat
      BY <1>3, <1>5, UartFacts
    <3>2. Starts(heard') = {}
      BY <3>1 DEF Starts
    <3>3. ~ \E i \in 1 .. Len(heard') : heard'[i] = 1
      BY <3>1
    <3>4. uart'.reads # 0 /\ uart'.pos = Len(heard') /\ uart'.pos <= SyncLimit
      BY <1>7, <2>1, <3>1
    <3> QED
      BY <1>5, <2>1, <3>2, <3>3, <3>4 DEF Reading
  <2>8. RequestAnswered'
    BY <2>2 DEF RequestAnswered
  <2> QED
    BY <2>3, <2>4, <2>5, <2>6, <2>7, <2>8 DEF TmcInv
<1> QED
  BY <1>6, <1>7 DEF SendFinishEvent

LEMMA TmcuartSendKeeps ==
    ASSUME TmcInv, NEW bits \in Requests, NEW reads \in ReplyBits,
           TmcuartSend(bits, reads)
    PROVE  TmcInv'
<1>1. TmcTyped /\ Timed /\ RequestAnswered
  BY DEF TmcInv
<1>2. UNCHANGED <<now, task, wake>>
  BY DEF TmcuartSend, Quiet, Free
<1>3. CASE uart.active
  <2>1. tmcVars' = tmcVars
    BY <1>3 DEF TmcuartSend, Free
  <2>2. now' \in Int /\ wake' \in BOOLEAN
    BY <1>1, <1>2 DEF TmcTyped
  <2>3. uart.time # Off => now' <= uart.time + MaxLate
    BY <1>1, <1>2, <1>3 DEF Timed
  <2>4. uart.time # Off
    BY <1>1, <1>3 DEF Timed
  <2> QED
    BY <2>1, <2>2, <2>3, <2>4, UartKept
<1>4. CASE ~uart.active
  <2> DEFINE old == SubSeq(uart.data, Len(bits) + 1, Len(uart.data))
             sync == BeginsWithSync(bits)
  <2>1. /\ uart' = [uart EXCEPT
                 !.data = bits \o old, !.pos = 0,
                 !.sync = FALSE, !.report = FALSE, !.active = TRUE,
                 !.writes = Len(bits), !.reads = reads,
                 !.func = IF sync THEN "send_sync" ELSE "send",
                 !.bit = IF sync THEN @ ELSE CfgBitTime,
                 !.time = now + SendDelay]
        /\ edges' = <<>> /\ heard' = <<>>
        /\ request' = [bits |-> bits, reads |-> reads, open |-> TRUE]
    BY <1>4 DEF TmcuartSend, Free
  <2>2. DOMAIN uart = UartFields /\ uart.bit \in Int /\ uart.data \in Seq({0, 1})
        /\ now \in Int
    BY <1>1 DEF TmcTyped
  <2>3. old \in Seq({0, 1})
    <3>1. \A i \in (Len(bits) + 1) .. Len(uart.data) : uart.data[i] \in {0, 1}
      <4>1. Len(bits) \in Nat
        BY UartFacts
      <4> QED
        BY <2>2, <4>1
    <3>2. Len(bits) + 1 \in Int /\ Len(uart.data) \in Int
      BY <2>2, UartFacts
    <3> QED
      BY <3>1, <3>2, SubSeqProperties
  <2> HIDE DEF old, sync
  <2>4. /\ DOMAIN uart' = UartFields /\ uart'.data = bits \o old /\ uart'.pos = 0
        /\ uart'.sync = FALSE /\ uart'.report = FALSE /\ uart'.active = TRUE
        /\ uart'.writes = Len(bits) /\ uart'.reads = reads
        /\ uart'.func = (IF sync THEN "send_sync" ELSE "send")
        /\ uart'.bit = (IF sync THEN uart.bit ELSE CfgBitTime)
        /\ uart'.time = now + SendDelay /\ uart'.high = uart.high
    BY <2>1, <2>2 DEF UartFields
  <2>5. /\ DOMAIN request' = {"bits", "reads", "open"} /\ request'.bits = bits
        /\ request'.reads = reads /\ request'.open = TRUE
    BY <2>1
  <2>6. uart.high = TRUE
    BY <1>1, <1>4 DEF Timed, TmcTyped
  <2>7. /\ bits \in Seq({0, 1}) /\ Len(bits) \in Nat \ {0} /\ bits[1] = 0 /\ reads \in Nat
        /\ CfgBitTime \in Nat /\ SendDelay \in Nat /\ MaxLate \in Nat
    BY UartFacts
  <2>8. Len(edges') = 0 /\ edges' \in Seq(Int) /\ heard' \in Seq({0, 1})
    <3>1. Len(<<>>) = 0 /\ <<>> \in Seq(Int) /\ <<>> \in Seq({0, 1})
      OBVIOUS
    <3> QED
      BY <2>1, <3>1
  <2>9. uart'.time \in Int /\ now' <= uart'.time + MaxLate /\ uart'.time # Off
    <3>1. uart'.time \in Int /\ now' <= uart'.time + MaxLate
      BY <1>2, <2>2, <2>4, <2>7
    <3> QED
      BY <3>1, UartFacts
  <2>10. uart'.data \in Seq({0, 1}) /\ \A k \in 1 .. Len(bits) : uart'.data[k] = bits[k]
    <3>1. bits \o old \in Seq({0, 1}) /\ \A k \in 1 .. Len(bits) : (bits \o old)[k] = bits[k]
      BY <2>3, <2>7
    <3> QED
      BY <2>4, <3>1
  <2>11. TmcTyped'
    <3>1. uart'.time \in Int \cup {Off} /\ uart'.pos \in Nat /\ uart'.reads \in Nat
          /\ uart'.writes \in Nat /\ uart'.bit \in Int /\ now' \in Int
      BY <1>2, <2>2, <2>4, <2>7, <2>9
    <3>2. uart'.func \in Writing \cup {"read_sync", "read"}
      BY <2>4 DEF Writing
    <3>3. /\ uart'.high \in BOOLEAN /\ uart'.active \in BOOLEAN /\ uart'.sync \in BOOLEAN
          /\ uart'.report \in BOOLEAN /\ wake' \in BOOLEAN /\ request'.open \in BOOLEAN
      BY <1>1, <1>2, <2>4, <2>5, <2>6 DEF TmcTyped
    <3>4. request'.bits \in Requests /\ request'.reads \in Nat
      BY <2>5, <2>7
    <3> QED
      BY <2>4, <2>5, <2>8, <2>10, <3>1, <3>2, <3>3, <3>4 DEF TmcTyped
  <2>12. Timed'
    BY <2>4, <2>5, <2>7, <2>9 DEF Timed
  <2>13. Sending'
    <3>1. uart'.high = (Len(edges') % 2 = 0)
      <4>1. 0 % 2 = 0
        OBVIOUS
      <4> QED
        BY <2>4, <2>6, <2>8, <4>1
    <3>2. uart'.pos < uart'.writes /\ request'.bits[uart'.pos + 1] # Driven(uart')
      <4>1. Driven(uart') = 1
        BY <2>4, <2>6 DEF Driven
      <4> QED
        BY <2>4, <2>5, <2>7, <4>1
    <3>3. uart'.pos = Len(edges') /\ uart'.pos <= 4 /\ uart'.func # "send_finish"
      BY <2>4, <2>8
    <3>4. uart'.func = "send" => ~BeginsWithSync(request'.bits)
      BY <2>4, <2>5 DEF sync
    <3>5. uart'.func = "send_sync" => BeginsWithSync(request'.bits)
      BY <2>4, <2>5 DEF sync
    <3>6. /\ heard' = <<>> /\ ~uart'.sync /\ uart'.writes = Len(request'.bits)
          /\ \A k \in 1 .. uart'.writes : uart'.data[k] = request'.bits[k]
      <4>1. uart'.writes = Len(bits) /\ request'.bits = bits
        BY <2>4, <2>5
      <4>2. heard' = <<>> /\ ~uart'.sync
        BY <2>1, <2>4
      <4> QED
        BY <2>10, <4>1, <4>2
    <3> QED
      BY <3>1, <3>2, <3>3, <3>4, <3>5, <3>6 DEF Sending
  <2>14. Sent'
    <3> DEFINE s == now + SendDelay
               b == [i \in 1 .. 0 |-> 0]
    <3>1. s \in Int /\ b \in [1 .. Len(edges') -> Nat]
      BY <2>2, <2>7, <2>8
    <3>2. NextBit' = 0
      BY <2>4 DEF NextBit
    <3>3. Drawn(bits, s, edges', uart'.bit, b, 0)
      <4>1. edges' = <<>> /\ (\A i \in 1 .. 0 : FALSE) /\ (\A k \in 0 .. (0 - 1) : FALSE)
            /\ ~(0 > 4)
        BY <2>1
      <4> QED
        BY <2>8, <4>1 DEF Drawn
    <3>4. Planned(bits, s, edges', uart'.bit, 0) = s
      <4>1. ~(0 > 4) /\ s + 0 * CfgBitTime = s
        BY <2>7, <3>1
      <4> QED
        BY <4>1 DEF Planned
    <3>5. edges' = <<>>
      BY <2>1
    <3> HIDE DEF b
    <3> QED
      BY <2>4, <2>5, <3>1, <3>2, <3>3, <3>4, <3>5 DEF Sent
  <2>15. BitMeasured'
    BY <2>4, <2>5 DEF BitMeasured, sync
  <2>16. Reading' /\ RequestAnswered'
    <3>1. uart'.func \notin {"read_sync", "read"}
      BY <2>4
    <3> QED
      BY <2>9, <3>1 DEF Reading, RequestAnswered
  <2> QED
    BY <2>11, <2>12, <2>13, <2>14, <2>15, <2>16 DEF TmcInv
<1> QED
  BY <1>3, <1>4

(* Reading a reply.                                                         *)
LEMMA StoredIs ==
    ASSUME NEW u, DOMAIN u = UartFields, u.pos \in Nat, u.data \in Seq({0, 1}),
           u.pos <= Len(u.data), NEW v \in {0, 1}
    PROVE  LET w == Stored(u, v)
           IN /\ DOMAIN w = UartFields /\ w.data \in Seq({0, 1})
              /\ u.pos + 1 <= Len(w.data) /\ w.data[u.pos + 1] = v
              /\ \A k \in 1 .. u.pos : w.data[k] = u.data[k]
              /\ w.time = u.time /\ w.func = u.func /\ w.high = u.high
              /\ w.active = u.active /\ w.sync = u.sync /\ w.report = u.report
              /\ w.pos = u.pos /\ w.reads = u.reads /\ w.writes = u.writes /\ w.bit = u.bit
<1> DEFINE l == IF Len(u.data) > u.pos THEN Len(u.data) ELSE u.pos + 1
           d == [k \in 1 .. l |-> IF k = u.pos + 1 THEN v ELSE u.data[k]]
           w == Stored(u, v)
<1>1. l \in Nat /\ u.pos + 1 <= l /\ Len(u.data) \in Nat
  OBVIOUS
<1>2. w = [u EXCEPT !.data = d]
  BY DEF Stored
<1>3. \A k \in 1 .. l : (IF k = u.pos + 1 THEN v ELSE u.data[k]) \in {0, 1}
  <2> TAKE k \in 1 .. l
  <2>1. k # u.pos + 1 => k \in 1 .. Len(u.data)
    BY <1>1
  <2> QED
    BY <2>1
<1> HIDE DEF l
<1>4. d \in Seq({0, 1}) /\ Len(d) = l
  BY <1>1, <1>3
<1>5. d[u.pos + 1] = v /\ \A k \in 1 .. u.pos : d[k] = u.data[k]
  <2>1. u.pos + 1 \in 1 .. l
    BY <1>1
  <2>2. \A k \in 1 .. u.pos : k \in 1 .. l /\ k # u.pos + 1
    BY <1>1
  <2> QED
    BY <2>1, <2>2
<1> HIDE DEF d, w
<1>6. /\ DOMAIN w = UartFields /\ w.data = d
      /\ w.time = u.time /\ w.func = u.func /\ w.high = u.high
      /\ w.active = u.active /\ w.sync = u.sync /\ w.report = u.report
      /\ w.pos = u.pos /\ w.reads = u.reads /\ w.writes = u.writes /\ w.bit = u.bit
  BY <1>2 DEF UartFields
<1>7. /\ w.data \in Seq({0, 1}) /\ u.pos + 1 <= Len(w.data) /\ w.data[u.pos + 1] = v
      /\ \A k \in 1 .. u.pos : w.data[k] = u.data[k]
  BY <1>1, <1>4, <1>5, <1>6
<1> QED
  BY <1>6, <1>7 DEF w

(* One more level is heard: it is a start bit if it is 0 and a 1 was heard. *)
Grown(h, v, g) ==
    /\ Len(g) = Len(h) + 1 /\ Len(h) \in Nat
    /\ g \in Seq({0, 1}) /\ g[Len(h) + 1] = v
    /\ \A i \in 1 .. Len(h) : g[i] = h[i]
    /\ Starts(h) \subseteq 1 .. Len(h)
    /\ Starts(g) = IF v = 0 /\ \E i \in 1 .. Len(h) : h[i] = 1
                   THEN Starts(h) \cup {Len(h) + 1} ELSE Starts(h)
LEMMA StartsGrow ==
    ASSUME NEW h \in Seq({0, 1}), NEW v \in {0, 1}, NEW g, g = Append(h, v)
    PROVE  Grown(h, v, g)
<1> DEFINE l == Len(h)
<1>1. /\ Len(g) = l + 1 /\ l \in Nat /\ g \in Seq({0, 1}) /\ g[l + 1] = v
      /\ \A i \in 1 .. l : g[i] = h[i]
      /\ DOMAIN h = 1 .. l /\ DOMAIN g = 1 .. (l + 1)
  BY DEF l
<1>2. Starts(h) = {j \in 1 .. l : h[j] = 0 /\ \E i \in 1 .. (j - 1) : h[i] = 1}
  BY <1>1 DEF Starts
<1>3. Starts(g) = {j \in 1 .. (l + 1) : g[j] = 0 /\ \E i \in 1 .. (j - 1) : g[i] = 1}
  BY <1>1 DEF Starts
<1> HIDE DEF l
<1>4. ASSUME NEW j \in 1 .. l
      PROVE  (g[j] = 0 /\ \E i \in 1 .. (j - 1) : g[i] = 1)
                 <=> (h[j] = 0 /\ \E i \in 1 .. (j - 1) : h[i] = 1)
  <2>1. \A i \in 1 .. (j - 1) : i \in 1 .. l
    BY <1>1
  <2> QED
    BY <1>1, <2>1
<1>5. (g[l + 1] = 0 /\ \E i \in 1 .. ((l + 1) - 1) : g[i] = 1)
          <=> (v = 0 /\ \E i \in 1 .. l : h[i] = 1)
  <2>1. (l + 1) - 1 = l
    BY <1>1
  <2> QED
    BY <1>1, <2>1
<1>6. \A j : j \in 1 .. (l + 1) <=> j \in 1 .. l \/ j = l + 1
  BY <1>1
<1>7. l + 1 \notin 1 .. l
  BY <1>1
<1>8. Starts(g) = IF v = 0 /\ \E i \in 1 .. l : h[i] = 1
                  THEN Starts(h) \cup {l + 1} ELSE Starts(h)
  <2>1. \A j : j \in Starts(g) <=> \/ j \in Starts(h)
                                   \/ j = l + 1 /\ v = 0 /\ \E i \in 1 .. l : h[i] = 1
    BY <1>2, <1>3, <1>4, <1>5, <1>6, <1>7
  <2> QED
    BY <2>1
<1>9. Starts(h) \subseteq 1 .. l
  BY <1>2
<1> QED
  BY <1>1, <1>8, <1>9 DEF l, Grown

LEMMA LeastIsMin ==
    ASSUME NEW T \in SUBSET Int, NEW s \in T, \A t \in T : s <= t
    PROVE  Min(T) = s
<1>1. Min(T) \in T /\ \A t \in T : Min(T) <= t
  BY DEF Min
<1>2. Min(T) <= s /\ s <= Min(T) /\ Min(T) \in Int /\ s \in Int
  BY <1>1
<1> QED
  BY <1>2

(* What is one before the end comes to the end with one step more.          *)
LEMMA LastOne ==
    ASSUME NEW p \in Int, NEW r \in Int, NEW s \in Int, NEW e \in Int, NEW k,
           p < r, p + 1 >= r, s + p = e, k = e + 1
    PROVE  p + 1 = r /\ k = s + (p + 1)
OBVIOUS

(* The rest of g after its first s.                                         *)
LEMMA RestIs ==
    ASSUME NEW S, NEW g \in Seq(S), NEW s \in Int, NEW n \in Nat,
           1 <= s, 1 <= n, Len(g) = s + n
    PROVE  /\ SubSeq(g, s + 1, Len(g)) \in Seq(S)
           /\ Len(SubSeq(g, s + 1, Len(g))) = n
           /\ \A i \in 1 .. n : SubSeq(g, s + 1, Len(g))[i] = g[s + i]
<1> DEFINE m == Len(g)
           b == s + 1
<1>1. b \in Int /\ m \in Int /\ 1 <= b /\ b <= m /\ m - b + 1 = n
  OBVIOUS
<1>2. \A i \in b .. m : g[i] \in S
  OBVIOUS
<1>3. \A i \in 1 .. n : b + i - 1 = s + i
  OBVIOUS
<1> DEFINE y == SubSeq(g, b, m)
<1> HIDE DEF b, m
<1>4. /\ y \in Seq(S) /\ Len(y) = (IF b <= m THEN m - b + 1 ELSE 0)
      /\ \A i \in 1 .. m - b + 1 : y[i] = g[b + i - 1]
  BY <1>1, <1>2, SubSeqProperties
<1> HIDE DEF y
<1>5. /\ y \in Seq(S) /\ Len(y) = n /\ \A i \in 1 .. n : y[i] = g[s + i]
  BY <1>1, <1>3, <1>4
<1> QED
  BY <1>5 DEF y, b, m

(* The bit at pos is read, and with the last the reply is complete; h was   *)
(* heard before, and s is where the reply began.                            *)
LEMMA ReadKeeps ==
    ASSUME TmcInv, Runs(uart.time, {uart.time}), NEW v \in {0, 1},
           NEW h \in Seq({0, 1}), heard' = Append(h, v),
           UNCHANGED <<now, edges, request>>,
           uart.func \in {"read_sync", "read"},
           NEW u, Read(u, v), DOMAIN u = UartFields, u.func = "read",
           u.sync \in BOOLEAN, u.pos \in Nat, u.time = uart.time, u.high = uart.high,
           u.active = uart.active, u.report = uart.report, u.reads = uart.reads,
           u.writes = uart.writes, u.bit = uart.bit, u.data = uart.data,
           NEW s \in Starts(heard'), \A t \in Starts(heard') : s <= t,
           u.pos = Len(h) - s, u.pos < u.reads, u.pos <= Len(u.data),
           \A j \in 1 .. u.pos : u.data[j] = h[s + j]
    PROVE  TmcInv'
<1>1. TmcTyped /\ Timed /\ BitMeasured
  BY DEF TmcInv
<1>2. /\ uart.time \in Int /\ uart.time # Off /\ now \in Int /\ uart.active
      /\ request.open /\ ~uart.report /\ uart.reads = request.reads
      /\ now - uart.time \in 0 .. MaxLate
  BY EventFacts
<1>3. uart.data \in Seq({0, 1}) /\ uart.reads \in Nat
      /\ uart.bit \in Int /\ uart.bit >= 0 /\ uart.writes \in Nat
  BY <1>1 DEF TmcTyped, Timed
<1> DEFINE w == Stored(u, v)
<1>4. /\ DOMAIN w = UartFields /\ w.data \in Seq({0, 1})
      /\ u.pos + 1 <= Len(w.data) /\ w.data[u.pos + 1] = v
      /\ \A k \in 1 .. u.pos : w.data[k] = u.data[k]
      /\ w.time = u.time /\ w.func = u.func /\ w.high = u.high
      /\ w.active = u.active /\ w.sync = u.sync /\ w.report = u.report
      /\ w.pos = u.pos /\ w.reads = u.reads /\ w.writes = u.writes /\ w.bit = u.bit
  BY <1>3, StoredIs
<1>5. /\ Len(heard') = Len(h) + 1 /\ Len(h) \in Nat
      /\ heard' \in Seq({0, 1}) /\ heard'[Len(h) + 1] = v
      /\ \A i \in 1 .. Len(h) : heard'[i] = h[i]
      /\ Starts(heard') \subseteq 1 .. Len(heard')
  <2> DEFINE g == heard'
  <2>0. g = Append(h, v)
    OBVIOUS
  <2> HIDE DEF g
  <2>1. /\ Len(g) = Len(h) + 1 /\ Len(h) \in Nat
        /\ g \in Seq({0, 1}) /\ g[Len(h) + 1] = v
        /\ \A i \in 1 .. Len(h) : g[i] = h[i]
    BY <2>0, StartsGrow DEF Grown
  <2>2. Starts(g) \subseteq 1 .. Len(g)
    BY <2>1 DEF Starts
  <2> QED
    BY <2>1, <2>2 DEF g
<1> DEFINE p == u.pos
           d == w.data
<1>6. /\ p \in Nat /\ s \in Int /\ 1 <= s /\ s + p = Len(h) /\ p < uart.reads
      /\ d \in Seq({0, 1}) /\ p + 1 <= Len(d) /\ Len(d) \in Nat
  BY <1>4, <1>5
<1>10. /\ p \in Int /\ s \in Int /\ Len(h) \in Int /\ s + p = Len(h) /\ 0 <= p /\ 1 <= s
       /\ Len(heard') = Len(h) + 1
  BY <1>5, <1>6
<1> HIDE DEF p
<1>7. \A j \in 1 .. (p + 1) : d[j] = heard'[s + j]
  <2> SUFFICES ASSUME NEW j \in 1 .. (p + 1) PROVE d[j] = heard'[s + j]
    OBVIOUS
  <2>1. CASE j = p + 1
    <3>1. s + j = Len(h) + 1
      <4> DEFINE l == Len(h)
      <4>1. p \in Int /\ s \in Int /\ l \in Int /\ s + p = l
        BY <1>10
      <4> HIDE DEF l
      <4>2. s + (p + 1) = l + 1
        BY <4>1
      <4> QED
        BY <2>1, <4>2 DEF l
    <3> QED
      BY <1>4, <1>5, <2>1, <3>1 DEF p
  <2>2. CASE j # p + 1
    <3>1. j \in 1 .. p
      BY <1>10, <2>2
    <3>2. s + j \in 1 .. Len(h)
      BY <1>10, <3>1
    <3>3. d[j] = h[s + j]
      BY <1>4, <3>1 DEF p
    <3>4. heard'[s + j] = h[s + j]
      BY <1>5, <3>2
    <3> QED
      BY <3>3, <3>4
  <2> QED
    BY <2>1, <2>2
<1> USE DEF p
<1> HIDE DEF w
<1>8. CASE p + 1 >= u.reads /\ Finalize(w)
  <2>1. /\ wake' = TRUE /\ DOMAIN uart' = UartFields /\ uart'.time = Off
        /\ uart'.high = TRUE /\ uart'.active = FALSE /\ uart'.sync = FALSE
        /\ uart'.report = TRUE /\ uart'.func = "read" /\ uart'.pos = p
        /\ uart'.reads = uart.reads /\ uart'.writes = uart.writes /\ uart'.bit = uart.bit
        /\ uart'.data = d
    BY <1>4, <1>8, FinalizeIs
  <2>2. TmcTyped'
    <3>1. /\ wake' \in BOOLEAN /\ uart'.high \in BOOLEAN /\ uart'.active \in BOOLEAN
          /\ uart'.sync \in BOOLEAN /\ uart'.report \in BOOLEAN
      BY <2>1
    <3>2. uart'.pos \in Nat /\ uart'.data \in Seq({0, 1})
      BY <1>6, <2>1
    <3> QED
      BY <1>1, <1>3, <1>5, <2>1, <3>1, <3>2 DEF TmcTyped
  <2>3. Timed' /\ Sending' /\ Sent' /\ Reading'
    BY <1>3, <2>1 DEF Timed, Sending, Sent, Reading, Writing
  <2>4. BitMeasured'
    BY <1>1, <2>1 DEF BitMeasured
  <2>5. RequestAnswered'
    <3>1. p + 1 = uart.reads /\ Len(heard') = s + (p + 1)
      <4> DEFINE r == uart.reads
                 k == Len(heard')
                 e == Len(h)
      <4>1. p \in Int /\ p < r /\ p + 1 >= r /\ r \in Int
        BY <1>3, <1>6, <1>8
      <4>2. e \in Int /\ s \in Int /\ s + p = e /\ k = e + 1
        BY <1>5, <1>6
      <4> HIDE DEF p, r, k, e
      <4>3. p + 1 = r
        BY <4>1
      <4>4. k = s + (p + 1)
        BY <4>1, <4>2
      <4> QED
        BY <4>3, <4>4 DEF r, k
    <3>2. Min(Starts(heard')) = s
      <4>1. Starts(heard') \in SUBSET Int
        BY <1>5
      <4> QED
        BY <4>1, LeastIsMin
    <3> DEFINE n == p + 1
               x == SubSeq(d, 1, n)
               y == SubSeq(heard', s + 1, Len(heard'))
    <3>3. /\ x \in Seq({0, 1}) /\ Len(x) = n /\ \A i \in 1 .. n : x[i] = d[i]
      <4>1. n \in Nat /\ 1 <= n /\ n - 1 + 1 = n /\ n <= Len(d)
        BY <1>6
      <4>2. \A i \in 1 .. n : d[i] \in {0, 1}
        BY <1>6, <4>1
      <4> HIDE DEF n, d
      <4>3. /\ x \in Seq({0, 1}) /\ Len(x) = (IF 1 <= n THEN n - 1 + 1 ELSE 0)
            /\ \A i \in 1 .. n - 1 + 1 : x[i] = d[1 + i - 1]
        BY <4>1, <4>2, SubSeqProperties
      <4>4. \A i \in 1 .. n : 1 + i - 1 = i
        OBVIOUS
      <4> QED
        BY <4>1, <4>3, <4>4
    <3>4. /\ y \in Seq({0, 1}) /\ Len(y) = n /\ \A i \in 1 .. n : y[i] = heard'[s + i]
      <4> DEFINE g == heard'
      <4>1. n \in Nat /\ 1 <= n
        BY <1>6
      <4>2. g \in Seq({0, 1}) /\ Len(g) = s + n /\ s \in Int /\ 1 <= s
        BY <1>5, <1>6, <3>1
      <4> HIDE DEF n, g
      <4>3. /\ SubSeq(g, s + 1, Len(g)) \in Seq({0, 1})
            /\ Len(SubSeq(g, s + 1, Len(g))) = n
            /\ \A i \in 1 .. n : SubSeq(g, s + 1, Len(g))[i] = g[s + i]
        <5> DEFINE S == {0, 1}
        <5>1. g \in Seq(S)
          BY <4>2
        <5> HIDE DEF S
        <5>2. /\ SubSeq(g, s + 1, Len(g)) \in Seq(S)
              /\ Len(SubSeq(g, s + 1, Len(g))) = n
              /\ \A i \in 1 .. n : SubSeq(g, s + 1, Len(g))[i] = g[s + i]
          BY <4>1, <4>2, <5>1, RestIs
        <5> QED
          BY <5>2 DEF S
      <4> QED
        BY <4>3 DEF g
    <3>5. x = y
      <4>1. \A i \in 1 .. n : x[i] = y[i]
        BY <1>7, <3>3, <3>4
      <4> HIDE DEF x, y, n
      <4> QED
        BY <3>3, <3>4, <4>1
    <3>6. /\ uart'.reads = request'.reads /\ Starts(heard') # {}
          /\ SubSeq(uart'.data, 1, uart'.reads)
                 = SubSeq(heard', Min(Starts(heard')) + 1, Len(heard'))
      BY <1>2, <2>1, <3>1, <3>2, <3>5
    <3> QED
      BY <2>1, <3>6 DEF RequestAnswered
  <2> QED
    BY <2>2, <2>3, <2>4, <2>5 DEF TmcInv
<1>9. CASE p + 1 < u.reads /\ uart' = [w EXCEPT !.pos = @ + 1, !.time = @ + u.bit]
           /\ wake' = wake
  <2>1. /\ DOMAIN uart' = UartFields /\ uart'.time = uart.time + uart.bit
        /\ uart'.high = uart.high /\ uart'.active = uart.active /\ uart'.sync = u.sync
        /\ uart'.report = uart.report /\ uart'.func = "read" /\ uart'.pos = p + 1
        /\ uart'.reads = uart.reads /\ uart'.writes = uart.writes /\ uart'.bit = uart.bit
        /\ uart'.data = d
    BY <1>4, <1>9 DEF UartFields
  <2>2. uart'.time \in Int /\ now' <= uart'.time + MaxLate /\ uart'.time # Off
    <3> DEFINE t == uart.time
               b == uart.bit
    <3>1. t \in Int /\ b \in Int /\ b >= 0 /\ uart'.time = t + b
      BY <1>2, <1>3, <2>1
    <3>2. MaxLate \in Int /\ now \in Int /\ now - t \in 0 .. MaxLate /\ now' = now
      BY <1>2, UartFacts
    <3> HIDE DEF t, b
    <3>3. t + b \in Int /\ now <= (t + b) + MaxLate
      BY <3>1, <3>2
    <3>4. uart'.time \in Int /\ now' <= uart'.time + MaxLate
      BY <3>1, <3>2, <3>3
    <3> QED
      BY <3>4, UartFacts
  <2>3. TmcTyped'
    <3>1. uart'.pos \in Nat /\ uart'.data \in Seq({0, 1}) /\ uart'.time \in Int \cup {Off}
      BY <1>6, <2>1, <2>2
    <3> QED
      BY <1>1, <1>3, <1>5, <1>9, <2>1, <3>1 DEF TmcTyped
  <2>4. Sending' /\ Sent' /\ RequestAnswered'
    BY <2>1, <2>2 DEF Sending, Sent, RequestAnswered, Writing
  <2>5. BitMeasured'
    BY <1>1, <2>1 DEF BitMeasured
  <2>6. Timed'
    BY <1>1, <1>2, <1>3, <2>1, <2>2 DEF Timed
  <2>7. Reading'
    <3>1. uart'.pos = Len(heard') - s
      BY <1>5, <1>6, <2>1
    <3>2. uart'.pos < uart'.reads /\ uart'.pos <= Len(uart'.data)
      BY <1>6, <1>9, <2>1
    <3>3. Len(uart'.data) >= uart'.pos
      BY <1>6, <2>1
    <3>4. \A j \in 1 .. uart'.pos : uart'.data[j] = heard'[s + j]
      BY <1>7, <2>1
    <3>5. uart'.func = "read"
      BY <2>1
    <3> QED
      BY <3>1, <3>2, <3>3, <3>4, <3>5 DEF Reading
  <2> QED
    BY <2>3, <2>4, <2>5, <2>6, <2>7 DEF TmcInv
<1> QED
  BY <1>8, <1>9 DEF Read, w

LEMMA ReadEventKeeps ==
    ASSUME TmcInv, Runs(uart.time, {uart.time}), NEW v \in {0, 1},
           ReadEvent(v), UNCHANGED <<now, edges, request>>
    PROVE  TmcInv'
<1>1. TmcTyped /\ Timed /\ Reading
  BY DEF TmcInv
<1>2. /\ uart.func = "read" /\ Read(uart, v) /\ uart.active
      /\ heard' = Append(heard, v)
  BY EventFacts DEF ReadEvent
<1>3. PICK s \in Starts(heard) :
          /\ \A t \in Starts(heard) : s <= t
          /\ uart.pos = Len(heard) - s /\ uart.pos < uart.reads
          /\ Len(uart.data) >= uart.pos
          /\ \A j \in 1 .. uart.pos : uart.data[j] = heard[s + j]
  BY <1>1, <1>2 DEF Reading
<1>4. /\ DOMAIN uart = UartFields /\ uart.sync \in BOOLEAN /\ uart.pos \in Nat
      /\ heard \in Seq({0, 1}) /\ uart.data \in Seq({0, 1})
  BY <1>1 DEF TmcTyped
<1> DEFINE g == heard'
<1>5. /\ Len(heard) \in Nat /\ Starts(heard) \subseteq 1 .. Len(heard)
      /\ Starts(g) = IF v = 0 /\ \E i \in 1 .. Len(heard) : heard[i] = 1
                     THEN Starts(heard) \cup {Len(heard) + 1} ELSE Starts(heard)
  <2>1. g = Append(heard, v)
    BY <1>2
  <2> HIDE DEF g
  <2> QED
    BY <1>4, <2>1, StartsGrow DEF Grown
<1>6. s \in Starts(heard') /\ \A t \in Starts(heard') : s <= t
  <2>1. s \in Int /\ s <= Len(heard) + 1
    BY <1>3, <1>5
  <2>2. \A t \in Starts(g) : t \in Starts(heard) \/ t = Len(heard) + 1
    BY <1>5
  <2>3. s \in Starts(g)
    BY <1>3, <1>5
  <2> QED
    BY <1>3, <2>1, <2>2, <2>3
<1>7. uart.pos <= Len(uart.data)
  BY <1>3, <1>4
<1>8. uart.func \in {"read_sync", "read"}
  BY <1>2
<1> QED
  BY <1>2, <1>3, <1>4, <1>6, <1>7, <1>8, ReadKeeps

(* The line is polled once more, without a start bit.                       *)
LEMMA PolledAgain ==
    ASSUME TmcInv, uart.func = "read_sync", uart.active, NEW v \in {0, 1},
           NEW g, g = Append(heard, v),
           NEW u, u = [uart EXCEPT !.sync = @ \/ v = 1]
    PROVE  /\ DOMAIN u = UartFields /\ u.sync \in BOOLEAN
           /\ u.time = uart.time /\ u.func = uart.func /\ u.high = uart.high
           /\ u.active = uart.active /\ u.report = uart.report /\ u.pos = uart.pos
           /\ u.reads = uart.reads /\ u.writes = uart.writes /\ u.bit = uart.bit
           /\ u.data = uart.data
           /\ u.sync <=> \E i \in 1 .. Len(g) : g[i] = 1
           /\ g \in Seq({0, 1}) /\ Len(g) = Len(heard) + 1
           /\ Starts(g) = IF StartBit(u, v) THEN {Len(heard) + 1} ELSE {}
<1>1. TmcTyped /\ Reading
  BY DEF TmcInv
<1>2. DOMAIN uart = UartFields /\ uart.sync \in BOOLEAN /\ heard \in Seq({0, 1})
  BY <1>1 DEF TmcTyped
<1>3. /\ Starts(heard) = {}
      /\ uart.sync <=> \E i \in 1 .. Len(heard) : heard[i] = 1
  BY <1>1 DEF Reading
<1>4. /\ DOMAIN u = UartFields /\ (u.sync <=> uart.sync \/ v = 1) /\ u.sync \in BOOLEAN
      /\ u.time = uart.time /\ u.func = uart.func /\ u.high = uart.high
      /\ u.active = uart.active /\ u.report = uart.report /\ u.pos = uart.pos
      /\ u.reads = uart.reads /\ u.writes = uart.writes /\ u.bit = uart.bit
      /\ u.data = uart.data
  BY <1>2 DEF UartFields
<1>5. /\ Len(g) = Len(heard) + 1 /\ Len(heard) \in Nat
      /\ g \in Seq({0, 1}) /\ g[Len(heard) + 1] = v
      /\ \A i \in 1 .. Len(heard) : g[i] = heard[i]
      /\ Starts(g) = IF v = 0 /\ \E i \in 1 .. Len(heard) : heard[i] = 1
                   THEN Starts(heard) \cup {Len(heard) + 1} ELSE Starts(heard)
  <2>1. Grown(heard, v, g)
    BY <1>2, StartsGrow
  <2> QED
    BY <2>1 DEF Grown
<1>6. (\E i \in 1 .. Len(g) : g[i] = 1)
          <=> v = 1 \/ \E i \in 1 .. Len(heard) : heard[i] = 1
  <2>1. \A i : i \in 1 .. Len(g) <=> i \in 1 .. Len(heard) \/ i = Len(heard) + 1
    BY <1>5
  <2> QED
    BY <1>5, <2>1
<1>7. StartBit(u, v) <=> v = 0 /\ \E i \in 1 .. Len(heard) : heard[i] = 1
  BY <1>3, <1>4 DEF StartBit
<1>8. Starts(g) = IF StartBit(u, v) THEN {Len(heard) + 1} ELSE {}
  BY <1>3, <1>5, <1>7
<1>9. u.sync <=> \E i \in 1 .. Len(g) : g[i] = 1
  BY <1>3, <1>4, <1>6
<1> QED
  BY <1>4, <1>5, <1>8, <1>9

LEMMA ReadSyncKeeps ==
    ASSUME TmcInv, Runs(uart.time, {uart.time}), NEW v \in {0, 1},
           ReadSyncEvent(v), UNCHANGED <<now, edges, request>>
    PROVE  TmcInv'
<1> DEFINE u == [uart EXCEPT !.sync = @ \/ v = 1]
           g == Append(heard, v)
<1>1. TmcTyped /\ Timed /\ Reading /\ BitMeasured
  BY DEF TmcInv
<1>2. /\ uart.func = "read_sync" /\ uart.active /\ uart.time \in Int /\ now \in Int
      /\ uart.time # Off /\ request.open /\ ~uart.report
      /\ uart.reads = request.reads /\ now - uart.time \in 0 .. MaxLate
  BY EventFacts DEF ReadSyncEvent
<1>3. /\ DOMAIN u = UartFields /\ u.sync \in BOOLEAN
      /\ u.time = uart.time /\ u.func = uart.func /\ u.high = uart.high
      /\ u.active = uart.active /\ u.report = uart.report /\ u.pos = uart.pos
      /\ u.reads = uart.reads /\ u.writes = uart.writes /\ u.bit = uart.bit
      /\ u.data = uart.data
      /\ u.sync <=> \E i \in 1 .. Len(g) : g[i] = 1
      /\ g \in Seq({0, 1}) /\ Len(g) = Len(heard) + 1
      /\ Starts(g) = IF StartBit(u, v) THEN {Len(heard) + 1} ELSE {}
  <2> DEFINE x == u
             f == g
  <2>1. x = [uart EXCEPT !.sync = @ \/ v = 1] /\ f = Append(heard, v)
    OBVIOUS
  <2> HIDE DEF x, f
  <2> QED
    BY <1>2, <2>1, PolledAgain, ZenonT(30)
<1>4. /\ heard \in Seq({0, 1}) /\ uart.data \in Seq({0, 1}) /\ uart.reads \in Nat
      /\ uart.pos \in Nat /\ uart.bit \in Int /\ uart.bit >= 0
      /\ Len(heard) \in Nat /\ Len(uart.data) \in Nat
  BY <1>1, <1>2 DEF TmcTyped, Timed
<1>5. uart.reads # 0 /\ uart.pos = Len(heard) /\ uart.pos <= SyncLimit /\ SyncLimit \in Nat
  BY <1>1, <1>2, UartFacts DEF Reading
<1>6. \/ /\ StartBit(u, v)
         /\ \E bit \in {0, 1} : /\ Read([u EXCEPT !.pos = 0, !.func = "read"], bit)
                                /\ heard' = Append(g, bit)
      \/ /\ ~StartBit(u, v) /\ u.pos >= SyncLimit
         /\ Finalize([u EXCEPT !.pos = @ + 1, !.reads = 0]) /\ heard' = g
      \/ /\ ~StartBit(u, v) /\ u.pos < SyncLimit
         /\ uart' = [u EXCEPT !.pos = @ + 1, !.time = @ + u.bit]
         /\ heard' = g /\ UNCHANGED wake
  BY DEF ReadSyncEvent
<1> HIDE DEF u, g
<1>7. ASSUME StartBit(u, v), NEW bit \in {0, 1}, heard' = Append(g, bit),
             Read([u EXCEPT !.pos = 0, !.func = "read"], bit)
      PROVE  TmcInv'
  <2> DEFINE w == [u EXCEPT !.pos = 0, !.func = "read"]
  <2>1. /\ DOMAIN w = UartFields /\ w.sync = u.sync
        /\ w.time = u.time /\ w.func = "read" /\ w.high = u.high
        /\ w.active = u.active /\ w.report = u.report /\ w.pos = 0
        /\ w.reads = u.reads /\ w.writes = u.writes /\ w.bit = u.bit
        /\ w.data = u.data
    BY <1>3 DEF UartFields
  <2>2. Read(w, bit) /\ heard' = Append(g, bit)
    BY <1>7
  <2> HIDE DEF w
  <2> DEFINE s == Len(heard) + 1
  <2>3. s \in Starts(heard') /\ \A t \in Starts(heard') : s <= t
    <3> DEFINE f == heard'
    <3>1. f = Append(g, bit)
      BY <1>7
    <3> HIDE DEF f
    <3>2. Starts(f) = IF bit = 0 /\ \E i \in 1 .. Len(g) : g[i] = 1
                      THEN Starts(g) \cup {Len(g) + 1} ELSE Starts(g)
      <4>1. Grown(g, bit, f)
        BY <1>3, <3>1, StartsGrow
      <4> QED
        BY <4>1 DEF Grown
    <3>3. Starts(g) = {s} /\ s \in Int /\ s <= Len(g) + 1
      BY <1>3, <1>4, <1>7
    <3> HIDE DEF s
    <3> QED
      BY <3>2, <3>3 DEF f
  <2>4. w.pos = Len(g) - s /\ w.pos < w.reads /\ w.pos <= Len(w.data)
        /\ w.pos \in Nat
    BY <1>3, <1>4, <1>5, <2>1
  <2>5. \A j \in 1 .. w.pos : w.data[j] = g[s + j]
    BY <2>1
  <2>6. uart.func \in {"read_sync", "read"}
    BY <1>2
  <2>7. /\ w.sync \in BOOLEAN /\ w.time = uart.time /\ w.high = uart.high
        /\ w.active = uart.active /\ w.report = uart.report /\ w.reads = uart.reads
        /\ w.writes = uart.writes /\ w.bit = uart.bit /\ w.data = uart.data
    BY <1>3, <2>1
  <2> HIDE DEF s
  <2> QED
    BY <1>3, <2>1, <2>2, <2>3, <2>4, <2>5, <2>6, <2>7, ReadKeeps
<1>8. CASE /\ ~StartBit(u, v) /\ u.pos >= SyncLimit
           /\ Finalize([u EXCEPT !.pos = @ + 1, !.reads = 0]) /\ heard' = g
  <2> DEFINE w == [u EXCEPT !.pos = @ + 1, !.reads = 0]
  <2>1. /\ DOMAIN w = UartFields /\ w.func = u.func /\ w.pos = u.pos + 1
        /\ w.reads = 0 /\ w.writes = u.writes /\ w.bit = u.bit /\ w.data = u.data
    BY <1>3 DEF UartFields
  <2>2. Finalize(w)
    BY <1>8
  <2> HIDE DEF w
  <2>3. /\ wake' = TRUE /\ DOMAIN uart' = UartFields /\ uart'.time = Off
        /\ uart'.high = TRUE /\ uart'.active = FALSE /\ uart'.sync = FALSE
        /\ uart'.report = TRUE /\ uart'.func = w.func /\ uart'.pos = w.pos
        /\ uart'.reads = w.reads /\ uart'.writes = w.writes /\ uart'.bit = w.bit
        /\ uart'.data = w.data
    BY <2>1, <2>2, FinalizeIs
  <2>4. TmcTyped'
    <3>1. /\ wake' \in BOOLEAN /\ uart'.high \in BOOLEAN /\ uart'.active \in BOOLEAN
          /\ uart'.sync \in BOOLEAN /\ uart'.report \in BOOLEAN
      BY <2>3
    <3>2. uart'.pos \in Nat /\ uart'.reads \in Nat /\ uart'.data \in Seq({0, 1})
      BY <1>3, <1>4, <2>1, <2>3
    <3>3. uart'.func = uart.func /\ uart'.writes = uart.writes /\ uart'.bit = uart.bit
          /\ uart'.time \in Int \cup {Off}
      BY <1>3, <2>1, <2>3
    <3> QED
      BY <1>1, <1>3, <1>8, <2>3, <3>1, <3>2, <3>3 DEF TmcTyped
  <2>5. uart'.func = "read_sync" /\ uart'.bit = uart.bit /\ uart'.bit >= 0
    BY <1>2, <1>3, <1>4, <2>1, <2>3
  <2>6. Timed' /\ Sending' /\ Sent' /\ Reading'
    BY <2>3, <2>5 DEF Timed, Sending, Sent, Reading, Writing
  <2>7. BitMeasured'
    BY <1>1, <1>2, <2>5 DEF BitMeasured
  <2>8. RequestAnswered'
    <3>1. Starts(heard') = {} /\ uart'.reads = 0
      BY <1>3, <1>8, <2>1, <2>3
    <3>2. Len(heard') = SyncLimit + 1
      BY <1>3, <1>5, <1>8
    <3> QED
      BY <2>3, <3>1, <3>2 DEF RequestAnswered
  <2> QED
    BY <2>4, <2>6, <2>7, <2>8 DEF TmcInv
<1>9. CASE /\ ~StartBit(u, v) /\ u.pos < SyncLimit
           /\ uart' = [u EXCEPT !.pos = @ + 1, !.time = @ + u.bit]
           /\ heard' = g /\ wake' = wake
  <2>1. /\ DOMAIN uart' = UartFields /\ uart'.time = uart.time + uart.bit
        /\ uart'.high = uart.high /\ uart'.active = uart.active /\ uart'.sync = u.sync
        /\ uart'.report = uart.report /\ uart'.func = "read_sync"
        /\ uart'.pos = uart.pos + 1 /\ uart'.reads = uart.reads
        /\ uart'.writes = uart.writes /\ uart'.bit = uart.bit /\ uart'.data = uart.data
    BY <1>2, <1>3, <1>9 DEF UartFields
  <2>2. uart'.time \in Int /\ now' <= uart'.time + MaxLate
    BY <1>2, <1>4, <2>1, UartFacts, SMTT(30)
  <2>3. uart'.time # Off
    BY <2>2, UartFacts
  <2>4. TmcTyped'
    <3>1. uart'.pos \in Nat /\ uart'.time \in Int \cup {Off} /\ uart'.sync \in BOOLEAN
          /\ uart'.func \in Writing \cup {"read_sync", "read"}
      BY <1>3, <1>4, <2>1, <2>2
    <3> QED
      BY <1>1, <1>3, <1>9, <2>1, <3>1 DEF TmcTyped
  <2>5. Sending' /\ Sent' /\ RequestAnswered'
    BY <2>1, <2>3 DEF Sending, Sent, RequestAnswered, Writing
  <2>6. BitMeasured'
    BY <1>1, <1>2, <2>1 DEF BitMeasured
  <2>7. Timed'
    BY <1>2, <1>4, <2>1, <2>2, <2>3 DEF Timed
  <2>8. Reading'
    <3>1. uart'.reads # 0 /\ uart'.pos = Len(heard') /\ uart'.pos <= SyncLimit
      BY <1>3, <1>4, <1>5, <1>9, <2>1
    <3>2. Starts(heard') = {}
      BY <1>3, <1>9
    <3>3. uart'.sync <=> \E i \in 1 .. Len(heard') : heard'[i] = 1
      BY <1>3, <1>9, <2>1
    <3>4. uart'.func # "read"
      BY <2>1
    <3> QED
      BY <3>1, <3>2, <3>3, <3>4 DEF Reading
  <2> QED
    BY <2>4, <2>5, <2>6, <2>7, <2>8 DEF TmcInv
<1> QED
  BY <1>6, <1>7, <1>8, <1>9

LEMMA TmcStep ==
    ASSUME TmcInv, [TmcNext]_TmcAll
    PROVE  TmcInv'
<1>1. TmcTyped /\ Timed /\ RequestAnswered
  BY DEF TmcInv
<1>2. ASSUME tmcVars' = tmcVars, UNCHANGED <<now, task, wake>>
      PROVE  TmcInv'
  <2>1. now' \in Int /\ wake' \in BOOLEAN
    BY <1>1, <1>2 DEF TmcTyped
  <2>2. uart.time # Off => now' <= uart.time + MaxLate
    BY <1>1, <1>2 DEF Timed
  <2>3. request.open /\ uart.time = Off => wake' \/ task'.at = "report"
    BY <1>1, <1>2 DEF RequestAnswered
  <2> QED
    BY <1>2, <2>1, <2>2, <2>3, UartKept
<1>3. CASE UNCHANGED TmcAll
  BY <1>2, <1>3 DEF TmcAll
<1>4. ASSUME NEW bits \in Requests, NEW reads \in ReplyBits, TmcuartSend(bits, reads)
      PROVE  TmcInv'
  BY <1>4, TmcuartSendKeeps
<1>5. CASE TmcShutDown
  BY <1>5, TmcShutDownKeeps
<1>6. CASE ClearShutdown /\ UNCHANGED <<now, task, wake, tmcVars>>
  BY <1>2, <1>6
<1>7. CASE TmcTick
  BY <1>7, TmcTickKeeps
<1>8. CASE TmcEvent
  <2>1. Runs(uart.time, {uart.time})
    BY <1>8 DEF TmcEvent
  <2>2. CASE SendEvent
    BY <2>1, <2>2, SendEventKeeps
  <2>3. CASE SendSyncEvent
    BY <2>1, <2>3, SendSyncKeeps
  <2>4. CASE SendFinishEvent
    BY <2>1, <2>4, SendFinishKeeps
  <2>5. ASSUME NEW v \in {0, 1}, ReadEvent(v) \/ ReadSyncEvent(v),
               UNCHANGED <<now, edges, request>>
        PROVE  TmcInv'
    BY <2>1, <2>5, ReadEventKeeps, ReadSyncKeeps
  <2> QED
    BY <1>8, <2>2, <2>3, <2>4, <2>5 DEF TmcEvent, Quiet
<1>9. CASE TmcTask
  BY <1>9, TmcTaskKeeps
<1>10. CASE TmcReport
  BY <1>10, TmcReportKeeps
<1> QED
  BY <1>3, <1>4, <1>5, <1>6, <1>7, <1>8, <1>9, <1>10 DEF TmcNext

(* A report belongs to a request without an answer.                         *)
Owed == uart.report => request.open
LEMMA OwedKept ==
    ASSUME TmcInv, Owed, [TmcNext]_TmcAll
    PROVE  Owed'
<1>1. TmcTyped /\ Timed
  BY DEF TmcInv
<1>2. CASE UNCHANGED tmcVars
  BY <1>2 DEF Owed, tmcVars
<1>3. ASSUME NEW bits \in Requests, NEW reads \in ReplyBits, TmcuartSend(bits, reads)
      PROVE  Owed'
  <2>1. DOMAIN uart = UartFields
    BY <1>1 DEF TmcTyped
  <2>2. ~uart'.report \/ UNCHANGED tmcVars
    BY <1>3, <2>1 DEF TmcuartSend, UartFields
  <2> QED
    BY <1>2, <2>2 DEF Owed
<1>4. CASE TmcShutDown
  <2>1. DOMAIN uart = UartFields
    BY <1>1 DEF TmcTyped
  <2> QED
    BY <1>4, <2>1 DEF TmcShutDown, ResetLine, Owed, UartFields
<1>5. CASE TmcEvent
  <2>1. Runs(uart.time, {uart.time}) /\ request' = request
    BY <1>5 DEF TmcEvent, SendEvent, SendSyncEvent, SendFinishEvent
  <2>2. request.open
    BY <2>1, EventFacts
  <2> QED
    BY <2>1, <2>2 DEF Owed
<1>6. CASE TmcReport
  <2>1. DOMAIN uart = UartFields
    BY <1>1 DEF TmcTyped
  <2>2. uart'.report = FALSE \/ (uart' = uart /\ request' = request)
    BY <1>6, <2>1 DEF TmcReport, UartFields
  <2> QED
    BY <2>2 DEF Owed
<1>7. TmcTick \/ TmcTask \/ UNCHANGED TmcAll => UNCHANGED tmcVars
  BY DEF TmcTick, TmcTask, TmcAll
<1> QED
  BY <1>2, <1>3, <1>4, <1>5, <1>6, <1>7 DEF TmcNext

(* What a step may do to a request that waits for its answer.               *)
LEMMA RequestsGivenUp ==
    ASSUME TmcInv, Owed, [TmcNext]_TmcAll
    PROVE  [GivenUp /\ Answers]_tmcVars
<1>1. TmcTyped /\ Timed /\ RequestAnswered
  BY DEF TmcInv
<1>2. DOMAIN request = {"bits", "reads", "open"} /\ uart.active \in BOOLEAN
  BY <1>1 DEF TmcTyped
<1>3. ~uart.active => uart.time = Off
  BY <1>1, <1>2 DEF Timed
<1>4. CASE request' = request /\ task' # Idle
  BY <1>4 DEF GivenUp, Answers, Reports
<1>5. CASE request' = request /\ task' = task
  <2>1. task.at = "report" => task # Idle
    BY DEF Idle
  <2> QED
    BY <1>5, <2>1 DEF GivenUp, Answers, Reports
<1>6. ASSUME NEW bits \in Requests, NEW reads \in ReplyBits, TmcuartSend(bits, reads)
      PROVE  (GivenUp /\ Answers) \/ UNCHANGED tmcVars
  <2>1. task' = task /\ (task.at = "report" => task # Idle)
    BY <1>6 DEF TmcuartSend, Quiet, Idle
  <2>2. ~uart.active \/ UNCHANGED tmcVars
    BY <1>6 DEF TmcuartSend, Free
  <2>3. ~uart.active /\ request.open => uart.report
    BY <1>1, <1>3 DEF RequestAnswered
  <2> QED
    BY <1>3, <2>1, <2>2, <2>3 DEF GivenUp, Answers, Reports
<1>7. CASE TmcShutDown
  <2>1. shutdown' = TRUE /\ ~request'.open
    BY <1>2, <1>7 DEF TmcShutDown
  <2> QED
    BY <2>1 DEF GivenUp, Answers, Owed
<1>8. CASE TmcReport
  <2>1. CASE ~uart.report
    BY <1>8, <2>1 DEF TmcReport, GivenUp, Answers
  <2>2. CASE uart.report
    <3>1. ~request'.open
      BY <1>2, <1>8, <2>2 DEF TmcReport
    <3>2. uart.time = Off
      BY <1>1, <1>3, <2>2 DEF Timed
    <3> QED
      BY <2>2, <3>1, <3>2 DEF GivenUp, Answers, Owed
  <2> QED
    BY <2>1, <2>2
<1>9. CASE TmcEvent
  <2>1. request' = request /\ task' = task
    BY <1>9 DEF TmcEvent, SendEvent, SendSyncEvent, SendFinishEvent, Quiet
  <2> QED
    BY <1>5, <2>1
<1>10. TmcTick \/ TmcTask \/ UNCHANGED TmcAll \/ UNCHANGED tmcVars => UNCHANGED tmcVars
  BY DEF TmcTick, TmcTask, TmcAll
<1> QED
  BY <1>6, <1>7, <1>8, <1>9, <1>10 DEF TmcNext

(* Whatever the requests and the bit time, and however late the timer       *)
(* interrupt is within TmcTimingAssumption, the chip reads the request that *)
(* was written, and the request accepted last comes to an answer, with the  *)
(* bits read from a start bit on or with none; the answer is given once, or *)
(* given up for the next request when that comes before the task, or for a  *)
(* shutdown (tmcuart_send_event, tmcuart_send_sync_event,                   *)
(* tmcuart_read_sync_event, tmcuart_read_event, command_tmcuart_send and    *)
(* tmcuart_task).                                                           *)
THEOREM RequestsAreServed == TmcSpec => RequestServed
<1>1. BoardInit /\ TmcInit => TmcInv /\ Owed
  BY TmcStarts DEF TmcInit, Owed
<1>2. TmcInv /\ Owed /\ [TmcNext]_TmcAll => TmcInv' /\ Owed'
  BY TmcStep, OwedKept
<1>3. TmcInv => RequestSound
  BY OnWireFromInv DEF TmcInv, RequestSound
<1>4. TmcInv /\ Owed /\ [TmcNext]_TmcAll => [GivenUp /\ Answers]_tmcVars
  BY RequestsGivenUp
<1> QED
  BY <1>1, <1>2, <1>3, <1>4, PTL DEF TmcSpec, RequestServed, AnsweredOnce

(***************************************************************************)
(* The coding of messages.  An integer is made of its digits of seven bits *)
(* by what the parser does with them, its bytes are read back whatever     *)
(* follows, and so is a message, one parameter after another.              *)
(***************************************************************************)
(* How many bytes go before the last, and between which bounds.             *)
LEMMA ContinuedIs ==
    ASSUME NEW v \in Word
    PROVE  /\ Continued(v) \in 0 .. 4
           /\ Continued(v) = 0 => v < 96 /\ v >= -32
           /\ Continued(v) = 1 => v < 12288 /\ v >= -4096
           /\ Continued(v) = 2 => v < 1572864 /\ v >= -524288
           /\ Continued(v) = 3 => v < 201326592 /\ v >= -67108864
           /\ v < 96 /\ v >= -32 => Continued(v) = 0
           /\ v < 12288 /\ v >= -4096 => Continued(v) <= 1
           /\ v < 1572864 /\ v >= -524288 => Continued(v) <= 2
<1> DEFINE S == {k \in 0 .. 3 : Fits(v, k)} \cup {4}
<1>1. v \in Int
  BY SMT DEF Word
<1>2. /\ Fits(v, 0) <=> v < 96 /\ v >= -32
      /\ Fits(v, 1) <=> v < 12288 /\ v >= -4096
      /\ Fits(v, 2) <=> v < 1572864 /\ v >= -524288
      /\ Fits(v, 3) <=> v < 201326592 /\ v >= -67108864
  BY <1>1, SMT DEF Fits, Radix
<1>3. S \subseteq 0 .. 4 /\ 4 \in S /\ \A k \in 0 .. 3 : k \in S <=> Fits(v, k)
  OBVIOUS
<1> HIDE DEF S
<1>4. \E x \in S : \A y \in S : x <= y
  <2>1. CASE 0 \in S
    BY <1>3, <2>1
  <2>2. CASE 0 \notin S /\ 1 \in S
    BY <1>3, <2>2
  <2>3. CASE 0 \notin S /\ 1 \notin S /\ 2 \in S
    BY <1>3, <2>3
  <2>4. CASE 0 \notin S /\ 1 \notin S /\ 2 \notin S /\ 3 \in S
    BY <1>3, <2>4
  <2>5. CASE 0 \notin S /\ 1 \notin S /\ 2 \notin S /\ 3 \notin S
    BY <1>3, <2>5
  <2> QED
    BY <2>1, <2>2, <2>3, <2>4, <2>5
<1>5. Min(S) \in S /\ \A y \in S : Min(S) <= y
  BY <1>4, Zenon DEF Min
<1>6. Continued(v) \in S /\ \A y \in S : Continued(v) <= y
  BY <1>5 DEF Continued, S
<1>7. Continued(v) \in 0 .. 4
  BY <1>3, <1>6
<1>8. \A k \in 0 .. 3 : /\ Continued(v) = k => Fits(v, k)
                        /\ Fits(v, k) => Continued(v) <= k
  BY <1>3, <1>6
<1> QED
  BY <1>1, <1>2, <1>7, <1>8, SMT

(* The part of a value that i of its n + 1 bytes make, as parse_int has it. *)
Made(v, n, i) ==
    IF n < 4 THEN v \div Radix[n + 2 - i]
    ELSE IF i = 5 THEN v ELSE (v % 4294967296) \div Radix[n + 2 - i]
Digit(v, n, i) == (v \div Radix[n + 2 - i]) % (IF i = 1 /\ n = 4 THEN 16 ELSE 128)
Signed(c) == IF c >= 96 THEN c - 128 ELSE c

(* A shift by seven bits of 32 keeps what fits in them.                     *)
LEMMA ShiftedIs ==
    ASSUME NEW x \in Int
    PROVE  /\ x >= -16777216 /\ x < 16777216 => Shifted(x) = 128 * x
           /\ x >= 16777216 /\ x < 33554432 => Shifted(x) = 128 * (x - 33554432)
BY SMT DEF Shifted

(* Seven bits at a time.                                                   *)
LEMMA DivSteps ==
    ASSUME NEW v \in Int
    PROVE  /\ v \div 1 = v
           /\ v = 128 * (v \div 128) + (v % 128)
           /\ v \div 128 = 128 * (v \div 16384) + ((v \div 128) % 128)
           /\ v \div 16384 = 128 * (v \div 2097152) + ((v \div 16384) % 128)
           /\ v \div 2097152 = 128 * (v \div 268435456) + ((v \div 2097152) % 128)
<1>1. v \div 1 = v /\ v = 128 * (v \div 128) + (v % 128)
  BY SMT
<1>2. v \div 128 = 128 * (v \div 16384) + ((v \div 128) % 128)
  OBVIOUS
<1>3. v \div 16384 = 128 * (v \div 2097152) + ((v \div 16384) % 128)
  OBVIOUS
<1>4. v \div 2097152 = 128 * (v \div 268435456) + ((v \div 2097152) % 128)
  OBVIOUS
<1> QED
  BY <1>1, <1>2, <1>3, <1>4, SMT

(* What the first byte of v says, and that each other adds its seven bits.  *)
LEMMA DigitsAre ==
    ASSUME NEW v \in Word, NEW n, n = Continued(v)
    PROVE  /\ Made(v, n, 1) = Signed(Digit(v, n, 1))
           /\ \A i \in 2 .. n + 1 :
                 Made(v, n, i) = Shifted(Made(v, n, i - 1)) + Digit(v, n, i)
           /\ Made(v, n, n + 1) = v
           /\ \A i \in 1 .. n + 1 : Digit(v, n, i) \in 0 .. 127
<1> DEFINE a == v \div 128
           b == v \div 16384
           c == v \div 2097152
           d == v \div 268435456
<1>1. v \in Int /\ v >= -2147483647 - 1 /\ v <= 2147483647
  BY SMT DEF Word
<1>0. /\ n \in 0 .. 4
      /\ n = 0 => v < 96 /\ v >= -32
      /\ n = 1 => v < 12288 /\ v >= -4096
      /\ n = 2 => v < 1572864 /\ v >= -524288
      /\ n = 3 => v < 201326592 /\ v >= -67108864
      /\ v < 96 /\ v >= -32 => n = 0
      /\ v < 12288 /\ v >= -4096 => n <= 1
      /\ v < 1572864 /\ v >= -524288 => n <= 2
  <2> DEFINE m == Continued(v)
  <2>1. /\ m \in 0 .. 4
        /\ m = 0 => v < 96 /\ v >= -32
        /\ m = 1 => v < 12288 /\ v >= -4096
        /\ m = 2 => v < 1572864 /\ v >= -524288
        /\ m = 3 => v < 201326592 /\ v >= -67108864
        /\ v < 96 /\ v >= -32 => m = 0
        /\ v < 12288 /\ v >= -4096 => m <= 1
        /\ v < 1572864 /\ v >= -524288 => m <= 2
    BY ContinuedIs, SMT
  <2>2. n = m
    OBVIOUS
  <2> HIDE DEF m
  <2> QED
    BY <2>1, <2>2, SMT
<1>2. /\ v \div 1 = v /\ v = 128 * a + (v % 128) /\ a = 128 * b + (a % 128)
      /\ b = 128 * c + (b % 128) /\ c = 128 * d + (c % 128)
  BY <1>1, DivSteps, SMT
<1>3. /\ a \in Int /\ b \in Int /\ c \in Int /\ d \in Int
      /\ v % 128 >= 0 /\ v % 128 < 128 /\ a % 128 >= 0 /\ a % 128 < 128
      /\ b % 128 >= 0 /\ b % 128 < 128 /\ c % 128 >= 0 /\ c % 128 < 128
      /\ d % 128 >= 0 /\ d % 128 < 128 /\ d % 16 >= 0 /\ d % 16 < 16
      /\ d = 16 * (d \div 16) + (d % 16) /\ d \div 16 \in Int
      /\ v % 128 \in Int /\ a % 128 \in Int /\ b % 128 \in Int
      /\ c % 128 \in Int /\ d % 128 \in Int /\ d % 16 \in Int
  BY <1>1, SMT
<1>4. /\ Radix[1] = 1 /\ Radix[2] = 128 /\ Radix[3] = 16384
      /\ Radix[4] = 2097152 /\ Radix[5] = 268435456
  BY SMT DEF Radix
<1>5. \A x \in Int : x >= -16777216 /\ x < 16777216 => Shifted(x) = 128 * x
  BY ShiftedIs, SMT
<1>. HIDE DEF a, b, c, d
<1>6. CASE n = 0
  <2>1. v < 96 /\ v >= -32
    BY <1>0, <1>6, SMT
  <2> QED
    BY <1>1, <1>2, <1>3, <1>4, <1>6, <2>1, SMT DEF Made, Digit, Signed
<1>7. CASE n = 1
  <2>1. v < 12288 /\ v >= -4096
    BY <1>0, <1>7, SMT
  <2>2. Made(v, n, 1) = a /\ Made(v, n, 2) = v
    BY <1>2, <1>4, <1>7, SMT DEF Made, a
  <2>3. Digit(v, n, 1) = a % 128 /\ Digit(v, n, 2) = v % 128
    BY <1>2, <1>4, <1>7, SMT DEF Digit, a
  <2>4. a >= -32 /\ a < 96
    BY <1>1, <1>2, <1>3, <2>1, SMT
  <2>5. Signed(a % 128) = a
    BY <1>2, <1>3, <2>4, SMT DEF Signed
  <2>6. Shifted(a) = 128 * a
    BY <1>3, <1>5, <2>4, SMT
  <2> QED
    BY <1>2, <1>3, <1>7, <2>2, <2>3, <2>5, <2>6, SMT
<1>8. CASE n = 2
  <2>1. v < 1572864 /\ v >= -524288
    BY <1>0, <1>8, SMT
  <2>2. Made(v, n, 1) = b /\ Made(v, n, 2) = a /\ Made(v, n, 3) = v
    BY <1>2, <1>4, <1>8, SMT DEF Made, a, b
  <2>3. /\ Digit(v, n, 1) = b % 128 /\ Digit(v, n, 2) = a % 128
        /\ Digit(v, n, 3) = v % 128
    BY <1>2, <1>4, <1>8, SMT DEF Digit, a, b
  <2>4. b >= -32 /\ b < 96 /\ a >= -4096 /\ a < 12288
    BY <1>1, <1>2, <1>3, <2>1, SMT
  <2>5. Signed(b % 128) = b
    BY <1>2, <1>3, <2>4, SMT DEF Signed
  <2>6. Shifted(a) = 128 * a /\ Shifted(b) = 128 * b
    BY <1>3, <1>5, <2>4, SMT
  <2> QED
    BY <1>2, <1>3, <1>8, <2>2, <2>3, <2>5, <2>6, SMT
<1>9. CASE n = 3
  <2>1. v < 201326592 /\ v >= -67108864
    BY <1>0, <1>9, SMT
  <2>2. /\ Made(v, n, 1) = c /\ Made(v, n, 2) = b /\ Made(v, n, 3) = a
        /\ Made(v, n, 4) = v
    BY <1>2, <1>4, <1>9, SMT DEF Made, a, b, c
  <2>3. /\ Digit(v, n, 1) = c % 128 /\ Digit(v, n, 2) = b % 128
        /\ Digit(v, n, 3) = a % 128 /\ Digit(v, n, 4) = v % 128
    BY <1>2, <1>4, <1>9, SMT DEF Digit, a, b, c
  <2>4. /\ c >= -32 /\ c < 96 /\ b >= -4096 /\ b < 12288
        /\ a >= -524288 /\ a < 1572864
    BY <1>1, <1>2, <1>3, <2>1, SMT
  <2>5. Signed(c % 128) = c
    BY <1>2, <1>3, <2>4, SMT DEF Signed
  <2>6. Shifted(a) = 128 * a /\ Shifted(b) = 128 * b /\ Shifted(c) = 128 * c
    BY <1>3, <1>5, <2>4, SMT
  <2> QED
    BY <1>2, <1>3, <1>9, <2>2, <2>3, <2>5, <2>6, SMT
<1>10. CASE n = 4
  <2> DEFINE w == v % 4294967296
             k == IF v < 0 THEN 16 ELSE 0
             ka == 2097152 * k
             kb == 16384 * k
             kc == 128 * k
  <2>1. /\ k \in Int /\ w = v + 268435456 * k
        /\ v < 0 => k = 16
        /\ v >= 0 => k = 0
    BY <1>1, SMT
  <2> HIDE DEF w, k
  <2>2. /\ w \div 128 = a + ka /\ w \div 16384 = b + kb
        /\ w \div 2097152 = c + kc /\ w \div 268435456 = d + k
    <3>1. w \div 128 = a + ka
      BY <1>1, <2>1, SMT DEF a
    <3>2. w \div 16384 = b + kb
      BY <1>1, <2>1, SMT DEF b
    <3>3. w \div 2097152 = c + kc
      BY <1>1, <2>1, SMT DEF c
    <3>4. w \div 268435456 = d + k
      BY <1>1, <2>1, SMT DEF d
    <3> QED
      BY <3>1, <3>2, <3>3, <3>4, SMT
  <2>3. d >= -8 /\ d < 8 /\ (v < 0 => d < 0) /\ (v >= 0 => d >= 0)
    BY <1>1, SMT DEF d
  <2>4. d % 16 = d + k
    <3>1. \A q \in Int, r \in Int : d = 16 * q + r /\ r >= 0 /\ r < 16
                                     => r = d + k
      BY <1>1, <1>3, <2>1, <2>3, SMT
    <3> QED
      BY <1>3, <3>1, SMT
  <2>5. /\ Made(v, n, 1) = d + k /\ Made(v, n, 2) = c + kc
        /\ Made(v, n, 3) = b + kb /\ Made(v, n, 4) = a + ka /\ Made(v, n, 5) = v
    BY <1>4, <1>10, <2>2, SMT DEF Made, w
  <2>6. /\ Digit(v, n, 1) = d % 16 /\ Digit(v, n, 2) = c % 128
        /\ Digit(v, n, 3) = b % 128 /\ Digit(v, n, 4) = a % 128
        /\ Digit(v, n, 5) = v % 128
    BY <1>2, <1>4, <1>10, SMT DEF Digit, a, b, c, d
  <2>7. Signed(d % 16) = d + k
    BY <1>1, <1>3, <2>1, <2>3, <2>4, SMT DEF Signed
  <2>8. /\ d + k >= 0 /\ d + k < 16 /\ c + kc >= 0 /\ c + kc < 2048
        /\ b + kb >= 0 /\ b + kb < 262144
    <3>1. ka \in Int /\ ka = 2097152 * k /\ kb = 16384 * k /\ kc = 128 * k
      BY <2>1, SMT
    <3> HIDE DEF ka, kb, kc
    <3>2. d + k >= 0 /\ d + k <= 15
      BY <1>1, <1>3, <2>1, <2>3, SMT
    <3>3. c + kc >= 0 /\ c + kc <= 2047
      <4>1. c + kc = 128 * (d + k) + (c % 128)
        BY <1>2, <1>3, <2>1, <3>1, SMT
      <4> QED
        BY <1>3, <2>1, <3>2, <4>1, SMT
    <3>4. b + kb >= 0 /\ b + kb <= 262143
      <4>1. b + kb = 128 * (c + kc) + (b % 128)
        BY <1>2, <1>3, <2>1, <3>1, SMT
      <4>2. c + kc \in Int
        BY <1>3, <2>1, <3>1, SMT
      <4> QED
        BY <1>3, <3>3, <4>1, <4>2, SMT
    <3> QED
      BY <1>3, <2>1, <3>1, <3>2, <3>3, <3>4, SMT
  <2>9. (v < 0 => ka = 33554432) /\ (v >= 0 => ka = 0)
    BY <1>1, <2>1, SMT
  <2>10. /\ v >= 0 => a >= 0 /\ a < 16777216
         /\ v < 0 => a >= -16777216 /\ a < 0
    BY <1>1, SMT DEF a
  <2>11. /\ Shifted(d + k) = 128 * (d + k) /\ Shifted(c + kc) = 128 * (c + kc)
        /\ Shifted(b + kb) = 128 * (b + kb)
    BY <1>3, <1>5, <2>1, <2>8, SMT
  <2>12. Shifted(a + ka) = 128 * a
    <3>1. CASE v >= 0
      <4>1. ka = 0 /\ a >= 0 /\ a < 16777216 /\ a + ka = a
        BY <1>3, <2>9, <2>10, <3>1, SMT
      <4> QED
        BY <1>3, <1>5, <4>1, SMT
    <3>2. CASE v < 0
      <4>1. ka = 33554432 /\ a >= -16777216 /\ a < 0
        BY <2>9, <2>10, <3>2, SMT
      <4>2. Shifted(a + 33554432) = 128 * (a + 33554432 - 33554432)
        BY <1>3, <4>1, ShiftedIs, SMT
      <4> QED
        BY <1>3, <4>1, <4>2, SMT
    <3> QED
      BY <1>1, <3>1, <3>2, SMT
  <2> QED
    BY <1>2, <1>3, <1>10, <2>1, <2>4, <2>5, <2>6, <2>7, <2>11, <2>12, SMT
<1> QED
  BY <1>0, <1>6, <1>7, <1>8, <1>9, <1>10, SMT

(* Induction up to N, over the set of the numbers a fact holds for.         *)
LEMMA UpTo ==
    ASSUME NEW N \in Nat, NEW T, 0 \in T, \A n \in 0..(N - 1) : n \in T => n + 1 \in T
    PROVE  \A n \in 0..N : n \in T
<1> DEFINE R == OpToRel(<, Nat)
           B == {n \in 0..N : n \notin T}
<1>1. \A a, b \in Nat : <<a, b>> \in R <=> a < b
  BY DEF OpToRel
<1>2. IsWellFoundedOn(R, Nat)
  BY NatLessThanWellFounded
<1>3. B \subseteq Nat
  OBVIOUS
<1> SUFFICES ASSUME B # {} PROVE FALSE
  OBVIOUS
<1> HIDE DEF R
<1>4. \E x \in B : \A y \in B : ~(<<y, x>> \in R)
  <2> HIDE DEF B
  <2> QED
    BY <1>2, <1>3, WFMin
<1>5. PICK x \in B : \A y \in B : ~(<<y, x>> \in R)
  BY <1>4
<1>6. x \in 0..N /\ x \notin T /\ x # 0
  OBVIOUS
<1>7. x - 1 \in 0..(N - 1) /\ (x - 1) + 1 = x /\ x - 1 \in 0..N
  BY <1>6
<1>8. x - 1 \in T
  <2>1. x - 1 \in B => <<x - 1, x>> \in R
    BY <1>1, <1>6, <1>7
  <2> QED
    BY <1>5, <1>7, <2>1
<1> QED
  BY <1>6, <1>7, <1>8

(* The bytes of a value: all but the last are marked, by 128.               *)
LEMMA EncodedInt ==
    ASSUME NEW v \in Word
    PROVE  /\ EncodeInt(v) \in Seq(Byte) /\ Len(EncodeInt(v)) = Continued(v) + 1
           /\ Continued(v) \in 0 .. 4
           /\ \A i \in 1 .. Continued(v) + 1 :
                 /\ EncodeInt(v)[i] < 128 <=> i = Continued(v) + 1
                 /\ EncodeInt(v)[i] % 128 = Digit(v, Continued(v), i)
<1> DEFINE n == Continued(v)
           E(i) == Digit(v, n, i) + (IF i <= n THEN 128 ELSE 0)
<1>1. n \in 0 .. 4
  BY ContinuedIs, SMT
<1>2. \A i \in 1 .. n + 1 : Digit(v, n, i) \in 0 .. 127
  BY DigitsAre
<1>3. EncodeInt(v) = [i \in 1 .. n + 1 |-> E(i)]
  BY Zenon DEF EncodeInt, Digit
<1> HIDE DEF n
<1>4. ASSUME NEW i \in 1 .. n + 1
      PROVE  /\ E(i) \in Byte
             /\ E(i) < 128 <=> i = n + 1
             /\ E(i) % 128 = Digit(v, n, i)
  <2> DEFINE d == Digit(v, n, i)
  <2>1. d \in Int /\ d >= 0 /\ d < 128
    BY <1>2
  <2> HIDE DEF d
  <2>2. i \in Int /\ i <= n + 1 /\ n \in Int
    BY <1>1
  <2>3. CASE i <= n
    <3>1. E(i) = d + 128 /\ i # n + 1
      BY <2>1, <2>2, <2>3 DEF d
    <3> HIDE DEF E
    <3>2. E(i) >= 0 /\ E(i) <= 255 /\ E(i) >= 128 /\ E(i) \in Int
      BY <2>1, <3>1
    <3>3. E(i) \in Byte
      BY <3>2 DEF Byte
    <3>4. E(i) % 128 = d
      BY <2>1, <3>1
    <3> QED
      BY <3>1, <3>2, <3>3, <3>4 DEF d
  <2>4. CASE i = n + 1
    <3>1. E(i) = d
      BY <2>1, <2>2, <2>4 DEF d
    <3> HIDE DEF E
    <3>2. E(i) >= 0 /\ E(i) <= 255 /\ E(i) < 128 /\ E(i) \in Int
      BY <2>1, <3>1
    <3>3. E(i) \in Byte
      BY <3>2 DEF Byte
    <3>4. E(i) % 128 = d
      BY <2>1, <3>1
    <3> QED
      BY <2>4, <3>1, <3>2, <3>3, <3>4 DEF d
  <2> QED
    BY <2>2, <2>3, <2>4
<1>5. \A i \in 1 .. n + 1 : EncodeInt(v)[i] = E(i)
  BY <1>3
<1>6. EncodeInt(v) \in Seq(Byte) /\ Len(EncodeInt(v)) = n + 1
  <2> HIDE DEF E
  <2>1. EncodeInt(v) \in [1 .. n + 1 -> Byte]
    BY <1>3, <1>4
  <2>2. n + 1 \in Nat
    BY <1>1
  <2> QED
    BY <2>1, <2>2
<1> HIDE DEF E
<1> QED
  BY <1>1, <1>4, <1>5, <1>6 DEF n

(* What parse_int reads one byte after another.                             *)
ReadingInt(value, n, b) ==
    value = [i \in 1 .. n |->
                IF i = 1
                THEN IF (b[1] % 128) >= 96 THEN (b[1] % 128) - 128 ELSE (b[1] % 128)
                ELSE Shifted(value[i - 1]) + (b[i] % 128)]

(* It reads the value that the digits are of.                              *)
LEMMA ReadingIs ==
    ASSUME NEW v \in Word, NEW n, n = Continued(v), NEW b,
           \A i \in 1 .. n + 1 : b[i] % 128 = Digit(v, n, i),
           NEW f, ReadingInt(f, n + 1, b)
    PROVE  f[n + 1] = v
<1>1. n \in 0 .. 4
  BY ContinuedIs, SMT
<1>2. /\ Made(v, n, 1) = Signed(Digit(v, n, 1))
      /\ \A i \in 2 .. n + 1 :
            Made(v, n, i) = Shifted(Made(v, n, i - 1)) + Digit(v, n, i)
      /\ Made(v, n, n + 1) = v
  BY DigitsAre
<1> DEFINE T == {i \in 0 .. n : f[i + 1] = Made(v, n, i + 1)}
           Rest(i) == IF i = 1 THEN Signed(b[1] % 128)
                      ELSE Shifted(f[i - 1]) + (b[i] % 128)
<1>3. \A i \in 1 .. n + 1 : f[i] = Rest(i)
  <2>1. f = [i \in 1 .. n + 1 |-> Rest(i)]
    BY DEF ReadingInt, Signed
  <2> HIDE DEF Rest
  <2> QED
    BY <2>1
<1>4. 0 \in T
  BY <1>1, <1>2, <1>3
<1>5. ASSUME NEW i \in 0 .. n - 1, i \in T PROVE i + 1 \in T
  <2>1. i + 1 \in 0 .. n /\ i + 2 \in 2 .. n + 1 /\ i + 2 \in 1 .. n + 1
        /\ (i + 2) - 1 = i + 1 /\ (i + 1) + 1 = i + 2 /\ i + 2 # 1
    BY <1>1
  <2>2. f[i + 1] = Made(v, n, i + 1)
    BY <1>5
  <2>3. f[i + 2] = Shifted(f[i + 1]) + (b[i + 2] % 128)
    BY <1>3, <2>1
  <2>4. Made(v, n, i + 2) = Shifted(Made(v, n, i + 1)) + Digit(v, n, i + 2)
    BY <1>2, <2>1
  <2>5. b[i + 2] % 128 = Digit(v, n, i + 2)
    BY <2>1
  <2> QED
    BY <2>1, <2>2, <2>3, <2>4, <2>5
<1> HIDE DEF T
<1>6. n \in Nat /\ n \in 0 .. n
  BY <1>1
<1>7. n \in T
  BY <1>4, <1>5, <1>6, UpTo
<1> QED
  BY <1>2, <1>7 DEF T

(* The first byte below 128 is the last of the value.                       *)
LEMMA FirstSmall ==
    ASSUME NEW b \in Seq(Byte), NEW m \in 1 .. Len(b), b[m] < 128,
           \A i \in 1 .. m - 1 : ~(b[i] < 128)
    PROVE  Min({i \in 1 .. Len(b) : b[i] < 128}) = m
<1> DEFINE S == {i \in 1 .. Len(b) : b[i] < 128}
<1>1. m \in S /\ S \subseteq Int
  OBVIOUS
<1>2. \A y \in S : m <= y
  <2>1. ASSUME NEW y \in S, y < m PROVE FALSE
    <3>1. y \in 1 .. m - 1
      BY <2>1
    <3> QED
      BY <3>1
  <2> QED
    BY <2>1
<1> HIDE DEF S
<1>3. Min(S) \in S /\ \A y \in S : Min(S) <= y
  BY <1>1, <1>2, Zenon DEF Min
<1>4. Min(S) = m
  <2>1. \A x \in S : m <= x /\ x <= m => x = m
    BY <1>1
  <2> QED
    BY <1>1, <1>2, <1>3, <2>1, Zenon
<1> QED
  BY <1>4 DEF S

(* parse_int takes the bytes of encode_int, whatever follows them.          *)
LEMMA ParseEncoded ==
    ASSUME NEW v \in Word, NEW r \in Seq(Byte)
    PROVE  ParseInt(EncodeInt(v) \o r) = [size |-> Len(EncodeInt(v)), value |-> v]
<1> DEFINE E == EncodeInt(v)
           b == E \o r
           n == Continued(v)
           m == Min({i \in 1 .. Len(b) : b[i] < 128})
           g == [i \in 1 .. n + 1 |-> Made(v, n, i)]
           f == CHOOSE value : value = [i \in 1 .. m |->
                    IF i = 1
                THEN IF (b[1] % 128) >= 96 THEN (b[1] % 128) - 128 ELSE (b[1] % 128)
                    ELSE Shifted(value[i - 1]) + (b[i] % 128)]
<1>1. /\ E \in Seq(Byte) /\ Len(E) = n + 1 /\ n \in 0 .. 4
      /\ \A i \in 1 .. n + 1 : /\ E[i] < 128 <=> i = n + 1
                               /\ E[i] % 128 = Digit(v, n, i)
  BY EncodedInt
<1> HIDE DEF E, n
<1>2. /\ b \in Seq(Byte) /\ Len(b) = n + 1 + Len(r) /\ Len(r) \in Nat
      /\ \A i \in 1 .. n + 1 : b[i] = E[i]
  BY <1>1
<1>3. ParseInt(b) = [size |-> m, value |-> f[m]]
  BY Zenon DEF ParseInt
<1> HIDE DEF b
<1>4. m = n + 1
  <2>1. n + 1 \in 1 .. Len(b) /\ b[n + 1] < 128
    BY <1>1, <1>2
  <2>2. \A i \in 1 .. (n + 1) - 1 : ~(b[i] < 128)
    BY <1>1, <1>2
  <2> QED
    BY <1>2, <2>1, <2>2, FirstSmall
<1> HIDE DEF m
<1>5. \A i \in 1 .. n + 1 : b[i] % 128 = Digit(v, n, i)
  BY <1>1, <1>2
<1>6. ReadingInt(g, n + 1, b)
  <2> DEFINE Rest(i) == IF i = 1 THEN Signed(b[1] % 128)
                        ELSE Shifted(g[i - 1]) + (b[i] % 128)
  <2>1. ASSUME NEW i \in 1 .. n + 1 PROVE Made(v, n, i) = Rest(i)
    <3>1. CASE i = 1
      <4>1. Made(v, n, 1) = Signed(Digit(v, n, 1))
        BY DigitsAre DEF n
      <4> QED
        BY <1>1, <1>5, <3>1, <4>1
    <3>2. CASE i # 1
      <4>1. i \in 2 .. n + 1 /\ i - 1 \in 1 .. n + 1
        BY <1>1, <3>2
      <4>2. Made(v, n, i) = Shifted(Made(v, n, i - 1)) + Digit(v, n, i)
        BY <4>1, DigitsAre DEF n
      <4>3. g[i - 1] = Made(v, n, i - 1)
        BY <4>1
      <4> HIDE DEF g
      <4> QED
        BY <1>5, <3>2, <4>2, <4>3
    <3> QED
      BY <3>1, <3>2
  <2> HIDE DEF Rest
  <2>2. g = [i \in 1 .. n + 1 |-> Rest(i)]
    BY <2>1
  <2> HIDE DEF g
  <2>3. g = [i \in 1 .. n + 1 |->
                IF i = 1 THEN Signed(b[1] % 128) ELSE Shifted(g[i - 1]) + (b[i] % 128)]
    BY <2>2, Zenon DEF Rest
  <2> QED
    BY <2>3, Zenon DEF ReadingInt, Signed
<1> HIDE DEF g
<1>7. ReadingInt(f, n + 1, b)
  <2>1. \E h : ReadingInt(h, m, b)
    BY <1>4, <1>6
  <2> QED
    BY <1>4, <2>1, Zenon DEF ReadingInt
<1> HIDE DEF f
<1>8. f[n + 1] = v
  BY <1>5, <1>7, ReadingIs DEF n
<1> QED
  BY <1>1, <1>3, <1>4, <1>8 DEF b, E

(* The rest of a sequence after its first part.                             *)
LEMMA AfterFirst ==
    ASSUME NEW V, NEW s \in Seq(V), NEW t \in Seq(V)
    PROVE  SubSeq(s \o t, Len(s) + 1, Len(s \o t)) = t
<1>1. Len(s) \in Nat /\ Len(t) \in Nat /\ Len(s \o t) = Len(s) + Len(t)
  BY ConcatProperties
<1>2. CASE Len(t) = 0
  <2>1. t = <<>>
    BY <1>2, EmptySeq
  <2>2. SubSeq(s \o t, Len(s) + 1, Len(s \o t)) = <<>>
    BY <1>1, <1>2, SubSeqEmpty
  <2> QED
    BY <2>1, <2>2
<1>3. CASE Len(t) # 0
  <2>1. Len(s) + 1 \in Len(s) + 1 .. Len(s) + Len(t)
        /\ Len(s) + Len(t) \in Len(s) + 1 .. Len(s) + Len(t)
    BY <1>1, <1>3
  <2>2. SubSeq(s \o t, Len(s) + 1, Len(s) + Len(t))
            = SubSeq(t, (Len(s) + 1) - Len(s), (Len(s) + Len(t)) - Len(s))
    BY <2>1, SubSeqOfConcat2
  <2>3. (Len(s) + 1) - Len(s) = 1 /\ (Len(s) + Len(t)) - Len(s) = Len(t)
    BY <1>1
  <2>4. SubSeq(t, 1, Len(t)) = t
    BY SubSeqFull
  <2> QED
    BY <1>1, <2>2, <2>3, <2>4
<1> QED
  BY <1>2, <1>3

(* ... and between its first element and what follows.                      *)
LEMMA BetweenParts ==
    ASSUME NEW V, NEW x \in V, NEW s \in Seq(V), NEW t \in Seq(V)
    PROVE  SubSeq((<<x>> \o s) \o t, 2, 1 + Len(s)) = s
<1> DEFINE h == <<x>> \o s
<1>1. <<x>> \in Seq(V) /\ Len(<<x>>) = 1 /\ Len(s) \in Nat
  OBVIOUS
<1>2. h \in Seq(V) /\ Len(h) = 1 + Len(s)
  BY <1>1, ConcatProperties
<1>3. SubSeq(h, 2, 1 + Len(s)) = s
  <2>1. SubSeq(h, Len(<<x>>) + 1, Len(h)) = s
    BY <1>1, AfterFirst
  <2> HIDE DEF h
  <2> QED
    BY <1>1, <1>2, <2>1
<1> HIDE DEF h
<1>4. CASE Len(s) = 0
  <2>1. s = <<>>
    BY <1>4, EmptySeq
  <2>2. SubSeq(h \o t, 2, 1 + Len(s)) = <<>>
    BY <1>1, <1>4, SubSeqEmpty
  <2> QED
    BY <2>1, <2>2 DEF h
<1>5. CASE Len(s) # 0
  <2>1. 2 \in 1 .. Len(h) /\ 1 + Len(s) \in 1 .. Len(h)
    BY <1>1, <1>2, <1>5
  <2>2. SubSeq(h \o t, 2, 1 + Len(s)) = SubSeq(h, 2, 1 + Len(s))
    BY <1>2, <2>1, SubSeqOfConcat1
  <2> QED
    BY <1>3, <2>2 DEF h
<1> QED
  BY <1>4, <1>5

(* The value of a parameter of the type t.                                  *)
ArgOf(t, a) ==
    IF t = "s" THEN a \in Seq(Byte) /\ Len(a) <= 255
    ELSE /\ a \in Word
         /\ t = "c" => a >= 0 /\ a < 256
         /\ t = "u16" => a >= 0 /\ a < 65536

(* The bytes of a parameter, of which there is one at least.               *)
LEMMA IsByte ==
    ASSUME NEW x \in Int, x >= 0, x <= 255
    PROVE  x \in Byte
<1>1. \A m \in Int : \A y \in Int : y >= 0 /\ y <= m => y \in 0 .. m
  OBVIOUS
<1>2. 255 \in Int
  OBVIOUS
<1> QED
  BY <1>1, <1>2, Zenon DEF Byte

LEMMA EncodedArg ==
    ASSUME NEW t, NEW a, ArgOf(t, a)
    PROVE  EncodeArg(t, a) \in Seq(Byte) /\ Len(EncodeArg(t, a)) >= 1
<1>1. CASE t = "s"
  <2>1. a \in Seq(Byte) /\ Len(a) <= 255 /\ Len(a) \in Nat
    BY <1>1 DEF ArgOf
  <2>2. Len(a) \in Byte
    BY <2>1, IsByte
  <2>3. <<Len(a)>> \in Seq(Byte) /\ Len(<<Len(a)>>) = 1
    BY <2>2
  <2>4. /\ <<Len(a)>> \o a \in Seq(Byte)
        /\ Len(<<Len(a)>> \o a) = 1 + Len(a)
    BY <2>1, <2>3, ConcatProperties
  <2>5. EncodeArg(t, a) = <<Len(a)>> \o a
    BY <1>1 DEF EncodeArg
  <2> QED
    BY <2>1, <2>4, <2>5
<1>2. CASE t # "s"
  <2>1. a \in Word /\ EncodeArg(t, a) = EncodeInt(a)
    BY <1>2 DEF ArgOf, EncodeArg
  <2>2. EncodeInt(a) \in Seq(Byte) /\ Len(EncodeInt(a)) = Continued(a) + 1
        /\ Continued(a) \in 0 .. 4
    BY <2>1, EncodedInt
  <2> QED
    BY <2>1, <2>2
<1> QED
  BY <1>1, <1>2

Parsed(t, a, p, args, b, end) ==
    ParseArg(t, [args |-> args, size |-> Len(p), error |-> FALSE], b, end)
        = [args |-> Append(args, a), size |-> Len(p) + Len(EncodeArg(t, a)),
           error |-> FALSE]

(* One parameter is parsed into what was encoded.                           *)
LEMMA ParseArgIs ==
    ASSUME NEW t, NEW a, ArgOf(t, a), NEW p \in Seq(Byte), NEW r \in Seq(Byte),
           NEW args, NEW b, b = p \o (EncodeArg(t, a) \o r),
           NEW end \in Nat, Len(p) + Len(EncodeArg(t, a)) <= end
    PROVE  Parsed(t, a, p, args, b, end)
<1> DEFINE E == EncodeArg(t, a)
           done == [args |-> args, size |-> Len(p), error |-> FALSE]
           rest == SubSeq(b, done.size + 1, Len(b))
<1>1. E \in Seq(Byte) /\ Len(E) >= 1 /\ Len(E) \in Nat /\ Len(r) \in Nat
      /\ Len(p) \in Nat
  BY EncodedArg
<1>2. E \o r \in Seq(Byte) /\ Len(E \o r) = Len(E) + Len(r)
  <2> HIDE DEF E
  <2> QED
    BY <1>1, ConcatProperties
<1>3. rest = E \o r
  <2>1. b = p \o (E \o r)
    OBVIOUS
  <2> HIDE DEF E
  <2> QED
    BY <1>2, <2>1, AfterFirst
<1>4. ~(done.size > end)
  <2>1. done.size = Len(p) /\ Len(p) + Len(E) <= end
    OBVIOUS
  <2> HIDE DEF E, done
  <2> QED
    BY <1>1, <2>1
<1>5. done.args = args /\ done.size = Len(p) /\ done.error = FALSE
  OBVIOUS
<1>6. CASE t # "s"
  <2>1. a \in Word /\ E = EncodeInt(a)
    BY <1>6 DEF ArgOf, EncodeArg
  <2>2. ParseInt(rest) = [size |-> Len(E), value |-> a]
    <3> HIDE DEF E, rest
    <3> QED
      BY <1>3, <2>1, ParseEncoded
  <2>3. ParseArg(t, done, b, end)
            = [done EXCEPT !.args = Append(@, ParseInt(rest).value),
                           !.size = @ + ParseInt(rest).size]
    BY <1>4, <1>5, <1>6, Zenon DEF ParseArg
  <2> HIDE DEF E, rest
  <2>4. ParseArg(t, done, b, end)
            = [args |-> Append(args, a), size |-> Len(p) + Len(E), error |-> FALSE]
    <3>1. ParseInt(rest).value = a /\ ParseInt(rest).size = Len(E)
      BY <2>2
    <3>2. ParseArg(t, done, b, end)
              = [done EXCEPT !.args = Append(@, a), !.size = @ + Len(E)]
      BY <2>3, <3>1
    <3> QED
      BY <3>2
  <2> QED
    BY <2>4, Zenon DEF E, Parsed
<1>7. CASE t = "s"
  <2>1. a \in Seq(Byte) /\ Len(a) \in Nat /\ Len(a) <= 255 /\ E = <<Len(a)>> \o a
    BY <1>7 DEF ArgOf, EncodeArg
  <2>2. Len(a) \in Byte
    BY <2>1, IsByte
  <2> HIDE DEF E
  <2>3. rest[1] = Len(a) /\ Len(E) = 1 + Len(a) /\ Len(rest) = 1 + Len(a) + Len(r)
    <3>1. E[1] = Len(a) /\ Len(E) = 1 + Len(a)
      BY <2>1, <2>2
    <3>2. (E \o r)[1] = E[1]
      BY <1>1
    <3> HIDE DEF rest
    <3> QED
      BY <1>2, <1>3, <3>1, <3>2
  <2>4. SubSeq(rest, 2, 1 + rest[1]) = a
    <3>1. SubSeq((<<Len(a)>> \o a) \o r, 2, 1 + Len(a)) = a
      BY <2>1, <2>2, BetweenParts
    <3> HIDE DEF rest
    <3> QED
      BY <1>3, <2>1, <2>3, <3>1
  <2>5. ~(done.size + 1 + rest[1] > end)
    <3>1. done.size = Len(p) /\ Len(p) + Len(E) <= end
      BY DEF E
    <3> HIDE DEF rest, done
    <3> QED
      BY <1>1, <2>1, <2>3, <3>1
  <2>6. ParseArg(t, done, b, end)
            = [done EXCEPT !.args = Append(@, SubSeq(rest, 2, 1 + rest[1])),
                           !.size = @ + 1 + rest[1]]
    BY <1>4, <1>5, <1>7, <2>5, Zenon DEF ParseArg
  <2> HIDE DEF rest
  <2>7. Len(p) + 1 + rest[1] = Len(p) + Len(E)
    BY <1>1, <2>1, <2>3
  <2>8. ParseArg(t, done, b, end)
            = [args |-> Append(args, a), size |-> Len(p) + Len(E), error |-> FALSE]
    BY <2>4, <2>6, <2>7
  <2> QED
    BY <2>8, Zenon DEF E, Parsed
<1> QED
  BY <1>6, <1>7

(* Bytes in three parts.                                                   *)
LEMMA BytesAssociate ==
    ASSUME NEW s \in Seq(Byte), NEW t \in Seq(Byte), NEW u \in Seq(Byte)
    PROVE  (s \o t) \o u = s \o (t \o u)
BY ConcatAssociative

(* The bytes of a message after each of its first n parameters.             *)
Encoding(f, types, args, first, n) ==
    f = [i \in 0 .. n |->
            IF i = 0 THEN first ELSE f[i - 1] \o EncodeArg(types[i], args[i])]

(* There are such bytes for all parameters.                                *)
LEMMA EncodingExists ==
    ASSUME NEW types, NEW args, NEW first, NEW N \in Nat
    PROVE  \E f : Encoding(f, types, args, first, N)
<1> DEFINE T == {k \in 0 .. N : \E f : Encoding(f, types, args, first, k)}
           Rest(h, i) == IF i = 0 THEN first
                         ELSE h[i - 1] \o EncodeArg(types[i], args[i])
<1>1. 0 \in T
  <2> DEFINE f == [i \in 0 .. 0 |-> first]
  <2>1. Encoding(f, types, args, first, 0)
    BY DEF Encoding
  <2> QED
    BY <2>1
<1>2. ASSUME NEW k \in 0 .. (N - 1), k \in T PROVE k + 1 \in T
  <2>1. PICK f : Encoding(f, types, args, first, k)
    BY <1>2
  <2> DEFINE x == Rest(f, k + 1)
             g == [i \in 0 .. (k + 1) |-> IF i = k + 1 THEN x ELSE f[i]]
  <2>2. k \in Nat /\ k + 1 \in 0 .. N
    OBVIOUS
  <2>3. \A i \in 0 .. k : f[i] = Rest(f, i)
    BY <2>1, <2>2 DEF Encoding
  <2>4. \A i \in 0 .. k : g[i] = f[i]
    BY <2>2
  <2>5. g[k + 1] = x
    BY <2>2
  <2>6. \A i \in 0 .. (k + 1) : g[i] = Rest(g, i)
    <3> SUFFICES ASSUME NEW i \in 0 .. (k + 1) PROVE g[i] = Rest(g, i)
      OBVIOUS
    <3> HIDE DEF g
    <3>1. CASE i = k + 1
      <4>1. i - 1 = k /\ k \in 0 .. k /\ i # 0
        BY <2>2, <3>1
      <4>2. g[i - 1] = f[k] /\ f[i - 1] = f[k]
        BY <2>4, <4>1
      <4> QED
        BY <2>5, <3>1, <4>1, <4>2
    <3>2. CASE i # k + 1
      <4>1. i \in 0 .. k /\ (i # 0 => i - 1 \in 0 .. k)
        BY <2>2, <3>2
      <4> QED
        BY <2>3, <2>4, <4>1
    <3> QED
      BY <3>1, <3>2
  <2>7. g = [i \in 0 .. (k + 1) |-> g[i]]
    OBVIOUS
  <2> HIDE DEF g
  <2>8. Encoding(g, types, args, first, k + 1)
    BY <2>6, <2>7 DEF Encoding
  <2> QED
    BY <2>2, <2>8
<1>3. \A k \in 0 .. (N - 1) : k \in T => k + 1 \in T
  <2> HIDE DEF T
  <2> QED
    BY <1>2
<1> HIDE DEF T
<1>4. N \in T
  <2>1. \A k \in 0 .. N : k \in T
    BY <1>1, <1>3, UpTo
  <2> QED
    BY <2>1
<1> QED
  BY <1>4 DEF T

(* command_encodef makes them.                                             *)
LEMMA EncodefRuns ==
    ASSUME NEW e, NEW args, Len(args) \in Nat
    PROVE  \E f : /\ Encoding(f, e.types, args, EncodeMsgid(e.id), Len(args))
                  /\ Encodef(e, args) = f[Len(args)]
<1> DEFINE N == Len(args)
           f == CHOOSE bytes : bytes = [i \in 0 .. N |->
                    IF i = 0 THEN EncodeMsgid(e.id)
                    ELSE bytes[i - 1] \o EncodeArg(e.types[i], args[i])]
<1>1. Encoding(f, e.types, args, EncodeMsgid(e.id), N)
  <2>1. \E g : g = [i \in 0 .. N |->
                    IF i = 0 THEN EncodeMsgid(e.id)
                    ELSE g[i - 1] \o EncodeArg(e.types[i], args[i])]
    <3>1. \E g : Encoding(g, e.types, args, EncodeMsgid(e.id), N)
      <4>1. N \in Nat
        OBVIOUS
      <4> HIDE DEF N
      <4> QED
        BY <4>1, EncodingExists
    <3> QED
      BY <3>1, Zenon DEF Encoding
  <2> QED
    BY <2>1, Zenon DEF Encoding
<1>2. Encodef(e, args) = f[N]
  BY Zenon DEF Encodef
<1> HIDE DEF f
<1> QED
  BY <1>1, <1>2

ArgsOf(types, args, n) == \A i \in 1 .. n : ArgOf(types[i], args[i])

Grows(f, types, args, first, n) ==
    /\ f[0] = first
    /\ \A i \in 0 .. n : f[i] \in Seq(Byte)
    /\ \A i \in 1 .. n : f[i] = f[i - 1] \o EncodeArg(types[i], args[i])
Prefixes(f, n) == \A i \in 0 .. n : \E r \in Seq(Byte) : f[n] = f[i] \o r

(* Each part of a message is followed by the bytes of the next parameter.   *)
LEMMA EncodingIs ==
    ASSUME NEW types, NEW args, NEW first \in Seq(Byte), NEW N \in Nat,
           ArgsOf(types, args, N),
           NEW f, Encoding(f, types, args, first, N)
    PROVE  Grows(f, types, args, first, N) /\ Prefixes(f, N)
<1> DEFINE E(i) == EncodeArg(types[i], args[i])
           Rest(i) == IF i = 0 THEN first ELSE f[i - 1] \o E(i)
           T == {i \in 0 .. N : f[i] \in Seq(Byte)}
           U == {j \in 0 .. N : \A i \in 0 .. j : \E r \in Seq(Byte) : f[j] = f[i] \o r}
<1>1. \A i \in 0 .. N : f[i] = Rest(i)
  <2>1. f = [i \in 0 .. N |-> Rest(i)]
    BY DEF Encoding
  <2> HIDE DEF Rest
  <2> QED
    BY <2>1
<1>2. f[0] = first /\ \A i \in 1 .. N : f[i] = f[i - 1] \o E(i)
  <2>1. 0 \in 0 .. N /\ \A i \in 1 .. N : i \in 0 .. N /\ i # 0
    OBVIOUS
  <2> HIDE DEF E
  <2> QED
    BY <1>1, <2>1
<1>3. \A i \in 1 .. N : E(i) \in Seq(Byte)
  BY EncodedArg DEF ArgsOf
<1> HIDE DEF E, Rest
<1>4. \A i \in 0 .. (N - 1) : i + 1 \in 1 .. N /\ i + 1 \in 0 .. N /\ (i + 1) - 1 = i
  OBVIOUS
<1>5. \A i \in 0 .. N : f[i] \in Seq(Byte)
  <2>1. 0 \in T
    BY <1>2
  <2>2. \A i \in 0 .. (N - 1) : i \in T => i + 1 \in T
    <3> SUFFICES ASSUME NEW i \in 0 .. (N - 1), f[i] \in Seq(Byte)
                 PROVE  f[i + 1] \in Seq(Byte)
      BY <1>4
    <3>1. f[i + 1] = f[i] \o E(i + 1) /\ E(i + 1) \in Seq(Byte)
      BY <1>2, <1>3, <1>4
    <3> QED
      BY <3>1, ConcatProperties
  <2> HIDE DEF T
  <2>3. \A i \in 0 .. N : i \in T
    BY <2>1, <2>2, UpTo
  <2> QED
    BY <2>3 DEF T
<1>6. \A i \in 0 .. N : \E r \in Seq(Byte) : f[N] = f[i] \o r
  <2>0. <<>> \in Seq(Byte) /\ \A s \in Seq(Byte) : s \o <<>> = s
    BY ConcatEmptySeq
  <2>1. 0 \in U
    <3>1. \A i \in 0 .. 0 : i = 0
      OBVIOUS
    <3>2. f[0] = f[0] \o <<>>
      BY <1>5, <2>0
    <3>3. \A i \in 0 .. 0 : \E r \in Seq(Byte) : f[0] = f[i] \o r
      BY <2>0, <3>1, <3>2, Zenon
    <3>4. 0 \in 0 .. N
      OBVIOUS
    <3> QED
      BY <3>3, <3>4
  <2>2. ASSUME NEW j \in 0 .. (N - 1), j \in U PROVE j + 1 \in U
    <3> SUFFICES ASSUME NEW i \in 0 .. j + 1
                 PROVE  \E r \in Seq(Byte) : f[j + 1] = f[i] \o r
      BY <1>4
    <3>1. CASE i = j + 1
      <4>1. f[j + 1] = f[i] \o <<>>
        BY <1>4, <1>5, <2>0, <3>1
      <4> QED
        BY <2>0, <4>1, Zenon
    <3>2. CASE i # j + 1
      <4>1. i \in 0 .. j /\ i \in 0 .. N /\ j \in 0 .. N
        BY <3>2
      <4>2. PICK r \in Seq(Byte) : f[j] = f[i] \o r
        BY <2>2, <4>1
      <4>3. f[j + 1] = f[j] \o E(j + 1) /\ E(j + 1) \in Seq(Byte) /\ f[i] \in Seq(Byte)
        BY <1>2, <1>3, <1>4, <1>5, <4>1
      <4>4. f[j + 1] = f[i] \o (r \o E(j + 1))
        <5>1. (f[i] \o r) \o E(j + 1) = f[i] \o (r \o E(j + 1))
          BY <4>2, <4>3, BytesAssociate
        <5> QED
          BY <4>2, <4>3, <5>1, Zenon
      <4>5. r \o E(j + 1) \in Seq(Byte)
        BY <4>3, ConcatProperties
      <4> QED
        BY <4>4, <4>5, Zenon
    <3> QED
      BY <3>1, <3>2
  <2>3. \A j \in 0 .. (N - 1) : j \in U => j + 1 \in U
    <3> HIDE DEF U
    <3> QED
      BY <2>2
  <2> HIDE DEF U
  <2>4. \A j \in 0 .. N : j \in U
    BY <2>1, <2>3, UpTo
  <2>5. N \in U
    BY <2>4
  <2> QED
    BY <2>5 DEF U
<1> QED
  <2>1. Prefixes(f, N)
    BY <1>6 DEF Prefixes
  <2>2. Grows(f, types, args, first, N)
    BY <1>2, <1>5, Zenon DEF Grows, E
  <2> QED
    BY <2>1, <2>2

(* A message is its first part and what its parameters make.                *)
Splits(f, h, first, n) == f[n] = first \o h[n]

LEMMA EncodingSplits ==
    ASSUME NEW types, NEW args, NEW first \in Seq(Byte), NEW N \in Nat,
           ArgsOf(types, args, N),
           NEW f, Encoding(f, types, args, first, N),
           NEW h, Encoding(h, types, args, <<>>, N)
    PROVE  Splits(f, h, first, N)
<1> DEFINE E(i) == EncodeArg(types[i], args[i])
           T == {i \in 0 .. N : f[i] = first \o h[i]}
<1>0. \A i \in 1 .. N : ArgOf(types[i], args[i])
  BY DEF ArgsOf
<1>1. <<>> \in Seq(Byte) /\ first \o <<>> = first
  BY ConcatEmptySeq
<1>2. f[0] = first /\ \A i \in 1 .. N : f[i] = f[i - 1] \o E(i)
  <2>1. Grows(f, types, args, first, N)
    BY EncodingIs
  <2> QED
    BY <2>1, Zenon DEF Grows
<1>3. /\ h[0] = <<>> /\ \A i \in 0 .. N : h[i] \in Seq(Byte)
      /\ \A i \in 1 .. N : h[i] = h[i - 1] \o E(i)
  <2>1. Grows(h, types, args, <<>>, N)
    BY <1>1, EncodingIs
  <2> QED
    BY <2>1, Zenon DEF Grows
<1>4. \A i \in 1 .. N : E(i) \in Seq(Byte)
  BY EncodedArg DEF ArgsOf
<1> HIDE DEF E
<1>5. 0 \in T
  BY <1>1, <1>2, <1>3
<1>6. \A i \in 0 .. (N - 1) : i \in T => i + 1 \in T
  <2> SUFFICES ASSUME NEW i \in 0 .. (N - 1), f[i] = first \o h[i]
               PROVE  f[i + 1] = first \o h[i + 1]
    <3>1. \A i \in 0 .. (N - 1) : i + 1 \in 0 .. N
      OBVIOUS
    <3> QED
      BY <3>1
  <2>1. i + 1 \in 1 .. N /\ (i + 1) - 1 = i /\ i \in 0 .. N
    OBVIOUS
  <2>2. /\ f[i + 1] = f[i] \o E(i + 1) /\ h[i + 1] = h[i] \o E(i + 1)
        /\ E(i + 1) \in Seq(Byte) /\ h[i] \in Seq(Byte)
    BY <1>2, <1>3, <1>4, <2>1
  <2>3. (first \o h[i]) \o E(i + 1) = first \o (h[i] \o E(i + 1))
    BY <2>2, BytesAssociate
  <2> QED
    BY <2>2, <2>3, Zenon
<1> HIDE DEF T
<1>7. N \in T
  <2>1. \A i \in 0 .. N : i \in T
    BY <1>5, <1>6, UpTo
  <2> QED
    BY <2>1
<1> QED
  BY <1>7 DEF T, Splits

(* Bytes may be put together in either order.                               *)
Associates(s, t, u) == (s \o t) \o u = s \o (t \o u)
LEMMA AllAssociate == \A s, t, u \in Seq(Byte) : Associates(s, t, u)
<1> SUFFICES ASSUME NEW s \in Seq(Byte), NEW t \in Seq(Byte), NEW u \in Seq(Byte)
             PROVE  Associates(s, t, u)
  OBVIOUS
<1>1. (s \o t) \o u = s \o (t \o u)
  BY BytesAssociate
<1> QED
  BY <1>1, Zenon DEF Associates

(* Bytes in four parts, with the first three up to end.                     *)
Ahead(s, e, r, z) ==
    /\ ((s \o e) \o r) \o z = s \o (e \o (r \o z)) /\ r \o z \in Seq(Byte)
    /\ Len((s \o e) \o r) \in Nat /\ Len(s) + Len(e) <= Len((s \o e) \o r)
LEMMA AheadIs ==
    ASSUME NEW s \in Seq(Byte), NEW e \in Seq(Byte), NEW r \in Seq(Byte),
           NEW z \in Seq(Byte)
    PROVE  Ahead(s, e, r, z)
<1>1. s \o e \in Seq(Byte) /\ r \o z \in Seq(Byte)
  BY ConcatProperties
<1>2. PICK q \in Seq(Byte) : q = s \o e
  BY <1>1, Zenon
<1>3. PICK w \in Seq(Byte) : w = r \o z
  BY <1>1, Zenon
<1>4. Associates(s, e, w) /\ Associates(q, r, z)
  BY AllAssociate, Zenon
<1>5. /\ (s \o e) \o w = s \o (e \o w)
      /\ (q \o r) \o z = q \o (r \o z)
  BY <1>4, Zenon DEF Associates
<1>6. ((s \o e) \o r) \o z = s \o (e \o (r \o z))
  BY <1>2, <1>3, <1>4, <1>5, Zenon
<1>7. Len(q) = Len(s) + Len(e) /\ Len(q) \in Nat
  BY <1>2, ConcatProperties
<1>8. Len(q \o r) \in Nat /\ Len(q) <= Len(q \o r)
  BY ConcatProperties
<1>9. Len(q \o r) \in Nat /\ Len(s) + Len(e) <= Len(q \o r)
  BY <1>7, <1>8
<1>10. Len((s \o e) \o r) \in Nat /\ Len(s) + Len(e) <= Len((s \o e) \o r)
  BY <1>2, <1>9, Zenon
<1> QED
  BY <1>1, <1>6, <1>10, Zenon DEF Ahead

(* What command_parsef has read after each parameter.                       *)
Parsing(done, types, b, end, n) ==
    done = [i \in 0 .. n |->
               IF i = 0 THEN [args |-> <<>>, size |-> 0, error |-> FALSE]
               ELSE ParseArg(types[i], done[i - 1], b, end)]

(* What has been read is what was encoded so far.                          *)
LEMMA ParsingIs ==
    ASSUME NEW types, NEW V, NEW args \in Seq(V), NEW N, N = Len(args),
           ArgsOf(types, args, N),
           NEW h, Encoding(h, types, args, <<>>, N), NEW z \in Seq(Byte)
    PROVE  LET g == [i \in 0 .. N |-> [args |-> SubSeq(args, 1, i), size |-> Len(h[i]),
                                       error |-> FALSE]]
           IN Parsing(g, types, h[N] \o z, Len(h[N]), N)
<1> DEFINE E(i) == EncodeArg(types[i], args[i])
           G(i) == [args |-> SubSeq(args, 1, i), size |-> Len(h[i]), error |-> FALSE]
           g == [i \in 0 .. N |-> G(i)]
           B == h[N] \o z
           end == Len(h[N])
           Rest(i) == IF i = 0 THEN [args |-> <<>>, size |-> 0, error |-> FALSE]
                      ELSE ParseArg(types[i], g[i - 1], B, end)
<1>0. \A i \in 1 .. N : ArgOf(types[i], args[i])
  BY DEF ArgsOf
<1>1. N \in Nat /\ <<>> \in Seq(Byte)
  OBVIOUS
<1>2. /\ h[0] = <<>> /\ \A i \in 0 .. N : h[i] \in Seq(Byte)
      /\ \A i \in 1 .. N : h[i] = h[i - 1] \o E(i)
      /\ \A i \in 0 .. N : \E r \in Seq(Byte) : h[N] = h[i] \o r
  <2>1. Grows(h, types, args, <<>>, N) /\ Prefixes(h, N)
    BY <1>1, EncodingIs
  <2> QED
    BY <2>1, Zenon DEF Grows, Prefixes
<1>3. \A i \in 1 .. N : E(i) \in Seq(Byte)
  BY EncodedArg DEF ArgsOf
<1>4. G(0) = [args |-> <<>>, size |-> 0, error |-> FALSE]
  <2>1. SubSeq(args, 1, 0) = <<>> /\ Len(h[0]) = 0
    BY <1>2, SubSeqEmpty
  <2> QED
    BY <2>1
<1>5. ASSUME NEW i \in 1 .. N PROVE G(i) = ParseArg(types[i], G(i - 1), B, end)
  <2>1. i \in 0 .. N /\ i - 1 \in 0 .. N /\ i - 1 \in Nat
    BY <1>1
  <2>2. PICK r \in Seq(Byte) : h[N] = h[i] \o r
    BY <1>2, <2>1
  <2>3. /\ h[i] = h[i - 1] \o E(i) /\ h[i - 1] \in Seq(Byte) /\ E(i) \in Seq(Byte)
    BY <1>2, <1>3, <2>1
  <2>4. /\ B = h[i - 1] \o (E(i) \o (r \o z)) /\ r \o z \in Seq(Byte)
        /\ end \in Nat /\ Len(h[i - 1]) + Len(E(i)) <= end
    <3> DEFINE s == h[i - 1]
               e == E(i)
               m == h[N]
    <3>1. m = (s \o e) \o r
      BY <2>2, <2>3
    <3>2. s \in Seq(Byte) /\ e \in Seq(Byte)
      BY <2>3
    <3> HIDE DEF s, e, m, E
    <3>3. Ahead(s, e, r, z)
      BY <3>2, AheadIs
    <3>4. /\ m \o z = s \o (e \o (r \o z)) /\ r \o z \in Seq(Byte)
          /\ Len(m) \in Nat /\ Len(s) + Len(e) <= Len(m)
      BY <3>1, <3>3, Zenon DEF Ahead
    <3> QED
      BY <3>4 DEF s, e, m
  <2>5. ParseArg(types[i], G(i - 1), B, end)
            = [args |-> Append(SubSeq(args, 1, i - 1), args[i]),
               size |-> Len(h[i - 1]) + Len(E(i)), error |-> FALSE]
    <3>1. ArgOf(types[i], args[i])
      BY <1>0
    <3>2. /\ B = h[i - 1] \o (EncodeArg(types[i], args[i]) \o (r \o z))
          /\ Len(h[i - 1]) + Len(EncodeArg(types[i], args[i])) <= end
      BY <2>4 DEF E
    <3> DEFINE t == types[i]
               a == args[i]
               p == h[i - 1]
               b == B
               w == r \o z
               sofar == SubSeq(args, 1, i - 1)
    <3>3. /\ ArgOf(t, a) /\ p \in Seq(Byte) /\ b = p \o (EncodeArg(t, a) \o w)
          /\ Len(p) + Len(EncodeArg(t, a)) <= end
      BY <2>3, <3>1, <3>2
    <3>4. w \in Seq(Byte) /\ end \in Nat
      BY <2>4
    <3> HIDE DEF t, a, p, b, w, sofar, g, end
    <3>5. Parsed(t, a, p, sofar, b, end)
      BY <3>3, <3>4, ParseArgIs
    <3> QED
      BY <3>5, Zenon DEF t, a, p, b, sofar, Parsed
  <2>6. Len(h[i - 1]) + Len(E(i)) = Len(h[i])
    <3> HIDE DEF E
    <3> QED
      BY <2>3, ConcatProperties
  <2>7. Append(SubSeq(args, 1, i - 1), args[i]) = SubSeq(args, 1, i)
    OBVIOUS
  <2> QED
    BY <2>5, <2>6, <2>7
<1> HIDE DEF G
<1>6. ASSUME NEW i \in 0 .. N PROVE G(i) = Rest(i)
  <2>1. CASE i = 0
    BY <1>4, <2>1
  <2>2. CASE i # 0
    <3>1. i \in 1 .. N /\ i - 1 \in 0 .. N
      BY <1>1, <2>2
    <3>2. g[i - 1] = G(i - 1)
      BY <3>1
    <3> HIDE DEF g
    <3> QED
      BY <1>5, <2>2, <3>1, <3>2
  <2> QED
    BY <2>1, <2>2
<1> HIDE DEF Rest
<1>7. g = [i \in 0 .. N |-> Rest(i)]
  BY <1>6
<1> HIDE DEF g
<1>8. Parsing(g, types, B, end, N)
  BY <1>7, Zenon DEF Parsing, Rest
<1> QED
  BY <1>8 DEF g, G

(* command_parsef, with any function that says what it has read after each  *)
(* parameter, ends with all.                                                *)
LEMMA ParsefIs ==
    ASSUME NEW types, NEW b, NEW N, N = Len(types), N \in Nat,
           NEW end, NEW g, Parsing(g, types, b, end, N)
    PROVE  Parsef(types, b, end) = g[N]
<1> DEFINE f == CHOOSE done : done = [i \in 0 .. N |->
                    IF i = 0 THEN [args |-> <<>>, size |-> 0, error |-> FALSE]
                    ELSE ParseArg(types[i], done[i - 1], b, end)]
           Rest(h, i) == IF i = 0 THEN [args |-> <<>>, size |-> 0, error |-> FALSE]
                         ELSE ParseArg(types[i], h[i - 1], b, end)
           T == {i \in 0 .. N : f[i] = g[i]}
<1>1. Parsef(types, b, end) = f[N]
  BY Zenon DEF Parsef
<1>2. Parsing(f, types, b, end, N)
  <2>1. \E h : Parsing(h, types, b, end, N)
    OBVIOUS
  <2> QED
    BY <2>1, Zenon DEF Parsing
<1> HIDE DEF f
<1>3. \A i \in 0 .. N : f[i] = Rest(f, i) /\ g[i] = Rest(g, i)
  <2>1. f = [i \in 0 .. N |-> Rest(f, i)] /\ g = [i \in 0 .. N |-> Rest(g, i)]
    BY <1>2, Zenon DEF Parsing
  <2> HIDE DEF Rest
  <2>2. ASSUME NEW h, h = [i \in 0 .. N |-> Rest(h, i)], NEW i \in 0 .. N
        PROVE  h[i] = Rest(h, i)
    <3> DEFINE x == Rest(h, i)
               k == [j \in 0 .. N |-> Rest(h, j)]
    <3>1. k[i] = x
      OBVIOUS
    <3>2. h = k
      BY <2>2
    <3> HIDE DEF k
    <3> QED
      BY <3>1, <3>2
  <2> QED
    BY <2>1, <2>2
<1>4. 0 \in T
  BY <1>3
<1>5. \A i \in 0 .. (N - 1) : i \in T => i + 1 \in T
  <2> SUFFICES ASSUME NEW i \in 0 .. (N - 1), f[i] = g[i] PROVE f[i + 1] = g[i + 1]
    <3>1. \A i \in 0 .. (N - 1) : i + 1 \in 0 .. N
      OBVIOUS
    <3> QED
      BY <3>1
  <2>1. i + 1 \in 0 .. N /\ (i + 1) - 1 = i /\ i + 1 # 0
    OBVIOUS
  <2>2. Rest(f, i + 1) = Rest(g, i + 1)
    BY <2>1
  <2> HIDE DEF Rest
  <2> QED
    BY <1>3, <2>1, <2>2
<1> HIDE DEF T
<1>6. N \in T
  <2>1. \A i \in 0 .. N : i \in T
    BY <1>4, <1>5, UpTo
  <2> QED
    BY <2>1
<1> QED
  BY <1>1, <1>6 DEF T

(* A byte before others.                                                   *)
LEMMA OneBefore ==
    ASSUME NEW s \in Seq(Byte), NEW t \in Seq(Byte), Len(s) = 1
    PROVE  /\ s \o t \in Seq(Byte) /\ Len(s \o t) = 1 + Len(t) /\ Len(t) \in Nat
           /\ (s \o t)[1] = s[1]
<1>1. Len(s) \in Nat /\ Len(t) \in Nat
  OBVIOUS
<1>2. /\ s \o t \in Seq(Byte) /\ Len(s \o t) = Len(s) + Len(t)
      /\ \A i \in 1 .. Len(s) + Len(t) :
            (s \o t)[i] = IF i <= Len(s) THEN s[i] ELSE t[i - Len(s)]
  BY ConcatProperties
<1>3. 1 \in 1 .. Len(s) + Len(t) /\ 1 <= Len(s)
  BY <1>1
<1> QED
  BY <1>1, <1>2, <1>3

(* What command_encodef writes, command_parsef reads back, whatever follows.*)
ReadBack(e, args, b, z) ==
    /\ b \in Seq(Byte) /\ Len(b) >= 1 /\ b[1] = e.id
    /\ Parsef(e.types, SubSeq(b \o z, 2, Len(b \o z)), Len(b) - 1)
           = [args |-> args, size |-> Len(b) - 1, error |-> FALSE]

LEMMA ParsefEncodef ==
    ASSUME NEW e, NEW V, NEW args \in Seq(V), e.id \in Nat, e.id < 128,
           Len(e.types) = Len(args), ArgsOf(e.types, args, Len(args)),
           NEW z \in Seq(Byte)
    PROVE  ReadBack(e, args, Encodef(e, args), z)
<1> DEFINE N == Len(args)
           b == Encodef(e, args)
           first == EncodeMsgid(e.id)
           types == e.types
<1>1. N \in Nat /\ N = Len(types) /\ ArgsOf(types, args, N)
  OBVIOUS
<1>2. PICK f : Encoding(f, types, args, first, N) /\ b = f[N]
  BY <1>1, EncodefRuns
<1>3. first = <<e.id>> /\ e.id \in Byte
  BY IsByte DEF EncodeMsgid
<1>4. PICK h : Encoding(h, types, args, <<>>, N)
  <2> HIDE DEF N, types
  <2> QED
    BY <1>1, EncodingExists
<1> DEFINE g == [i \in 0 .. N |-> [args |-> SubSeq(args, 1, i), size |-> Len(h[i]),
                                   error |-> FALSE]]
<1> HIDE DEF b, first, types
<1>5. Parsing(g, types, h[N] \o z, Len(h[N]), N)
  <2> HIDE DEF g
  <2>1. N = Len(args)
    OBVIOUS
  <2> HIDE DEF N
  <2> QED
    BY <1>1, <1>4, <2>1, ParsingIs DEF g
<1>6. g[N] = [args |-> args, size |-> Len(h[N]), error |-> FALSE]
  <2>1. SubSeq(args, 1, N) = args
    BY SubSeqFull
  <2>2. N \in 0 .. N
    BY <1>1
  <2> HIDE DEF N
  <2> QED
    BY <2>1, <2>2
<1> HIDE DEF g, N
<1>7. first \in Seq(Byte) /\ Len(first) = 1 /\ first[1] = e.id /\ <<>> \in Seq(Byte)
  BY <1>3
<1>8. b = first \o h[N]
  <2>1. Splits(f, h, first, N)
    BY <1>1, <1>2, <1>4, <1>7, EncodingSplits
  <2> QED
    BY <1>2, <2>1 DEF Splits
<1>9. h[N] \in Seq(Byte)
  <2>1. Grows(h, types, args, <<>>, N)
    BY <1>1, <1>4, <1>7, EncodingIs
  <2>2. N \in 0 .. N
    BY <1>1
  <2> QED
    BY <2>1, <2>2, Zenon DEF Grows
<1>10. b \in Seq(Byte) /\ Len(b) = 1 + Len(h[N]) /\ b[1] = e.id /\ Len(h[N]) \in Nat
  <2> DEFINE q == h[N]
  <2> HIDE DEF q
  <2>1. q \in Seq(Byte) /\ b = first \o q
    BY <1>8, <1>9 DEF q
  <2>2. b \in Seq(Byte) /\ Len(b) = 1 + Len(q) /\ b[1] = e.id /\ Len(q) \in Nat
    BY <1>7, <2>1, OneBefore
  <2> QED
    BY <2>2 DEF q
<1>11. SubSeq(b \o z, 2, Len(b \o z)) = h[N] \o z
  <2> DEFINE q == h[N]
             w == h[N] \o z
  <2>1. q \in Seq(Byte) /\ b = first \o q /\ w = q \o z
    BY <1>8, <1>9
  <2> HIDE DEF q, w
  <2>2. b \o z = first \o w /\ w \in Seq(Byte)
    <3>1. (first \o q) \o z = first \o (q \o z)
      BY <1>7, <2>1, BytesAssociate
    <3>2. q \o z \in Seq(Byte)
      BY <2>1, ConcatProperties
    <3> QED
      BY <2>1, <3>1, <3>2
  <2>3. SubSeq(first \o w, Len(first) + 1, Len(first \o w)) = w
    BY <1>7, <2>2, AfterFirst
  <2>4. SubSeq(b \o z, 2, Len(b \o z)) = w
    BY <1>7, <2>2, <2>3
  <2> QED
    BY <2>4 DEF w
<1>12. Parsef(types, h[N] \o z, Len(h[N])) = g[N]
  BY <1>1, <1>5, ParsefIs
<1>13. Len(b) - 1 = Len(h[N])
  BY <1>10
<1>14. ReadBack(e, args, b, z)
  <2>1. Parsef(e.types, SubSeq(b \o z, 2, Len(b \o z)), Len(b) - 1)
            = [args |-> args, size |-> Len(b) - 1, error |-> FALSE]
    BY <1>6, <1>11, <1>12, <1>13 DEF types
  <2> QED
    BY <1>10, <2>1 DEF ReadBack
<1> QED
  BY <1>14 DEF b

EncoderOf(x) == [id |-> x[2], max_size |-> x[3], types |-> x[4]]

(* A message is told by its id.                                             *)
LEMMA IdsDiffer ==
    ASSUME NEW x \in command_encoder, NEW y \in command_encoder, x[2] = y[2]
    PROVE  x = y
BY SMTT(150) DEF command_encoder

(* The encoders' numbers.                                                  *)
LEMMA EncodersAre ==
    ASSUME NEW x \in command_encoder
    PROVE  /\ x[2] \in Nat /\ x[2] < 128 /\ x[3] \in Nat /\ x[3] <= 64
           /\ Len(x[4]) \in Nat /\ Len(x[4]) <= 6
<1>1. /\ x[2] \in Nat /\ x[2] < 128 /\ x[3] \in Nat /\ x[3] <= 64
      /\ Len(x[4]) \in 0 .. 6
  BY SMTT(60) DEF command_encoder
<1>2. \A n \in 0 .. 6 : n \in Nat /\ n <= 6
  OBVIOUS
<1> QED
  BY <1>1, <1>2, Zenon

(* The room for a buffer, and for the i-th parameter.                       *)
RoomFor(max, types) ==
    max - 7 - (IF Len(types) > 1 THEN Widest(types[1]) ELSE 0)
            - (IF Len(types) > 2 THEN Widest(types[2]) ELSE 0)
Width(max, types, i) ==
    IF i > Len(types) THEN 0
    ELSE IF types[i] = "s" THEN 1 + RoomFor(max, types)
    ELSE Widest(types[i])

(* The parameters of every response have room by its max_size.             *)
LEMMA WidestIs ==
    ASSUME NEW t
    PROVE  Widest(t) = IF t = "c" THEN 2 ELSE IF t = "u16" THEN 3 ELSE 5
BY DEF Widest

LEMMA WidthsFit ==
    ASSUME NEW x \in command_encoder
    PROVE  /\ \A i \in 1 .. 6 : Width(x[3], x[4], i) \in Nat
           /\ 1 + Width(x[3], x[4], 1) + Width(x[3], x[4], 2) + Width(x[3], x[4], 3)
                + Width(x[3], x[4], 4) + Width(x[3], x[4], 5) + Width(x[3], x[4], 6)
                  <= x[3] - 5
BY WidestIs, SMTT(100) DEF command_encoder, Width, RoomFor

(* What BufferFits allows.                                                 *)
LEMMA RoomIs ==
    ASSUME NEW x \in command_encoder
    PROVE  /\ Room(EncoderOf(x)) = RoomFor(x[3], x[4])
           /\ RoomFor(x[3], x[4]) \in Int /\ RoomFor(x[3], x[4]) <= 57
<1>1. x[3] \in Nat /\ x[3] <= 64
  BY EncodersAre
<1>2. EncoderOf(x).types = x[4] /\ EncoderOf(x).max_size = x[3]
  BY DEF EncoderOf
<1>3. Room(EncoderOf(x)) = RoomFor(x[3], x[4])
  BY <1>2 DEF Room, RoomFor
<1>4. RoomFor(x[3], x[4]) \in Int /\ RoomFor(x[3], x[4]) <= 57
  <2> DEFINE p == IF Len(x[4]) > 1 THEN Widest(x[4][1]) ELSE 0
             q == IF Len(x[4]) > 2 THEN Widest(x[4][2]) ELSE 0
  <2>1. p \in Nat /\ q \in Nat
    BY WidestIs
  <2>2. RoomFor(x[3], x[4]) = x[3] - 7 - p - q
    BY DEF RoomFor
  <2> HIDE DEF p, q
  <2> QED
    BY <1>1, <2>1, <2>2
<1> QED
  BY <1>3, <1>4

(* The bytes of a parameter.                                                *)
LEMMA ArgLength ==
    ASSUME NEW t, NEW a, ArgOf(t, a)
    PROVE  IF t = "s" THEN Len(EncodeArg(t, a)) = 1 + Len(a)
           ELSE Len(EncodeArg(t, a)) <= Widest(t)
<1>1. CASE t = "s"
  <2>1. a \in Seq(Byte) /\ Len(a) <= 255 /\ Len(a) \in Nat
    BY <1>1 DEF ArgOf
  <2>2. <<Len(a)>> \in Seq(Byte) /\ Len(<<Len(a)>>) = 1
    BY <2>1, IsByte
  <2>3. Len(<<Len(a)>> \o a) = 1 + Len(a)
    BY <2>1, <2>2, ConcatProperties
  <2>4. EncodeArg(t, a) = <<Len(a)>> \o a
    BY <1>1 DEF EncodeArg
  <2> QED
    BY <1>1, <2>3, <2>4
<1>2. CASE t # "s"
  <2> DEFINE n == Continued(a)
  <2>1. a \in Word /\ EncodeArg(t, a) = EncodeInt(a)
    BY <1>2 DEF ArgOf, EncodeArg
  <2>2. Len(EncodeInt(a)) = n + 1 /\ n \in 0 .. 4
    BY <2>1, EncodedInt
  <2>3. a \in Int
    BY <2>1, SMT DEF Word
  <2>4. /\ a >= 0 /\ a < 256 => n <= 1
        /\ a >= 0 /\ a < 65536 => n <= 2
    BY <2>1, <2>3, ContinuedIs, SMT
  <2> HIDE DEF n
  <2>5. n + 1 <= Widest(t)
    <3>1. t = "c" => a >= 0 /\ a < 256
      BY <1>2 DEF ArgOf
    <3>2. t = "u16" => a >= 0 /\ a < 65536
      BY <1>2, SMT DEF ArgOf
    <3> QED
      BY <2>2, <2>4, <3>1, <3>2, WidestIs, SMT
  <2> QED
    BY <1>2, <2>1, <2>2, <2>5
<1> QED
  BY <1>1, <1>2

(* A message whose buffers fit is no longer than its max_size, less the     *)
(* frame.                                                                   *)
LEMMA EncodefFits ==
    ASSUME NEW x \in command_encoder, NEW V, NEW args \in Seq(V),
           Len(x[4]) = Len(args), ArgsOf(x[4], args, Len(args)),
           BufferFits(EncoderOf(x), args)
    PROVE  Len(Encodef(EncoderOf(x), args)) <= x[3] - 5
<1> DEFINE N == Len(args)
           e == EncoderOf(x)
           types == x[4]
           first == EncodeMsgid(e.id)
           E(i) == EncodeArg(types[i], args[i])
           w(i) == Width(x[3], types, i)
<1>1. /\ N \in Nat /\ N <= 6 /\ Len(types) = N /\ ArgsOf(types, args, N)
      /\ e.types = types /\ e.id = x[2] /\ e.max_size = x[3]
  <2>1. e.types = types /\ e.id = x[2] /\ e.max_size = x[3]
    BY DEF EncoderOf
  <2>2. Len(types) = N
    OBVIOUS
  <2>3. N \in Nat /\ N <= 6
    <3>1. Len(x[4]) \in Nat /\ Len(x[4]) <= 6
      BY EncodersAre
    <3> QED
      BY <2>2, <3>1
  <2>4. ArgsOf(types, args, N)
    OBVIOUS
  <2> QED
    BY <2>1, <2>2, <2>3, <2>4
<1>2. PICK f : Encoding(f, e.types, args, first, N) /\ Encodef(e, args) = f[N]
  BY <1>1, EncodefRuns
<1>3. first = <<e.id>> /\ e.id \in Byte
  <2>1. e.id \in Nat /\ e.id < 128
    BY <1>1, EncodersAre
  <2> HIDE DEF e
  <2> QED
    BY <2>1, IsByte DEF EncodeMsgid
<1>4. Room(e) = RoomFor(x[3], types)
  BY RoomIs
<1>5. BufferFits(e, args)
  OBVIOUS
<1> HIDE DEF N, e, types, first
<1>6. first \in Seq(Byte) /\ Len(first) = 1
  BY <1>3
<1>7. Grows(f, types, args, first, N)
  BY <1>1, <1>2, <1>6, EncodingIs
<1>8. \A i \in 1 .. N : E(i) \in Seq(Byte) /\ Len(E(i)) <= w(i)
  <2> SUFFICES ASSUME NEW i \in 1 .. N PROVE E(i) \in Seq(Byte) /\ Len(E(i)) <= w(i)
    OBVIOUS
  <2>1. ArgOf(types[i], args[i])
    BY <1>1 DEF ArgsOf
  <2>2. ~(i > Len(types))
    BY <1>1
  <2>3. E(i) \in Seq(Byte)
    BY <2>1, EncodedArg
  <2>4. CASE types[i] = "s"
    <3>1. Len(args[i]) <= Room(e)
      BY <1>1, <1>5, <2>4 DEF BufferFits
    <3>2. Len(E(i)) = 1 + Len(args[i])
      BY <2>1, <2>4, ArgLength
    <3>3. w(i) = 1 + Room(e)
      BY <1>4, <2>2, <2>4 DEF Width
    <3>4. Len(args[i]) \in Nat /\ Room(e) \in Int
      <4>1. args[i] \in Seq(Byte)
        BY <2>1, <2>4 DEF ArgOf
      <4>2. Room(e) \in Int
        BY RoomIs DEF e
      <4> QED
        BY <4>1, <4>2
    <3> HIDE DEF E, w
    <3> QED
      BY <2>3, <3>1, <3>2, <3>3, <3>4
  <2>5. CASE types[i] # "s"
    <3>1. Len(E(i)) <= Widest(types[i])
      BY <2>1, <2>5, ArgLength
    <3>2. w(i) = Widest(types[i])
      BY <2>2, <2>5 DEF Width
    <3> HIDE DEF E, w
    <3> QED
      BY <2>3, <3>1, <3>2
  <2> QED
    BY <2>4, <2>5
<1>9. /\ \A i \in 1 .. 6 : w(i) \in Nat
      /\ 1 + w(1) + w(2) + w(3) + w(4) + w(5) + w(6) <= x[3] - 5
  BY WidthsFit DEF types
<1>10. /\ Len(f[0]) = 1
       /\ \A i \in 1 .. N : Len(f[i]) \in Nat /\ Len(f[i]) <= Len(f[i - 1]) + w(i)
  <2>1. Len(f[0]) = 1
    BY <1>6, <1>7 DEF Grows
  <2>2. ASSUME NEW i \in 1 .. N
        PROVE  Len(f[i]) \in Nat /\ Len(f[i]) <= Len(f[i - 1]) + w(i)
    <3>1. i \in 0 .. N /\ i - 1 \in 0 .. N /\ i \in 1 .. 6
      BY <1>1
    <3>2. f[i] = f[i - 1] \o E(i) /\ f[i - 1] \in Seq(Byte)
      BY <1>7, <3>1, Zenon DEF Grows
    <3>3. E(i) \in Seq(Byte) /\ Len(E(i)) <= w(i) /\ w(i) \in Nat
      BY <1>8, <1>9, <3>1
    <3> HIDE DEF E, w
    <3>4. /\ Len(f[i]) = Len(f[i - 1]) + Len(E(i))
          /\ Len(f[i - 1]) \in Nat /\ Len(E(i)) \in Nat
      BY <3>2, <3>3, ConcatProperties
    <3> QED
      BY <3>3, <3>4
  <2> QED
    BY <2>1, <2>2
<1> HIDE DEF w, E
<1>11. Len(f[N]) <= 1 + w(1) + w(2) + w(3) + w(4) + w(5) + w(6)
  <2> DEFINE m(i) == Len(f[i])
  <2>1. m(0) = 1 /\ \A i \in 1 .. N : m(i) \in Nat /\ m(i) <= m(i - 1) + w(i)
    BY <1>10
  <2> HIDE DEF m
  <2>2. /\ w(1) \in Nat /\ w(2) \in Nat /\ w(3) \in Nat /\ w(4) \in Nat /\ w(5) \in Nat
        /\ w(6) \in Nat
    BY <1>9
  <2>3. /\ N >= 1 => m(1) \in Nat /\ m(1) <= m(0) + w(1)
        /\ N >= 2 => m(2) \in Nat /\ m(2) <= m(1) + w(2)
        /\ N >= 3 => m(3) \in Nat /\ m(3) <= m(2) + w(3)
        /\ N >= 4 => m(4) \in Nat /\ m(4) <= m(3) + w(4)
        /\ N >= 5 => m(5) \in Nat /\ m(5) <= m(4) + w(5)
        /\ N >= 6 => m(6) \in Nat /\ m(6) <= m(5) + w(6)
    <3>1. \A i, j \in Nat : i >= 1 /\ i <= N /\ j = i - 1
                            => m(i) \in Nat /\ m(i) <= m(j) + w(i)
      BY <1>1, <2>1
    <3> QED
      BY <3>1
  <2>4. m(N) <= 1 + w(1) + w(2) + w(3) + w(4) + w(5) + w(6)
    <3>1. N = 0 \/ N = 1 \/ N = 2 \/ N = 3 \/ N = 4 \/ N = 5 \/ N = 6
      BY <1>1
    <3> DEFINE bound == 1 + w(1) + w(2) + w(3) + w(4) + w(5) + w(6)
    <3>2. /\ 1 <= bound
          /\ N >= 1 => m(1) <= bound
          /\ N >= 2 => m(2) <= bound
          /\ N >= 3 => m(3) <= bound
          /\ N >= 4 => m(4) <= bound
          /\ N >= 5 => m(5) <= bound
          /\ N >= 6 => m(6) <= bound
      <4> DEFINE s1 == 1 + w(1)
      <4>1. s1 \in Int /\ 1 <= s1 /\ (N >= 1 => m(1) \in Int /\ m(1) <= s1)
        BY <1>1, <2>1, <2>2, <2>3
      <4> HIDE DEF s1
      <4> DEFINE s2 == s1 + w(2)
      <4>2. /\ s2 \in Int /\ s1 <= s2
            /\ N >= 2 => m(2) \in Int /\ m(2) <= s2
        <5>1. w(2) \in Nat /\ s2 = s1 + w(2)
          BY <2>2
        <5>2. N >= 2 => N >= 1 /\ m(2) \in Nat /\ m(2) <= m(1) + w(2)
          BY <1>1, <2>3
        <5> HIDE DEF s2
        <5> QED
          BY <4>1, <5>1, <5>2
      <4> HIDE DEF s2
      <4> DEFINE s3 == s2 + w(3)
      <4>3. /\ s3 \in Int /\ s2 <= s3
            /\ N >= 3 => m(3) \in Int /\ m(3) <= s3
        <5>1. w(3) \in Nat /\ s3 = s2 + w(3)
          BY <2>2
        <5>2. N >= 3 => N >= 2 /\ m(3) \in Nat /\ m(3) <= m(2) + w(3)
          BY <1>1, <2>3
        <5> HIDE DEF s3
        <5> QED
          BY <4>2, <5>1, <5>2
      <4> HIDE DEF s3
      <4> DEFINE s4 == s3 + w(4)
      <4>4. /\ s4 \in Int /\ s3 <= s4
            /\ N >= 4 => m(4) \in Int /\ m(4) <= s4
        <5>1. w(4) \in Nat /\ s4 = s3 + w(4)
          BY <2>2
        <5>2. N >= 4 => N >= 3 /\ m(4) \in Nat /\ m(4) <= m(3) + w(4)
          BY <1>1, <2>3
        <5> HIDE DEF s4
        <5> QED
          BY <4>3, <5>1, <5>2
      <4> HIDE DEF s4
      <4> DEFINE s5 == s4 + w(5)
      <4>5. /\ s5 \in Int /\ s4 <= s5
            /\ N >= 5 => m(5) \in Int /\ m(5) <= s5
        <5>1. w(5) \in Nat /\ s5 = s4 + w(5)
          BY <2>2
        <5>2. N >= 5 => N >= 4 /\ m(5) \in Nat /\ m(5) <= m(4) + w(5)
          BY <1>1, <2>3
        <5> HIDE DEF s5
        <5> QED
          BY <4>4, <5>1, <5>2
      <4> HIDE DEF s5
      <4> DEFINE s6 == s5 + w(6)
      <4>6. /\ s6 \in Int /\ s5 <= s6
            /\ N >= 6 => m(6) \in Int /\ m(6) <= s6
        <5>1. w(6) \in Nat /\ s6 = s5 + w(6)
          BY <2>2
        <5>2. N >= 6 => N >= 5 /\ m(6) \in Nat /\ m(6) <= m(5) + w(6)
          BY <1>1, <2>3
        <5> HIDE DEF s6
        <5> QED
          BY <4>5, <5>1, <5>2
      <4> HIDE DEF s6
      <4>7. bound = s6
        BY DEF s1, s2, s3, s4, s5, s6
      <4> HIDE DEF bound
      <4> QED
        BY <1>1, <4>1, <4>2, <4>3, <4>4, <4>5, <4>6, <4>7, SMTT(30)
    <3> HIDE DEF bound
    <3>3. m(N) <= bound
      BY <2>1, <3>1, <3>2
    <3> QED
      BY <3>3 DEF bound
  <2> QED
    BY <2>4 DEF m
<1>12. Len(f[N]) \in Nat /\ x[3] \in Int
  BY <1>1, <1>10, EncodersAre
<1>13. Len(f[N]) <= x[3] - 5
  <2> DEFINE bound == 1 + w(1) + w(2) + w(3) + w(4) + w(5) + w(6)
  <2>1. bound \in Nat /\ bound <= x[3] - 5 /\ Len(f[N]) <= bound
    <3>1. /\ w(1) \in Nat /\ w(2) \in Nat /\ w(3) \in Nat /\ w(4) \in Nat
          /\ w(5) \in Nat /\ w(6) \in Nat
      BY <1>9
    <3>2. bound \in Nat
      <4>1. 1 \in Nat /\ \A a, b \in Nat : a + b \in Nat
        OBVIOUS
      <4> QED
        BY <3>1, <4>1, Zenon
    <3>3. bound <= x[3] - 5
      BY <1>9
    <3>4. Len(f[N]) <= bound
      BY <1>11
    <3> HIDE DEF bound
    <3> QED
      BY <3>2, <3>3, <3>4
  <2> HIDE DEF bound
  <2> QED
    BY <1>12, <2>1
<1> QED
  BY <1>2, <1>13 DEF e

(* A value of a sequence is one of its values.                              *)
LEMMA NthIs ==
    ASSUME NEW V, NEW s \in Seq(V), s # <<>>, NEW n \in Nat
    PROVE  Nth(s, n) \in V
<1> DEFINE l == Len(s)
<1>1. l \in Nat /\ l > 0
  BY EmptySeq
<1>2. \A i \in 1 .. l : s[i] \in V
  OBVIOUS
<1> HIDE DEF l
<1>3. n % l \in 0 .. (l - 1)
  BY <1>1
<1>4. 1 + (n % l) \in 1 .. l
  BY <1>1, <1>3
<1>5. s[1 + (n % l)] \in V
  BY <1>2, <1>4
<1> QED
  BY <1>5 DEF Nth, l

(* The arguments that are said are of their types.                          *)
LEMMA ArgumentIs ==
    ASSUME NEW t, NEW n \in Nat, NEW a, a = Nth(ValuesOf(t), n),
           t = "s" => Len(a) <= 57
    PROVE  ArgOf(t, a)
<1>0. /\ Words \in Seq(Word) /\ Words # <<>>
      /\ Buffers \in Seq(Seq(Byte)) /\ Buffers # <<>>
  BY CodecAssumption
<1>1. CASE t = "s"
  <2>1. ValuesOf(t) = Buffers
    BY <1>1 DEF ValuesOf
  <2>2. a \in Seq(Byte)
    BY <1>0, <2>1, NthIs
  <2>3. Len(a) <= 255
    BY <1>1, <2>2
  <2> QED
    BY <1>1, <2>2, <2>3 DEF ArgOf
<1>2. CASE t = "c"
  <2> DEFINE V == {0, 95, 96, 127, 128, 255}
             s == <<0, 95, 96, 127, 128, 255>>
  <2>1. ValuesOf(t) = s
    BY <1>2 DEF ValuesOf
  <2>2. s \in Seq(V) /\ s # <<>>
    OBVIOUS
  <2>3. a \in V
    <3> HIDE DEF V, s
    <3> QED
      BY <2>1, <2>2, NthIs
  <2>4. a \in Int /\ a >= 0 /\ a < 256
    BY <2>3, SMT
  <2>5. a \in Word
    BY <2>4, SMT DEF Word
  <2> HIDE DEF V, s
  <2> QED
    BY <1>2, <2>4, <2>5 DEF ArgOf
<1>3. CASE t = "u16"
  <2> DEFINE V == {0, 95, 96, 12287, 12288, 65535}
             s == <<0, 95, 96, 12287, 12288, 65535>>
  <2>1. ValuesOf(t) = s
    BY <1>3, SMT DEF ValuesOf
  <2>2. s \in Seq(V) /\ s # <<>>
    BY SMT
  <2>3. a \in V
    <3> HIDE DEF V, s
    <3> QED
      BY <2>1, <2>2, NthIs
  <2>4. a \in Int /\ a >= 0 /\ a < 65536
    BY <2>3, SMT
  <2>5. a \in Word
    BY <2>4, SMT DEF Word
  <2> HIDE DEF V, s
  <2> QED
    BY <1>3, <2>4, <2>5, SMT DEF ArgOf
<1>4. CASE t # "s" /\ t # "c" /\ t # "u16"
  <2>1. ValuesOf(t) = Words
    BY <1>4, SMT DEF ValuesOf
  <2>2. a \in Word
    BY <1>0, <2>1, NthIs
  <2> QED
    BY <1>4, <2>2, SMT DEF ArgOf
<1> QED
  BY <1>1, <1>2, <1>3, <1>4

(* Values that the encoder e has types and room for.                       *)
Typed(e, args) ==
    /\ \E V : args \in Seq(V)
    /\ Len(args) = Len(e.types)
    /\ ArgsOf(e.types, args, Len(args))
    /\ BufferFits(e, args)

(* Those of a response are such values.                                    *)
LEMMA ArgumentsAre ==
    ASSUME NEW x \in command_encoder, NEW n \in Nat,
           BufferFits(EncoderOf(x), Arguments(x[4], n))
    PROVE  Typed(EncoderOf(x), Arguments(x[4], n))
<1> DEFINE e == EncoderOf(x)
           types == x[4]
           N == Len(types)
           arg(i) == Nth(ValuesOf(types[i]), n)
           args == Arguments(types, n)
           V == {arg(i) : i \in 1 .. N}
<1>1. N \in Nat /\ e.types = types
  BY EncodersAre DEF EncoderOf
<1>2. args = [i \in 1 .. N |-> arg(i)]
  BY DEF Arguments
<1>3. BufferFits(e, args) /\ Room(e) <= 57 /\ Room(e) \in Int
  BY RoomIs
<1> HIDE DEF e, args, types, N, arg
<1>4. \A i \in 1 .. N : args[i] = arg(i)
  BY <1>2
<1>5. args \in Seq(V) /\ Len(args) = N
  <2>1. args \in [1 .. N -> V]
    BY <1>2
  <2> HIDE DEF V
  <2> QED
    BY <1>1, <2>1
<1>6. ASSUME NEW i \in 1 .. N PROVE ArgOf(types[i], args[i])
  <2>1. types[i] = "s" => Len(args[i]) <= 57
    <3> SUFFICES ASSUME types[i] = "s" PROVE Len(args[i]) <= 57
      OBVIOUS
    <3>1. Len(args[i]) <= Room(e)
      BY <1>1, <1>3 DEF BufferFits, N
    <3>2. args[i] = Nth(Buffers, n)
      BY <1>4 DEF arg, ValuesOf
    <3>3. Nth(Buffers, n) \in Seq(Byte)
      BY CodecAssumption, NthIs
    <3>4. Len(args[i]) \in Nat
      BY <3>2, <3>3
    <3> QED
      BY <1>3, <3>1, <3>4
  <2>2. args[i] = Nth(ValuesOf(types[i]), n)
    BY <1>4 DEF arg
  <2> QED
    BY <2>1, <2>2, ArgumentIs
<1>7. ArgsOf(types, args, N)
  BY <1>6 DEF ArgsOf
<1>8. Typed(e, args)
  BY <1>1, <1>3, <1>5, <1>7 DEF Typed, N
<1> QED
  BY <1>8 DEF e, args, types

(* A response of x is said, with values of its types.                       *)
Saying(x) ==
    said.types = x[4] /\ Typed(EncoderOf(x), said.args)
CodecInv ==
    /\ SendfOpens /\ in_sendf \in BOOLEAN
    /\ in_sendf => \E x \in command_encoder :
                      Encoder(task.encoder) = EncoderOf(x) /\ Saying(x)
    /\ block # <<>> => \E x \in command_encoder :
                          Saying(x) /\ block = Encodef(EncoderOf(x), said.args)

(* The encoder of a name.                                                  *)
LEMMA EncoderIs ==
    ASSUME NEW x \in command_encoder
    PROVE  \E y \in command_encoder : y[1] = x[1] /\ Encoder(x[1]) = EncoderOf(y)
<1> DEFINE y == CHOOSE z \in command_encoder : z[1] = x[1]
<1>1. y \in command_encoder /\ y[1] = x[1]
  OBVIOUS
<1>2. Encoder(x[1]) = EncoderOf(y)
  BY Zenon DEF Encoder, EncoderOf
<1> QED
  BY <1>1, <1>2

(* A response that was encoded from what is said is read back.              *)
LEMMA SaidIsRead ==
    CodecInv => RoundTrip
<1> SUFFICES ASSUME CodecInv, block # <<>>, NEW z \in Trailers
             PROVE  LET id == ParseMsgid(block)
                        e == CHOOSE e \in command_encoder : e[2] = id.value
                        bytes == block \o z
                        parsed == Parsef(e[4], SubSeq(bytes, id.size + 1, Len(bytes)),
                                         Len(block) - id.size)
                    IN /\ e[4] = said.types /\ ~parsed.error /\ parsed.args = said.args
                       /\ parsed.size + id.size = Len(block)
                       /\ Len(block) <= e[3] - 5
  BY DEF RoundTrip
<1>0. z \in Seq(Byte)
  <2>1. 0 \in Byte /\ 126 \in Byte /\ 255 \in Byte
    BY DEF Byte
  <2>2. z = <<0, 0, 126>> \/ z = <<255, 255, 126>>
    BY DEF Trailers
  <2>3. <<0, 0, 126>> \in Seq(Byte) /\ <<255, 255, 126>> \in Seq(Byte)
    BY <2>1
  <2> QED
    BY <2>2, <2>3
<1>1. PICK x \in command_encoder :
         Saying(x) /\ block = Encodef(EncoderOf(x), said.args)
  BY DEF CodecInv
<1> DEFINE e == EncoderOf(x)
           id == ParseMsgid(block)
           c == CHOOSE y \in command_encoder : y[2] = id.value
           bytes == block \o z
           parsed == Parsef(c[4], SubSeq(bytes, id.size + 1, Len(bytes)),
                            Len(block) - id.size)
<1>2. e.types = x[4] /\ e.id = x[2] /\ x[2] \in Nat /\ x[2] < 128
  BY EncodersAre DEF EncoderOf
<1>3. PICK V : said.args \in Seq(V)
  BY <1>1 DEF Saying, Typed
<1>4. /\ Len(said.args) = Len(e.types) /\ ArgsOf(e.types, said.args, Len(said.args))
      /\ BufferFits(e, said.args) /\ said.types = x[4]
  BY <1>1 DEF Saying, Typed
<1> HIDE DEF e
<1>5. ReadBack(e, said.args, block, z)
  <2> DEFINE args == said.args
  <2>1. args \in Seq(V) /\ Len(e.types) = Len(args) /\ ArgsOf(e.types, args, Len(args))
        /\ e.id \in Nat /\ e.id < 128
    BY <1>2, <1>3, <1>4
  <2>2. block = Encodef(e, args)
    BY <1>1 DEF e
  <2> HIDE DEF args
  <2>3. ReadBack(e, args, Encodef(e, args), z)
    BY <1>0, <2>1, ParsefEncodef
  <2> QED
    BY <2>2, <2>3 DEF args
<1>6. id.size = 1 /\ id.value = x[2]
  <2>1. block[1] = x[2]
    BY <1>2, <1>5 DEF ReadBack
  <2>2. id = [size |-> 1, value |-> x[2]]
    BY <1>2, <2>1 DEF ParseMsgid
  <2> QED
    BY <2>2
<1>7. c = x
  <2>1. c \in command_encoder /\ c[2] = x[2]
    BY <1>6
  <2> HIDE DEF c
  <2> QED
    BY <2>1, IdsDiffer
<1> HIDE DEF id, c
<1>8. parsed = [args |-> said.args, size |-> Len(block) - 1, error |-> FALSE]
      /\ Len(block) \in Nat
  BY <1>2, <1>5, <1>6, <1>7 DEF ReadBack
<1>9. Len(block) <= x[3] - 5
  <2> DEFINE args == said.args
  <2>1. /\ args \in Seq(V) /\ Len(x[4]) = Len(args) /\ ArgsOf(x[4], args, Len(args))
        /\ BufferFits(EncoderOf(x), args)
    BY <1>2, <1>3, <1>4 DEF e
  <2>2. block = Encodef(EncoderOf(x), args)
    BY <1>1
  <2> HIDE DEF args
  <2>3. Len(Encodef(EncoderOf(x), args)) <= x[3] - 5
    BY <2>1, EncodefFits
  <2> QED
    BY <2>2, <2>3
<1> HIDE DEF parsed
<1>10. /\ c[4] = said.types /\ ~parsed.error /\ parsed.args = said.args
       /\ parsed.size + id.size = Len(block)
       /\ Len(block) <= c[3] - 5
  BY <1>4, <1>6, <1>7, <1>8, <1>9
<1> QED
  BY <1>10 DEF parsed, c, id

(* sendf begins: what is said has the types of the encoder.                 *)
LEMMA SendfBegins ==
    ASSUME NEW x \in command_encoder, NEW n \in Nat, ~in_sendf, Sendf(x[1], n),
           BufferFits(Encoder(x[1]), Arguments(Encoder(x[1]).types, n))
    PROVE  CodecInv'
<1>1. PICK y \in command_encoder : y[1] = x[1] /\ Encoder(x[1]) = EncoderOf(y)
  BY EncoderIs
<1>2. EncoderOf(y).types = y[4]
  BY DEF EncoderOf
<1>3. Typed(EncoderOf(y), Arguments(y[4], n))
  BY <1>1, <1>2, ArgumentsAre
<1>4. /\ in_sendf' = TRUE /\ task' = [at |-> "sendf", encoder |-> x[1]] /\ block' = <<>>
      /\ said' = [types |-> Encoder(x[1]).types,
                  args |-> Arguments(Encoder(x[1]).types, n)]
  BY DEF Sendf
<1>5. said'.types = y[4] /\ said'.args = Arguments(y[4], n)
  BY <1>1, <1>2, <1>4
<1>6. task'.at = "sendf" /\ task'.encoder = x[1]
  BY <1>4
<1>7. Saying(y)'
  BY <1>3, <1>5 DEF Saying
<1> QED
  BY <1>1, <1>4, <1>6, <1>7 DEF CodecInv, SendfOpens

(* The first state, and every step.                                        *)
LEMMA CodecInitial ==
    BoardInit /\ CodecInit => CodecInv
<1> SUFFICES ASSUME BoardInit, CodecInit PROVE CodecInv
  OBVIOUS
<1>1. in_sendf = FALSE /\ block = <<>> /\ task.at = "idle"
  BY DEF BoardInit, CodecInit, Idle
<1> QED
  BY <1>1 DEF CodecInv, SendfOpens

LEMMA CodecStep ==
    CodecInv /\ [CodecNext]_CodecAll => CodecInv'
<1> SUFFICES ASSUME CodecInv, [CodecNext]_CodecAll PROVE CodecInv'
  OBVIOUS
<1>1. CASE \E x \in command_encoder : \E n \in 1 .. Len(Words) : Respond(x[1], n)
  <2>1. PICK x \in command_encoder, n \in 1 .. Len(Words) : Respond(x[1], n)
    BY <1>1
  <2>2. n \in Nat /\ ~in_sendf
    BY <2>1 DEF Respond, AnyCommand, Idle, CodecInv, SendfOpens
  <2> QED
    BY <2>1, <2>2, SendfBegins DEF Respond
<1>2. CASE ReportShutdown
  <2> DEFINE x == <<"shutdown", 107, 14, <<"u32", "u16">>>>
  <2>1. x \in command_encoder /\ x[1] = "shutdown"
    BY DEF command_encoder
  <2>2. ~in_sendf /\ Sendf("shutdown", 0)
    BY <1>2 DEF ReportShutdown, CodecInv, SendfOpens
  <2>3. BufferFits(Encoder("shutdown"), Arguments(Encoder("shutdown").types, 0))
    <3>1. PICK y \in command_encoder :
             y[1] = "shutdown" /\ Encoder("shutdown") = EncoderOf(y)
      <4> HIDE DEF x
      <4> QED
        BY <2>1, EncoderIs
    <3>2. y[4] = <<"u32", "u16">>
      BY <3>1, SMTT(60) DEF command_encoder
    <3>3. Encoder("shutdown").types = <<"u32", "u16">>
      BY <3>1, <3>2 DEF EncoderOf
    <3>4. \A i \in 1 .. Len(<<"u32", "u16">>) : <<"u32", "u16">>[i] # "s"
      OBVIOUS
    <3> QED
      BY <3>3, <3>4 DEF BufferFits
  <2> HIDE DEF x
  <2>4. 0 \in Nat
    OBVIOUS
  <2> QED
    BY <2>1, <2>2, <2>3, <2>4, SendfBegins
<1>3. CASE SendfDone
  <2>1. /\ task.at = "sendf" /\ block' = Encodef(Encoder(task.encoder), said.args)
        /\ in_sendf' = FALSE /\ task' = Idle /\ said' = said
    BY <1>3 DEF SendfDone
  <2>2. PICK x \in command_encoder : Encoder(task.encoder) = EncoderOf(x) /\ Saying(x)
    BY <2>1 DEF CodecInv, SendfOpens
  <2>3. Saying(x)'
    BY <2>1, <2>2 DEF Saying
  <2>4. block' = Encodef(EncoderOf(x), said'.args)
    BY <2>1, <2>2
  <2>5. SendfOpens' /\ in_sendf' \in BOOLEAN /\ ~in_sendf'
    BY <2>1 DEF SendfOpens, Idle
  <2> QED
    BY <2>3, <2>4, <2>5 DEF CodecInv
<1>4. CASE CallbackShutdown
  <2>1. /\ in_sendf' = FALSE /\ task' = [at |-> "report"]
        /\ said' = said /\ block' = block
    BY <1>4 DEF CallbackShutdown, sendf_shutdown
  <2>2. SendfOpens' /\ in_sendf' \in BOOLEAN /\ ~in_sendf'
    BY <2>1 DEF SendfOpens
  <2>3. ASSUME block' # <<>>
        PROVE  \E x \in command_encoder :
                  Saying(x)' /\ block' = Encodef(EncoderOf(x), said'.args)
    <3>1. PICK x \in command_encoder :
             Saying(x) /\ block = Encodef(EncoderOf(x), said.args)
      BY <2>1, <2>3 DEF CodecInv
    <3>2. Saying(x)' /\ block' = Encodef(EncoderOf(x), said'.args)
      BY <2>1, <3>1 DEF Saying
    <3> QED
      BY <3>2
  <2> QED
    BY <2>2, <2>3 DEF CodecInv
<1>5. CASE UNCHANGED <<task, in_sendf, said, block>>
  BY <1>5 DEF CodecInv, Saying, SendfOpens
<1>6. CASE ClearShutdown /\ UNCHANGED <<now, task, wake, codecVars>>
  BY <1>5, <1>6 DEF codecVars
<1>7. CASE UNCHANGED CodecAll
  BY <1>5, <1>7 DEF CodecAll, codecVars
<1> QED
  BY <1>1, <1>2, <1>3, <1>4, <1>6, <1>7 DEF CodecNext

(* Whatever the words and the buffers, a response is parsed into what was   *)
(* said and is not longer than max_size makes room for, and the guard of    *)
(* sendf is closed only while sendf runs (encode_int, parse_int,            *)
(* command_encodef, command_parsef, command_sendf and sendf_shutdown).      *)
THEOREM ResponsesAreReadBack ==
    CodecSpec => []CodecSound
<1>1. CodecInv => CodecSound
  BY SaidIsRead DEF CodecInv, CodecSound
<1> QED
  BY <1>1, CodecInitial, CodecStep, PTL DEF CodecSpec
===============================================================================
