----------------------------- MODULE SchedProofs -----------------------------
(***************************************************************************)
(* What holds of the timer list for every clock, period and set of timers. *)
(*                                                                         *)
(* SentinelBounds rests on the comment of sched.c: the sentinel is always  *)
(* half a turn after the periodic timer.  The two fields are written       *)
(* together, by the periodic timer's callback only.                        *)
(*                                                                         *)
(* ListSound and NeverEarly rest on AliveInv: the nodes from timer_list on *)
(* are a chain of distinct timers, the armed ones, the periodic timer and  *)
(* the sentinel, in the order of how far ahead of the clock they are       *)
(* (Lead), all of them within less than half a turn of it (Near), and the  *)
(* head is no later than the clock, or the compare register, allows        *)
(* (Timely).  It ends with the first shutdown that leaves the interrupt by *)
(* longjmp (Dead): after it no timer runs, and the clock passes them all.  *)
(***************************************************************************)
EXTENDS Sched, FiniteSetTheorems, FunctionTheorems, WellFoundedInduction,
        NaturalsInduction, TLAPS

SentinelFollows == waketime[sentinel] = Plus(waketime[periodic], Half)

WakeInv ==
    /\ now \in Time
    /\ waketime \in [Timer -> Time]
    /\ SentinelFollows

-----------------------------------------------------------------------------
(* The clock: half a turn is a whole number of ticks, adding up to half a   *)
(* turn to a time gives a time.                                             *)
LEMMA HalfTurn == Half \in Nat /\ Half > 0 /\ Wrap = 2 * Half /\ Wrap \in Nat
BY ClockAssumption DEF Half

(* How late the list may be is less than half a turn.                       *)
LEMMA LagIs ==
    /\ \A n \in 0..MaxShutdowns :
           /\ Lag(n) \in Nat /\ Lag(n) <= Lag(MaxShutdowns)
           /\ Lag(n) >= MaxLate + DEFER
           /\ n + 1 \in 0..MaxShutdowns => Lag(n + 1) = Lag(n) + KICK
    /\ Lag(MaxShutdowns) \in Nat /\ Lag(MaxShutdowns) < Half
    /\ MaxShutdowns \in 0..MaxShutdowns
<1>1. /\ KICK \in Nat /\ MaxShutdowns \in Nat /\ MaxLate \in Nat /\ DEFER \in Nat
      /\ MaxAhead \in Nat
  BY ClockAssumption, HalfTurn
<1>2. \A a, b, c \in Nat : a * c \in Nat /\ (a + 1) * c = a * c + c
                           /\ (a <= b => a * c <= b * c)
  <2>1. \A a, b, c \in Nat : a * c \in Nat /\ (a + 1) * c = a * c + c
    OBVIOUS
  <2>2. ASSUME NEW a \in Nat, NEW b \in Nat, NEW c \in Nat, a <= b PROVE a * c <= b * c
    <3>1. b - a \in Nat /\ b = a + (b - a)
      BY <2>2
    <3>2. (a + (b - a)) * c = a * c + (b - a) * c
      BY <3>1
    <3>3. (b - a) * c \in Nat /\ a * c \in Nat
      BY <2>1, <3>1
    <3>4. b * c = a * c + (b - a) * c
      BY <3>1, <3>2
    <3> QED
      BY <3>3, <3>4
  <2> QED
    BY <2>1, <2>2
<1>3. ASSUME NEW n \in 0..MaxShutdowns
      PROVE  /\ Lag(n) \in Nat /\ Lag(n) <= Lag(MaxShutdowns)
             /\ Lag(n) >= MaxLate + DEFER
             /\ n + 1 \in 0..MaxShutdowns => Lag(n + 1) = Lag(n) + KICK
  <2>1. /\ n \in Nat /\ n <= MaxShutdowns
    BY <1>1
  <2>2. /\ n * KICK \in Nat /\ MaxShutdowns * KICK \in Nat
        /\ n * KICK <= MaxShutdowns * KICK /\ (n + 1) * KICK = n * KICK + KICK
    BY <1>1, <1>2, <2>1
  <2> QED
    BY <1>1, <2>2 DEF Lag
<1>4. MaxShutdowns \in 0..MaxShutdowns
  BY <1>1
<1>5. Lag(MaxShutdowns) < Half
  <2>1. Lag(MaxShutdowns) \in Nat
    BY <1>3, <1>4
  <2>2. MaxAhead + Lag(MaxShutdowns) < Half
    BY LatenessAssumption
  <2> QED
    BY <1>1, <2>1, <2>2, HalfTurn
<1> QED
  BY <1>3, <1>4, <1>5

LEMMA PlusIsTime ==
    ASSUME NEW t \in Time, NEW d \in 0..Half
    PROVE  Plus(t, d) \in Time
BY HalfTurn DEF Plus, Time

LEMMA DiffIsTime ==
    ASSUME NEW s \in Time, NEW t \in Time
    PROVE  Diff(s, t) \in Time
BY HalfTurn DEF Diff, Time

(* No time is half a turn or more from both ends of a half turn.            *)
LEMMA OneOfTwo ==
    ASSUME NEW p \in Time, NEW w \in Time
    PROVE  timer_is_before(w, p) \/ timer_is_before(w, Plus(p, Half))
BY HalfTurn DEF timer_is_before, Diff, Plus, Time

LEMMA Names ==
    /\ periodic \in Timer /\ sentinel \in Timer /\ deleted \in Timer
    /\ periodic # sentinel /\ periodic # deleted /\ sentinel # deleted
    /\ \A t \in User : t \in Timer /\ t # periodic /\ t # sentinel
BY TimerAssumption DEF Timer, Static, periodic, sentinel, deleted

LEMMA AheadIsTime ==
    ASSUME NEW t \in Time, NEW w \in Ahead(t)
    PROVE  w \in Time
<1>1. PICK d \in 1..MaxAhead : w = Plus(t, d)
  BY DEF Ahead
<1>2. d \in 0..Half
  BY ClockAssumption, LatenessAssumption, LagIs, HalfTurn
<1> QED
  BY <1>1, <1>2, PlusIsTime

-----------------------------------------------------------------------------
(* Writing the waketime of another timer leaves the two where they are.     *)
LEMMA OtherTimer ==
    ASSUME WakeInv, NEW t \in Timer \ {periodic, sentinel}, NEW w \in Time,
           waketime' = [waketime EXCEPT ![t] = w], now' = now
    PROVE  WakeInv'
BY Names DEF WakeInv, SentinelFollows

(* A step that adds a timer writes its waketime and perhaps deleted's.      *)
LEMMA AddingTimer ==
    ASSUME WakeInv, NEW t \in User, NEW w \in Time, sched_add_timer(t, w)
    PROVE  WakeInv'
<1>1. now' = now
  BY DEF sched_add_timer
<1>2. CASE AddFirst(t, w)
  <2>1. waketime' = [waketime EXCEPT ![t] = w, ![deleted] = w]
    BY <1>2 DEF AddFirst
  <2> QED
    BY <1>1, <2>1, Names DEF WakeInv, SentinelFollows
<1>3. CASE AddLater(t, w)
  <2>1. waketime' = [waketime EXCEPT ![t] = w]
    BY <1>3 DEF AddLater
  <2> QED
    BY <1>1, <2>1, Names, OtherTimer
<1> QED
  BY <1>2, <1>3 DEF sched_add_timer

LEMMA ShuttingDown == ASSUME WakeInv, RunShutdown PROVE WakeInv'
<1>1. waketime' = [waketime EXCEPT ![deleted] = waketime[periodic]]
      /\ now' = now
  BY DEF RunShutdown, ResetTimers
<1>2. waketime[periodic] \in Time
  BY Names DEF WakeInv
<1> QED
  BY <1>1, <1>2, Names, OtherTimer

LEMMA DeletingTimer ==
    ASSUME WakeInv, NEW t \in User, sched_del_timer(t)
    PROVE  WakeInv'
<1>1. now' = now /\ waketime' = Unlinked(t).wake
  BY DEF sched_del_timer
<1>2. waketime[t] \in Time
  BY Names DEF WakeInv
<1>3. CASE timer_list = t
  <2>1. waketime' = [waketime EXCEPT ![deleted] = waketime[t]]
    BY <1>1, <1>3 DEF Unlinked
  <2> QED
    BY <1>1, <1>2, <2>1, Names, OtherTimer
<1>4. CASE timer_list # t
  <2>1. waketime' = waketime
    BY <1>1, <1>4 DEF Unlinked
  <2> QED
    BY <1>1, <2>1 DEF WakeInv, SentinelFollows
<1> QED
  BY <1>3, <1>4

(* The callback of the periodic timer moves the two together.               *)
LEMMA PeriodicRuns == ASSUME WakeInv, PeriodicEvent PROVE WakeInv'
<1> DEFINE w == Plus(waketime[periodic], PERIOD)
<1>1. now' = now
  BY DEF PeriodicEvent, InDispatch
<1>2. waketime' = [waketime EXCEPT ![periodic] = w, ![sentinel] = Plus(w, Half)]
  BY DEF PeriodicEvent, Reschedule
<1>3. w \in Time
  BY Names, PlusIsTime, ClockAssumption, HalfTurn DEF WakeInv
<1>4. Plus(w, Half) \in Time
  BY <1>3, PlusIsTime, HalfTurn
<1> QED
  BY <1>1, <1>2, <1>3, <1>4, Names DEF WakeInv, SentinelFollows

(* A user callback moves its own timer only.                                *)
LEMMA UserRuns ==
    ASSUME WakeInv, NEW t \in User, NEW del \in User,
           \/ UserEvent(t, del, FALSE, 0)
           \/ \E w \in Ahead(waketime[t]) : UserEvent(t, del, TRUE, w)
    PROVE  WakeInv'
<1>1. now' = now
  BY DEF UserEvent, InDispatch
<1>2. CASE UserEvent(t, del, FALSE, 0)
  <2>1. waketime' = waketime
    BY <1>2 DEF UserEvent, Done
  <2> QED
    BY <1>1, <2>1 DEF WakeInv, SentinelFollows
<1>3. ASSUME NEW w \in Ahead(waketime[t]), UserEvent(t, del, TRUE, w)
      PROVE  WakeInv'
  <2>1. waketime' = [waketime EXCEPT ![t] = w]
    BY <1>3 DEF UserEvent, Reschedule
  <2>2. w \in Time
    BY Names, AheadIsTime DEF WakeInv
  <2> QED
    BY <1>1, <2>1, <2>2, Names, OtherTimer
<1> QED
  BY <1>2, <1>3

-----------------------------------------------------------------------------
LEMMA InitWakeInv == Init => WakeInv
<1> SUFFICES ASSUME Init PROVE WakeInv
  OBVIOUS
<1>1. waketime = [t \in Timer |-> IF t = sentinel THEN Half ELSE 0] /\ now = 0
  BY DEF Init
<1>2. 0 \in Time /\ Half \in Time
  BY HalfTurn DEF Time
<1>3. waketime[sentinel] = Half /\ waketime[periodic] = 0
  BY <1>1, Names
<1>4. Plus(0, Half) = Half
  BY HalfTurn DEF Plus
<1> QED
  BY <1>1, <1>2, <1>3, <1>4 DEF WakeInv, SentinelFollows

LEMMA NextWakeInv == WakeInv /\ [Next]_vars => WakeInv'
<1> SUFFICES ASSUME WakeInv, [Next]_vars PROVE WakeInv'
  OBVIOUS
<1>1. CASE Tick
  <2>1. now' = Plus(now, 1) /\ waketime' = waketime
    BY <1>1 DEF Tick
  <2>2. now' \in Time
    BY <2>1, PlusIsTime, HalfTurn DEF WakeInv
  <2> QED
    BY <2>1, <2>2 DEF WakeInv, SentinelFollows
<1>2. CASE TaskStep
  <2>1. ASSUME NEW t \in User, NEW w \in SoonOrLate,
               sched_add_timer(t, w) \/ AddTooClose(t, w)
        PROVE  WakeInv'
    <3>1. now \in Time /\ 1 \in Time
      BY HalfTurn DEF WakeInv, Time
    <3>2. w \in Time
      BY <3>1, AheadIsTime, DiffIsTime DEF SoonOrLate
    <3> QED
      BY <2>1, <3>2, AddingTimer, ShuttingDown DEF AddTooClose
  <2>2. CASE TaskShutdown
    BY <2>2, ShuttingDown DEF TaskShutdown
  <2>3. CASE sched_clear_shutdown
    BY <2>3 DEF sched_clear_shutdown, WakeInv, SentinelFollows
  <2> QED
    BY <1>2, <2>1, <2>2, <2>3, DeletingTimer DEF TaskStep
<1>3. CASE IsrStep
  <2>1. CASE EnterIsr
    BY <2>1 DEF EnterIsr, WakeInv, SentinelFollows
  <2>2. CASE DeletedEvent
    BY <2>2 DEF DeletedEvent, InDispatch, Done, WakeInv, SentinelFollows
  <2>3. CASE PeriodicEvent
    BY <2>3, PeriodicRuns
  <2>4. CASE RunUser
    BY <2>4, UserRuns DEF RunUser
  <2>5. CASE EventShutdown
    BY <2>5, ShuttingDown DEF EventShutdown
  <2>6. CASE ReturnNext
    BY <2>6 DEF ReturnNext, ReturnWith, WakeInv, SentinelFollows
  <2>7. CASE RescheduledInPast
    BY <2>7, ShuttingDown DEF RescheduledInPast
  <2>8. CASE Repeat
    BY <2>8 DEF Repeat, WakeInv, SentinelFollows
  <2> QED
    BY <1>3, <2>1, <2>2, <2>3, <2>4, <2>5, <2>6, <2>7, <2>8 DEF IsrStep
<1>4. CASE ReturnDeferred
  BY <1>4 DEF ReturnDeferred, ReturnWith, WakeInv, SentinelFollows
<1>5. CASE UNCHANGED vars
  BY <1>5 DEF vars, WakeInv, SentinelFollows
<1> QED
  BY <1>1, <1>2, <1>3, <1>4, <1>5 DEF Next

(* No insertion walks past the sentinel: whatever is scheduled, run,        *)
(* deleted or shut down, every time is before the periodic timer's or       *)
(* before the sentinel's, so insert_timer stops at the latest at the        *)
(* sentinel's node.                                                         *)
THEOREM SentinelStops == Spec => []SentinelBounds
<1>1. WakeInv => SentinelBounds
  BY Names, OneOfTwo DEF WakeInv, SentinelFollows, SentinelBounds
<1> QED
  BY InitWakeInv, NextWakeInv, <1>1, PTL DEF Spec

-----------------------------------------------------------------------------
(* The least-number principle in set form, from the library's minimum of a  *)
(* well-founded order.                                                      *)
LEMMA LessIsWellFounded ==
    \E R : /\ IsWellFoundedOn(R, Nat)
           /\ \A a, b \in Nat : <<a, b>> \in R <=> a < b
<1> DEFINE R == OpToRel(<, Nat)
<1>1. IsWellFoundedOn(R, Nat)
  BY NatLessThanWellFounded
<1>3. \A a, b \in Nat : <<a, b>> \in R <=> a < b
  BY DEF OpToRel
<1> HIDE DEF R
<1> QED
  BY <1>1, <1>3

LEMMA LeastNat ==
    ASSUME NEW T \in SUBSET Nat, T # {}
    PROVE  \E x \in T : \A y \in T : x <= y
<1>1. PICK R : IsWellFoundedOn(R, Nat) /\ \A a, b \in Nat : <<a, b>> \in R <=> a < b
  BY LessIsWellFounded
<1>a. T \subseteq Nat
  OBVIOUS
<1>2. PICK x \in T : \A y \in T : ~(<<y, x>> \in R)
  <2>1. IsWellFoundedOn(R, Nat)
    BY <1>1
  <2>2. \E x \in T : \A y \in T : ~(<<y, x>> \in R)
    BY <2>1, <1>a, WFMin
  <2> QED
    BY <2>2
<1>3. ASSUME NEW y \in T PROVE x <= y
  <2>1. ~(y < x)
    BY <1>1, <1>2
  <2> QED
    BY <2>1
<1> QED
  BY <1>3

-----------------------------------------------------------------------------
(* A list as a walk meets it: f names its m + 1 nodes in order.             *)
Chain(nx, f, m) ==
    /\ m \in Nat /\ f \in [0..m -> Timer]
    /\ \A i, j \in 0..m : f[i] = f[j] => i = j
    /\ f[m] = sentinel /\ nx[sentinel] = Null
    /\ \A i \in 0..(m - 1) : nx[f[i]] = f[i + 1]
Nodes(f, m) == {f[i] : i \in 0..m}
From(f, m, i) == [n \in 0..Size |-> IF i + n <= m THEN f[i + n] ELSE Null]

LEMMA SizeIs == IsFiniteSet(Timer) /\ Size \in Nat /\ Size > 0
<1>1. IsFiniteSet(Static)
  <2>1. Static = ({} \cup {periodic}) \cup {sentinel} \cup {deleted}
    BY DEF Static
  <2> QED
    BY <2>1, FS_EmptySet, FS_AddElement
<1>2. IsFiniteSet(Timer)
  BY <1>1, TimerAssumption, FS_Union DEF Timer
<1>3. Size \in Nat
  BY <1>2, FS_CardinalityType DEF Size
<1>4. Size # 0
  <2>1. periodic \in Timer
    BY DEF Timer, Static
  <2> QED
    BY <1>2, <2>1, FS_EmptySet DEF Size
<1> QED
  BY <1>2, <1>3, <1>4

LEMMA ChainFits ==
    ASSUME NEW nx, NEW f, NEW m, Chain(nx, f, m)
    PROVE  m + 1 <= Size
<1>1. m \in Nat /\ f \in Injection(0..m, Timer)
  BY DEF Chain, Injection, IsInjective
<1>2. Cardinality(0..m) = m + 1
  BY <1>1, FS_Interval
<1>3. Cardinality(0..m) <= Cardinality(Timer)
  BY <1>1, SizeIs, FS_Injection
<1> QED
  BY <1>2, <1>3 DEF Size

(* The walk over a function that gives the next node.                       *)
Walk(nx, pos, node) ==
    node = [n \in 0..Size |->
               IF n = 0 THEN pos
               ELSE IF node[n - 1] = Null THEN Null ELSE nx[node[n - 1]]]

LEMMA AfterWalks ==
    ASSUME NEW nx, NEW pos, \E node : Walk(nx, pos, node)
    PROVE  Walk(nx, pos, After(nx, pos))
  BY DEF Walk, After

LEMMA ChainWalks ==
    ASSUME NEW nx, NEW f, NEW m, Chain(nx, f, m), NEW i \in 0..m
    PROVE  Walk(nx, f[i], From(f, m, i))
<1> DEFINE g == [n \in 0..Size |-> IF i + n <= m THEN f[i + n] ELSE Null]
           h(n) == IF n = 0 THEN f[i]
                   ELSE IF g[n - 1] = Null THEN Null ELSE nx[g[n - 1]]
<1>1. m \in Nat /\ Size \in Nat /\ i \in Nat
  BY SizeIs DEF Chain
<1>2. ASSUME NEW n \in 0..Size PROVE g[n] = h(n)
  <2>1. CASE n = 0
    <3>1. i + 0 <= m /\ i + 0 = i /\ 0 \in 0..Size
      BY <1>1
    <3> QED
      BY <2>1, <3>1
  <2>2. CASE n # 0 /\ i + (n - 1) > m
    <3>1. n - 1 \in 0..Size /\ ~(i + (n - 1) <= m) /\ ~(i + n <= m)
      BY <1>1, <2>2
    <3> QED
      BY <2>2, <3>1
  <2>3. CASE n # 0 /\ i + (n - 1) <= m
    <3>1. /\ n - 1 \in 0..Size /\ i + (n - 1) \in 0..m
          /\ i + (n - 1) + 1 = i + n
      BY <1>1, <2>3
    <3>2. g[n - 1] = f[i + (n - 1)]
      BY <2>3, <3>1
    <3>3. f[i + (n - 1)] \in Timer /\ Null \notin Timer
      BY <3>1, TimerAssumption DEF Chain
    <3>4. h(n) = nx[f[i + (n - 1)]]
      BY <2>3, <3>2, <3>3
    <3>5. CASE i + (n - 1) = m
      <4>1. ~(i + n <= m)
        BY <1>1, <3>5
      <4>2. g[n] = Null
        BY <4>1
      <4>3. nx[f[m]] = Null
        BY DEF Chain
      <4> QED
        BY <3>4, <3>5, <4>2, <4>3
    <3>6. CASE i + (n - 1) # m
      <4>1. i + n <= m /\ i + (n - 1) \in 0..(m - 1)
        BY <1>1, <2>3, <3>1, <3>6
      <4>2. nx[f[i + (n - 1)]] = f[i + n]
        BY <3>1, <4>1 DEF Chain
      <4>3. g[n] = f[i + n]
        BY <4>1
      <4> QED
        BY <3>4, <4>2, <4>3
    <3> QED
      BY <3>5, <3>6
  <2> QED
    BY <1>1, <2>1, <2>2, <2>3
<1>3. g = [n \in 0..Size |-> h(n)]
  <2>1. g = [n \in 0..Size |-> g[n]]
    OBVIOUS
  <2> HIDE DEF g, h
  <2> QED
    BY <1>2, <2>1
<1> QED
  BY <1>3 DEF Walk, From

LEMMA WalkIsOne ==
    ASSUME NEW nx, NEW pos, NEW a, NEW b, Walk(nx, pos, a), Walk(nx, pos, b)
    PROVE  a = b
<1> DEFINE T == {n \in 0..Size : a[n] # b[n]}
<1>1. Size \in Nat
  BY SizeIs
<1>2. \A n \in 0..Size :
          /\ a[n] = IF n = 0 THEN pos
                    ELSE IF a[n - 1] = Null THEN Null ELSE nx[a[n - 1]]
          /\ b[n] = IF n = 0 THEN pos
                    ELSE IF b[n - 1] = Null THEN Null ELSE nx[b[n - 1]]
  BY DEF Walk
<1>3. T = {}
  <2>1. SUFFICES ASSUME T # {} PROVE FALSE
    OBVIOUS
  <2>2. T \subseteq Nat
    BY <1>1
  <2>3. PICK d \in T : \A e \in T : d <= e
    BY <2>1, <2>2, LeastNat
  <2>4. d \in 0..Size /\ a[d] # b[d]
    OBVIOUS
  <2>5. d # 0
    BY <1>2, <2>4
  <2>6. d - 1 \in 0..Size /\ ~(d <= d - 1)
    BY <1>1, <2>4, <2>5
  <2>7. a[d - 1] = b[d - 1]
    BY <2>3, <2>6
  <2> QED
    BY <1>2, <2>4, <2>5, <2>7
<1>4. \A n \in 0..Size : a[n] = b[n]
  BY <1>3
<1>5. a = [n \in 0..Size |-> a[n]] /\ b = [n \in 0..Size |-> b[n]]
  BY DEF Walk
<1> QED
  BY <1>4, <1>5

LEMMA AfterIs ==
    ASSUME NEW nx, NEW f, NEW m, Chain(nx, f, m), NEW i \in 0..m
    PROVE  After(nx, f[i]) = From(f, m, i)
  BY ChainWalks, AfterWalks, WalkIsOne

-----------------------------------------------------------------------------
(* The list from h holds the nodes of S, in the order that o gives them; the *)
(* sentinel is last, wherever o puts it.                                     *)
Ordered(o, f, m) == \A i, j \in 0..(m - 1) : i <= j => o[f[i]] <= o[f[j]]
List(nx, o, h, S) ==
    \E m, f : Chain(nx, f, m) /\ Ordered(o, f, m) /\ f[0] = h /\ Nodes(f, m) = S

LEMMA PosIs ==
    ASSUME NEW nx, NEW f, NEW m, Chain(nx, f, m), NEW t \in Nodes(f, m)
    PROVE  \E i \in 0..m : t = f[i] /\ (t # sentinel => i \in 0..(m - 1))
<1>1. PICK i \in 0..m : t = f[i]
  BY DEF Nodes
<1>2. t # sentinel => i # m
  BY <1>1 DEF Chain
<1>3. m \in Nat
  BY DEF Chain
<1>4. t # sentinel => i \in 0..(m - 1)
  BY <1>2, <1>3
<1> QED
  BY <1>1, <1>4

LEMMA NodeIs ==
    ASSUME NEW nx, NEW f, NEW m, Chain(nx, f, m), NEW i \in 0..m
    PROVE  f[i] \in Nodes(f, m) /\ f[i] \in Timer /\ (i # m <=> f[i] # sentinel)
<1>1. m \in Nat /\ m \in 0..m
  BY DEF Chain
<1> QED
  BY <1>1 DEF Chain, Nodes

LEMMA ListIs ==
    ASSUME NEW nx, NEW o, NEW h, NEW S, List(nx, o, h, S)
    PROVE  /\ Listed(nx, h) = S /\ S \subseteq Timer
           /\ h \in S /\ sentinel \in S /\ nx[sentinel] = Null
           /\ \A t \in S \ {sentinel} :
                  /\ nx[t] \in S /\ nx[t] # t /\ o[h] <= o[t]
                  /\ nx[t] # sentinel => o[t] <= o[nx[t]]
           /\ \A t, v \in S \ {sentinel} : nx[t] = nx[v] => t = v
<1>1. PICK m, f : Chain(nx, f, m) /\ Ordered(o, f, m) /\ f[0] = h /\ Nodes(f, m) = S
  BY DEF List
<1>2. m \in Nat /\ m + 1 <= Size /\ Size \in Nat /\ 0 \in 0..m /\ m \in 0..m
  BY <1>1, ChainFits, SizeIs DEF Chain
<1>3. Listed(nx, h) = S
  <2>1. After(nx, h) = [n \in 0..Size |-> IF 0 + n <= m THEN f[0 + n] ELSE Null]
    <3>1. Chain(nx, f, m) /\ 0 \in 0..m
      BY <1>1, <1>2
    <3>2. After(nx, f[0]) = From(f, m, 0)
      BY <3>1, AfterIs
    <3> QED
      BY <1>1, <3>2, Zenon DEF From
  <2>2. \A n \in 0..Size : After(nx, h)[n] = IF n <= m THEN f[n] ELSE Null
    BY <1>2, <2>1
  <2>3. Null \notin S
    BY <1>1, TimerAssumption DEF Nodes, Chain
  <2>4. ASSUME NEW n \in 0..Size, After(nx, h)[n] # Null PROVE After(nx, h)[n] \in S
    <3>1. n <= m
      BY <2>2, <2>4
    <3>2. n \in 0..m
      BY <1>2, <3>1
    <3> QED
      BY <1>1, <2>2, <3>1, <3>2 DEF Nodes
  <2>5. ASSUME NEW n \in 0..m PROVE n \in 0..Size /\ After(nx, h)[n] = f[n]
    <3>1. n \in 0..Size /\ n <= m
      BY <1>2
    <3> QED
      BY <2>2, <3>1
  <2>6. \A t \in S : \E n \in 0..Size : t = After(nx, h)[n]
    BY <1>1, <2>5 DEF Nodes
  <2> QED
    BY <2>3, <2>4, <2>6 DEF Listed
<1>4. S \subseteq Timer /\ h \in S /\ sentinel \in S /\ nx[sentinel] = Null
  BY <1>1, <1>2, NodeIs DEF Chain, Nodes
<1>5. ASSUME NEW t \in S \ {sentinel}
      PROVE  /\ nx[t] \in S /\ nx[t] # t /\ o[h] <= o[t]
             /\ nx[t] # sentinel => o[t] <= o[nx[t]]
  <2>1. PICK i \in 0..(m - 1) : t = f[i]
    BY <1>1, PosIs
  <2>2. i + 1 \in 0..m /\ i \in 0..m /\ i + 1 # i /\ 0 \in 0..(m - 1) /\ 0 <= i
    BY <1>2
  <2>3. nx[t] = f[i + 1] /\ f[i + 1] \in S
    BY <1>1, <2>1, <2>2, NodeIs DEF Chain
  <2>4. nx[t] # t
    BY <1>1, <2>1, <2>2, <2>3 DEF Chain
  <2>5. o[h] <= o[t]
    BY <1>1, <2>1, <2>2 DEF Ordered
  <2>6. ASSUME nx[t] # sentinel PROVE o[t] <= o[nx[t]]
    <3>1. i + 1 # m
      BY <1>1, <2>3, <2>6 DEF Chain
    <3>2. i + 1 \in 0..(m - 1) /\ i <= i + 1
      BY <1>2, <2>2, <3>1
    <3> QED
      BY <1>1, <2>1, <2>3, <3>2 DEF Ordered
  <2> QED
    BY <2>3, <2>4, <2>5, <2>6
<1>6. ASSUME NEW t \in S \ {sentinel}, NEW v \in S \ {sentinel}, nx[t] = nx[v]
      PROVE  t = v
  <2>1. PICK i \in 0..(m - 1) : t = f[i]
    BY <1>1, PosIs
  <2>2. PICK j \in 0..(m - 1) : v = f[j]
    BY <1>1, PosIs
  <2>3. i + 1 \in 0..m /\ j + 1 \in 0..m
    BY <1>2
  <2>4. f[i + 1] = f[j + 1]
    BY <1>1, <1>6, <2>1, <2>2 DEF Chain
  <2>5. i + 1 = j + 1
    BY <1>1, <2>3, <2>4 DEF Chain
  <2>6. i = j
    BY <2>5
  <2> QED
    BY <2>1, <2>2, <2>6
<1> QED
  BY <1>3, <1>4, <1>5, <1>6

LEMMA ListEnd ==
    ASSUME NEW nx, NEW o, nx[sentinel] = Null
    PROVE  List(nx, o, sentinel, {sentinel})
<1> DEFINE f == [i \in 0..0 |-> sentinel]
<1>1. Chain(nx, f, 0)
  BY DEF Chain, Timer, Static
<1>2. Ordered(o, f, 0) /\ Nodes(f, 0) = {sentinel} /\ f[0] = sentinel
  BY DEF Ordered, Nodes
<1> QED
  BY <1>1, <1>2 DEF List

(* A list stays one under fields that agree on its nodes.                   *)
LEMMA ListShift ==
    ASSUME NEW nx, NEW o, NEW h, NEW S, List(nx, o, h, S), NEW nx2, NEW o2,
           \A t \in S : nx2[t] = nx[t],
           \A t, v \in S \ {sentinel} : o[t] <= o[v] => o2[t] <= o2[v]
    PROVE  List(nx2, o2, h, S)
<1>1. PICK m, f : Chain(nx, f, m) /\ Ordered(o, f, m) /\ f[0] = h /\ Nodes(f, m) = S
  BY DEF List
<1>2. m \in Nat
  BY <1>1 DEF Chain
<1>3. ASSUME NEW i \in 0..(m - 1)
      PROVE  i \in 0..m /\ f[i] \in S /\ f[i] # sentinel
  <2>1. i \in 0..m /\ i # m
    BY <1>2
  <2> QED
    BY <1>1, <2>1, NodeIs
<1>4. sentinel \in S
  BY ListIs
<1>5. Chain(nx2, f, m)
  BY <1>1, <1>3, <1>4 DEF Chain
<1>6. Ordered(o2, f, m)
  BY <1>1, <1>3 DEF Ordered
<1> QED
  BY <1>1, <1>5, <1>6 DEF List

LEMMA ListFrame ==
    ASSUME NEW nx, NEW o, NEW h, NEW S, List(nx, o, h, S), NEW nx2, NEW o2,
           \A t \in S : nx2[t] = nx[t],
           \A t \in S \ {sentinel} : o2[t] = o[t]
    PROVE  List(nx2, o2, h, S)
  BY ListShift

LEMMA HeadIs ==
    ASSUME NEW nx, NEW o, NEW h, NEW S, List(nx, o, h, S), S # {sentinel}
    PROVE  h # sentinel
<1>1. PICK m, f : Chain(nx, f, m) /\ Ordered(o, f, m) /\ f[0] = h /\ Nodes(f, m) = S
  BY DEF List
<1> SUFFICES ASSUME h = sentinel PROVE FALSE
  OBVIOUS
<1>2. m \in Nat /\ 0 \in 0..m /\ m \in 0..m
  BY <1>1 DEF Chain
<1>3. m = 0
  BY <1>1, <1>2 DEF Chain
<1>4. Nodes(f, 0) = {f[0]}
  BY DEF Nodes
<1> QED
  BY <1>1, <1>3, <1>4

LEMMA ListTail ==
    ASSUME NEW nx, NEW o, NEW h, NEW S, List(nx, o, h, S), h # sentinel
    PROVE  List(nx, o, nx[h], S \ {h})
<1>1. PICK m, f : Chain(nx, f, m) /\ Ordered(o, f, m) /\ f[0] = h /\ Nodes(f, m) = S
  BY DEF List
<1>2. m \in Nat /\ m # 0
  BY <1>1 DEF Chain
<1> DEFINE g == [i \in 0..(m - 1) |-> f[i + 1]]
<1>3. /\ m - 1 \in Nat /\ 0 \in 0..(m - 1) /\ m - 1 \in 0..(m - 1)
      /\ \A i \in 0..(m - 1) : i + 1 \in 0..m /\ i \in 0..m /\ i + 1 # 0
      /\ (m - 1) + 1 = m /\ 0 + 1 = 1 /\ 0 \in 0..m
  BY <1>2
<1>4. Chain(nx, g, m - 1)
  <2>1. g \in [0..(m - 1) -> Timer]
    BY <1>1, <1>3 DEF Chain
  <2>2. ASSUME NEW i \in 0..(m - 1), NEW j \in 0..(m - 1), g[i] = g[j] PROVE i = j
    <3>1. i + 1 = j + 1
      BY <1>1, <1>3, <2>2 DEF Chain
    <3> QED
      BY <3>1
  <2>3. g[m - 1] = sentinel /\ nx[sentinel] = Null
    BY <1>1, <1>3 DEF Chain
  <2>4. ASSUME NEW i \in 0..((m - 1) - 1) PROVE nx[g[i]] = g[i + 1]
    <3>1. /\ i \in 0..(m - 1) /\ i + 1 \in 0..(m - 1)
      BY <1>2
    <3> QED
      BY <1>1, <3>1 DEF Chain
  <2> HIDE DEF g
  <2> QED
    BY <1>3, <2>1, <2>2, <2>3, <2>4 DEF Chain
<1>5. Ordered(o, g, m - 1)
  <2>1. ASSUME NEW i \in 0..((m - 1) - 1), NEW j \in 0..((m - 1) - 1), i <= j
        PROVE  o[g[i]] <= o[g[j]]
    <3>1. /\ i + 1 \in 0..(m - 1) /\ j + 1 \in 0..(m - 1) /\ i + 1 <= j + 1
          /\ i \in 0..(m - 1) /\ j \in 0..(m - 1)
      BY <1>2, <2>1
    <3>2. o[f[i + 1]] <= o[f[j + 1]]
      BY <1>1, <3>1, Zenon DEF Ordered
    <3> QED
      BY <3>1, <3>2
  <2> HIDE DEF g
  <2> QED
    BY <2>1 DEF Ordered
<1>6. g[0] = nx[h]
  <2>1. nx[f[0]] = f[0 + 1]
    BY <1>1, <1>3 DEF Chain
  <2> QED
    BY <1>1, <1>3, <2>1
<1>7. Nodes(g, m - 1) = S \ {h}
  <2>1. ASSUME NEW i \in 0..(m - 1) PROVE g[i] \in S \ {h}
    <3>1. f[i + 1] # f[0]
      BY <1>1, <1>3 DEF Chain
    <3> QED
      BY <1>1, <1>3, <3>1 DEF Nodes
  <2>2. ASSUME NEW t \in S, t # h PROVE \E i \in 0..(m - 1) : t = g[i]
    <3>1. PICK k \in 0..m : t = f[k]
      BY <1>1 DEF Nodes
    <3>2. k # 0
      BY <1>1, <2>2, <3>1
    <3>3. k - 1 \in 0..(m - 1) /\ (k - 1) + 1 = k
      BY <1>2, <3>2
    <3> QED
      BY <3>1, <3>3
  <2> HIDE DEF g
  <2> QED
    BY <2>1, <2>2 DEF Nodes
<1> HIDE DEF g
<1> QED
  BY <1>4, <1>5, <1>6, <1>7 DEF List

Pushed(t, f, m) == [i \in 0..(m + 1) |-> IF i = 0 THEN t ELSE f[i - 1]]

LEMMA PushedIs ==
    ASSUME NEW nx, NEW f, NEW m, Chain(nx, f, m), NEW t \in Timer \ Nodes(f, m),
           nx[t] = f[0]
    PROVE  /\ Chain(nx, Pushed(t, f, m), m + 1) /\ Pushed(t, f, m)[0] = t
           /\ \A i \in 0..(m + 1) : i # 0 =>
                  i - 1 \in 0..m /\ Pushed(t, f, m)[i] = f[i - 1]
           /\ \A i \in 0..m : i + 1 \in 0..(m + 1) /\ Pushed(t, f, m)[i + 1] = f[i]
<1> DEFINE g == Pushed(t, f, m)
<1>2. m \in Nat
  BY DEF Chain
<1>3. /\ m + 1 \in Nat /\ 0 \in 0..(m + 1) /\ m + 1 \in 0..(m + 1) /\ m + 1 # 0
      /\ (m + 1) - 1 = m
      /\ \A i \in 0..(m + 1) : i # 0 => i - 1 \in 0..m
      /\ \A i \in 0..m : i + 1 \in 0..(m + 1) /\ i + 1 # 0 /\ (i + 1) - 1 = i
  BY <1>2
<1>4. ASSUME NEW i \in 0..(m + 1), i # 0
      PROVE  i - 1 \in 0..m /\ g[i] = f[i - 1] /\ g[i] # t
  BY <1>3, <1>4 DEF Nodes, Pushed
<1>5. g[0] = t
  BY <1>3 DEF Pushed
<1>6. g \in [0..(m + 1) -> Timer]
  BY <1>3 DEF Chain, Pushed
<1> HIDE DEF g
<1>7. ASSUME NEW i \in 0..m PROVE i + 1 \in 0..(m + 1) /\ g[i + 1] = f[i]
  BY <1>3, <1>4
<1>8. Chain(nx, g, m + 1)
  <2>2. ASSUME NEW i \in 0..(m + 1), NEW j \in 0..(m + 1), g[i] = g[j] PROVE i = j
    <3>1. CASE i = 0 \/ j = 0
      BY <1>4, <1>5, <2>2, <3>1
    <3>2. CASE i # 0 /\ j # 0
      <4>1. i - 1 = j - 1
        BY <1>4, <2>2, <3>2 DEF Chain
      <4> QED
        BY <4>1
    <3> QED
      BY <3>1, <3>2
  <2>3. g[m + 1] = sentinel /\ nx[sentinel] = Null
    BY <1>3, <1>4 DEF Chain
  <2>4. ASSUME NEW i \in 0..((m + 1) - 1) PROVE nx[g[i]] = g[i + 1]
    <3>1. i \in 0..m /\ i + 1 \in 0..(m + 1) /\ g[i + 1] = f[i]
      BY <1>2, <1>7
    <3>2. CASE i = 0
      BY <1>5, <3>1, <3>2
    <3>3. CASE i # 0
      <4>1. g[i] = f[i - 1] /\ i - 1 \in 0..(m - 1) /\ (i - 1) + 1 = i
        BY <1>2, <1>4, <3>1, <3>3
      <4> QED
        BY <3>1, <4>1 DEF Chain
    <3> QED
      BY <3>2, <3>3
  <2> QED
    BY <1>3, <1>6, <2>2, <2>3, <2>4 DEF Chain
<1> QED
  BY <1>4, <1>5, <1>7, <1>8 DEF g

LEMMA ListPush ==
    ASSUME NEW nx, NEW o, NEW h, NEW S, List(nx, o, h, S), NEW t \in Timer \ S,
           nx[t] = h, \A v \in S \ {sentinel} : o[t] <= o[v], o[t] \in Int
    PROVE  List(nx, o, t, S \cup {t})
<1>1. PICK m, f : Chain(nx, f, m) /\ Ordered(o, f, m) /\ f[0] = h /\ Nodes(f, m) = S
  BY DEF List
<1>2. m \in Nat /\ 0 \in 0..(m + 1)
  BY <1>1 DEF Chain
<1> DEFINE g == Pushed(t, f, m)
<1>3. /\ Chain(nx, g, m + 1) /\ g[0] = t
      /\ \A i \in 0..(m + 1) : i # 0 => i - 1 \in 0..m /\ g[i] = f[i - 1]
      /\ \A i \in 0..m : i + 1 \in 0..(m + 1) /\ g[i + 1] = f[i]
  BY <1>1, PushedIs
<1> HIDE DEF g
<1>7. Ordered(o, g, m + 1)
  <2>1. ASSUME NEW i \in 0..((m + 1) - 1), NEW j \in 0..((m + 1) - 1), i <= j
        PROVE  o[g[i]] <= o[g[j]]
    <3>1. CASE j = 0
      <4>1. i = 0
        BY <1>2, <2>1, <3>1
      <4> QED
        BY <1>3, <3>1, <4>1
    <3>2. CASE j # 0
      <4>1. /\ j - 1 \in 0..(m - 1) /\ j - 1 \in 0..m /\ j - 1 # m
            /\ j \in 0..(m + 1) /\ i \in 0..(m + 1)
        BY <1>2, <3>2
      <4>2. f[j - 1] \in S /\ f[j - 1] # sentinel /\ g[j] = f[j - 1]
        BY <1>1, <1>3, <3>2, <4>1, NodeIs
      <4>3. CASE i = 0
        BY <1>3, <4>2, <4>3
      <4>4. CASE i # 0
        <5>1. i - 1 \in 0..(m - 1) /\ i - 1 <= j - 1 /\ g[i] = f[i - 1]
          BY <1>2, <1>3, <2>1, <4>1, <4>4
        <5> QED
          BY <1>1, <4>1, <4>2, <5>1 DEF Ordered
      <4> QED
        BY <4>3, <4>4
    <3> QED
      BY <3>1, <3>2
  <2> QED
    BY <2>1 DEF Ordered
<1>8. Nodes(g, m + 1) = S \cup {t}
  <2>1. ASSUME NEW v \in S PROVE \E i \in 0..(m + 1) : v = g[i]
    <3>1. PICK k \in 0..m : v = f[k]
      BY <1>1 DEF Nodes
    <3> QED
      BY <1>3, <3>1
  <2>2. ASSUME NEW i \in 0..(m + 1) PROVE g[i] \in S \cup {t}
    BY <1>1, <1>3 DEF Nodes
  <2> QED
    BY <1>2, <1>3, <2>1, <2>2 DEF Nodes
<1> QED
  BY <1>3, <1>7, <1>8 DEF List

(* A node that is neither the first nor the last leaves the list.           *)
LEMMA ListRemove ==
    ASSUME NEW nx, NEW o, NEW h, NEW S, List(nx, o, h, S), NEW t, t # h, t # sentinel,
           NEW nx2, \A v \in S : nx2[v] = IF nx[v] = t THEN nx[t] ELSE nx[v],
           t \in Timer
    PROVE  List(nx2, o, h, S \ {t})
<1>1. CASE t \notin S
  <2>1. \A v \in S : nx[v] # t
    <3>1. Null # t
      BY TimerAssumption
    <3> QED
      BY <1>1, <3>1, ListIs
  <2>2. \A v \in S : nx2[v] = nx[v]
    BY <2>1
  <2>3. S \ {t} = S
    BY <1>1
  <2> QED
    BY <2>2, <2>3, ListFrame
<1>2. CASE t \in S
  <2>1. PICK m, f : Chain(nx, f, m) /\ Ordered(o, f, m) /\ f[0] = h /\ Nodes(f, m) = S
    BY DEF List
  <2>2. PICK k \in 0..(m - 1) : t = f[k]
    BY <1>2, <2>1, PosIs
  <2>3. m \in Nat /\ k \in 1..(m - 1) /\ k \in 0..m
    <3>1. k # 0
      BY <2>1, <2>2
    <3> QED
      BY <2>1, <3>1 DEF Chain
  <2> DEFINE p(i) == IF i < k THEN i ELSE i + 1
             g == [i \in 0..(m - 1) |-> f[p(i)]]
  <2>4. \A i \in 0..(m - 1) : p(i) \in 0..m /\ p(i) # k /\ (p(i) = m <=> i = m - 1)
    BY <2>3
  <2>5. \A i, j \in 0..(m - 1) : (p(i) = p(j) => i = j) /\ (i <= j => p(i) <= p(j))
    BY <2>3
  <2>6. \A i \in 0..m : i # k => \E j \in 0..(m - 1) : p(j) = i
    <3>1. ASSUME NEW i \in 0..m, i < k PROVE \E j \in 0..(m - 1) : p(j) = i
      <4>1. i \in 0..(m - 1) /\ p(i) = i
        BY <2>3, <3>1
      <4> QED
        BY <4>1
    <3>2. ASSUME NEW i \in 0..m, i > k PROVE \E j \in 0..(m - 1) : p(j) = i
      <4>1. i - 1 \in 0..(m - 1) /\ p(i - 1) = i
        BY <2>3, <3>2
      <4> QED
        BY <4>1
    <3> QED
      BY <2>3, <3>1, <3>2
  <2>7. \A i \in 0..((m - 1) - 1) :
            /\ i \in 0..(m - 1) /\ i + 1 \in 0..(m - 1) /\ p(i) \in 0..(m - 1)
            /\ (p(i) = k - 1 \/ p(i + 1) = p(i) + 1)
            /\ (p(i) = k - 1 => p(i + 1) = k + 1)
    BY <2>3
  <2>8. \A i \in 0..(m - 1) : i \in 0..m /\ i + 1 \in 0..m
    BY <2>3
  <2>9. m - 1 \in Nat /\ 0 \in 0..(m - 1) /\ m - 1 \in 0..(m - 1) /\ p(0) = 0
    BY <2>3
  <2> HIDE DEF p
  <2>10. \A i \in 0..(m - 1) : g[i] = f[p(i)]
    OBVIOUS
  <2>11. g \in [0..(m - 1) -> Timer]
    BY <2>1, <2>4 DEF Chain
  <2> HIDE DEF g
  <2>12. \A i \in 0..m : f[i] \in S
    BY <2>1, NodeIs
  <2>13. Chain(nx2, g, m - 1)
    <3>1. \A i, j \in 0..(m - 1) : g[i] = g[j] => i = j
      <4> TAKE i \in 0..(m - 1), j \in 0..(m - 1)
      <4> HAVE g[i] = g[j]
      <4>1. f[p(i)] = f[p(j)] /\ p(i) \in 0..m /\ p(j) \in 0..m
        BY <2>4, <2>10
      <4>2. p(i) = p(j)
        BY <2>1, <4>1 DEF Chain
      <4> QED
        BY <2>5, <4>2
    <3>2. g[m - 1] = sentinel
      BY <2>1, <2>4, <2>9, <2>10 DEF Chain
    <3>3. nx2[sentinel] = Null
      <4>1. nx[sentinel] = Null /\ sentinel \in S /\ Null # t
        BY ListIs, TimerAssumption
      <4> QED
        BY <4>1
    <3>4. ASSUME NEW i \in 0..((m - 1) - 1) PROVE nx2[g[i]] = g[i + 1]
      <4>1. g[i] = f[p(i)] /\ g[i + 1] = f[p(i + 1)]
        BY <2>7, <2>10
      <4>2. p(i) \in 0..(m - 1) /\ p(i) \in 0..m /\ f[p(i)] \in S
        BY <2>7, <2>8, <2>12
      <4>3. nx[f[p(i)]] = f[p(i) + 1] /\ p(i) + 1 \in 0..m
        BY <2>1, <2>8, <4>2 DEF Chain
      <4>4. CASE p(i) = k - 1
        <5>1. p(i) + 1 = k /\ p(i + 1) = k + 1
          BY <2>3, <2>7, <4>4
        <5>2. nx[f[p(i)]] = t
          BY <2>2, <4>3, <5>1
        <5>3. nx[t] = f[k + 1]
          BY <2>1, <2>2 DEF Chain
        <5> QED
          BY <4>1, <4>2, <5>1, <5>2, <5>3
      <4>5. CASE p(i) # k - 1
        <5>1. p(i + 1) = p(i) + 1 /\ p(i) + 1 # k
          BY <2>3, <2>7, <4>2, <4>5
        <5>2. f[p(i) + 1] # t
          BY <2>1, <2>2, <2>3, <4>3, <5>1 DEF Chain
        <5> QED
          BY <4>1, <4>2, <4>3, <5>1, <5>2
      <4> QED
        BY <4>4, <4>5
    <3> QED
      BY <2>9, <2>11, <3>1, <3>2, <3>3, <3>4 DEF Chain
  <2>14. Ordered(o, g, m - 1)
    <3>1. ASSUME NEW i \in 0..((m - 1) - 1), NEW j \in 0..((m - 1) - 1), i <= j
          PROVE  o[g[i]] <= o[g[j]]
      <4>1. /\ p(i) <= p(j) /\ p(i) \in 0..(m - 1) /\ p(j) \in 0..(m - 1)
            /\ g[i] = f[p(i)] /\ g[j] = f[p(j)]
        BY <2>5, <2>7, <2>10, <3>1
      <4> QED
        BY <2>1, <4>1 DEF Ordered
    <3> QED
      BY <3>1 DEF Ordered
  <2>15. g[0] = h
    BY <2>1, <2>9, <2>10
  <2>16. Nodes(g, m - 1) = S \ {t}
    <3>1. ASSUME NEW i \in 0..(m - 1) PROVE g[i] \in S \ {t}
      <4>1. p(i) \in 0..m /\ p(i) # k /\ g[i] = f[p(i)]
        BY <2>4, <2>10
      <4>2. f[p(i)] # f[k]
        BY <2>1, <2>3, <4>1 DEF Chain
      <4> QED
        BY <2>2, <2>12, <4>1, <4>2
    <3>2. ASSUME NEW v \in S \ {t} PROVE \E i \in 0..(m - 1) : v = g[i]
      <4>1. PICK i \in 0..m : v = f[i]
        BY <2>1 DEF Nodes
      <4>2. i # k
        BY <2>2, <4>1
      <4> QED
        BY <2>6, <2>10, <4>1, <4>2
    <3> QED
      BY <3>1, <3>2 DEF Nodes
  <2> QED
    BY <2>13, <2>14, <2>15, <2>16 DEF List
<1> QED
  BY <1>1, <1>2

(* A node that goes between two others.                                     *)
Splices(nx, nx2, o, f, m, t, q) ==
    /\ t \in Timer \ Nodes(f, m) /\ q \in 1..m /\ o \in [Timer -> Int]
    /\ \A i \in 0..(q - 1) : o[f[i]] <= o[t]
    /\ q # m => o[t] <= o[f[q]]
    /\ nx2[t] = f[q] /\ nx2[f[q - 1]] = t
    /\ \A v \in Nodes(f, m) : v # f[q - 1] => nx2[v] = nx[v]

LEMMA ListSplice ==
    ASSUME NEW nx, NEW nx2, NEW o, NEW f, NEW m, NEW t, NEW q,
           Chain(nx, f, m), Ordered(o, f, m), Splices(nx, nx2, o, f, m, t, q)
    PROVE  List(nx2, o, f[0], Nodes(f, m) \cup {t})
<1>0. /\ t \in Timer \ Nodes(f, m) /\ q \in 1..m /\ o \in [Timer -> Int]
      /\ \A i \in 0..(q - 1) : o[f[i]] <= o[t]
      /\ q # m => o[t] <= o[f[q]]
      /\ nx2[t] = f[q] /\ nx2[f[q - 1]] = t
      /\ \A v \in Nodes(f, m) : v # f[q - 1] => nx2[v] = nx[v]
  BY DEF Splices
<1> USE <1>0
<1>1. m \in Nat /\ m # 0
  BY DEF Chain
<1> DEFINE g == [i \in 0..(m + 1) |->
                    IF i < q THEN f[i] ELSE IF i = q THEN t ELSE f[i - 1]]
<1>2. /\ m + 1 \in Nat /\ 0 \in 0..(m + 1) /\ m + 1 \in 0..(m + 1) /\ q \in 0..(m + 1)
      /\ (m + 1) - 1 = m /\ (m + 1) > q /\ 0 < q
  BY <1>1
<1>3. ASSUME NEW i \in 0..(m + 1), i < q
      PROVE  g[i] = f[i] /\ i \in 0..m /\ i \in 0..(m - 1)
  <2>1. i \in 0..m /\ i \in 0..(m - 1)
    BY <1>1, <1>3
  <2> QED
    BY <1>3, <2>1
<1>4. g[q] = t
  <2>1. ~(q < q)
    OBVIOUS
  <2> QED
    BY <1>2, <2>1
<1>5. ASSUME NEW i \in 0..(m + 1), i > q PROVE g[i] = f[i - 1] /\ i - 1 \in 0..m
  <2>1. i - 1 \in 0..m /\ ~(i < q) /\ i # q
    BY <1>1, <1>5
  <2> QED
    BY <2>1
<1>6. g \in [0..(m + 1) -> Timer]
  <2>1. ASSUME NEW i \in 0..(m + 1) PROVE g[i] \in Timer
    <3>1. i < q \/ i = q \/ i > q
      OBVIOUS
    <3> HIDE DEF g
    <3> QED
      BY <1>3, <1>4, <1>5, <3>1 DEF Chain
  <2>2. g = [i \in 0..(m + 1) |-> g[i]]
    OBVIOUS
  <2> HIDE DEF g
  <2> QED
    BY <2>1, <2>2
<1> HIDE DEF g
<1>7. \A i \in 0..m : f[i] \in Nodes(f, m) /\ f[i] # t
  BY NodeIs
<1>8. \A i \in 0..(m + 1) : i < q \/ i = q \/ i > q
  BY <1>1
<1>9. Chain(nx2, g, m + 1)
  <2>1. ASSUME NEW i \in 0..(m + 1), NEW j \in 0..(m + 1), g[i] = g[j] PROVE i = j
    <3>1. CASE i < q /\ j < q
      BY <1>3, <2>1, <3>1 DEF Chain
    <3>2. CASE i > q /\ j > q
      <4>1. i - 1 = j - 1
        BY <1>5, <2>1, <3>2 DEF Chain
      <4> QED
        BY <4>1
    <3>3. CASE i < q /\ j > q
      <4>1. i = j - 1
        BY <1>3, <1>5, <2>1, <3>3 DEF Chain
      <4> QED
        BY <3>3, <4>1
    <3>4. CASE i > q /\ j < q
      <4>1. j = i - 1
        BY <1>3, <1>5, <2>1, <3>4 DEF Chain
      <4> QED
        BY <3>4, <4>1
    <3>5. CASE i = q \/ j = q
      BY <1>3, <1>4, <1>5, <1>7, <1>8, <2>1, <3>5
    <3> QED
      BY <1>8, <3>1, <3>2, <3>3, <3>4, <3>5
  <2>2. g[m + 1] = sentinel
    BY <1>2, <1>5 DEF Chain
  <2>3. nx2[sentinel] = Null
    <3>1. f[q - 1] # sentinel
      <4>1. q - 1 \in 0..m /\ q - 1 # m
        BY <1>1
      <4> QED
        BY <4>1, NodeIs
    <3>2. sentinel \in Nodes(f, m) /\ nx[sentinel] = Null
      BY <1>1 DEF Chain, Nodes
    <3> QED
      BY <3>1, <3>2
  <2>4. ASSUME NEW i \in 0..((m + 1) - 1) PROVE nx2[g[i]] = g[i + 1]
    <3>0. i \in 0..(m + 1) /\ i + 1 \in 0..(m + 1) /\ i \in 0..m
      BY <1>1
    <3>1. CASE i < q - 1
      <4>1. i < q /\ i + 1 < q /\ q - 1 \in 0..m /\ i # q - 1
        BY <1>1, <3>1
      <4>2. g[i] = f[i] /\ g[i + 1] = f[i + 1] /\ i \in 0..(m - 1)
        BY <1>3, <3>0, <4>1
      <4>3. f[i] # f[q - 1]
        BY <3>0, <4>1 DEF Chain
      <4> QED
        BY <1>7, <3>0, <4>2, <4>3 DEF Chain
    <3>2. CASE i = q - 1
      <4>1. i < q /\ i + 1 = q
        BY <1>1, <3>2
      <4> QED
        BY <1>3, <1>4, <3>0, <3>2, <4>1
    <3>3. CASE i = q
      <4>1. i + 1 > q /\ (i + 1) - 1 = q
        BY <1>1, <3>3
      <4> QED
        BY <1>4, <1>5, <3>0, <3>3, <4>1
    <3>4. CASE i > q
      <4>1. /\ i + 1 > q /\ (i + 1) - 1 = i /\ i - 1 \in 0..(m - 1) /\ i - 1 \in 0..m
            /\ (i - 1) + 1 = i /\ q - 1 \in 0..m /\ i - 1 # q - 1
        BY <1>1, <3>4
      <4>2. g[i] = f[i - 1] /\ g[i + 1] = f[i]
        BY <1>5, <3>0, <3>4, <4>1
      <4>3. f[i - 1] # f[q - 1]
        BY <4>1 DEF Chain
      <4> QED
        BY <1>7, <4>1, <4>2, <4>3 DEF Chain
    <3>5. i < q - 1 \/ i = q - 1 \/ i = q \/ i > q
      BY <1>1
    <3> QED
      BY <3>1, <3>2, <3>3, <3>4, <3>5
  <2> QED
    BY <1>2, <1>6, <2>1, <2>2, <2>3, <2>4 DEF Chain
<1>10. Ordered(o, g, m + 1)
  <2>0. \A i \in 0..m : o[f[i]] \in Int /\ o[t] \in Int
    BY DEF Chain
  <2>1. ASSUME NEW i \in q..(m - 1) PROVE o[t] <= o[f[i]]
    <3>1. q \in 0..(m - 1) /\ i \in 0..(m - 1) /\ q <= i /\ q # m /\ i \in 0..m /\ q \in 0..m
      BY <1>1
    <3>2. o[f[q]] <= o[f[i]] /\ o[t] <= o[f[q]]
      BY <3>1 DEF Ordered
    <3> QED
      BY <2>0, <3>1, <3>2
  <2>2. ASSUME NEW i \in 0..((m + 1) - 1), NEW j \in 0..((m + 1) - 1), i <= j
        PROVE  o[g[i]] <= o[g[j]]
    <3>0. i \in 0..(m + 1) /\ j \in 0..(m + 1)
      BY <1>1
    <3>1. CASE j < q
      <4>1. i < q
        BY <2>2, <3>1
      <4> QED
        BY <1>3, <2>2, <3>0, <3>1, <4>1 DEF Ordered
    <3>2. CASE j = q /\ i < q
      <4>1. i \in 0..(q - 1)
        BY <3>2
      <4> QED
        BY <1>3, <1>4, <3>0, <3>2, <4>1
    <3>3. CASE j = q /\ i = q
      BY <2>0, <1>1, <1>4, <3>3
    <3>4. CASE j > q /\ i > q
      <4>1. i - 1 \in 0..(m - 1) /\ j - 1 \in 0..(m - 1) /\ i - 1 <= j - 1
        BY <1>1, <2>2, <3>4
      <4> QED
        BY <1>5, <3>0, <3>4, <4>1 DEF Ordered
    <3>5. CASE j > q /\ i = q
      <4>1. j - 1 \in q..(m - 1)
        BY <1>1, <3>5
      <4> QED
        BY <1>4, <1>5, <2>1, <3>0, <3>5, <4>1
    <3>6. CASE j > q /\ i < q
      <4>1. j - 1 \in 0..(m - 1) /\ i \in 0..(m - 1) /\ i <= j - 1
        BY <1>1, <3>6
      <4> QED
        BY <1>3, <1>5, <3>0, <3>6, <4>1 DEF Ordered
    <3> QED
      BY <1>8, <2>2, <3>0, <3>1, <3>2, <3>3, <3>4, <3>5, <3>6
  <2> QED
    BY <2>2 DEF Ordered
<1>11. g[0] = f[0]
  BY <1>2, <1>3
<1>12. Nodes(g, m + 1) = Nodes(f, m) \cup {t}
  <2>1. ASSUME NEW i \in 0..(m + 1) PROVE g[i] \in Nodes(f, m) \cup {t}
    BY <1>3, <1>4, <1>5, <1>7, <1>8
  <2>2. ASSUME NEW k \in 0..m PROVE \E i \in 0..(m + 1) : f[k] = g[i]
    <3>1. CASE k < q
      <4>1. k \in 0..(m + 1)
        BY <1>1
      <4> QED
        BY <1>3, <3>1, <4>1
    <3>2. CASE ~(k < q)
      <4>1. k + 1 \in 0..(m + 1) /\ k + 1 > q /\ (k + 1) - 1 = k
        BY <1>1, <3>2
      <4> QED
        BY <1>5, <4>1
    <3> QED
      BY <3>1, <3>2
  <2> QED
    BY <1>2, <1>4, <2>1, <2>2 DEF Nodes
<1> QED
  BY <1>9, <1>10, <1>11, <1>12 DEF List

(* insert_timer, from a node that is not after t or from t itself when it   *)
(* was the head: it finds a place, and the place is right.                  *)
LEMMA ListInsert ==
    ASSUME NEW nx \in [Timer -> Timer \cup {Null}], NEW o \in [Timer -> Int],
           NEW h, NEW S, List(nx, o, h, S), NEW t \in Timer \ S, NEW wk, NEW w,
           \A v \in S \ {sentinel} : timer_is_before(w, wk[v]) <=> o[t] < o[v],
           (\A v \in S \ {sentinel} : o[v] <= o[t]) => timer_is_before(w, wk[sentinel]),
           NEW pos,
           \/ pos \in S \ {sentinel} /\ o[pos] <= o[t]
           \/ pos = t /\ nx[t] = h /\ h # sentinel /\ o[h] <= o[t]
    PROVE  /\ Inserted(nx, wk, pos, t, w) \in [Timer -> Timer \cup {Null}]
           /\ List(Inserted(nx, wk, pos, t, w), o, h, S \cup {t})
<1> DEFINE node == After(nx, pos)
<1>1. PICK m, f : Chain(nx, f, m) /\ Ordered(o, f, m) /\ f[0] = h /\ Nodes(f, m) = S
  BY DEF List
<1>2. m \in Nat /\ m + 1 <= Size /\ Size \in Nat /\ 0 \in 0..m /\ m \in 0..m
  <2>1. m + 1 <= Size
    BY <1>1, ChainFits
  <2>2. m \in Nat
    BY <1>1 DEF Chain
  <2> QED
    BY <2>1, <2>2, SizeIs
<1>3. \A i \in 0..m : /\ f[i] \in S /\ f[i] \in Timer /\ f[i] # Null /\ f[i] # t
                      /\ (i # m <=> f[i] # sentinel) /\ o[f[i]] \in Int
  BY <1>1, NodeIs, TimerAssumption
<1>4. o[t] \in Int
  OBVIOUS
<1>5. PICK b \in (-1)..(m - 1) :
          /\ \A n \in 1..Size : node[n] = IF b + n <= m THEN f[b + n] ELSE Null
          /\ b # -1 => node[0] = f[b]
          /\ \A i \in 0..(m - 1) : i <= b \/ i = 0 => o[f[i]] <= o[t]
  <2>1. CASE pos \in S \ {sentinel} /\ o[pos] <= o[t]
    <3>1. PICK p \in 0..(m - 1) : pos = f[p]
      BY <1>1, <2>1, PosIs
    <3>2. p \in 0..m /\ p \in (-1)..(m - 1)
      BY <1>2
    <3>3. node = From(f, m, p)
      BY <1>1, <3>1, <3>2, AfterIs
    <3>4. \A n \in 0..Size : node[n] = IF p + n <= m THEN f[p + n] ELSE Null
      <4> HIDE DEF node
      <4> QED
        BY <3>3 DEF From
    <3>5. node[0] = f[p] /\ \A n \in 1..Size : n \in 0..Size
      <4>1. p + 0 <= m /\ p + 0 = p /\ 0 \in 0..Size
        BY <1>2
      <4> HIDE DEF node
      <4> QED
        BY <3>4, <4>1
    <3>6. ASSUME NEW i \in 0..(m - 1), i <= p \/ i = 0 PROVE o[f[i]] <= o[t]
      <4>1. i <= p /\ i \in 0..m
        BY <1>2, <3>6
      <4>2. o[f[i]] <= o[f[p]]
        BY <1>1, <4>1 DEF Ordered
      <4> QED
        BY <1>3, <1>4, <2>1, <3>1, <3>2, <4>1, <4>2
    <3> HIDE DEF node
    <3> QED
      BY <3>2, <3>4, <3>5, <3>6
  <2>2. CASE pos = t /\ nx[t] = h /\ h # sentinel /\ o[h] <= o[t]
    <3> DEFINE g == Pushed(t, f, m)
    <3>1. /\ Chain(nx, g, m + 1) /\ g[0] = t
          /\ \A i \in 0..(m + 1) : i # 0 => i - 1 \in 0..m /\ g[i] = f[i - 1]
      BY <1>1, <2>2, PushedIs
    <3> HIDE DEF g
    <3>2. m # 0 /\ 0 \in 0..(m + 1)
      BY <1>1, <1>2, <2>2 DEF Chain
    <3>3. node = From(g, m + 1, 0)
      <4>1. After(nx, g[0]) = From(g, m + 1, 0)
        BY <3>1, <3>2, AfterIs
      <4> QED
        BY <2>2, <3>1, <4>1
    <3> HIDE DEF node
    <3>4. ASSUME NEW n \in 1..Size
          PROVE  node[n] = IF -1 + n <= m THEN f[-1 + n] ELSE Null
      <4>1. node[n] = IF 0 + n <= m + 1 THEN g[0 + n] ELSE Null
        BY <3>3 DEF From
      <4>2. 0 + n = n /\ (n <= m + 1 <=> -1 + n <= m) /\ n # 0 /\ -1 + n = n - 1
        BY <1>2
      <4>3. n <= m + 1 => g[n] = f[n - 1]
        <5>1. n <= m + 1 => n \in 0..(m + 1)
          BY <1>2
        <5> QED
          BY <3>1, <4>2, <5>1
      <4> QED
        BY <4>1, <4>2, <4>3
    <3>5. ASSUME NEW i \in 0..(m - 1), i <= -1 \/ i = 0 PROVE o[f[i]] <= o[t]
      <4>1. i = 0
        BY <3>5
      <4> QED
        BY <1>1, <2>2, <4>1
    <3>6. -1 \in (-1)..(m - 1)
      BY <1>2, <3>2
    <3> QED
      BY <3>4, <3>5, <3>6
  <2> HIDE DEF node
  <2> QED
    BY <2>1, <2>2
<1> HIDE DEF node
<1> DEFINE T == {n \in 1..Size : b + n <= m /\ timer_is_before(w, wk[f[b + n]])}
<1>6. T # {}
  <2>1. CASE \A v \in S \ {sentinel} : o[v] <= o[t]
    <3>1. timer_is_before(w, wk[f[m]])
      BY <1>1, <2>1 DEF Chain
    <3>2. m - b \in 1..Size /\ b + (m - b) = m /\ m <= m
      BY <1>2
    <3>3. m - b \in T
      BY <3>1, <3>2
    <3> QED
      BY <3>3
  <2>2. CASE \E v \in S \ {sentinel} : ~(o[v] <= o[t])
    <3>1. PICK v \in S \ {sentinel} : ~(o[v] <= o[t])
      BY <2>2
    <3>2. PICK i \in 0..(m - 1) : v = f[i]
      BY <1>1, PosIs
    <3>3. ~(i <= b)
      BY <1>5, <3>1, <3>2
    <3>4. i \in 0..m /\ i - b \in 1..Size /\ b + (i - b) = i /\ i <= m
      BY <1>2, <3>3
    <3>5. o[t] < o[v]
      BY <1>3, <1>4, <3>1, <3>2, <3>4
    <3>6. timer_is_before(w, wk[f[i]])
      BY <3>2, <3>5
    <3>7. i - b \in T
      BY <3>4, <3>6
    <3> QED
      BY <3>7
  <2> QED
    BY <2>1, <2>2
<1>7. \E n \in 1..Size : StopsAt(nx, wk, pos, w, n)
  <2>1. T \subseteq Nat
    BY <1>2
  <2>2. PICK n \in T : \A k \in T : n <= k
    BY <1>6, <2>1, LeastNat
  <2>3. n \in 1..Size /\ b + n \in 0..m /\ b + n <= m /\ timer_is_before(w, wk[f[b + n]])
    BY <1>2
  <2>4. node[n] = f[b + n]
    BY <1>5, <2>3
  <2>5. ASSUME NEW k \in 1..(n - 1)
        PROVE  node[k] # Null /\ ~timer_is_before(w, wk[node[k]])
    <3>1. k \in 1..Size /\ b + k <= m /\ b + k \in 0..m /\ ~(n <= k)
      BY <1>2, <2>3
    <3>2. node[k] = f[b + k] /\ k \notin T
      BY <1>5, <2>2, <3>1
    <3> QED
      BY <1>3, <3>1, <3>2
  <2>6. node[n] # Null /\ timer_is_before(w, wk[node[n]])
    BY <1>3, <2>3, <2>4
  <2> HIDE DEF T
  <2>7. StopsAt(nx, wk, pos, w, n)
    BY <2>5, <2>6 DEF StopsAt, node
  <2> QED
    BY <2>3, <2>7
<1> HIDE DEF T
<1> DEFINE k == CHOOSE n \in 1..Size : StopsAt(nx, wk, pos, w, n)
           q == b + k
           nx2 == [nx EXCEPT ![t] = node[k], ![node[k - 1]] = t]
<1>8. k \in 1..Size /\ StopsAt(nx, wk, pos, w, k)
  BY <1>7
<1>9. Inserted(nx, wk, pos, t, w) = nx2
  BY DEF Inserted, node
<1> HIDE DEF k
<1>10. /\ node[k] # Null /\ timer_is_before(w, wk[node[k]])
       /\ \A j \in 1..(k - 1) : node[j] # Null /\ ~timer_is_before(w, wk[node[j]])
  BY <1>8 DEF StopsAt, node
<1>11. q <= m /\ node[k] = f[q]
  BY <1>5, <1>8, <1>10
<1>12. q \in 0..m /\ q \in 1..m
  <2>1. q \in 0..m
    BY <1>8, <1>11
  <2>2. q # 0
    <3> SUFFICES ASSUME q = 0 PROVE FALSE
      OBVIOUS
    <3>1. m # 0
      <4>1. h # sentinel
        <5>1. CASE pos \in S \ {sentinel}
          <6>1. PICK p \in 0..(m - 1) : pos = f[p]
            BY <1>1, <5>1, PosIs
          <6>2. 0 # m
            BY <1>2, <6>1
          <6> QED
            BY <1>1, <1>2, <1>3, <6>2
        <5> QED
          BY <5>1
      <4> QED
        BY <1>1, <4>1 DEF Chain
    <3>2. 0 \in 0..(m - 1) /\ 0 # m
      BY <1>2, <3>1
    <3>3. o[f[0]] <= o[t] /\ f[0] \in S \ {sentinel}
      BY <1>2, <1>3, <1>5, <3>2
    <3>4. o[t] < o[f[0]]
      BY <1>10, <1>11, <3>3
    <3> QED
      BY <1>2, <1>3, <1>4, <3>3, <3>4
  <2> QED
    BY <1>2, <2>1, <2>2
<1>13. node[k - 1] = f[q - 1] /\ q - 1 \in 0..m /\ q - 1 # m
  <2>1. q - 1 \in 0..m /\ q - 1 # m
    BY <1>2, <1>12
  <2>2. CASE k = 1
    <3>1. k - 1 = 0 /\ q - 1 = b /\ b # -1
      BY <1>12, <2>2
    <3> QED
      BY <1>5, <2>1, <3>1
  <2>3. CASE k # 1
    <3>1. k - 1 \in 1..Size /\ b + (k - 1) = q - 1 /\ q - 1 <= m
      BY <1>2, <1>8, <1>12, <2>3
    <3> QED
      BY <1>5, <2>1, <3>1
  <2> QED
    BY <2>2, <2>3
<1>14. ASSUME NEW i \in 0..(q - 1) PROVE o[f[i]] <= o[t]
  <2>1. i \in 0..(m - 1) /\ i \in 0..m /\ i # m
    BY <1>2, <1>12
  <2>2. CASE i <= b
    BY <1>5, <2>1, <2>2
  <2>3. CASE ~(i <= b)
    <3>1. i - b \in 1..(k - 1) /\ i - b \in 1..Size /\ b + (i - b) = i /\ i <= m
      BY <1>2, <1>8, <1>12, <2>1, <2>3
    <3>2. node[i - b] = f[i]
      BY <1>5, <3>1
    <3>3. ~timer_is_before(w, wk[f[i]])
      BY <1>10, <3>1, <3>2
    <3>4. ~(o[t] < o[f[i]])
      BY <1>3, <2>1, <3>3
    <3> QED
      BY <1>3, <1>4, <2>1, <3>4
  <2> QED
    BY <2>2, <2>3
<1>15. q # m => o[t] <= o[f[q]]
  <2>1. q # m => f[q] \in S \ {sentinel}
    BY <1>3, <1>12
  <2>2. q # m => o[t] < o[f[q]]
    BY <1>10, <1>11, <2>1
  <2> QED
    BY <1>3, <1>4, <1>12, <2>2
<1> HIDE DEF q
<1>16. /\ nx2 \in [Timer -> Timer \cup {Null}]
       /\ nx2[t] = f[q] /\ nx2[f[q - 1]] = t
       /\ \A v \in S : v # f[q - 1] => nx2[v] = nx[v]
  <2>1. f[q] \in Timer /\ f[q - 1] \in Timer /\ f[q - 1] # t /\ t \notin S
    BY <1>3, <1>12, <1>13
  <2>2. nx2 = [nx EXCEPT ![t] = f[q], ![f[q - 1]] = t]
    BY <1>11, <1>13
  <2>3. S \subseteq Timer
    BY ListIs
  <2> HIDE DEF nx2
  <2> QED
    BY <2>1, <2>2, <2>3
<1> HIDE DEF nx2
<1>17. List(nx2, o, f[0], Nodes(f, m) \cup {t})
  <2>1. t \in Timer \ Nodes(f, m) /\ \A v \in Nodes(f, m) : v # f[q - 1] => nx2[v] = nx[v]
    BY <1>1, <1>16
  <2>2. Splices(nx, nx2, o, f, m, t, q)
    BY <1>12, <1>14, <1>15, <1>16, <2>1 DEF Splices
  <2> QED
    BY <1>1, <2>2, ListSplice
<1> QED
  BY <1>1, <1>9, <1>16, <1>17

-----------------------------------------------------------------------------
(* Times around now: how far ahead of n a time w is, and which times the    *)
(* clock can tell the order of.                                             *)
LeadFrom(n, w) == Signed(Diff(w, n))
Lead(w) == LeadFrom(now, w)
Leads == [t \in Timer |-> Lead(waketime[t])]
Near(w) ==
    /\ w \in Time
    /\ -Lag(MaxShutdowns) <= Lead(w) /\ Lead(w) + Lag(MaxShutdowns) < Half

LEMMA LeadIs ==
    ASSUME NEW n \in Time, NEW w \in Time
    PROVE  LeadFrom(n, w) \in Int
  BY HalfTurn DEF LeadFrom, Signed, Diff, Time

LEMMA LeadOrder ==
    ASSUME NEW n \in Time, NEW v \in Time, NEW w \in Time,
           LeadFrom(n, v) - LeadFrom(n, w) < Half,
           LeadFrom(n, w) - LeadFrom(n, v) < Half
    PROVE  timer_is_before(v, w) <=> LeadFrom(n, v) < LeadFrom(n, w)
  BY HalfTurn DEF timer_is_before, LeadFrom, Signed, Diff, Time

LEMMA LeadTick ==
    ASSUME NEW n \in Time, NEW w \in Time, LeadFrom(n, w) > -Half
    PROVE  LeadFrom(Plus(n, 1), w) = LeadFrom(n, w) - 1
  BY HalfTurn DEF LeadFrom, Signed, Diff, Plus, Time

LEMMA LeadPlus ==
    ASSUME NEW n \in Time, NEW w \in Time, NEW d \in Nat,
           LeadFrom(n, w) + d < Half, d < Half
    PROVE  Plus(w, d) \in Time /\ LeadFrom(n, Plus(w, d)) = LeadFrom(n, w) + d
<1>1. Plus(w, d) \in Time
  BY HalfTurn DEF Plus, Time
<1> QED
  BY <1>1, HalfTurn DEF LeadFrom, Signed, Diff, Plus, Time

LEMMA LeadNow ==
    ASSUME NEW n \in Time
    PROVE  /\ LeadFrom(n, n) = 0
           /\ Diff(n, 1) \in Time /\ LeadFrom(n, Diff(n, 1)) = -1
  BY HalfTurn DEF LeadFrom, Signed, Diff, Time

LEMMA HalfLater ==
    ASSUME NEW p \in Time, NEW w \in Time, ~timer_is_before(w, p)
    PROVE  timer_is_before(w, Plus(p, Half))
  BY HalfTurn DEF timer_is_before, Diff, Plus, Time

LEMMA NotBeforeItself ==
    ASSUME NEW w \in Time
    PROVE  ~timer_is_before(w, w)
  BY HalfTurn DEF timer_is_before, Diff, Time

LEMMA NearOrder ==
    ASSUME now \in Time, NEW v, NEW w, Near(v), Near(w)
    PROVE  timer_is_before(v, w) <=> Lead(v) < Lead(w)
<1>1. /\ v \in Time /\ w \in Time /\ Lead(v) \in Int /\ Lead(w) \in Int
      /\ Lead(v) = LeadFrom(now, v) /\ Lead(w) = LeadFrom(now, w)
  BY LeadIs DEF Near, Lead
<1>2. Lead(v) - Lead(w) < Half /\ Lead(w) - Lead(v) < Half
  BY <1>1, LagIs, HalfTurn DEF Near
<1> QED
  BY <1>1, <1>2, LeadOrder

LEMMA NowIsNear ==
    ASSUME now \in Time
    PROVE  Near(now) /\ Lead(now) = 0
<1>1. Lead(now) = 0
  BY LeadNow DEF Lead
<1> QED
  BY <1>1, LagIs, HalfTurn DEF Near

(* What callers ask for, and what the compare register is set to.           *)
LEMMA AheadIsNear ==
    ASSUME now \in Time, NEW v, Near(v), Lead(v) <= 0,
           NEW d \in Nat, d <= MaxAhead \/ d <= PERIOD
    PROVE  Near(Plus(v, d)) /\ Lead(Plus(v, d)) = Lead(v) + d
<1>1. v \in Time /\ Lead(v) \in Int /\ Lead(v) = LeadFrom(now, v)
  BY LeadIs DEF Near, Lead
<1>2. MaxAhead \in Nat /\ PERIOD \in Nat
  BY ClockAssumption, HalfTurn
<1>3. /\ MaxAhead + Lag(MaxShutdowns) < Half /\ PERIOD + Lag(MaxShutdowns) < Half
      /\ Lag(MaxShutdowns) \in Nat
  BY LatenessAssumption, LagIs
<1>4. d < Half /\ Lead(v) + d < Half
  BY <1>1, <1>2, <1>3, HalfTurn
<1>5. Plus(v, d) \in Time /\ Lead(Plus(v, d)) = Lead(v) + d
  BY <1>1, <1>4, LeadPlus DEF Lead
<1> QED
  BY <1>1, <1>2, <1>3, <1>5, HalfTurn DEF Near

LEMMA FromNow ==
    ASSUME now \in Time, NEW d \in 1..(Half - 1)
    PROVE  Plus(now, d) \in Time /\ Lead(Plus(now, d)) = d
<1>1. LeadFrom(now, now) = 0 /\ d \in Nat /\ d < Half /\ 0 + d < Half /\ 0 + d = d
  BY LeadNow, HalfTurn
<1> QED
  BY <1>1, LeadPlus DEF Lead

LEMMA SoonIsNear ==
    ASSUME now \in Time, NEW w \in SoonOrLate
    PROVE  Near(w) /\ -1 <= Lead(w)
<1>1. Near(now) /\ Lead(now) = 0
  BY NowIsNear
<1>2. ASSUME w \in Ahead(now) PROVE Near(w) /\ -1 <= Lead(w)
  <2>1. PICK d \in 1..MaxAhead : w = Plus(now, d)
    BY <1>2 DEF Ahead
  <2>2. d \in Nat /\ d <= MaxAhead /\ Lead(now) <= 0 /\ 0 + d >= -1
    BY <1>1, ClockAssumption
  <2> QED
    BY <1>1, <2>1, <2>2, AheadIsNear
<1>3. ASSUME w = Diff(now, 1) PROVE Near(w) /\ -1 <= Lead(w)
  <2>1. Lead(w) = -1 /\ w \in Time
    BY <1>3, LeadNow DEF Lead
  <2>2. Lag(MaxShutdowns) >= 1
    <3>1. Lag(MaxShutdowns) >= MaxLate + DEFER
      BY LagIs
    <3> QED
      BY <3>1, LagIs, ClockAssumption, HalfTurn
  <2> QED
    BY <2>1, <2>2, LagIs, HalfTurn DEF Near
<1> QED
  BY <1>1, <1>2, <1>3 DEF SoonOrLate

-----------------------------------------------------------------------------
(* The invariant, while the interrupt is not dead: what the list holds, and *)
(* how far its head may be behind the clock or the compare register.        *)
Kept ==
    armed \cup {periodic, sentinel}
    \cup (IF timer_list = deleted THEN {deleted} ELSE {})
Queue ==
    /\ List(next, Leads, timer_list, Kept)
    /\ \A t \in Kept \ {sentinel} : Near(waketime[t])
    /\ last_insert \in armed \cup {periodic}
Head == Lead(waketime[timer_list])
Timely ==
    /\ irq_source = (isr = "off")
    /\ -Lag(shutdowns) <= Head
    /\ isr = "off" /\ ~pending =>
           /\ 1 <= Lead(ccompare) /\ Lead(ccompare) - Lag(shutdowns) <= Head
           /\ timer_list # deleted => Head <= Lead(ccompare)
    /\ (isr = "off" /\ pending) \/ isr = "dispatch" =>
           (timer_list # deleted => Head <= 0)
    /\ isr = "check" => next_wake = waketime[timer_list]
AliveInv == TypeOK /\ SentinelFollows /\ Queue /\ Timely

LEMMA UserIs == \A t \in User : t # deleted /\ t \in Timer
  BY TimerAssumption DEF Static, Timer

LEMMA KeptIs ==
    ASSUME TypeOK
    PROVE  /\ periodic \in Kept \ {sentinel} /\ sentinel \in Kept
           /\ deleted \in Kept <=> timer_list = deleted
           /\ Kept \subseteq Timer
           /\ \A t \in User : t \in Kept <=> t \in armed
<1>1. armed \subseteq User /\ \A t \in User : t # deleted
  BY TimerAssumption DEF TypeOK, Static
<1>2. /\ Kept \subseteq armed \cup Static
      /\ deleted # periodic /\ deleted # sentinel
  BY Names DEF Kept, Static
<1>3. Kept \subseteq Timer
  BY <1>1, <1>2 DEF Timer
<1>4. deleted \in Kept <=> timer_list = deleted
  BY <1>1, <1>2 DEF Kept
<1>5. \A t \in User : t \in Kept <=> t \in armed
  BY <1>1, Names DEF Kept
<1> QED
  BY <1>3, <1>4, <1>5, Names DEF Kept

LEMMA LeadsIs ==
    ASSUME TypeOK
    PROVE  /\ Leads \in [Timer -> Int]
           /\ \A t \in Timer : Leads[t] = Lead(waketime[t]) /\ waketime[t] \in Time
<1>1. \A t \in Timer : waketime[t] \in Time /\ Lead(waketime[t]) \in Int
  BY LeadIs DEF TypeOK, Lead
<1> QED
  BY <1>1 DEF Leads

LEMMA HeadIsKept ==
    ASSUME AliveInv
    PROVE  /\ timer_list \in Kept \ {sentinel} /\ timer_list \in Timer
           /\ Head \in Int /\ Head = Leads[timer_list] /\ Near(waketime[timer_list])
           /\ \A t \in Kept \ {sentinel} : Head <= Leads[t]
<1>1. List(next, Leads, timer_list, Kept) /\ TypeOK
  BY DEF AliveInv, Queue
<1>2. timer_list \in Kept /\ timer_list # sentinel
  <2>1. Kept # {sentinel}
    BY <1>1, KeptIs
  <2> QED
    BY <1>1, <2>1, ListIs, HeadIs, Zenon
<1>3. timer_list \in Timer
  BY <1>1 DEF TypeOK
<1>4. Head \in Int /\ Head = Leads[timer_list]
  BY <1>1, <1>3, LeadsIs DEF Head
<1>5. Near(waketime[timer_list])
  BY <1>2, Zenon DEF AliveInv, Queue
<1> QED
  BY <1>1, <1>2, <1>3, <1>4, <1>5, ListIs

(* Steps that leave the list and the clock alone.                           *)
LEMMA Unmoved ==
    ASSUME Queue, UNCHANGED <<now, next, waketime, timer_list, last_insert, armed>>
    PROVE  Queue' /\ Head' = Head
<1>1. Leads' = Leads /\ Kept' = Kept
  BY DEF Leads, Lead, Kept
<1>2. \A w : Near(w)' <=> Near(w)
  BY DEF Near, Lead
<1>3. Head' = Head
  BY DEF Head, Lead
<1> QED
  BY <1>1, <1>2, <1>3 DEF Queue

LEMMA TickAlive ==
    ASSUME AliveInv, Tick
    PROVE  AliveInv'
<1> DEFINE n == Plus(now, 1)
<1>1. /\ TypeOK /\ Queue /\ now \in Time /\ n \in Time /\ now' = n
      /\ UNCHANGED <<next, timer_list, last_insert, waketime, shutdown_status,
                     ccompare, irq_source, isr, running, next_wake, armed, shutdowns>>
  <2>1. now \in Time /\ 1 \in 0..Half
    BY HalfTurn DEF AliveInv, TypeOK
  <2> QED
    BY <2>1, PlusIsTime DEF Tick, list, dispatch, AliveInv
<1>2. ASSUME NEW w \in Time, Lead(w) > -Half PROVE LeadFrom(n, w) = Lead(w) - 1
  BY <1>1, <1>2, LeadTick DEF Lead
<1>3. ASSUME NEW t \in Kept \ {sentinel}
      PROVE  /\ Lead(waketime[t]) \in Int /\ Leads[t] = Lead(waketime[t])
             /\ Leads'[t] = Leads[t] - 1 /\ waketime[t] \in Time
             /\ Leads[t] + Lag(MaxShutdowns) < Half /\ t \in Timer
             /\ LeadFrom(n, waketime[t]) = Lead(waketime[t]) - 1
  <2>1. t \in Timer /\ Near(waketime[t])
    BY <1>1, KeptIs DEF Queue
  <2>2. Leads[t] = Lead(waketime[t]) /\ waketime[t] \in Time /\ Leads[t] \in Int
    BY <1>1, <2>1, LeadsIs
  <2>3. Lead(waketime[t]) > -Half
    BY <2>1, <2>2, LagIs, HalfTurn DEF Near
  <2>4. Leads'[t] = LeadFrom(n, waketime[t])
    BY <1>1, <2>1 DEF Leads, Lead
  <2> QED
    BY <1>2, <2>1, <2>2, <2>3, <2>4 DEF Near
<1>4. /\ Kept' = Kept /\ timer_list \in Kept \ {sentinel} /\ Head = Leads[timer_list]
      /\ \A t \in Kept \ {sentinel} : Head <= Leads[t]
  BY <1>1, HeadIsKept DEF Kept
<1>5. Head' = Head - 1 /\ Head \in Int
  BY <1>1, <1>3, <1>4 DEF Head, Lead
<1>6. ASSUME isr = "off" => pending PROVE -MaxLate <= Head - 1
  <2>1. timer_is_before(now, Plus(waketime[timer_list], MaxLate))
    BY <1>1, <1>6 DEF Tick, AliveInv, Timely, TypeOK
  <2> DEFINE w == waketime[timer_list]
  <2>2. w \in Time /\ Lead(w) = Head /\ Head + Lag(MaxShutdowns) < Half
    BY <1>3, <1>4
  <2>3. /\ MaxLate \in Nat /\ MaxLate < Half /\ Head + MaxLate < Half
        /\ MaxLate + Head > -Half
    <3>1. /\ MaxLate + DEFER <= Lag(MaxShutdowns) /\ Lag(MaxShutdowns) < Half
          /\ Lag(MaxShutdowns) \in Nat /\ DEFER \in Nat /\ MaxLate \in Nat
      BY LagIs, ClockAssumption, HalfTurn
    <3>2. Near(w)
      BY <1>1, <1>4 DEF Queue
    <3> QED
      BY <1>5, <2>2, <3>1, <3>2, HalfTurn DEF Near
  <2>4. Plus(w, MaxLate) \in Time /\ LeadFrom(now, Plus(w, MaxLate)) = Head + MaxLate
    BY <1>1, <2>2, <2>3, LeadPlus DEF Lead
  <2>5. LeadFrom(now, now) = 0
    BY <1>1, LeadNow
  <2>6. 0 < Head + MaxLate
    <3> DEFINE x == Plus(w, MaxLate)
    <3>1. x \in Time /\ LeadFrom(now, x) = Head + MaxLate /\ timer_is_before(now, x)
      BY <2>1, <2>4
    <3> HIDE DEF x
    <3>2. /\ LeadFrom(now, now) - LeadFrom(now, x) < Half
          /\ LeadFrom(now, x) - LeadFrom(now, now) < Half
      BY <1>5, <2>3, <2>5, <3>1, HalfTurn
    <3>3. LeadFrom(now, now) < LeadFrom(now, x)
      BY <1>1, <3>1, <3>2, LeadOrder
    <3> QED
      BY <2>5, <3>1, <3>3
  <2> QED
    BY <1>5, <2>3, <2>6
<1>7. /\ shutdowns \in 0..MaxShutdowns /\ Lag(shutdowns) \in Nat
      /\ Lag(shutdowns) <= Lag(MaxShutdowns) /\ MaxLate + DEFER <= Lag(shutdowns)
      /\ MaxLate \in Nat /\ DEFER \in Nat /\ Lag(MaxShutdowns) \in Nat
  BY <1>1, LagIs, ClockAssumption, HalfTurn DEF TypeOK
<1>8. isr = "off" /\ ~pending =>
          /\ 1 <= Lead(ccompare) /\ Lead(ccompare) - Lag(shutdowns) <= Head
          /\ timer_list # deleted => Head <= Lead(ccompare)
  BY DEF AliveInv, Timely
<1>9. /\ ccompare \in Time /\ Lead(ccompare) \in Int
      /\ Lead(ccompare) = LeadFrom(now, ccompare)
  BY <1>1, LeadIs DEF TypeOK, Lead
<1>10. isr = "off" /\ ~pending =>
          /\ LeadFrom(n, ccompare) = Lead(ccompare) - 1
          /\ (n = ccompare <=> LeadFrom(n, ccompare) = 0)
  <2>1. 1 <= Lead(ccompare) => Lead(ccompare) > -Half
    BY <1>9, HalfTurn
  <2>2. n = ccompare <=> LeadFrom(n, ccompare) = 0
    BY <1>1, <1>9, HalfTurn DEF LeadFrom, Signed, Diff, Time
  <2> QED
    BY <1>2, <1>8, <1>9, <2>1, <2>2
<1>11. -Lag(shutdowns) <= Head - 1
  <2>1. CASE isr = "off" => pending
    BY <1>5, <1>6, <1>7, <2>1
  <2>2. CASE isr = "off" /\ ~pending
    BY <1>5, <1>7, <1>8, <1>9, <2>2
  <2> QED
    BY <2>1, <2>2
<1>12. Timely'
  <2>1. -Lag(shutdowns') <= Head'
    BY <1>1, <1>5, <1>11
  <2>2. irq_source' = (isr' = "off")
    BY <1>1 DEF AliveInv, Timely
  <2>3. isr' = "check" => next_wake' = waketime'[timer_list']
    BY <1>1, Zenon DEF AliveInv, Timely
  <2>4. CASE isr = "off" => pending
    <3>1. isr' = "off" => pending'
      BY <1>1, <2>4 DEF Tick
    <3>2. (isr' = "off" /\ pending') \/ isr' = "dispatch" =>
              (timer_list' # deleted => Head' <= 0)
      <4>1. isr = "off" \/ isr = "dispatch" => (timer_list # deleted => Head <= 0)
        BY <2>4, Zenon DEF AliveInv, Timely
      <4>2. Head <= 0 => Head' <= 0
        BY <1>5
      <4> QED
        BY <1>1, <4>1, <4>2
    <3> QED
      BY <2>1, <2>2, <2>3, <3>1, <3>2, Zenon DEF Timely
  <2>5. CASE isr = "off" /\ ~pending
    <3>1. pending' <=> n = ccompare
      BY <1>1, <2>5 DEF Tick
    <3>2. Lead(ccompare)' = Lead(ccompare) - 1
      BY <1>1, <1>10, <2>5 DEF Lead
    <3>3. ~pending' => 1 <= Lead(ccompare)'
      BY <1>1, <1>8, <1>9, <1>10, <2>5, <3>1, <3>2 DEF Lead
    <3>4. Lead(ccompare)' - Lag(shutdowns') <= Head'
      BY <1>1, <1>5, <1>7, <1>8, <1>9, <2>5, <3>2
    <3>5. timer_list' # deleted => Head' <= Lead(ccompare)'
      BY <1>1, <1>5, <1>8, <1>9, <2>5, <3>2
    <3>6. pending' => Lead(ccompare)' = 0
      BY <1>10, <2>5, <3>1, <1>1 DEF Lead
    <3>7. pending' => (timer_list' # deleted => Head' <= 0)
      BY <3>5, <3>6
    <3>8. isr' = "off"
      BY <1>1, <2>5
    <3> QED
      BY <2>1, <2>2, <2>3, <3>3, <3>4, <3>5, <3>7, <3>8 DEF Timely
  <2> QED
    BY <2>4, <2>5
<1>13. List(next', Leads', timer_list', Kept')
  <2>1. \A t, v \in Kept \ {sentinel} : Leads[t] <= Leads[v] => Leads'[t] <= Leads'[v]
    BY <1>3
  <2>2. List(next, Leads, timer_list, Kept)
    BY <1>1 DEF Queue
  <2> QED
    BY <1>1, <1>4, <2>1, <2>2, ListShift
<1>14. ASSUME NEW t \in Kept \ {sentinel} PROVE Near(waketime[t])'
  <2>1. -Lag(MaxShutdowns) <= Leads[t] - 1
    BY <1>3, <1>4, <1>5, <1>7, <1>11
  <2>2. Lead(waketime[t])' = Leads[t] - 1
    BY <1>1, <1>3 DEF Lead
  <2>3. (Leads[t] - 1) + Lag(MaxShutdowns) < Half
    BY <1>3, <1>7, HalfTurn
  <2>4. waketime'[t] \in Time
    BY <1>1, <1>3
  <2> QED
    BY <2>1, <2>2, <2>3, <2>4 DEF Near
<1>15. Queue'
  BY <1>1, <1>4, <1>13, <1>14 DEF Queue
<1>16. TypeOK'
  BY <1>1 DEF Tick, TypeOK
<1>17. SentinelFollows'
  BY <1>1 DEF AliveInv, SentinelFollows
<1> QED
  BY <1>12, <1>15, <1>16, <1>17 DEF AliveInv

-----------------------------------------------------------------------------
(* The timers that tasks add and delete, and the reset of the list.         *)

(* Unchanged times stay near.                                               *)
LEMMA NearStays ==
    ASSUME now' = now, NEW w
    PROVE  (Near(w)' <=> Near(w)) /\ Lead(w)' = Lead(w)
  BY DEF Near, Lead

LEMMA KickIs ==
    ASSUME TypeOK, Kick, now' = now
    PROVE  /\ ccompare' \in Time /\ Lead(ccompare)' = KICK /\ pending' = FALSE
           /\ KICK \in Nat /\ 1 <= KICK /\ KICK + 1 <= MaxLate /\ MaxLate \in Nat
<1>1. KICK \in 1..(Half - 1) /\ KICK + 1 <= MaxLate /\ MaxLate \in Nat
  BY ClockAssumption, HalfTurn
<1>2. Plus(now, KICK) \in Time /\ Lead(Plus(now, KICK)) = KICK
  BY <1>1, FromNow DEF TypeOK
<1>3. ccompare' = Plus(now, KICK) /\ pending' = FALSE
  BY DEF Kick, SetCompare
<1> QED
  BY <1>1, <1>2, <1>3, HalfTurn DEF Lead

LEMMA LagNow ==
    ASSUME TypeOK
    PROVE  /\ Lag(shutdowns) \in Nat /\ MaxLate + DEFER <= Lag(shutdowns)
           /\ MaxLate \in Nat /\ DEFER \in Nat /\ 1 <= DEFER
           /\ Lag(shutdowns) <= Lag(MaxShutdowns) /\ Lag(MaxShutdowns) \in Nat
           /\ shutdowns \in Nat
  BY LagIs, ClockAssumption, HalfTurn DEF TypeOK

LEMMA SentinelStays ==
    ASSUME SentinelFollows, NEW wk, waketime' = wk,
           wk[periodic] = waketime[periodic], wk[sentinel] = waketime[sentinel]
    PROVE  SentinelFollows'
  BY DEF SentinelFollows

LEMMA AddFirstAlive ==
    ASSUME AliveInv, NEW t \in User, NEW w \in SoonOrLate, sched_add_timer(t, w),
           AddFirst(t, w)
    PROVE  AliveInv'
<1> DEFINE h == IF timer_list = deleted THEN next[deleted] ELSE timer_list
           S == Kept \ {deleted}
           nx == [next EXCEPT ![t] = h, ![deleted] = t]
           wk == [waketime EXCEPT ![t] = w, ![deleted] = w]
           o == [v \in Timer |-> Lead(wk[v])]
<1>1. /\ TypeOK /\ Queue /\ Timely /\ SentinelFollows /\ now \in Time
      /\ next \in [Timer -> Timer \cup {Null}] /\ waketime \in [Timer -> Time]
  BY DEF AliveInv, TypeOK
<1>2. /\ isr = "off" /\ t \notin armed /\ armed' = armed \cup {t}
      /\ next' = nx /\ waketime' = wk /\ timer_list' = deleted /\ Kick
      /\ timer_is_before(w, waketime[timer_list])
      /\ UNCHANGED <<now, last_insert, shutdown_status, irq_source, dispatch, shutdowns>>
  BY DEF sched_add_timer, AddFirst
<1>3. Near(w) /\ -1 <= Lead(w) /\ Lead(w) \in Int /\ w \in Time
  BY <1>1, SoonIsNear, LeadIs DEF Near, Lead
<1>4. /\ t \in Timer /\ deleted \in Timer /\ t # deleted /\ t # periodic /\ t # sentinel
      /\ t \notin Kept /\ Kept \subseteq Timer /\ deleted # sentinel
      /\ deleted # periodic
  BY <1>1, <1>2, KeptIs, Names
<1>5. List(next, Leads, h, S)
  <2>1. CASE timer_list = deleted
    BY <1>1, <1>4, <2>1, ListTail DEF Queue
  <2>2. CASE timer_list # deleted
    <3>1. S = Kept
      BY <1>1, <2>2, KeptIs
    <3> QED
      BY <1>1, <2>2, <3>1 DEF Queue
  <2> QED
    BY <2>1, <2>2
<1>6. h \in S /\ h \in Timer
  <2>1. h \in S
    BY <1>5, ListIs
  <2> QED
    BY <1>4, <2>1
<1> HIDE DEF h
<1>7. /\ nx \in [Timer -> Timer \cup {Null}] /\ wk \in [Timer -> Time]
      /\ nx[t] = h /\ nx[deleted] = t /\ wk[t] = w /\ wk[deleted] = w
      /\ \A v \in Timer : v # t /\ v # deleted => nx[v] = next[v] /\ wk[v] = waketime[v]
  BY <1>1, <1>3, <1>4, <1>6
<1> HIDE DEF nx, wk
<1>8. ASSUME NEW v \in S
      PROVE  v \in Timer /\ v # t /\ v # deleted /\ nx[v] = next[v] /\ o[v] = Leads[v]
  BY <1>4, <1>7 DEF Leads
<1>9. o[t] = Lead(w) /\ o[deleted] = Lead(w)
  BY <1>4, <1>7
<1>10. ASSUME NEW v \in S \ {sentinel} PROVE Lead(w) <= o[v]
  <2>1. Lead(w) < Head /\ Head \in Int
    <3>2. Near(waketime[timer_list]) /\ Head \in Int
      BY HeadIsKept
    <3> QED
      BY <1>1, <1>2, <1>3, <3>2, NearOrder DEF Head
  <2>2. Head <= Leads[v] /\ Leads[v] \in Int
    BY <1>1, <1>8, HeadIsKept, LeadsIs
  <2> QED
    BY <1>3, <1>8, <2>1, <2>2
<1> HIDE DEF o
<1>11. List(nx, o, h, S)
  BY <1>5, <1>8, ListFrame
<1>12. List(nx, o, t, S \cup {t})
  BY <1>3, <1>4, <1>7, <1>9, <1>10, <1>11, ListPush
<1>13. List(nx, o, deleted, (S \cup {t}) \cup {deleted})
  <2>1. \A v \in (S \cup {t}) \ {sentinel} : o[deleted] <= o[v]
    BY <1>3, <1>9, <1>10
  <2>2. deleted \in Timer \ (S \cup {t}) /\ nx[deleted] = t /\ o[deleted] \in Int
    BY <1>3, <1>4, <1>7, <1>9
  <2> QED
    BY <1>12, <2>1, <2>2, ListPush
<1>14. Kept' = (S \cup {t}) \cup {deleted}
  BY <1>2, <1>4 DEF Kept
<1>15. Leads' = o
  BY <1>2 DEF Leads, Lead, o
<1>16. Queue'
  <2>1. List(next', Leads', timer_list', Kept')
    BY <1>2, <1>13, <1>14, <1>15
  <2>2. ASSUME NEW v \in Kept' \ {sentinel} PROVE Near(waketime[v])'
    <3>1. CASE v \in S
      <4>1. waketime'[v] = waketime[v] /\ Near(waketime[v])
        BY <1>1, <1>2, <1>7, <1>8, <2>2, <3>1 DEF Queue
      <4> QED
        BY <1>2, <4>1, NearStays DEF Near, Lead
    <3>2. CASE v = t \/ v = deleted
      <4>1. waketime'[v] = w
        BY <1>2, <1>7, <3>2
      <4> QED
        BY <1>2, <1>3, <4>1 DEF Near, Lead
    <3> QED
      BY <1>14, <2>2, <3>1, <3>2
  <2>3. last_insert' \in armed' \cup {periodic}
    BY <1>1, <1>2 DEF Queue
  <2> QED
    BY <2>1, <2>2, <2>3 DEF Queue
<1>17. Timely'
  <2>1. Head' = Lead(w)
    BY <1>2, <1>7 DEF Head, Lead
  <2>2. isr' = "off" /\ irq_source' = TRUE /\ irq_source' \in BOOLEAN
    BY <1>1, <1>2 DEF Timely, dispatch
  <2>3. /\ Lead(ccompare)' = KICK /\ pending' = FALSE /\ KICK \in Nat /\ 1 <= KICK
        /\ KICK + 1 <= MaxLate
    BY <1>1, <1>2, KickIs
  <2>4. Lag(shutdowns') = Lag(shutdowns)
    BY <1>2
  <2>5. -Lag(shutdowns) <= Lead(w) /\ KICK - Lag(shutdowns) <= Lead(w)
    BY <1>1, <1>3, <2>3, LagNow
  <2> QED
    BY <1>2, <2>1, <2>2, <2>3, <2>4, <2>5 DEF Timely
<1>18. TypeOK'
  <2>1. timer_list' \in Timer /\ armed' \subseteq User
    BY <1>1, <1>2, <1>4 DEF TypeOK
  <2>2. ccompare' \in Time /\ pending' \in BOOLEAN
    BY <1>1, <1>2, KickIs
  <2> QED
    BY <1>1, <1>2, <1>7, <2>1, <2>2 DEF TypeOK, dispatch
<1>19. SentinelFollows'
  BY <1>1, <1>2, <1>4, <1>7, Names, SentinelStays
<1> QED
  BY <1>16, <1>17, <1>18, <1>19 DEF AliveInv

LEMMA BeforeLeads ==
    ASSUME TypeOK, Queue, NEW w, Near(w)
    PROVE  \A v \in Kept \ {sentinel} :
               timer_is_before(w, waketime[v]) <=> Lead(w) < Leads[v]
<1>1. now \in Time
  BY DEF TypeOK
<1>2. ASSUME NEW v \in Kept \ {sentinel}
      PROVE  timer_is_before(w, waketime[v]) <=> Lead(w) < Leads[v]
  <2>1. Near(waketime[v]) /\ v \in Timer
    BY KeptIs DEF Queue
  <2>2. Leads[v] = Lead(waketime[v])
    BY <2>1, LeadsIs
  <2> QED
    BY <1>1, <2>1, <2>2, NearOrder
<1> QED
  BY <1>2

LEMMA AddLaterAlive ==
    ASSUME AliveInv, NEW t \in User, NEW w \in SoonOrLate, sched_add_timer(t, w),
           AddLater(t, w)
    PROVE  AliveInv'
<1> DEFINE wk == [waketime EXCEPT ![t] = w]
           o == [v \in Timer |-> Lead(wk[v])]
           nx == Inserted(next, waketime, timer_list, t, w)
<1>1. /\ TypeOK /\ Queue /\ Timely /\ SentinelFollows /\ now \in Time
      /\ next \in [Timer -> Timer \cup {Null}] /\ waketime \in [Timer -> Time]
  BY DEF AliveInv, TypeOK
<1>2. /\ isr = "off" /\ t \notin armed /\ armed' = armed \cup {t}
      /\ next' = nx /\ waketime' = wk /\ timer_list' = timer_list
      /\ ~timer_is_before(w, waketime[timer_list])
      /\ UNCHANGED <<now, last_insert, shutdown_status, irq_source, dispatch, shutdowns,
                     ccompare, pending>>
  BY DEF sched_add_timer, AddLater
<1>3. Near(w) /\ Lead(w) \in Int /\ w \in Time
  BY <1>1, SoonIsNear, LeadIs DEF Near, Lead
<1>4. /\ t \in Timer /\ t # deleted /\ t # periodic /\ t # sentinel
      /\ t \notin Kept /\ Kept \subseteq Timer
  BY <1>1, <1>2, KeptIs, Names, UserIs
<1>5. /\ wk \in [Timer -> Time] /\ wk[t] = w
      /\ \A v \in Timer : v # t => wk[v] = waketime[v]
  BY <1>1, <1>3, <1>4
<1> HIDE DEF wk
<1>6. /\ o \in [Timer -> Int] /\ o[t] = Lead(w)
      /\ \A v \in Kept : o[v] = Leads[v] /\ wk[v] = waketime[v]
  <2>1. \A v \in Timer : wk[v] \in Time /\ Lead(wk[v]) \in Int
    BY <1>1, <1>5, LeadIs DEF Lead
  <2> QED
    BY <1>4, <1>5, <2>1 DEF Leads
<1> HIDE DEF o
<1>7. List(next, o, timer_list, Kept)
  <2>1. List(next, Leads, timer_list, Kept)
    BY <1>1 DEF Queue
  <2> QED
    BY <1>6, <2>1, ListFrame
<1>8. \A v \in Kept \ {sentinel} : timer_is_before(w, waketime[v]) <=> o[t] < o[v]
  BY <1>1, <1>3, <1>6, BeforeLeads
<1>9. (\A v \in Kept \ {sentinel} : o[v] <= o[t])
          => timer_is_before(w, waketime[sentinel])
  <2> SUFFICES ASSUME \A v \in Kept \ {sentinel} : o[v] <= o[t]
               PROVE  timer_is_before(w, waketime[sentinel])
    OBVIOUS
  <2>1. periodic \in Kept \ {sentinel} /\ periodic \in Timer
    BY <1>1, KeptIs, Names
  <2>2. ~(o[t] < o[periodic])
    <3>1. o[periodic] <= o[t] /\ o[periodic] \in Int /\ o[t] \in Int
      BY <1>4, <1>6, <2>1
    <3> QED
      BY <3>1
  <2>3. ~timer_is_before(w, waketime[periodic]) /\ waketime[periodic] \in Time
    BY <1>1, <1>8, <2>1, <2>2
  <2> QED
    BY <1>1, <1>3, <2>3, HalfLater DEF SentinelFollows
<1>10. timer_list \in Kept \ {sentinel} /\ o[timer_list] <= o[t]
  <2>1. timer_list \in Kept \ {sentinel} /\ timer_list \in Timer
    BY HeadIsKept
  <2>2. ~(o[t] < o[timer_list])
    BY <1>2, <1>8, <2>1
  <2> QED
    BY <1>4, <1>6, <2>1, <2>2
<1>11. nx \in [Timer -> Timer \cup {Null}] /\ List(nx, o, timer_list, Kept \cup {t})
  <2>1. t \in Timer \ Kept
    BY <1>4
  <2> QED
    BY <1>1, <1>6, <1>7, <1>8, <1>9, <1>10, <2>1, ListInsert
<1> HIDE DEF nx
<1>12. Kept' = Kept \cup {t}
  BY <1>2 DEF Kept
<1>13. Leads' = o
  BY <1>2 DEF Leads, Lead, o
<1>14. Queue'
  <2>1. List(next', Leads', timer_list', Kept')
    BY <1>2, <1>11, <1>12, <1>13
  <2>2. ASSUME NEW v \in Kept' \ {sentinel} PROVE Near(waketime[v])'
    <3>1. Near(waketime'[v])
      BY <1>1, <1>2, <1>3, <1>5, <1>6, <1>12, <2>2 DEF Queue
    <3> QED
      BY <1>2, <3>1 DEF Near, Lead
  <2>3. last_insert' \in armed' \cup {periodic}
    BY <1>1, <1>2 DEF Queue
  <2> QED
    BY <2>1, <2>2, <2>3 DEF Queue
<1>15. Timely'
  <2>1. Head' = Head
    BY <1>2, <1>6, <1>10 DEF Head, Lead
  <2>2. Lead(ccompare)' = Lead(ccompare)
    BY <1>2 DEF Lead
  <2>3. UNCHANGED <<isr, irq_source, pending, shutdowns, timer_list>> /\ isr = "off"
    BY <1>2 DEF dispatch
  <2> QED
    BY <1>1, <2>1, <2>2, <2>3 DEF Timely
<1>16. TypeOK'
  <2>1. armed' \subseteq User
    BY <1>1, <1>2 DEF TypeOK
  <2> QED
    BY <1>1, <1>2, <1>5, <1>11, <2>1 DEF TypeOK, dispatch
<1>17. SentinelFollows'
  BY <1>1, <1>2, <1>4, <1>5, Names, SentinelStays
<1> QED
  BY <1>14, <1>15, <1>16, <1>17 DEF AliveInv

LEMMA DeleteAlive ==
    ASSUME AliveInv, NEW t \in User, sched_del_timer(t)
    PROVE  AliveInv'
<1>1. /\ TypeOK /\ Queue /\ Timely /\ SentinelFollows /\ now \in Time
      /\ next \in [Timer -> Timer \cup {Null}] /\ waketime \in [Timer -> Time]
      /\ List(next, Leads, timer_list, Kept)
  BY DEF AliveInv, TypeOK, Queue
<1>2. /\ isr = "off" /\ armed' = armed \ {t}
      /\ next' = Unlinked(t).next /\ waketime' = Unlinked(t).wake
      /\ timer_list' = Unlinked(t).head /\ last_insert' = HintAfterDelete(t)
      /\ UNCHANGED <<now, shutdown_status, hardware, dispatch, shutdowns>>
  BY DEF sched_del_timer
<1>3. /\ t \in Timer /\ deleted \in Timer /\ t # deleted /\ t # periodic /\ t # sentinel
      /\ Kept \subseteq Timer /\ deleted # sentinel /\ deleted # periodic
  BY <1>1, KeptIs, Names, UserIs
<1>4. last_insert' \in armed' \cup {periodic}
  BY <1>1, <1>2 DEF Queue, HintAfterDelete
<1>5. /\ UNCHANGED <<now, shutdown_status, ccompare, pending, irq_source, isr, running,
                     next_wake, shutdowns>>
      /\ last_insert' \in Timer /\ armed' \subseteq User
  BY <1>1, <1>2, <1>3, <1>4, Names DEF hardware, dispatch, TypeOK
<1>6. CASE timer_list = t
  <2> DEFINE nx == [next EXCEPT ![deleted] = next[t]]
             wk == [waketime EXCEPT ![deleted] = waketime[t]]
             o == [v \in Timer |-> Lead(wk[v])]
             S == Kept \ {t}
  <2>1. next' = nx /\ waketime' = wk /\ timer_list' = deleted
    BY <1>2, <1>6 DEF Unlinked
  <2>2. deleted \notin Kept
    BY <1>1, <1>3, <1>6, KeptIs
  <2>3. List(next, Leads, next[t], S) /\ next[t] \in S
    <3>1. List(next, Leads, next[t], S)
      BY <1>1, <1>3, <1>6, ListTail
    <3> QED
      BY <3>1, ListIs
  <2>4. /\ nx \in [Timer -> Timer \cup {Null}] /\ wk \in [Timer -> Time]
        /\ nx[deleted] = next[t] /\ wk[deleted] = waketime[t]
        /\ \A v \in Timer : v # deleted => nx[v] = next[v] /\ wk[v] = waketime[v]
    BY <1>1, <1>3, <2>3
  <2> HIDE DEF nx, wk
  <2>5. /\ \A v \in S : o[v] = Leads[v] /\ nx[v] = next[v]
        /\ o[deleted] = Head /\ Head \in Int
    <3>1. Head \in Int
      BY HeadIsKept
    <3> QED
      BY <1>3, <1>6, <2>2, <2>4, <3>1 DEF Leads, Head
  <2> HIDE DEF o
  <2>6. List(nx, o, next[t], S)
    BY <2>3, <2>5, ListFrame
  <2>7. List(nx, o, deleted, S \cup {deleted})
    <3>1. \A v \in S \ {sentinel} : o[deleted] <= o[v]
      BY <2>5, HeadIsKept
    <3>2. deleted \in Timer \ S
      BY <1>3, <2>2
    <3> QED
      BY <2>4, <2>5, <2>6, <3>1, <3>2, ListPush
  <2>8. Kept' = S \cup {deleted}
    BY <1>2, <1>3, <1>6, <2>1, <2>2 DEF Kept
  <2>9. Leads' = o
    BY <1>5, <2>1 DEF Leads, Lead, o
  <2>10. Queue'
    <3>1. List(next', Leads', timer_list', Kept')
      BY <2>1, <2>7, <2>8, <2>9
    <3>2. ASSUME NEW v \in Kept' \ {sentinel} PROVE Near(waketime[v])'
      <4>1. Near(waketime'[v])
        <5>1. CASE v = deleted
          BY <2>1, <2>4, <1>6, <5>1, HeadIsKept
        <5>2. CASE v \in S
          <6>1. v \in Timer /\ v # deleted /\ v \in Kept \ {sentinel}
            BY <1>3, <2>2, <3>2, <5>2
          <6> QED
            BY <1>1, <2>1, <2>4, <6>1 DEF Queue
        <5> QED
          BY <2>8, <3>2, <5>1, <5>2
      <4> QED
        BY <1>5, <4>1 DEF Near, Lead
    <3> QED
      BY <1>4, <3>1, <3>2 DEF Queue
  <2>11. Timely'
    <3>1. Head' = Head
      BY <1>5, <1>6, <2>1, <2>4 DEF Head, Lead
    <3>2. Lead(ccompare)' = Lead(ccompare)
      BY <1>5 DEF Lead
    <3> QED
      BY <1>1, <1>2, <1>3, <1>5, <1>6, <2>1, <3>1, <3>2 DEF Timely
  <2>12. TypeOK'
    BY <1>1, <1>3, <1>5, <2>1, <2>4 DEF TypeOK
  <2>13. SentinelFollows'
    BY <1>1, <1>3, <2>1, <2>4, Names, SentinelStays
  <2> QED
    BY <2>10, <2>11, <2>12, <2>13 DEF AliveInv
<1>7. CASE timer_list # t
  <2> DEFINE nx == [v \in Timer |-> IF v \in OnList /\ next[v] = t
                                    THEN next[t] ELSE next[v]]
  <2>1. next' = nx /\ waketime' = waketime /\ timer_list' = timer_list
    BY <1>2, <1>7 DEF Unlinked
  <2>2. OnList = Kept
    BY <1>1, ListIs DEF OnList
  <2>3. nx \in [Timer -> Timer \cup {Null}]
    BY <1>1, <1>3
  <2>4. \A v \in Kept : nx[v] = IF next[v] = t THEN next[t] ELSE next[v]
    BY <1>3, <2>2
  <2> HIDE DEF nx
  <2>5. List(nx, Leads, timer_list, Kept \ {t})
    BY <1>1, <1>3, <1>7, <2>4, ListRemove
  <2>6. Kept' = Kept \ {t}
    BY <1>2, <1>3, <2>1 DEF Kept
  <2>7. Leads' = Leads
    BY <1>5, <2>1 DEF Leads, Lead
  <2>8. Queue'
    <3>1. ASSUME NEW v \in Kept' \ {sentinel} PROVE Near(waketime[v])'
      <4>1. Near(waketime[v])
        BY <1>1, <2>6, <3>1 DEF Queue
      <4> QED
        BY <1>5, <2>1, <4>1 DEF Near, Lead
    <3> QED
      BY <1>4, <2>1, <2>5, <2>6, <2>7, <3>1 DEF Queue
  <2>9. Timely'
    <3>1. Head' = Head /\ Lead(ccompare)' = Lead(ccompare)
      BY <1>5, <2>1 DEF Head, Lead
    <3> QED
      BY <1>1, <1>2, <1>5, <2>1, <3>1 DEF Timely
  <2>10. TypeOK'
    BY <1>1, <1>5, <2>1, <2>3 DEF TypeOK
  <2>11. SentinelFollows'
    BY <1>1, <2>1 DEF SentinelFollows
  <2> QED
    BY <2>8, <2>9, <2>10, <2>11 DEF AliveInv
<1> QED
  BY <1>6, <1>7

(* The list after a shutdown outside of the interrupt.                      *)
LEMMA ShutdownAlive ==
    ASSUME AliveInv, isr = "off", RunShutdown
    PROVE  AliveInv'
<1> DEFINE nx == [next EXCEPT ![deleted] = periodic, ![periodic] = sentinel]
           wk == [waketime EXCEPT ![deleted] = waketime[periodic]]
           o == [v \in Timer |-> Lead(wk[v])]
<1>1. /\ TypeOK /\ Queue /\ Timely /\ SentinelFollows /\ now \in Time
      /\ next \in [Timer -> Timer \cup {Null}] /\ waketime \in [Timer -> Time]
      /\ List(next, Leads, timer_list, Kept)
  BY DEF AliveInv, TypeOK, Queue
<1>2. /\ next' = nx /\ waketime' = wk /\ timer_list' = deleted
      /\ last_insert' = periodic /\ armed' = {} /\ Kick
      /\ shutdowns < MaxShutdowns /\ shutdowns' = shutdowns + 1 /\ shutdown_status' = 1
      /\ isr' = "off" /\ running' = Null /\ next_wake' = 0
      /\ UNCHANGED <<now, irq_source>>
  BY DEF RunShutdown, ResetTimers
<1>3. /\ periodic \in Timer /\ deleted \in Timer /\ sentinel \in Timer
      /\ deleted # periodic /\ deleted # sentinel /\ periodic # sentinel
      /\ periodic \in Kept \ {sentinel}
  BY <1>1, KeptIs, Names
<1>4. /\ nx \in [Timer -> Timer \cup {Null}] /\ wk \in [Timer -> Time]
      /\ nx[deleted] = periodic /\ nx[periodic] = sentinel /\ nx[sentinel] = Null
      /\ wk[deleted] = waketime[periodic] /\ wk[periodic] = waketime[periodic]
      /\ wk[sentinel] = waketime[sentinel]
  <2>1. next[sentinel] = Null
    BY <1>1, ListIs
  <2> QED
    BY <1>1, <1>3, <2>1
<1> HIDE DEF nx, wk
<1>5. /\ o[deleted] = Leads[periodic] /\ o[periodic] = Leads[periodic]
      /\ Leads[periodic] \in Int
  BY <1>1, <1>3, <1>4, LeadsIs
<1> HIDE DEF o
<1>6. List(nx, o, deleted, ({sentinel} \cup {periodic}) \cup {deleted})
  <2>1. List(nx, o, sentinel, {sentinel})
    BY <1>4, ListEnd
  <2>2. List(nx, o, periodic, {sentinel} \cup {periodic})
    BY <1>3, <1>4, <1>5, <2>1, ListPush
  <2>3. \A v \in ({sentinel} \cup {periodic}) \ {sentinel} : o[deleted] <= o[v]
    BY <1>5
  <2> QED
    BY <1>3, <1>4, <1>5, <2>2, <2>3, ListPush
<1>7. Kept' = ({sentinel} \cup {periodic}) \cup {deleted}
  BY <1>2 DEF Kept
<1>8. Leads' = o
  BY <1>2 DEF Leads, Lead, o
<1>9. Queue'
  <2>1. ASSUME NEW v \in Kept' \ {sentinel} PROVE Near(waketime[v])'
    <3>1. waketime'[v] = waketime[periodic] /\ Near(waketime[periodic])
      BY <1>1, <1>2, <1>3, <1>4, <1>7, <2>1 DEF Queue
    <3> QED
      BY <1>2, <3>1 DEF Near, Lead
  <2> QED
    BY <1>2, <1>6, <1>7, <1>8, <2>1 DEF Queue
<1>10. Timely'
  <2>1. Head' = Leads[periodic]
    BY <1>1, <1>2, <1>3, <1>4, LeadsIs DEF Head, Lead
  <2>2. Head <= Leads[periodic] /\ Head \in Int /\ -Lag(shutdowns) <= Head
    BY <1>1, <1>3, HeadIsKept DEF Timely
  <2>3. /\ Lead(ccompare)' = KICK /\ pending' = FALSE /\ KICK \in Nat /\ 1 <= KICK
    BY <1>1, <1>2, KickIs
  <2>4. Lag(shutdowns') = Lag(shutdowns) + KICK /\ Lag(shutdowns) \in Nat
    BY <1>1, <1>2, LagIs DEF TypeOK
  <2>5. irq_source' = TRUE
    BY <1>1, <1>2 DEF Timely
  <2>6. -Lag(shutdowns') <= Leads[periodic] /\ KICK - Lag(shutdowns') <= Leads[periodic]
    BY <1>5, <2>2, <2>3, <2>4
  <2> QED
    BY <1>2, <2>1, <2>3, <2>5, <2>6 DEF Timely
<1>11. TypeOK'
  <2>1. ccompare' \in Time /\ pending' \in BOOLEAN
    BY <1>1, <1>2, KickIs
  <2>2. 0 \in Time /\ shutdowns' \in 0..MaxShutdowns
    BY <1>1, <1>2, HalfTurn, ClockAssumption DEF Time, TypeOK
  <2> QED
    BY <1>1, <1>2, <1>3, <1>4, <2>1, <2>2 DEF TypeOK
<1>12. SentinelFollows'
  BY <1>1, <1>2, <1>4, SentinelStays
<1> QED
  BY <1>9, <1>10, <1>11, <1>12 DEF AliveInv

-----------------------------------------------------------------------------
(* The interrupt: what sched_timer_dispatch leaves of the list.             *)
LEMMA DoneAlive ==
    ASSUME AliveInv, NEW t \in User \cup {deleted}, InDispatch(t),
           NEW nx \in [Timer -> Timer \cup {Null}], NEW hint, NEW A \in SUBSET armed,
           t \notin A, List(nx, Leads, t, (A \cup {periodic, sentinel}) \cup {t}),
           hint \in (A \cup {periodic}) \cup {t},
           Done(t, nx, waketime, hint), armed' = A
    PROVE  AliveInv'
<1> DEFINE S == A \cup {periodic, sentinel}
<1>1. /\ TypeOK /\ Queue /\ Timely /\ SentinelFollows /\ now \in Time
      /\ waketime \in [Timer -> Time]
  BY DEF AliveInv, TypeOK
<1>2. /\ isr = "dispatch" /\ timer_list = t /\ isr' = "check" /\ running' = t
      /\ next' = nx /\ waketime' = waketime /\ timer_list' = nx[t] /\ armed' = A
      /\ last_insert' = IF hint = t THEN nx[t] ELSE hint
      /\ next_wake' = waketime[nx[t]]
      /\ UNCHANGED <<now, shutdown_status, ccompare, pending, irq_source, shutdowns>>
  BY DEF InDispatch, Done, hardware
<1>3. /\ t \in Timer /\ t # periodic /\ t # sentinel /\ deleted \notin A
      /\ deleted # periodic /\ deleted # sentinel /\ periodic # sentinel
      /\ periodic \notin A /\ sentinel \notin A /\ A \subseteq User
  BY <1>1, Names, UserIs DEF TypeOK
<1>4. (S \cup {t}) \ {t} = S /\ periodic \in S
  BY <1>3
<1>5. List(nx, Leads, nx[t], S)
  BY <1>3, <1>4, ListTail
<1>6. nx[t] \in S /\ nx[t] # sentinel /\ nx[t] # deleted /\ nx[t] # t
  <2>1. nx[t] \in S
    BY <1>5, ListIs
  <2>2. nx[t] # sentinel
    BY <1>3, <1>4, <1>5, HeadIs
  <2> QED
    BY <1>3, <2>1, <2>2
<1>7. Kept' = S /\ S \subseteq Kept /\ nx[t] \in Kept \ {sentinel} /\ nx[t] \in Timer
  <2>1. Kept' = S /\ S \subseteq Kept
    BY <1>2, <1>6 DEF Kept
  <2> QED
    BY <1>1, <1>6, <2>1, KeptIs
<1>8. Leads' = Leads
  BY <1>2 DEF Leads, Lead
<1>9. Queue'
  <2>1. ASSUME NEW v \in Kept' \ {sentinel} PROVE Near(waketime[v])'
    <3>1. Near(waketime[v])
      BY <1>1, <1>7, <2>1 DEF Queue
    <3> QED
      BY <1>2, <3>1 DEF Near, Lead
  <2>2. last_insert' \in armed' \cup {periodic}
    BY <1>2, <1>6
  <2> QED
    BY <1>2, <1>5, <1>7, <1>8, <2>1, <2>2 DEF Queue
<1>10. Timely'
  <2>1. Head' = Leads[nx[t]] /\ Leads[nx[t]] \in Int
    BY <1>1, <1>2, <1>7, LeadsIs DEF Head, Lead
  <2>2. Head <= Leads[nx[t]] /\ Head \in Int /\ -Lag(shutdowns) <= Head
    BY <1>1, <1>7, HeadIsKept DEF Timely
  <2>3. -Lag(shutdowns) <= Head'
    BY <1>1, <2>1, <2>2, LagNow
  <2> QED
    BY <1>1, <1>2, <2>3 DEF Timely
<1>11. TypeOK'
  <2>1. last_insert' \in Timer
    BY <1>1, <1>2, <1>3, <1>7, Names
  <2> QED
    BY <1>1, <1>2, <1>3, <1>7, <2>1 DEF TypeOK
<1>12. SentinelFollows'
  BY <1>1, <1>2 DEF SentinelFollows
<1> QED
  BY <1>9, <1>10, <1>11, <1>12 DEF AliveInv

LEMMA RescheduleAlive ==
    ASSUME AliveInv, NEW t \in User \cup {periodic}, InDispatch(t),
           NEW nx \in [Timer -> Timer \cup {Null}], NEW wk \in [Timer -> Time],
           NEW hint, NEW A \in SUBSET armed, t \in A \cup {periodic},
           List(nx, Leads, t, A \cup {periodic, sentinel}), hint \in A \cup {periodic},
           \A v \in A \cup {periodic} : v # t => wk[v] = waketime[v],
           wk[sentinel] = Plus(wk[periodic], Half),
           Near(wk[t]), Head <= Lead(wk[t]),
           Reschedule(t, nx, wk, hint), armed' = A
    PROVE  AliveInv'
<1> DEFINE S == (A \cup {periodic, sentinel}) \ {t}
           o == [v \in Timer |-> Lead(wk[v])]
           w == wk[t]
           h == nx[t]
           pos == IF timer_is_before(w, wk[hint]) THEN h ELSE hint
           nx2 == Inserted(nx, wk, pos, t, w)
<1>1. /\ TypeOK /\ Queue /\ Timely /\ SentinelFollows /\ now \in Time
      /\ waketime \in [Timer -> Time]
  BY DEF AliveInv, TypeOK
<1>2. /\ isr = "dispatch" /\ timer_list = t /\ isr' = "check" /\ running' = t
      /\ waketime' = wk /\ armed' = A
      /\ UNCHANGED <<now, shutdown_status, ccompare, pending, irq_source, shutdowns>>
  BY DEF InDispatch, Reschedule, hardware
<1>3. /\ t \in Timer /\ t # deleted /\ t # sentinel /\ deleted \notin A
      /\ deleted # periodic /\ deleted # sentinel /\ periodic # sentinel
      /\ periodic \in Timer /\ sentinel \in Timer
      /\ periodic \notin A /\ sentinel \notin A /\ A \subseteq User
  BY <1>1, Names, UserIs DEF TypeOK
<1>4. /\ S \cup {t} = A \cup {periodic, sentinel} /\ sentinel \in S /\ t \notin S
      /\ deleted \notin S /\ S \subseteq Timer /\ S \subseteq Kept
      /\ t \in Kept /\ t # periodic => periodic \in S \ {sentinel}
  <2>1. A \cup {periodic, sentinel} \subseteq Kept
    BY DEF Kept
  <2> QED
    BY <1>1, <1>3, <2>1, KeptIs
<1>5. \A v \in S \ {sentinel} : wk[v] = waketime[v] /\ v \in A \cup {periodic}
  OBVIOUS
<1>6. /\ o \in [Timer -> Int] /\ o[t] = Lead(w) /\ w \in Time
      /\ \A v \in S \ {sentinel} : o[v] = Leads[v]
  <2>1. \A v \in Timer : wk[v] \in Time /\ Lead(wk[v]) \in Int
    BY <1>1, LeadIs DEF Lead
  <2> QED
    BY <1>3, <1>4, <1>5, <2>1 DEF Leads
<1> HIDE DEF o
<1>7. \A v \in S \ {sentinel} : timer_is_before(w, wk[v]) <=> o[t] < o[v]
  BY <1>1, <1>4, <1>5, <1>6, BeforeLeads
<1>8. List(nx, Leads, h, S)
  BY <1>3, ListTail
<1>9. List(nx, o, h, S)
  BY <1>6, <1>8, ListFrame
<1>10. \/ timer_is_before(w, wk[sentinel])
       \/ t # periodic /\ timer_is_before(w, wk[periodic])
  <2>1. ~timer_is_before(w, wk[periodic]) => timer_is_before(w, wk[sentinel])
    BY <1>3, <1>6, HalfLater
  <2>2. t = periodic => ~timer_is_before(w, wk[periodic])
    BY <1>6, NotBeforeItself
  <2> QED
    BY <2>1, <2>2
<1>11. h \in S /\ h \in Timer /\ (h = sentinel => S = {sentinel})
       /\ \A v \in S \ {sentinel} : o[h] <= o[v]
  BY <1>4, <1>9, ListIs, HeadIs
<1>12. ASSUME NEW v \in A \cup {periodic} PROVE Near(wk[v])
  <2>1. CASE v = t
    BY <2>1
  <2>2. CASE v # t
    <3>1. v \in Kept \ {sentinel} /\ wk[v] = waketime[v]
      BY <1>3, <2>2 DEF Kept
    <3> QED
      BY <1>1, <3>1 DEF Queue
  <2> QED
    BY <2>1, <2>2
<1>13. Head \in Int /\ -Lag(shutdowns) <= Head /\ Lag(shutdowns) \in Nat
  BY <1>1, HeadIsKept, LagNow DEF Timely
<1>14. ASSUME NEW m, NEW n, NEW l, n \in [Timer -> Timer \cup {Null}],
              next' = n, timer_list' = m, last_insert' = l, next_wake' = wk[m],
              List(n, o, m, A \cup {periodic, sentinel}), l \in A \cup {periodic},
              m \in A \cup {periodic}
       PROVE  AliveInv'
  <2>1. m # deleted /\ m \in Timer /\ l \in Timer /\ m # sentinel
    BY <1>3, <1>14, Names
  <2>2. Kept' = A \cup {periodic, sentinel}
    BY <1>2, <1>14, <2>1 DEF Kept
  <2>3. Leads' = o
    BY <1>2 DEF Leads, Lead, o
  <2>4. Queue'
    <3>1. ASSUME NEW v \in Kept' \ {sentinel} PROVE Near(waketime[v])'
      <4>1. Near(wk[v])
        BY <1>12, <2>2, <3>1
      <4> QED
        BY <1>2, <4>1 DEF Near, Lead
    <3> QED
      BY <1>2, <1>14, <2>2, <2>3, <3>1 DEF Queue
  <2>5. Timely'
    <3>1. Head' = o[m] /\ o[m] \in Int /\ Lead(w) \in Int
      BY <1>2, <1>3, <1>6, <1>14, <2>1 DEF Head, Lead, o
    <3>2. Head <= o[m]
      <4>1. CASE m = t
        BY <1>6, <4>1
      <4>2. CASE m # t
        <5>1. m \in S \ {sentinel}
          BY <1>14, <2>1, <4>2
        <5> QED
          BY <1>4, <1>6, <5>1, HeadIsKept
      <4> QED
        BY <4>1, <4>2
    <3>3. -Lag(shutdowns) <= Head'
      BY <1>13, <3>1, <3>2
    <3> QED
      BY <1>1, <1>2, <1>14, <3>3 DEF Timely
  <2>6. TypeOK'
    BY <1>1, <1>2, <1>3, <1>14, <2>1 DEF TypeOK
  <2>7. SentinelFollows'
    BY <1>2 DEF SentinelFollows
  <2> QED
    BY <2>4, <2>5, <2>6, <2>7 DEF AliveInv
<1>15. CASE timer_is_before(w, wk[h])
  <2>1. /\ next' = nx /\ next_wake' = wk[t] /\ timer_list' = t /\ last_insert' = hint
    BY <1>15 DEF Reschedule
  <2>2. \A v \in S \ {sentinel} : o[t] <= o[v]
    <3>1. CASE h = sentinel
      BY <1>11, <3>1
    <3>2. CASE h # sentinel
      <4>1. o[t] < o[h] /\ o[t] \in Int /\ o[h] \in Int
        BY <1>3, <1>6, <1>7, <1>11, <1>15, <3>2
      <4>2. \A v \in S \ {sentinel} : o[v] \in Int /\ o[h] <= o[v]
        BY <1>4, <1>6, <1>11
      <4> QED
        BY <4>1, <4>2
    <3> QED
      BY <3>1, <3>2
  <2>3. List(nx, o, t, S \cup {t})
    <3>1. t \in Timer \ S /\ o[t] \in Int
      BY <1>3, <1>4, <1>6
    <3> QED
      BY <1>9, <2>2, <3>1, ListPush
  <2> QED
    BY <1>4, <1>14, <2>1, <2>3
<1>16. CASE ~timer_is_before(w, wk[h])
  <2>1. /\ next_wake' = wk[h] /\ timer_list' = h /\ next' = nx2 /\ last_insert' = t
    BY <1>16 DEF Reschedule
  <2>2. h \in S \ {sentinel}
    <3>1. SUFFICES ASSUME h = sentinel PROVE FALSE
      BY <1>11
    <3>2. S = {sentinel} /\ ~timer_is_before(w, wk[sentinel])
      BY <1>11, <1>16, <3>1
    <3> QED
      BY <1>4, <1>10, <3>2
  <2>3. \A v \in S \ {sentinel} : ~timer_is_before(w, wk[v]) => o[v] <= o[t]
    BY <1>3, <1>4, <1>6, <1>7
  <2>4. o[h] <= o[t]
    BY <1>16, <2>2, <2>3
  <2>5. \/ pos \in S \ {sentinel} /\ o[pos] <= o[t]
        \/ pos = t /\ nx[t] = h /\ h # sentinel /\ o[h] <= o[t]
    <3>1. CASE timer_is_before(w, wk[hint])
      BY <2>2, <2>4, <3>1
    <3>2. CASE ~timer_is_before(w, wk[hint]) /\ hint = t
      BY <2>2, <2>4, <3>2
    <3>3. CASE ~timer_is_before(w, wk[hint]) /\ hint # t
      <4>1. hint \in S \ {sentinel} /\ pos = hint
        BY <1>3, <3>3
      <4> QED
        BY <2>3, <3>3, <4>1
    <3> QED
      BY <3>1, <3>2, <3>3
  <2>6. (\A v \in S \ {sentinel} : o[v] <= o[t]) => timer_is_before(w, wk[sentinel])
    <3> SUFFICES ASSUME \A v \in S \ {sentinel} : o[v] <= o[t],
                        ~timer_is_before(w, wk[sentinel])
                 PROVE  FALSE
      OBVIOUS
    <3>1. periodic \in S \ {sentinel} /\ timer_is_before(w, wk[periodic])
      BY <1>4, <1>10
    <3>2. o[t] < o[periodic] /\ o[periodic] <= o[t]
      BY <1>7, <3>1
    <3>3. o[t] \in Int /\ o[periodic] \in Int
      BY <1>3, <1>6
    <3> QED
      BY <3>2, <3>3
  <2>7. nx2 \in [Timer -> Timer \cup {Null}] /\ List(nx2, o, h, S \cup {t})
    <3>1. t \in Timer \ S
      BY <1>3, <1>4
    <3> HIDE DEF S, pos, h, w
    <3> QED
      BY <1>6, <1>7, <1>9, <2>5, <2>6, <3>1, ListInsert DEF h
  <2>8. h \in A \cup {periodic}
    BY <1>5, <2>2
  <2> HIDE DEF nx2, h
  <2> QED
    BY <1>4, <1>14, <2>1, <2>7, <2>8
<1> QED
  BY <1>15, <1>16

-----------------------------------------------------------------------------
(* What the three events do with the list.                                 *)
LEMMA KeptInDispatch ==
    ASSUME AliveInv
    PROVE  /\ timer_list # deleted => Kept = armed \cup {periodic, sentinel}
           /\ timer_list = deleted => Kept = (armed \cup {periodic, sentinel}) \cup {deleted}
           /\ timer_list \in User => timer_list \in armed
<1>1. TypeOK /\ timer_list \in Kept
  BY HeadIsKept DEF AliveInv
<1>2. timer_list \in User => timer_list \in armed
  BY <1>1, KeptIs
<1> QED
  BY <1>2 DEF Kept

LEMMA DeletedEventAlive == ASSUME AliveInv, DeletedEvent PROVE AliveInv'
<1>1. /\ InDispatch(deleted) /\ Done(deleted, next, waketime, last_insert)
      /\ armed' = armed /\ timer_list = deleted
  BY DEF DeletedEvent, InDispatch
<1>2. /\ next \in [Timer -> Timer \cup {Null}] /\ armed \subseteq User
      /\ List(next, Leads, deleted, Kept) /\ last_insert \in armed \cup {periodic}
  BY <1>1 DEF AliveInv, TypeOK, Queue
<1>3. deleted \notin armed /\ Kept = (armed \cup {periodic, sentinel}) \cup {deleted}
  BY <1>1, <1>2, KeptInDispatch, UserIs
<1> QED
  BY <1>1, <1>2, <1>3, DoneAlive

LEMMA PeriodicEventAlive == ASSUME AliveInv, PeriodicEvent PROVE AliveInv'
<1> DEFINE w == Plus(waketime[periodic], PERIOD)
           wk == [waketime EXCEPT ![periodic] = w, ![sentinel] = Plus(w, Half)]
<1>1. /\ InDispatch(periodic) /\ Reschedule(periodic, next, wk, last_insert)
      /\ armed' = armed /\ timer_list = periodic /\ isr = "dispatch"
  BY DEF PeriodicEvent, InDispatch
<1>2. /\ next \in [Timer -> Timer \cup {Null}] /\ armed \subseteq User
      /\ List(next, Leads, periodic, Kept) /\ last_insert \in armed \cup {periodic}
      /\ waketime \in [Timer -> Time] /\ now \in Time
  BY <1>1 DEF AliveInv, TypeOK, Queue
<1>3. Kept = armed \cup {periodic, sentinel} /\ periodic \in Timer /\ sentinel \in Timer
      /\ periodic # sentinel /\ periodic \in User \cup {periodic}
      /\ \A t \in User : t # periodic /\ t # sentinel /\ t \in Timer
  BY <1>1, KeptInDispatch, Names
<1>4. Near(waketime[periodic]) /\ Head = Lead(waketime[periodic]) /\ Head <= 0
      /\ Head \in Int
  <2>1. timer_list # deleted => Head <= 0
    BY <1>1, Zenon DEF AliveInv, Timely
  <2> QED
    BY <1>1, <2>1, HeadIsKept, Names DEF Head
<1>5. Near(w) /\ Head <= Lead(w) /\ w \in Time
  <2>1. PERIOD \in Nat
    BY ClockAssumption, HalfTurn
  <2>2. Near(w) /\ Lead(w) = Lead(waketime[periodic]) + PERIOD
    BY <1>2, <1>4, <2>1, AheadIsNear
  <2>3. Head <= Lead(w)
    BY <1>4, <2>1, <2>2
  <2> QED
    BY <2>2, <2>3 DEF Near
<1>6. Plus(w, Half) \in Time
  BY <1>5, PlusIsTime, HalfTurn
<1>7. wk \in [Timer -> Time] /\ wk[periodic] = w /\ wk[sentinel] = Plus(w, Half)
      /\ \A v \in armed \cup {periodic} : v # periodic => wk[v] = waketime[v]
  BY <1>2, <1>3, <1>5, <1>6
<1> HIDE DEF wk, w
<1> QED
  BY <1>1, <1>2, <1>3, <1>5, <1>7, RescheduleAlive

(* A callback deletes another timer first, or none (del = t).               *)
NextAfter(t, del) == IF del = t THEN next ELSE Unlinked(del).next
HintAfter(t, del) == IF del = t THEN last_insert ELSE HintAfterDelete(del)
LeftAfter(t, del) == IF del = t THEN armed ELSE armed \ {del}

LEMMA UserDeletes ==
    ASSUME AliveInv, NEW t \in User, timer_list = t, NEW del \in User
    PROVE  /\ NextAfter(t, del) \in [Timer -> Timer \cup {Null}]
           /\ List(NextAfter(t, del), Leads, t, LeftAfter(t, del) \cup {periodic, sentinel})
           /\ HintAfter(t, del) \in LeftAfter(t, del) \cup {periodic}
           /\ LeftAfter(t, del) \in SUBSET armed /\ t \in LeftAfter(t, del)
<1>1. /\ next \in [Timer -> Timer \cup {Null}] /\ armed \subseteq User
      /\ List(next, Leads, t, Kept) /\ last_insert \in armed \cup {periodic}
      /\ TypeOK
  BY DEF AliveInv, TypeOK, Queue
<1>2. Kept = armed \cup {periodic, sentinel} /\ t \in armed
  BY KeptInDispatch, UserIs
<1>3. CASE del = t
  BY <1>1, <1>2, <1>3 DEF NextAfter, HintAfter, LeftAfter
<1>4. CASE del # t
  <2> DEFINE nx == [v \in Timer |-> IF v \in OnList /\ next[v] = del
                                    THEN next[del] ELSE next[v]]
  <2>1. NextAfter(t, del) = nx
    BY <1>4 DEF NextAfter, Unlinked
  <2>2. OnList = Kept /\ Kept \subseteq Timer
    BY <1>1, ListIs DEF OnList
  <2>3. del \in Timer /\ del # periodic /\ del # sentinel
    BY Names
  <2>4. nx \in [Timer -> Timer \cup {Null}]
    BY <1>1, <2>3
  <2>5. \A v \in Kept : nx[v] = IF next[v] = del THEN next[del] ELSE next[v]
    BY <2>2
  <2> HIDE DEF nx
  <2>6. List(nx, Leads, t, Kept \ {del})
    BY <1>1, <1>4, <2>3, <2>5, ListRemove
  <2>7. Kept \ {del} = (armed \ {del}) \cup {periodic, sentinel}
    BY <1>2, <2>3
  <2>8. HintAfter(t, del) \in (armed \ {del}) \cup {periodic}
    BY <1>1, <1>4 DEF HintAfter, HintAfterDelete
  <2> QED
    BY <1>2, <1>4, <2>1, <2>4, <2>6, <2>7, <2>8 DEF LeftAfter
<1> QED
  BY <1>3, <1>4

LEMMA UserEventAlive ==
    ASSUME AliveInv, NEW t \in User, NEW del \in User,
           \/ UserEvent(t, del, FALSE, 0)
           \/ \E w \in Ahead(waketime[t]) : UserEvent(t, del, TRUE, w)
    PROVE  AliveInv'
<1> DEFINE nx == NextAfter(t, del)
           hint == HintAfter(t, del)
           left == LeftAfter(t, del)
<1>1. /\ InDispatch(t) /\ timer_list = t /\ isr = "dispatch"
  BY DEF UserEvent, InDispatch
<1>2. /\ nx \in [Timer -> Timer \cup {Null}]
      /\ List(nx, Leads, t, left \cup {periodic, sentinel})
      /\ hint \in left \cup {periodic} /\ left \in SUBSET armed /\ t \in left
  BY <1>1, UserDeletes
<1>3. /\ TypeOK /\ SentinelFollows /\ now \in Time /\ waketime \in [Timer -> Time]
      /\ armed \subseteq User
  BY DEF AliveInv, TypeOK
<1>4. t \in Timer /\ t # periodic /\ t # sentinel /\ t # deleted /\ periodic \in Timer
      /\ sentinel \in Timer
  BY Names, UserIs
<1>5. CASE UserEvent(t, del, FALSE, 0)
  <2>1. Done(t, nx, waketime, hint) /\ armed' = left \ {t}
    BY <1>5 DEF UserEvent, NextAfter, HintAfter, LeftAfter
  <2> DEFINE A == left \ {t}
  <2>2. (A \cup {periodic, sentinel}) \cup {t} = left \cup {periodic, sentinel}
    BY <1>2
  <2>3. /\ hint \in (A \cup {periodic}) \cup {t} /\ t \notin A /\ A \in SUBSET armed
        /\ t \in User \cup {deleted}
    BY <1>2
  <2>4. List(nx, Leads, t, (A \cup {periodic, sentinel}) \cup {t}) /\ armed' = A
    BY <1>2, <2>1, <2>2
  <2> HIDE DEF A, nx, hint, left
  <2> QED
    BY <1>1, <1>2, <2>1, <2>3, <2>4, DoneAlive
<1>6. ASSUME NEW w \in Ahead(waketime[t]), UserEvent(t, del, TRUE, w)
      PROVE  AliveInv'
  <2> DEFINE wk == [waketime EXCEPT ![t] = w]
  <2>1. Reschedule(t, nx, wk, hint) /\ armed' = left
    BY <1>6 DEF UserEvent, NextAfter, HintAfter, LeftAfter
  <2>2. Near(waketime[t]) /\ Head = Lead(waketime[t]) /\ Head <= 0 /\ Head \in Int
    <3>1. timer_list # deleted => Head <= 0
      BY <1>1, Zenon DEF AliveInv, Timely
    <3> QED
      BY <1>1, <1>4, <3>1, HeadIsKept DEF Head
  <2>3. Near(w) /\ Head <= Lead(w) /\ w \in Time
    <3>1. PICK d \in 1..MaxAhead : w = Plus(waketime[t], d)
      BY <1>6 DEF Ahead
    <3>2. d \in Nat /\ d <= MaxAhead
      BY ClockAssumption
    <3>3. Near(w) /\ Lead(w) = Lead(waketime[t]) + d
      BY <1>3, <2>2, <3>1, <3>2, AheadIsNear
    <3>4. Head <= Lead(w)
      BY <2>2, <3>2, <3>3
    <3> QED
      BY <3>3, <3>4 DEF Near
  <2>4. /\ wk \in [Timer -> Time] /\ wk[t] = w
        /\ wk[periodic] = waketime[periodic] /\ wk[sentinel] = waketime[sentinel]
        /\ \A v \in left \cup {periodic} : v # t => wk[v] = waketime[v]
    BY <1>2, <1>3, <1>4, <2>3
  <2>5. wk[sentinel] = Plus(wk[periodic], Half)
    BY <1>3, <2>4 DEF SentinelFollows
  <2>6. t \in left \cup {periodic} /\ t \in User \cup {periodic}
    BY <1>2
  <2> HIDE DEF wk, nx, hint, left
  <2> QED
    BY <1>1, <1>2, <2>1, <2>3, <2>4, <2>5, <2>6, RescheduleAlive
<1> QED
  BY <1>5, <1>6

-----------------------------------------------------------------------------
(* The interrupt begins, goes on and returns.                               *)
LEMMA EnterAlive == ASSUME AliveInv, EnterIsr PROVE AliveInv'
<1>1. /\ TypeOK /\ Queue /\ Timely /\ SentinelFollows
  BY DEF AliveInv
<1>2. /\ isr = "off" /\ pending = TRUE /\ isr' = "dispatch" /\ irq_source' = FALSE
      /\ UNCHANGED <<now, next, timer_list, last_insert, waketime, shutdown_status,
                     ccompare, pending, running, next_wake, armed, shutdowns>>
  BY <1>1 DEF EnterIsr, list, TypeOK
<1>3. Queue' /\ Head' = Head
  BY <1>1, <1>2, Unmoved
<1>4. timer_list # deleted => Head <= 0
  BY <1>1, <1>2, Zenon DEF Timely
<1>5. -Lag(shutdowns) <= Head
  BY <1>1 DEF Timely
<1>6. Timely'
  BY <1>2, <1>3, <1>4, <1>5 DEF Timely
<1>7. TypeOK' /\ SentinelFollows'
  BY <1>1, <1>2 DEF TypeOK, SentinelFollows
<1> QED
  BY <1>3, <1>6, <1>7 DEF AliveInv

LEMMA LatenessIs ==
    ASSUME AliveInv, isr = "check"
    PROVE  /\ Lateness = Head /\ Head \in Int /\ next_wake = waketime[timer_list]
           /\ next_wake \in Time /\ Lead(next_wake) = Head
<1>1. next_wake = waketime[timer_list] /\ next_wake \in Time
  BY DEF AliveInv, Timely, TypeOK
<1>2. Lateness = Lead(next_wake)
  BY DEF Lateness, Lead, LeadFrom
<1> QED
  BY <1>1, <1>2, HeadIsKept DEF Head

LEMMA ReturnAlive ==
    ASSUME AliveInv, NEW t \in Time, ReturnWith(t),
           1 <= Lead(t), Lead(t) - Lag(shutdowns) <= Head, Head <= Lead(t)
    PROVE  AliveInv'
<1>1. /\ TypeOK /\ Queue /\ Timely /\ SentinelFollows
  BY DEF AliveInv
<1>2. /\ ccompare' = t /\ pending' = FALSE /\ irq_source' = TRUE
      /\ isr' = "off" /\ running' = Null /\ next_wake' = 0
      /\ UNCHANGED <<now, next, timer_list, last_insert, waketime, shutdown_status,
                     armed, shutdowns>>
  BY DEF ReturnWith, SetCompare, list
<1>3. Queue' /\ Head' = Head
  BY <1>1, <1>2, Unmoved
<1>4. -Lag(shutdowns) <= Head
  BY <1>1 DEF Timely
<1>5. Lead(ccompare)' = Lead(t)
  BY <1>2 DEF Lead
<1>6. Timely'
  BY <1>2, <1>3, <1>4, <1>5 DEF Timely
<1>7. 0 \in Time
  BY HalfTurn DEF Time
<1>8. TypeOK' /\ SentinelFollows'
  BY <1>1, <1>2, <1>7 DEF TypeOK, SentinelFollows
<1> QED
  BY <1>3, <1>6, <1>8 DEF AliveInv

LEMMA ReturnNextAlive == ASSUME AliveInv, ReturnNext PROVE AliveInv'
<1>1. isr = "check" /\ Lateness > MIN_TRY /\ ReturnWith(next_wake)
  BY DEF ReturnNext
<1>2. Lateness = Head /\ Head \in Int /\ next_wake \in Time /\ Lead(next_wake) = Head
  BY <1>1, LatenessIs
<1>3. MIN_TRY \in Nat /\ Lag(shutdowns) \in Nat
  BY ClockAssumption, LagNow DEF AliveInv
<1>4. 1 <= Head /\ Head - Lag(shutdowns) <= Head /\ Head <= Head
  BY <1>1, <1>2, <1>3
<1> QED
  BY <1>1, <1>2, <1>4, ReturnAlive

LEMMA ReturnDeferredAlive == ASSUME AliveInv, ReturnDeferred PROVE AliveInv'
<1> DEFINE t == Plus(now, DEFER)
<1>1. /\ isr = "check" /\ Lateness <= MIN_TRY /\ ReturnWith(t)
      /\ Lateness >= -PAST \/ Lateness >= -MaxLate
  BY DEF ReturnDeferred
<1>2. Lateness = Head /\ Head \in Int
  BY <1>1, LatenessIs
<1>3. /\ MIN_TRY \in Nat /\ PAST \in Nat /\ MaxLate \in Nat /\ DEFER \in Nat
      /\ MIN_TRY <= DEFER /\ PAST <= MaxLate /\ 1 <= DEFER
      /\ Lag(shutdowns) \in Nat /\ MaxLate + DEFER <= Lag(shutdowns)
  BY ClockAssumption, LatenessAssumption, LagNow DEF AliveInv
<1>4. t \in Time /\ Lead(t) = DEFER
  BY FromNow, ClockAssumption DEF AliveInv, TypeOK
<1>5. DEFER - Lag(shutdowns) <= Head /\ Head <= DEFER
  BY <1>1, <1>2, <1>3
<1> HIDE DEF t
<1> QED
  BY <1>1, <1>3, <1>4, <1>5, ReturnAlive

LEMMA RepeatAlive == ASSUME AliveInv, Repeat PROVE AliveInv'
<1>1. /\ TypeOK /\ Queue /\ Timely /\ SentinelFollows
  BY DEF AliveInv
<1>2. /\ isr = "check" /\ Lateness <= 0 /\ isr' = "dispatch" /\ running' = Null
      /\ next_wake' = 0
      /\ UNCHANGED <<now, next, timer_list, last_insert, waketime, shutdown_status,
                     ccompare, pending, irq_source, armed, shutdowns>>
  BY DEF Repeat, list, hardware
<1>3. Queue' /\ Head' = Head
  BY <1>1, <1>2, Unmoved
<1>4. Head <= 0
  BY <1>2, LatenessIs
<1>5. Timely'
  BY <1>1, <1>2, <1>3, <1>4 DEF Timely
<1>6. 0 \in Time
  BY HalfTurn DEF Time
<1>7. TypeOK' /\ SentinelFollows'
  BY <1>1, <1>2, <1>6 DEF TypeOK, SentinelFollows
<1> QED
  BY <1>3, <1>5, <1>7 DEF AliveInv

(* Steps that change nothing the list depends on.                           *)
LEMMA StillAlive ==
    ASSUME AliveInv, shutdown_status' \in {0, 1},
           UNCHANGED <<now, next, timer_list, last_insert, waketime, ccompare, pending,
                       irq_source, isr, running, next_wake, armed, shutdowns>>
    PROVE  AliveInv'
<1>1. /\ TypeOK /\ Queue /\ Timely /\ SentinelFollows
  BY DEF AliveInv
<1>2. Queue' /\ Head' = Head
  BY <1>1, Unmoved
<1>3. Lead(ccompare)' = Lead(ccompare)
  BY DEF Lead
<1>4. Timely'
  BY <1>1, <1>2, <1>3 DEF Timely
<1>5. TypeOK' /\ SentinelFollows'
  BY <1>1 DEF TypeOK, SentinelFollows
<1> QED
  BY <1>2, <1>4, <1>5 DEF AliveInv

-----------------------------------------------------------------------------
(* The node before the sentinel is the last.                                *)
LEMMA ListLast ==
    ASSUME NEW nx, NEW o, NEW h, NEW S, List(nx, o, h, S), NEW t \in S \ {sentinel},
           nx[t] = sentinel, NEW v \in S \ {sentinel}
    PROVE  o[v] <= o[t]
<1>1. PICK m, f : Chain(nx, f, m) /\ Ordered(o, f, m) /\ Nodes(f, m) = S
  BY DEF List
<1>2. PICK i \in 0..(m - 1) : t = f[i]
  BY <1>1, PosIs
<1>3. PICK j \in 0..(m - 1) : v = f[j]
  BY <1>1, PosIs
<1>4. m \in Nat /\ i + 1 \in 0..m /\ m \in 0..m
  BY <1>1, <1>2 DEF Chain
<1>5. f[i + 1] = f[m]
  BY <1>1, <1>2 DEF Chain
<1>6. i + 1 = m
  BY <1>1, <1>4, <1>5 DEF Chain
<1>7. j <= i
  BY <1>3, <1>4, <1>6
<1> QED
  BY <1>1, <1>2, <1>3, <1>7 DEF Ordered

-----------------------------------------------------------------------------
LEMMA InitAlive == Init => AliveInv
<1> SUFFICES ASSUME Init PROVE AliveInv
  OBVIOUS
<1>1. /\ now = 0 /\ timer_list = periodic /\ last_insert = periodic
      /\ next = [t \in Timer |-> IF t = periodic THEN sentinel ELSE Null]
      /\ waketime = [t \in Timer |-> IF t = sentinel THEN Half ELSE 0]
      /\ shutdown_status = 0 /\ ccompare = KICK /\ pending = FALSE /\ irq_source = TRUE
      /\ isr = "off" /\ running = Null /\ next_wake = 0 /\ armed = {} /\ shutdowns = 0
  BY DEF Init
<1>2. /\ 0 \in Time /\ Half \in Time /\ KICK \in Time /\ KICK \in 1..(Half - 1)
      /\ MaxShutdowns \in Nat /\ 0 \in 0..MaxShutdowns
  BY ClockAssumption, HalfTurn DEF Time
<1>3. /\ next[periodic] = sentinel /\ next[sentinel] = Null
      /\ waketime[periodic] = 0 /\ waketime[sentinel] = Half
  BY <1>1, Names
<1>4. TypeOK
  BY <1>1, <1>2, Names DEF TypeOK
<1>5. SentinelFollows
  <2>1. Plus(0, Half) = Half
    BY HalfTurn DEF Plus
  <2> QED
    BY <1>3, <2>1 DEF SentinelFollows
<1>6. Lead(0) = 0 /\ Near(0)
  BY <1>1, <1>2, NowIsNear
<1>7. Kept = {sentinel} \cup {periodic}
  BY <1>1, Names DEF Kept
<1>8. List(next, Leads, periodic, {sentinel} \cup {periodic})
  <2>1. List(next, Leads, sentinel, {sentinel})
    BY <1>3, ListEnd
  <2>2. periodic \in Timer \ {sentinel} /\ Leads[periodic] \in Int
    BY <1>4, Names, LeadsIs
  <2> QED
    BY <1>3, <2>1, <2>2, ListPush
<1>9. Queue
  BY <1>1, <1>3, <1>6, <1>7, <1>8 DEF Queue
<1>10. Timely
  <2>1. Head = 0
    BY <1>1, <1>3, <1>6 DEF Head
  <2>2. Lead(ccompare) = KICK
    <3>1. Plus(0, KICK) = KICK
      BY <1>2, HalfTurn DEF Plus
    <3> QED
      BY <1>1, <1>2, <3>1, FromNow
  <2>3. Lag(shutdowns) \in Nat /\ MaxLate + DEFER <= Lag(shutdowns)
        /\ MaxLate \in Nat /\ DEFER \in Nat /\ KICK + 1 <= MaxLate /\ KICK \in Nat
        /\ 1 <= KICK
    BY <1>2, <1>4, LagNow, ClockAssumption, HalfTurn
  <2>4. -Lag(shutdowns) <= 0 /\ KICK - Lag(shutdowns) <= 0 /\ 0 <= KICK
    BY <2>3
  <2> QED
    BY <1>1, <2>1, <2>2, <2>3, <2>4 DEF Timely
<1> QED
  BY <1>4, <1>5, <1>9, <1>10 DEF AliveInv

(* A shutdown in the interrupt leaves its source disabled.                  *)
LEMMA ShutdownIsr ==
    ASSUME AliveInv, RunShutdown
    PROVE  AliveInv' \/ Dead'
<1>1. CASE isr = "off"
  BY <1>1, ShutdownAlive
<1>2. CASE isr # "off"
  <2>1. irq_source = FALSE /\ irq_source' = irq_source /\ isr' = "off"
    BY <1>2 DEF AliveInv, Timely, RunShutdown
  <2> QED
    BY <2>1 DEF Dead
<1> QED
  BY <1>1, <1>2

LEMMA TaskAlive == ASSUME AliveInv, TaskStep PROVE AliveInv' \/ Dead'
<1>1. ASSUME NEW t \in User, NEW w \in SoonOrLate, sched_add_timer(t, w) PROVE AliveInv'
  BY <1>1, AddFirstAlive, AddLaterAlive DEF sched_add_timer
<1>2. ASSUME NEW t \in User, NEW w \in SoonOrLate, AddTooClose(t, w)
      PROVE  AliveInv' \/ Dead'
  BY <1>2, ShutdownIsr DEF AddTooClose
<1>3. ASSUME NEW t \in User, sched_del_timer(t) PROVE AliveInv'
  BY <1>3, DeleteAlive
<1>4. CASE TaskShutdown
  BY <1>4, ShutdownIsr DEF TaskShutdown
<1>5. CASE sched_clear_shutdown
  BY <1>5, StillAlive DEF sched_clear_shutdown, list, hardware, dispatch
<1> QED
  BY <1>1, <1>2, <1>3, <1>4, <1>5 DEF TaskStep

LEMMA IsrAlive == ASSUME AliveInv, IsrStep PROVE AliveInv' \/ Dead'
<1>1. CASE RunUser
  <2>1. PICK t, del \in User :
            \/ UserEvent(t, del, FALSE, 0)
            \/ \E w \in Ahead(waketime[t]) : UserEvent(t, del, TRUE, w)
    BY <1>1 DEF RunUser
  <2> QED
    BY <2>1, UserEventAlive
<1>2. CASE EventShutdown
  BY <1>2, ShutdownIsr DEF EventShutdown
<1>3. CASE RescheduledInPast
  BY <1>3, ShutdownIsr DEF RescheduledInPast
<1> QED
  BY <1>1, <1>2, <1>3, EnterAlive, DeletedEventAlive, PeriodicEventAlive,
     ReturnNextAlive, RepeatAlive DEF IsrStep

LEMMA NextAlive == AliveInv /\ [Next]_vars => AliveInv' \/ Dead'
<1> SUFFICES ASSUME AliveInv, [Next]_vars PROVE AliveInv' \/ Dead'
  OBVIOUS
<1>1. CASE UNCHANGED vars
  <2>1. shutdown_status \in {0, 1}
    BY DEF AliveInv, TypeOK
  <2>2. UNCHANGED <<now, next, timer_list, last_insert, waketime, ccompare, pending,
                    irq_source, isr, running, next_wake, armed, shutdowns,
                    shutdown_status>>
    BY <1>1 DEF vars, list, hardware, dispatch
  <2> QED
    BY <2>1, <2>2, StillAlive
<1> QED
  BY <1>1, TickAlive, TaskAlive, IsrAlive, ReturnDeferredAlive DEF Next

(* What the last shutdown left disabled, no step enables.                   *)
LEMMA StaysDead == Dead /\ [Next]_vars => Dead'
<1> SUFFICES ASSUME Dead, [Next]_vars PROVE Dead'
  OBVIOUS
<1>1. isr = "off" /\ irq_source # TRUE /\ ~irq_source
  BY DEF Dead
<1>2. ASSUME isr' = isr, irq_source' = irq_source PROVE Dead'
  BY <1>1, <1>2 DEF Dead
<1>3. RunShutdown => Dead'
  BY <1>1 DEF RunShutdown, Dead
<1>4. CASE Tick
  BY <1>2, <1>4 DEF Tick, dispatch
<1>5. CASE TaskStep
  <2>1. \A t \in User : \A w : sched_add_timer(t, w) => Dead'
    BY <1>2 DEF sched_add_timer, dispatch
  <2>2. \A t \in User : \A w : AddTooClose(t, w) => Dead'
    BY <1>3 DEF AddTooClose
  <2>3. \A t \in User : sched_del_timer(t) => Dead'
    BY <1>2 DEF sched_del_timer, dispatch, hardware
  <2>4. TaskShutdown => Dead'
    BY <1>3 DEF TaskShutdown
  <2>5. sched_clear_shutdown => Dead'
    BY <1>2 DEF sched_clear_shutdown, dispatch, hardware
  <2> QED
    BY <1>5, <2>1, <2>2, <2>3, <2>4, <2>5 DEF TaskStep
<1>6. ~IsrStep
  <2>1. ~EnterIsr /\ ~DeletedEvent /\ ~PeriodicEvent /\ ~EventShutdown
    BY <1>1 DEF EnterIsr, DeletedEvent, PeriodicEvent, EventShutdown, InDispatch
  <2>2. ~RunUser
    BY <1>1 DEF RunUser, UserEvent, InDispatch
  <2>3. ~ReturnNext /\ ~RescheduledInPast /\ ~Repeat
    BY <1>1 DEF ReturnNext, RescheduledInPast, Repeat
  <2> QED
    BY <2>1, <2>2, <2>3 DEF IsrStep
<1>7. ~ReturnDeferred
  BY <1>1 DEF ReturnDeferred
<1>8. CASE UNCHANGED vars
  BY <1>2, <1>8 DEF vars, hardware, dispatch
<1> QED
  BY <1>4, <1>5, <1>6, <1>7, <1>8 DEF Next

LEMMA AliveOrDead == Spec => [](AliveInv \/ Dead)
  BY InitAlive, NextAlive, StaysDead, PTL DEF Spec

-----------------------------------------------------------------------------
LEMMA AliveIsSound == ASSUME AliveInv PROVE ListSound
<1>1. /\ TypeOK /\ List(next, Leads, timer_list, Kept) /\ SentinelFollows /\ now \in Time
      /\ \A t \in Kept \ {sentinel} : Near(waketime[t])
      /\ last_insert \in armed \cup {periodic}
  BY DEF AliveInv, Queue, TypeOK
<1>2. OnList = Kept
  BY <1>1, ListIs DEF OnList
<1>3. ListComplete
  <2>1. Kept \ {deleted} = armed \cup {periodic, sentinel}
    <3>1. deleted \notin armed /\ deleted # periodic /\ deleted # sentinel
      BY <1>1, Names, UserIs DEF TypeOK
    <3> QED
      BY <3>1 DEF Kept
  <2>2. \A t \in Kept : next[t] = Null <=> t = sentinel
    BY <1>1, ListIs, TimerAssumption
  <2>3. deleted \in Kept => timer_list = deleted
    BY <1>1, KeptIs
  <2> QED
    BY <1>2, <2>1, <2>2, <2>3 DEF ListComplete
<1>4. ASSUME NEW t \in Kept \ {sentinel}, NEW v \in Kept \ {sentinel},
             Leads[t] <= Leads[v]
      PROVE  ~timer_is_before(waketime[v], waketime[t])
  <2>1. t \in Timer /\ v \in Timer
    BY <1>1, KeptIs
  <2>2. Leads[t] = Lead(waketime[t]) /\ Leads[v] = Lead(waketime[v])
        /\ Leads[t] \in Int /\ Leads[v] \in Int
    BY <1>1, <2>1, LeadsIs
  <2>3. ~(Lead(waketime[v]) < Lead(waketime[t]))
    BY <1>4, <2>2
  <2> QED
    BY <1>1, <2>3, NearOrder
<1>5. ListSorted
  <2>1. ASSUME NEW t \in Kept \ {sentinel}, next[t] = sentinel
        PROVE  timer_is_before(waketime[t], waketime[sentinel])
    <3>1. periodic \in Kept \ {sentinel}
      BY <1>1, KeptIs
    <3>2. Leads[periodic] <= Leads[t]
      BY <1>1, <2>1, <3>1, ListLast
    <3>3. ~timer_is_before(waketime[t], waketime[periodic])
      BY <1>4, <3>1, <3>2
    <3>4. waketime[t] \in Time /\ waketime[periodic] \in Time
      BY <1>1, <3>1 DEF Near
    <3> QED
      BY <1>1, <3>3, <3>4, HalfLater DEF SentinelFollows
  <2>2. ASSUME NEW t \in Kept \ {sentinel}, next[t] # sentinel
        PROVE  ~timer_is_before(waketime[next[t]], waketime[t])
    <3>1. next[t] \in Kept \ {sentinel} /\ Leads[t] <= Leads[next[t]]
      BY <1>1, <2>2, ListIs
    <3> QED
      BY <1>4, <3>1
  <2> QED
    BY <1>2, <2>1, <2>2 DEF ListSorted
<1>6. HintListed
  BY <1>1, <1>2 DEF HintListed, Kept
<1> QED
  BY <1>1, <1>3, <1>5, <1>6 DEF ListSound

(* As long as no shutdown left the interrupt by longjmp, the list of timers *)
(* is whole, in the order of waketimes across the wrap of the clock, and    *)
(* where the hint says it is: whatever was added in front or behind,        *)
(* deleted, rescheduled through the hint or reset.                          *)
THEOREM ListStaysSound == Spec => [](~Dead => ListSound)
<1>1. AliveInv \/ Dead => (~Dead => ListSound)
  BY AliveIsSound
<1> QED
  BY AliveOrDead, <1>1, PTL

(* sched_timer_dispatch runs the head without looking at the clock, and     *)
(* still never runs a callback before its waketime.                         *)
THEOREM CallbacksAreNeverEarly == Spec => NeverEarly
<1> DEFINE Early == [\A t \in User : isr = "dispatch" /\ isr' # isr /\ timer_list = t
                         => ~timer_is_before(now, waketime[t])]_vars
<1>1. AliveInv \/ Dead => Early
  <2> SUFFICES ASSUME AliveInv \/ Dead, NEW t \in User, isr = "dispatch", timer_list = t
               PROVE  ~timer_is_before(now, waketime[t])
    OBVIOUS
  <2>1. AliveInv
    BY DEF Dead
  <2>2. Head <= 0 /\ Head \in Int
    <3>1. timer_list # deleted => Head <= 0
      BY <2>1, Zenon DEF AliveInv, Timely
    <3> QED
      BY <2>1, <3>1, HeadIsKept, UserIs
  <2>3. now \in Time /\ Near(waketime[t]) /\ Head = Lead(waketime[t])
    BY <2>1, HeadIsKept DEF Head, AliveInv, TypeOK
  <2>4. Near(now) /\ Lead(now) = 0
    BY <2>3, NowIsNear
  <2>5. ~(Lead(now) < Lead(waketime[t]))
    BY <2>2, <2>3, <2>4
  <2> QED
    BY <2>3, <2>4, <2>5, NearOrder
<1> QED
  BY AliveOrDead, <1>1, PTL DEF NeverEarly
=============================================================================
