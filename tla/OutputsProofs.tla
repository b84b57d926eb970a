----------------------------- MODULE OutputsProofs ----------------------------
(***************************************************************************)
(* For every set of pins, pool of moves, max_duration and lateness of the  *)
(* interrupt: no pin is away from its default for too long, an update takes*)
(* effect at its time, and the pool implements MoveQueue.                  *)
(***************************************************************************)
EXTENDS Outputs, SequenceTheorems, FiniteSetTheorems, NaturalsInduction, TLAPS

(* Who has a node: an output, the list of free nodes, or a command.         *)
FREE == CHOOSE x : x \notin Output
HELD == CHOOSE x : x \notin Output \cup {FREE}
Owner == Output \cup {FREE, HELD}

Place == 0 .. MoveCount
Fields == {"time", "func", "flags", "end", "on", "off", "cycle", "first", "last"}
IsOut(x) ==
    /\ DOMAIN x = Fields
    /\ x.time # Off => x.time \in Int
    /\ x.end \in Int /\ x.on \in Nat /\ x.off \in Nat /\ x.cycle \in Nat
    /\ x.first \in Place /\ x.last \in Place
    /\ x.first # NULL => x.last # NULL
InTask == task.at # "idle" => task.oid \in Output /\ task.node \in Node
Typed ==
    /\ now \in Int
    /\ DOMAIN out = Output /\ \A o \in Output : IsOut(out[o])
    /\ move \in [Node -> [time : Int, ticks : Nat]]
    /\ next \in [Node -> Place] /\ move_free \in Place
    /\ since \in [Output -> Int]
    /\ InTask

(* The links stay among the nodes of one owner, where no two nodes have the *)
(* same successor and none leads back to the head; those of an output are   *)
(* in the order of their times, and the node to be pushed comes after them. *)
Heads(own) ==
    /\ \A o \in Output : out[o].first # NULL =>
           own[out[o].first] = o /\ own[out[o].last] = o /\ next[out[o].last] = NULL
    /\ move_free # NULL => own[move_free] = FREE
Joined(own) ==
    \A n \in Node : next[n] # NULL /\ own[n] # HELD =>
        /\ own[next[n]] = own[n]
        /\ own[n] = FREE => next[n] # move_free
        /\ own[n] \in Output => /\ next[n] # out[own[n]].first
                                /\ move[n].time < move[next[n]].time
Separate(own) ==
    \A m, n \in Node :
        next[m] = next[n] /\ next[n] # NULL /\ own[m] = own[n] /\ own[n] # HELD => m = n
InHand(own) ==
    task.at = "push" =>
        /\ own[task.node] = HELD
        /\ out[task.oid].first # NULL =>
               move[out[task.oid].last].time < move[task.node].time
Owned(own) == Heads(own) /\ Joined(own) /\ Separate(own) /\ InHand(own)

(* What each output's timer is set to.                                      *)
OnTime(o) == out[o].time # Off => now <= out[o].time + MaxLate
InLimit(o) ==
    o \in Guarded /\ Active(o) =>
        out[o].time # Off /\ out[o].time <= since[o] + MAX_DURATION
LoadsFirst(o) ==
    out[o].func = "load" /\ out[o].time # Off /\ out[o].first # NULL =>
        out[o].time = move[out[o].first].time
ForDigital(o) ==
    o \in Digital =>
        /\ out[o].func \in {"load", "toggle"}
        /\ "TOGGLING" \in out[o].flags =>
               /\ out[o].time # Off
               /\ out[o].func = "load" =>
                      "CHECK_END" \in out[o].flags /\ out[o].end = out[o].time
        /\ out[o].func = "toggle" /\ out[o].time # Off =>
               /\ "TOGGLING" \in out[o].flags
               /\ "CHECK_END" \in out[o].flags => out[o].time <= out[o].end
               /\ out[o].first # NULL => out[o].end = move[out[o].first].time
        /\ o \in Guarded /\ Active(o) =>
               /\ "CHECK_END" \in out[o].flags
               /\ out[o].end <= since[o] + MAX_DURATION
               /\ out[o].time <= out[o].end
ForPwm(o) ==
    o \in Pwm =>
        /\ out[o].func \in {"load", "end"}
        /\ out[o].func = "load" /\ out[o].time # Off => out[o].first # NULL
Timed(o) == OnTime(o) /\ InLimit(o) /\ LoadsFirst(o) /\ ForDigital(o) /\ ForPwm(o)

(* A command is not late, and one that is to start a pwm pin finds it idle. *)
Commanding ==
    /\ task.at # "idle" => now <= move[task.node].time + MaxLate
    /\ task.at = "start" =>
           /\ task.oid \in Pwm
           /\ out[task.oid].first = task.node
           /\ out[task.oid].func = "end" \/ out[task.oid].time = Off

IInv ==
    /\ Typed
    /\ \E own \in [Node -> Owner] : Owned(own)
    /\ \A o \in Output : Timed(o)
    /\ Commanding

-----------------------------------------------------------------------------
LEMMA Sizes ==
    /\ MoveCount \in Nat /\ MoveCount > 0 /\ MAX_DURATION \in Nat /\ MaxLate \in Nat
    /\ OnTicks \subseteq Nat /\ CycleTicks \subseteq Nat /\ Leads \subseteq Nat
    /\ Guarded \subseteq Output /\ Digital \cap Pwm = {}
    /\ Node = Place \ {NULL} /\ NULL \in Place /\ Place \subseteq Int
BY BoardAssumption, OutputsAssumption, SMT DEF Node, Place, NULL

LEMMA OffIsNoTime == ASSUME NEW t \in Int PROVE t # Off
BY BoardAssumption

LEMMA Owners == FREE \notin Output /\ HELD \notin Output /\ HELD # FREE
<1>1. \E x : x \notin Output
  BY NoSetContainsEverything
<1>2. \E x : x \notin Output \cup {FREE}
  BY NoSetContainsEverything
<1> QED
  BY <1>1, <1>2, Zenon DEF FREE, HELD

-----------------------------------------------------------------------------
(* Who has the nodes after each change of the pool.                         *)
LEMMA PopOwned ==
    ASSUME Typed, Typed', NEW own \in [Node -> Owner], Owned(own),
           NEW o \in Output, NEW n \in Node, out[o].first = n,
           out'[o].first = next[n], out'[o].last = out[o].last,
           \A p \in Output \ {o} :
               out'[p].first = out[p].first /\ out'[p].last = out[p].last,
           next' = [next EXCEPT ![n] = move_free], move_free' = n,
           UNCHANGED <<move, task>>
    PROVE  \E b \in [Node -> Owner] : Owned(b)'
<1> DEFINE b == [own EXCEPT ![n] = FREE]
<1>1. b \in [Node -> Owner]
  BY DEF Owner
<1>2. /\ \A m \in Node : m # n => b[m] = own[m] /\ next'[m] = next[m]
      /\ b[n] = FREE /\ next'[n] = move_free /\ own[n] = o /\ n # NULL
      /\ next[n] # NULL => /\ next[n] \in Node /\ own[next[n]] = o /\ next[n] # n
                           /\ out[o].last # n
  BY Sizes, Owners DEF Typed, Owned, Heads, Joined, IsOut
<1>3. move_free # NULL => move_free # n /\ own[move_free] = FREE /\ move_free \in Node
  BY <1>2, Owners, Sizes DEF Owned, Heads, Typed
<1> HIDE DEF b
<1>4. Heads(b)'
  <2>1. ASSUME NEW p \in Output, out'[p].first # NULL
        PROVE  b[out'[p].first] = p /\ b[out'[p].last] = p /\ next'[out'[p].last] = NULL
    <3>1. CASE p = o
      <4>1. out[o].last \in Node /\ out[o].last # n /\ own[out[o].last] = o
            /\ next[out[o].last] = NULL
        BY <1>2, <2>1, <3>1, Sizes DEF Owned, Heads, Typed, IsOut
      <4> QED  BY <1>2, <2>1, <3>1, <4>1
    <3>2. CASE p # o
      <4>1. /\ out[p].first \in Node /\ own[out[p].first] = p
            /\ out[p].last \in Node /\ own[out[p].last] = p /\ next[out[p].last] = NULL
        BY <2>1, <3>2, Sizes DEF Owned, Heads, Typed, IsOut
      <4> QED  BY <1>2, <2>1, <3>2, <4>1
    <3> QED  BY <3>1, <3>2
  <2> QED  BY <2>1, <1>2 DEF Heads
<1>5. Joined(b)'
  <2>1. ASSUME NEW m \in Node, next'[m] # NULL, b[m] # HELD
        PROVE  /\ b[next'[m]] = b[m]
               /\ b[m] = FREE => next'[m] # move_free'
               /\ b[m] \in Output => /\ next'[m] # out'[b[m]].first
                                     /\ move'[m].time < move'[next'[m]].time
    <3>1. CASE m = n
      BY <1>2, <1>3, <2>1, <3>1, Owners
    <3>2. CASE m # n
      <4>1. next[m] # NULL /\ own[m] # HELD /\ next[m] \in Node
        BY <1>2, <2>1, <3>2, Sizes DEF Typed
      <4>2. /\ own[next[m]] = own[m]
            /\ own[m] = FREE => next[m] # move_free
            /\ own[m] \in Output => /\ next[m] # out[own[m]].first
                                    /\ move[m].time < move[next[m]].time
        BY <4>1 DEF Owned, Joined
      <4>3. next[m] # n
        BY <4>2, <1>2, Owners
      <4>4. own[m] = o => next[m] # next[n]
        BY <4>1, <1>2, <3>2, Owners DEF Owned, Separate
      <4> QED  BY <1>2, <3>2, <4>2, <4>3, <4>4, <4>1
    <3> QED  BY <3>1, <3>2
  <2> QED  BY <2>1 DEF Joined
<1>6. Separate(b)'
  <2>1. ASSUME NEW l \in Node, NEW m \in Node, next'[l] = next'[m], next'[m] # NULL,
               b[l] = b[m], b[m] # HELD
        PROVE  l = m
    <3>1. CASE l # n /\ m # n
      BY <1>2, <2>1, <3>1 DEF Owned, Separate
    <3>2. CASE l = n /\ m # n
      BY <1>2, <1>3, <2>1, <3>2, Owners DEF Owned, Joined
    <3>3. CASE l # n /\ m = n
      BY <1>2, <1>3, <2>1, <3>3, Owners DEF Owned, Joined
    <3> QED  BY <3>1, <3>2, <3>3
  <2> QED  BY <2>1 DEF Separate
<1>7. InHand(b)'
  <2>1. ASSUME task.at = "push"
        PROVE  /\ b[task.node] = HELD
               /\ out'[task.oid].first # NULL =>
                      move[out'[task.oid].last].time < move[task.node].time
    <3>1. task.oid \in Output /\ task.node \in Node /\ own[task.node] = HELD
      BY <2>1 DEF Typed, InTask, Owned, InHand
    <3>2. b[task.node] = HELD
      BY <3>1, <1>2, Owners
    <3>3. /\ out'[task.oid].last = out[task.oid].last
          /\ out'[task.oid].first # NULL => out[task.oid].first # NULL
      BY <3>1, <1>2
    <3> QED  BY <2>1, <3>2, <3>3 DEF Owned, InHand
  <2> QED  BY <2>1 DEF InHand
<1> QED
  BY <1>1, <1>4, <1>5, <1>6, <1>7 DEF Owned

LEMMA PushOwned ==
    ASSUME Typed, Typed', NEW own \in [Node -> Owner], Owned(own),
           NEW o \in Output, NEW n \in Node,
           task.at = "push", task.oid = o, task.node = n, task'.at # "push",
           out'[o].first = (IF out[o].first = NULL THEN n ELSE out[o].first),
           out'[o].last = n,
           \A p \in Output \ {o} :
               out'[p].first = out[p].first /\ out'[p].last = out[p].last,
           Pushed(out[o], n), UNCHANGED move
    PROVE  \E b \in [Node -> Owner] : Owned(b)'
<1> PICK last \in Place : last = out[o].last
  BY DEF Typed, IsOut
<1> DEFINE b == [own EXCEPT ![n] = o]
<1>1. b \in [Node -> Owner]
  BY DEF Owner
<1>2. /\ \A m \in Node : m # n => b[m] = own[m]
      /\ b[n] = o /\ own[n] = HELD /\ n # NULL
      /\ out[o].first # NULL => last \in Node /\ own[last] = o /\ last # n
                                /\ move[last].time < move[n].time
                                /\ next[last] = NULL
                                /\ out[o].first \in Node /\ own[out[o].first] = o
  BY Sizes, Owners DEF Typed, Owned, Heads, InHand, IsOut
<1>3. /\ next'[n] = NULL /\ move_free' = move_free
      /\ \A m \in Node : m # n /\ (out[o].first # NULL => m # last) => next'[m] = next[m]
      /\ out[o].first # NULL => next'[last] = n
  BY <1>2, SMT DEF Pushed, Typed
<1>4. move_free # NULL => move_free # n /\ own[move_free] = FREE /\ move_free \in Node
  BY <1>2, Owners, Sizes DEF Owned, Heads, Typed
<1> HIDE DEF b
(* Nothing that is kept leads to the new node.                              *)
<1>5. \A m \in Node : next[m] # NULL /\ own[m] # HELD => next[m] \in Node /\ next[m] # n
  BY <1>2, Sizes DEF Owned, Joined, Typed
<1>6. Heads(b)'
  <2>1. ASSUME NEW p \in Output, out'[p].first # NULL
        PROVE  b[out'[p].first] = p /\ b[out'[p].last] = p /\ next'[out'[p].last] = NULL
    <3>1. CASE p = o
      BY <1>2, <1>3, <2>1, <3>1
    <3>2. CASE p # o
      <4>1. /\ out[p].first \in Node /\ own[out[p].first] = p
            /\ out[p].last \in Node /\ own[out[p].last] = p /\ next[out[p].last] = NULL
        BY <2>1, <3>2, Sizes DEF Owned, Heads, Typed, IsOut
      <4>2. out[p].last # n /\ out[p].first # n /\ (out[o].first # NULL => out[p].last # last)
        BY <4>1, <1>2, <3>2, Owners
      <4> QED  BY <1>2, <1>3, <2>1, <3>2, <4>1, <4>2
    <3> QED  BY <3>1, <3>2
  <2> QED  BY <2>1, <1>2, <1>3, <1>4 DEF Heads
<1>7. Joined(b)'
  <2>1. ASSUME NEW m \in Node, next'[m] # NULL, b[m] # HELD
        PROVE  /\ b[next'[m]] = b[m]
               /\ b[m] = FREE => next'[m] # move_free'
               /\ b[m] \in Output => /\ next'[m] # out'[b[m]].first
                                     /\ move'[m].time < move'[next'[m]].time
    <3>1. CASE out[o].first # NULL /\ m = last
      BY <1>2, <1>3, <2>1, <3>1, Owners
    <3>2. CASE ~(out[o].first # NULL /\ m = last)
      <4>1. m # n /\ next'[m] = next[m] /\ b[m] = own[m]
        BY <1>2, <1>3, <2>1, <3>2
      <4>2. /\ own[next[m]] = own[m]
            /\ own[m] = FREE => next[m] # move_free
            /\ own[m] \in Output => /\ next[m] # out[own[m]].first
                                    /\ move[m].time < move[next[m]].time
            /\ next[m] \in Node /\ next[m] # n
        BY <4>1, <2>1, <1>5 DEF Owned, Joined
      <4> QED  BY <1>2, <1>3, <4>1, <4>2
    <3> QED  BY <3>1, <3>2
  <2> QED  BY <2>1 DEF Joined
<1>8. Separate(b)'
  <2>1. ASSUME NEW l \in Node, NEW m \in Node, next'[l] = next'[m], next'[m] # NULL,
               b[l] = b[m], b[m] # HELD
        PROVE  l = m
    <3>1. l # n /\ m # n /\ b[l] = own[l] /\ b[m] = own[m]
      BY <1>2, <1>3, <2>1
    <3>2. CASE out[o].first # NULL /\ (l = last \/ m = last)
      BY <1>3, <1>5, <2>1, <3>1, <3>2, ZenonT(60)
    <3>3. CASE ~(out[o].first # NULL /\ (l = last \/ m = last))
      <4>1. next'[l] = next[l] /\ next'[m] = next[m]
        BY <1>3, <3>1, <3>3
      <4> QED  BY <2>1, <3>1, <4>1, ZenonT(60) DEF Owned, Separate
    <3> QED  BY <3>2, <3>3
  <2> QED  BY <2>1 DEF Separate
<1>9. InHand(b)'
  BY DEF InHand
<1> QED
  BY <1>1, <1>6, <1>7, <1>8, <1>9 DEF Owned

LEMMA AllocOwned ==
    ASSUME Typed, Typed', NEW own \in [Node -> Owner], Owned(own),
           NEW o \in Output, NEW n \in Node, move_free = n, task.at = "idle",
           NEW time \in Int, time > LastTime(o),
           move'[n].time = time,
           \A m \in Node \ {n} : move'[m].time = move[m].time,
           move_free' = next[n], UNCHANGED <<out, next>>,
           task'.at = "push", task'.oid = o, task'.node = n
    PROVE  \E b \in [Node -> Owner] : Owned(b)'
<1> DEFINE b == [own EXCEPT ![n] = HELD]
<1>1. b \in [Node -> Owner]
  BY DEF Owner
<1>2. /\ \A m \in Node : m # n => b[m] = own[m]
      /\ b[n] = HELD /\ own[n] = FREE /\ n # NULL
      /\ next[n] # NULL => next[n] \in Node /\ next[n] # n /\ own[next[n]] = FREE
  BY Sizes, Owners DEF Typed, Owned, Heads, Joined
<1> HIDE DEF b
<1>3. \A p \in Output : out[p].first # NULL =>
          /\ out[p].first \in Node /\ own[out[p].first] = p /\ out[p].first # n
          /\ out[p].last \in Node /\ own[out[p].last] = p /\ out[p].last # n
          /\ next[out[p].last] = NULL
  BY <1>2, Owners, Sizes DEF Owned, Heads, Typed, IsOut
<1>4. Heads(b)'
  BY <1>2, <1>3 DEF Heads
<1>5. Joined(b)'
  <2>1. ASSUME NEW m \in Node, next[m] # NULL, b[m] # HELD
        PROVE  /\ b[next[m]] = b[m]
               /\ b[m] = FREE => next[m] # next[n]
               /\ b[m] \in Output => /\ next[m] # out[b[m]].first
                                     /\ move'[m].time < move'[next[m]].time
    <3>1. /\ m # n /\ b[m] = own[m] /\ own[next[m]] = own[m] /\ next[m] \in Node
          /\ own[m] = FREE => next[m] # n
          /\ own[m] \in Output => /\ next[m] # out[own[m]].first
                                  /\ move[m].time < move[next[m]].time
      BY <1>2, <2>1, Sizes DEF Owned, Joined, Typed
    <3>2. next[m] # n
      BY <3>1, <1>2
    <3>3. own[m] = FREE => next[m] # next[n]
      BY <3>1, <2>1, <1>2 DEF Owned, Separate
    <3> QED  BY <1>2, <3>1, <3>2, <3>3
  <2> QED  BY <2>1 DEF Joined
<1>6. Separate(b)'
  BY <1>2 DEF Owned, Separate
<1>7. InHand(b)'
  BY <1>2, <1>3 DEF InHand, LastTime
<1> QED
  BY <1>1, <1>4, <1>5, <1>6, <1>7 DEF Owned

LEMMA ResetOwned ==
    /\ next = Linked /\ move_free = 1 /\ task.at = "idle"
    /\ \A o \in Output : out[o].first = NULL
    => \E b \in [Node -> Owner] : Owned(b)
<1> SUFFICES ASSUME next = Linked, move_free = 1, task.at = "idle",
                    \A o \in Output : out[o].first = NULL
             PROVE  \E b \in [Node -> Owner] : Owned(b)
  OBVIOUS
<1> DEFINE b == [n \in Node |-> FREE]
<1>1. b \in [Node -> Owner]
  BY DEF Owner
<1>2. \A n \in Node : next[n] # NULL => next[n] = n + 1 /\ n + 1 \in Node
  BY Sizes, SMT DEF Linked, Node, NULL
<1>3. 1 \in Node /\ \A n \in Node : n + 1 # 1
  BY Sizes, SMT DEF Node
<1>4. Heads(b) /\ InHand(b)
  BY <1>3 DEF Heads, InHand
<1>5. Joined(b)
  BY <1>2, <1>3, Owners DEF Joined
<1>6. Separate(b)
  <2>1. ASSUME NEW m \in Node, NEW n \in Node, next[m] = next[n], next[n] # NULL
        PROVE  m = n
    BY <1>2, <2>1, SMT DEF Node
  <2> QED  BY <2>1 DEF Separate
<1> QED
  BY <1>1, <1>4, <1>5, <1>6 DEF Owned

-----------------------------------------------------------------------------
(* What an output's timer is set to depends on no other output.             *)
LEMMA Untouched ==
    ASSUME NEW p \in Output, Timed(p), out'[p] = out[p], since'[p] = since[p],
           now' = now,
           out[p].first # NULL => move'[out[p].first].time = move[out[p].first].time
    PROVE  Timed(p)'
<1>1. Active(p)' = Active(p)
  BY DEF Active
<1> QED
  BY <1>1 DEF Timed, OnTime, InLimit, LoadsFirst, ForDigital, ForPwm

(* The second node of a queue is later than the first.                      *)
LEMMA SecondLater ==
    ASSUME IInv, NEW o \in Output, out[o].first # NULL
    PROVE  /\ out[o].first \in Node /\ Second(o) \in Place
           /\ move[out[o].first].time \in Int /\ Ticks(o) \in Nat
           /\ Second(o) # NULL =>
                  /\ Second(o) \in Node
                  /\ move[Second(o)].time \in Int
                  /\ move[out[o].first].time < move[Second(o)].time
<1> PICK own \in [Node -> Owner] : Owned(own)
  BY DEF IInv
<1>1. out[o].first \in Node /\ own[out[o].first] = o
  BY Sizes DEF IInv, Typed, IsOut, Owned, Heads
<1> DEFINE n == out[o].first
<1>2. /\ n \in Node /\ next[n] \in Place
      /\ move[n].time \in Int /\ move[n].ticks \in Nat
      /\ \A m \in Node : move[m].time \in Int
  BY <1>1 DEF IInv, Typed
<1>3. next[n] # NULL =>
          next[n] \in Node /\ move[n].time < move[next[n]].time
  BY <1>1, <1>2, Sizes, Owners DEF Owned, Joined
<1> QED
  BY <1>2, <1>3 DEF Second, Ticks

(* No output is away from its default after a shutdown, and none has a timer.*)
LEMMA ShutDownKeeps == IInv /\ OutputsShutDown => IInv'
<1> SUFFICES ASSUME IInv, OutputsShutDown  PROVE IInv'
  OBVIOUS
<1>1. DOMAIN out' = Output
  BY DEF OutputsShutDown
<1>2. ASSUME NEW o \in Output
      PROVE  /\ DOMAIN out'[o] = Fields
             /\ out'[o].time = Off /\ out'[o].flags = Default(o) /\ out'[o].first = NULL
             /\ out'[o].func = (IF o \in Pwm THEN "load" ELSE out[o].func)
             /\ out'[o].last = out[o].last /\ out'[o].end = out[o].end
             /\ out'[o].on = out[o].on /\ out'[o].off = out[o].off
             /\ out'[o].cycle = out[o].cycle
  BY Zenon DEF OutputsShutDown, IInv, Typed, IsOut, Fields
<1>3. /\ task' = Idle /\ task'.at = "idle" /\ next' = Linked /\ move_free' = 1
      /\ UNCHANGED <<now, move, since>>
  BY DEF OutputsShutDown, Idle
<1>4. next' \in [Node -> Place] /\ move_free' \in Place
  BY <1>3, Sizes, SMT DEF Linked, Node, Place, NULL
<1>5. Typed'
  BY <1>1, <1>2, <1>3, <1>4, Sizes DEF IInv, Typed, IsOut, InTask
<1>6. \E own \in [Node -> Owner] : Owned(own)'
  <2>1. (/\ next = Linked /\ move_free = 1 /\ task.at = "idle"
         /\ \A o \in Output : out[o].first = NULL)'
    BY <1>2, <1>3
  <2>2. (\E b \in [Node -> Owner] : Owned(b))'
    BY <2>1, ResetOwned, PTL
  <2> QED  BY <2>2
<1>7. ASSUME NEW o \in Output  PROVE Timed(o)'
  <2>1. "TOGGLING" \notin out'[o].flags /\ ~Active(o)'
    BY <1>2 DEF Active, Default, Flag
  <2>2. o \in Digital => out[o].func \in {"load", "toggle"} /\ o \notin Pwm
    BY Sizes DEF IInv, Timed, ForDigital
  <2> QED
    BY <1>2, <2>1, <2>2 DEF Timed, OnTime, InLimit, LoadsFirst, ForDigital, ForPwm
<1>8. Commanding'
  BY <1>3 DEF Commanding
<1> QED
  BY <1>5, <1>6, <1>7, <1>8 DEF IInv

(* No timer of an output is left behind by the clock, nor is a command.     *)
LEMMA TickKeeps == IInv /\ OutputsTick => IInv'
<1> SUFFICES ASSUME IInv, OutputsTick  PROVE IInv'
  OBVIOUS
<1>1. /\ now' = now + 1 /\ now \in Int
      /\ UNCHANGED <<task, out, move, next, move_free, since>>
  BY DEF OutputsTick, Tick, outputVars, pool, IInv, Typed
<1>2. \A o \in Output : out[o].time # Off => now - out[o].time < MaxLate
  BY DEF OutputsTick, Tick, Outputtimes
<1>3. task.at # "idle" => now - move[task.node].time < MaxLate
  <2>1. ASSUME task.at # "idle"  PROVE now - move[task.node].time < MaxLate
    <3>1. task # Idle /\ task.node \in Node
      BY <2>1 DEF Idle, IInv, Typed, InTask
    <3>2. move[task.node].time \in Int
      BY <3>1 DEF IInv, Typed
    <3> QED  BY <3>1, <3>2, OffIsNoTime DEF OutputsTick, Tick
  <2> QED  BY <2>1
<1>4. Typed'
  BY <1>1 DEF IInv, Typed, InTask
<1>5. \E own \in [Node -> Owner] : Owned(own)'
  <2> PICK own \in [Node -> Owner] : Owned(own)
    BY DEF IInv
  <2>1. Owned(own)'
    BY <1>1 DEF Owned, Heads, Joined, Separate, InHand
  <2> QED  BY <2>1
<1>6. ASSUME NEW o \in Output  PROVE Timed(o)'
  <2>1. Timed(o) /\ IsOut(out[o]) /\ Active(o)' = Active(o)
    BY <1>1 DEF IInv, Typed, Active
  <2>2. OnTime(o)'
    BY <1>1, <1>2, <2>1, Sizes DEF OnTime, IsOut
  <2> QED
    BY <1>1, <2>1, <2>2 DEF Timed, InLimit, LoadsFirst, ForDigital, ForPwm
<1>7. Commanding'
  <2>1. task.at # "idle" => move[task.node].time \in Int
    BY DEF IInv, Typed, InTask
  <2> QED
    BY <1>1, <1>3, <2>1, Sizes DEF IInv, Commanding
<1> QED
  BY <1>4, <1>5, <1>6, <1>7 DEF IInv

(* A step that leaves the pool and the queues alone leaves the owners.      *)
LEMMA OwnersStay ==
    ASSUME IInv, UNCHANGED <<move, next, move_free>>, task' = task \/ task'.at # "push",
           \A p \in Output : out'[p].first = out[p].first /\ out'[p].last = out[p].last
    PROVE  \E own \in [Node -> Owner] : Owned(own)'
<1> PICK own \in [Node -> Owner] : Owned(own)
  BY DEF IInv
<1>1. Heads(own)'
  BY DEF Owned, Heads
<1>2. Joined(own)'
  BY DEF Owned, Joined
<1>3. Separate(own)'
  BY DEF Owned, Separate
<1>4. InHand(own)'
  BY DEF Owned, InHand, IInv, Typed, InTask
<1> QED
  BY <1>1, <1>2, <1>3, <1>4 DEF Owned

(* What is first in a queue is not free.                                    *)
LEMMA FirstNotFree ==
    ASSUME IInv, NEW o \in Output, out[o].first # NULL
    PROVE  /\ out[o].first \in Node /\ out[o].first # move_free
           /\ out[o].last \in Node /\ out[o].last # move_free
<1> PICK own \in [Node -> Owner] : Owned(own)
  BY DEF IInv
<1> QED
  BY Sizes, Owners DEF IInv, Typed, IsOut, Owned, Heads

LEMMA ToggleKeeps ==
    ASSUME IInv, NEW o \in Output, out[o].time # Off, DigitalToggleEvent(o)
    PROVE  IInv'
<1> DEFINE x == out[o]
           on == "ON" \notin x.flags
           later == x.time + (IF on THEN x.on ELSE x.off)
           ends == "CHECK_END" \in x.flags /\ later >= x.end
<1>1. /\ x.func = "toggle" /\ UNCHANGED <<now, task, move, next, move_free, since>>
      /\ out' = [out EXCEPT ![o] =
              [x EXCEPT !.flags = IF on THEN @ \cup {"ON"} ELSE @ \ {"ON"},
                        !.func = IF ends THEN "load" ELSE @,
                        !.time = IF ends THEN x.end ELSE later]]
  BY DEF DigitalToggleEvent, pool
<1> HIDE DEF on, later, ends
<1>2. /\ DOMAIN out' = Output /\ \A p \in Output : p # o => out'[p] = out[p]
      /\ DOMAIN out'[o] = Fields
      /\ out'[o].flags = (IF on THEN x.flags \cup {"ON"} ELSE x.flags \ {"ON"})
      /\ out'[o].func = (IF ends THEN "load" ELSE x.func)
      /\ out'[o].time = (IF ends THEN x.end ELSE later)
      /\ out'[o].end = x.end /\ out'[o].on = x.on /\ out'[o].off = x.off
      /\ out'[o].cycle = x.cycle /\ out'[o].first = x.first /\ out'[o].last = x.last
  BY <1>1, Zenon DEF IInv, Typed, IsOut, Fields
<1>3. IsOut(x) /\ Timed(o) /\ now \in Int /\ since[o] \in Int
  BY DEF IInv, Typed
<1>4. later \in Int /\ later >= x.time /\ x.time \in Int
  BY <1>3 DEF IsOut, later
<1>5. o \in Digital /\ o \notin Pwm /\ "TOGGLING" \in x.flags
  BY <1>1, <1>3, Sizes DEF Timed, ForDigital, ForPwm, Output
<1>6. "TOGGLING" \in out'[o].flags
      /\ ("CHECK_END" \in out'[o].flags <=> "CHECK_END" \in x.flags)
  BY <1>2, <1>5
<1>7. Typed'
  BY <1>1, <1>2, <1>3, <1>4, OffIsNoTime DEF IInv, Typed, IsOut, InTask
<1>8. \E own \in [Node -> Owner] : Owned(own)'
  BY <1>1, <1>2, OwnersStay
<1>9. Timed(o)'
  <2>1. /\ now <= x.time + MaxLate
        /\ "CHECK_END" \in x.flags => x.time <= x.end
        /\ x.first # NULL => x.end = move[x.first].time
    BY <1>1, <1>3, <1>5 DEF Timed, OnTime, ForDigital
  <2>2. o \in Guarded => /\ "CHECK_END" \in x.flags
                         /\ x.end <= since[o] + MAX_DURATION /\ x.time <= x.end
    BY <1>3, <1>5 DEF Timed, ForDigital, Active
  <2>3. IF ends THEN /\ out'[o].time = x.end /\ out'[o].func = "load"
                     /\ "CHECK_END" \in x.flags
                ELSE /\ out'[o].time = later /\ out'[o].func = "toggle"
                     /\ "CHECK_END" \in x.flags => later < x.end
    BY <1>1, <1>2, <1>3, <1>4 DEF ends, IsOut
  <2>4. out'[o].time \in Int /\ out'[o].time >= x.time
        /\ ("CHECK_END" \in x.flags => out'[o].time <= x.end)
    BY <1>3, <1>4, <2>1, <2>3 DEF IsOut
  <2>5. OnTime(o)'
    BY <1>1, <1>3, <1>4, <2>1, <2>4, Sizes DEF OnTime
  <2>6. InLimit(o)'
    BY <1>1, <1>3, <2>2, <2>4, Sizes, OffIsNoTime DEF InLimit, IsOut
  <2>7. LoadsFirst(o)'
    BY <1>1, <1>2, <2>1, <2>3 DEF LoadsFirst
  <2>8. ForDigital(o)'
    BY <1>1, <1>2, <1>6, <2>1, <2>2, <2>3, <2>4, OffIsNoTime DEF ForDigital
  <2> QED
    BY <1>5, <2>5, <2>6, <2>7, <2>8 DEF Timed, ForPwm
<1>10. \A p \in Output : Timed(p)'
  BY <1>1, <1>2, <1>9, Untouched DEF IInv
<1>11. Commanding'
  BY <1>1, <1>2, <1>5 DEF IInv, Typed, InTask, Commanding
<1> QED
  BY <1>7, <1>8, <1>10, <1>11 DEF IInv

-----------------------------------------------------------------------------
(* A load: what it shares for both kinds of output.                         *)
LEMMA LoadPops ==
    ASSUME IInv, NEW o \in Output, NEW x, NEW time, out[o].first # NULL,
           out[o].time # Off,
           out[o].func = "load", PopTo(o, x), IsOut(out'[o]), DOMAIN out' = Output,
           \A p \in Output : p # o => out'[p] = out[p],
           out'[o].first = Second(o), out'[o].last = out[o].last, Timed(o)'
    PROVE  IInv'
<1> PICK n \in Node : n = out[o].first
  BY SecondLater
<1>1. /\ next' = [next EXCEPT ![n] = move_free] /\ move_free' = n
      /\ since' = [since EXCEPT ![o] = out[o].time]
      /\ UNCHANGED <<now, task, move>>
  BY DEF PopTo
<1>2. Typed'
  BY <1>1, Sizes DEF IInv, Typed, IsOut, InTask
<1>3. \E own \in [Node -> Owner] : Owned(own)'
  <2> PICK own \in [Node -> Owner] : Owned(own)
    BY DEF IInv
  <2>1. out'[o].first = next[n] /\ Typed
    BY DEF Second, IInv
  <2> QED  BY <1>1, <1>2, <2>1, PopOwned
<1>4. \A p \in Output : Timed(p)'
  <2>1. ASSUME NEW p \in Output, p # o  PROVE Timed(p)'
    <3>1. Timed(p) /\ out'[p] = out[p] /\ since'[p] = since[p] /\ now' = now /\ move' = move
      BY <1>1, <2>1 DEF IInv, Typed
    <3> QED  BY <3>1, Untouched
  <2> QED  BY <2>1
<1>5. Commanding'
  BY <1>1 DEF IInv, Typed, InTask, Commanding
<1> QED
  BY <1>2, <1>3, <1>4, <1>5 DEF IInv

LEMMA DigitalLoadKeeps ==
    ASSUME IInv, NEW o \in Output, out[o].time # Off, DigitalLoadEvent(o)
    PROVE  IInv'
<1> DEFINE x == out[o]
           checks == Limited(o) \/ Second(o) # NULL
           end == IF Second(o) # NULL THEN move[Second(o)].time
                  ELSE IF Limited(o) THEN Limit(o) ELSE 0
           pulse == x.time + Ticks(o)
           flags == Flag("ON", Ticks(o) # 0) \cup Flag("TOGGLING", Toggles(o))
                    \cup Flag("CHECK_END", checks)
           pulses == Toggles(o) /\ ~(checks /\ pulse >= end)
           y == [x EXCEPT
                  !.flags = flags, !.end = end,
                  !.func = IF pulses THEN "toggle" ELSE @,
                  !.on = IF pulses THEN Ticks(o) ELSE @,
                  !.off = IF pulses THEN x.cycle - Ticks(o) ELSE @,
                  !.time = IF pulses THEN pulse ELSE IF checks THEN end ELSE Off]
<1>1. /\ o \in Digital /\ x.func = "load" /\ x.first # NULL /\ ~ExceedsLimit(o)
      /\ PopTo(o, y)
  BY DEF DigitalLoadEvent
<1>2. /\ x.first \in Node /\ Second(o) \in Place /\ Ticks(o) \in Nat
      /\ x.time = move[x.first].time /\ x.time \in Int
      /\ Second(o) # NULL => move[Second(o)].time \in Int
                             /\ x.time < move[Second(o)].time
  BY <1>1, SecondLater DEF IInv, Timed, LoadsFirst
<1>3. IsOut(x) /\ Timed(o) /\ now \in Int /\ since[o] \in Int /\ now <= x.time + MaxLate
  BY DEF IInv, Typed, Timed, OnTime
<1>4. /\ end \in Int /\ pulse \in Int /\ pulse >= x.time
      /\ checks => end >= x.time
      /\ o \in Guarded /\ Limited(o) => checks /\ end <= x.time + MAX_DURATION
  BY <1>1, <1>2, Sizes DEF ExceedsLimit, Limit
<1>5. /\ "ON" \in flags <=> Ticks(o) # 0
      /\ "TOGGLING" \in flags <=> Toggles(o)
      /\ "CHECK_END" \in flags <=> checks
      /\ flags \cap {"ON"} = Flag("ON", Ticks(o) # 0)
  BY DEF Flag
<1>6. /\ PopTo(o, y)
      /\ Toggles(o) => x.cycle - Ticks(o) \in Nat
  BY <1>1, <1>2, <1>3 DEF Toggles, IsOut
<1>7. /\ DOMAIN out' = Output /\ \A p \in Output : p # o => out'[p] = out[p]
      /\ out'[o] = [y EXCEPT !.first = Second(o)]
      /\ since'[o] = x.time /\ now' = now /\ move' = move
  BY Zenon DEF PopTo, Second, IInv, Typed, DigitalLoadEvent
<1> HIDE DEF checks, end, pulse, flags, pulses
<1>8. /\ DOMAIN out'[o] = Fields
      /\ out'[o].flags = flags /\ out'[o].end = end
      /\ out'[o].func = (IF pulses THEN "toggle" ELSE x.func)
      /\ out'[o].on = (IF pulses THEN Ticks(o) ELSE x.on)
      /\ out'[o].off = (IF pulses THEN x.cycle - Ticks(o) ELSE x.off)
      /\ out'[o].time = (IF pulses THEN pulse ELSE IF checks THEN end ELSE Off)
      /\ out'[o].cycle = x.cycle /\ out'[o].first = Second(o) /\ out'[o].last = x.last
  BY <1>3, <1>7, Zenon DEF IsOut, Fields
<1> HIDE DEF y
<1>9. pulses => Toggles(o) /\ (checks => pulse < end)
  BY <1>4 DEF pulses
<1>10. Toggles(o) /\ ~pulses => checks
  BY DEF pulses
<1>11. IsOut(out'[o])
  BY <1>2, <1>3, <1>4, <1>6, <1>8, <1>9, Sizes, OffIsNoTime DEF IsOut
(* What is on, or toggles, is limited.                                      *)
<1>12. o \in Guarded /\ Active(o)' => Limited(o)
  BY <1>1, <1>5, <1>8 DEF Active, Limited, Default, Flag
<1>13. /\ out'[o].time # Off =>
              /\ out'[o].time \in Int /\ out'[o].time >= x.time
              /\ checks => out'[o].time <= end
       /\ checks => out'[o].time # Off
  BY <1>2, <1>4, <1>8, <1>9, OffIsNoTime
<1>14. Timed(o)'
  <2>1. OnTime(o)'
    BY <1>2, <1>3, <1>7, <1>13, Sizes DEF OnTime
  <2>2. InLimit(o)'
    BY <1>2, <1>4, <1>7, <1>12, <1>13, Sizes DEF InLimit
  <2>3. out'[o].first # NULL => end = move'[out'[o].first].time /\ checks
    BY <1>7, <1>8 DEF end, checks
  <2>4. LoadsFirst(o)'
    BY <1>1, <1>8, <2>3 DEF LoadsFirst
  <2>5. out'[o].func = "load" => ~pulses
    BY <1>8
  <2>6. ForDigital(o)'
    <3>1. "TOGGLING" \in out'[o].flags =>
             /\ out'[o].time # Off
             /\ out'[o].func = "load" =>
                    "CHECK_END" \in out'[o].flags /\ out'[o].end = out'[o].time
      BY <1>4, <1>5, <1>8, <1>10, <1>13, <2>5, OffIsNoTime
    <3>2. out'[o].func = "toggle" =>
             /\ "TOGGLING" \in out'[o].flags
             /\ "CHECK_END" \in out'[o].flags => out'[o].time <= out'[o].end
             /\ out'[o].first # NULL => out'[o].end = move'[out'[o].first].time
      BY <1>1, <1>4, <1>5, <1>8, <1>9, <2>3
    <3>3. o \in Guarded /\ Active(o)' =>
               /\ "CHECK_END" \in out'[o].flags
               /\ out'[o].end <= since'[o] + MAX_DURATION
               /\ out'[o].time <= out'[o].end
      BY <1>4, <1>5, <1>7, <1>8, <1>12, <1>13
    <3> QED
      BY <1>1, <1>8, <3>1, <3>2, <3>3 DEF ForDigital
  <2> QED
    BY <1>1, <2>1, <2>2, <2>4, <2>6, Sizes DEF Timed, ForPwm
<1> QED
  BY <1>1, <1>6, <1>7, <1>8, <1>11, <1>14, LoadPops

LEMMA PwmEventKeeps ==
    ASSUME IInv, NEW o \in Output, out[o].time # Off, PwmEvent(o)
    PROVE  IInv'
<1> DEFINE x == out[o]
           y == [x EXCEPT
                  !.flags = Flag("ON", Ticks(o) # 0),
                  !.func = IF Second(o) = NULL /\ Limited(o) THEN "end" ELSE @,
                  !.time = IF Second(o) # NULL THEN move[Second(o)].time
                           ELSE IF Limited(o) THEN Limit(o) ELSE Off]
<1>1. /\ o \in Pwm /\ o \notin Digital /\ x.func = "load" /\ ~ExceedsLimit(o)
      /\ PopTo(o, y)
  BY Sizes DEF PwmEvent
<1>2. x.first # NULL
  BY <1>1 DEF IInv, Timed, ForPwm
<1>3. /\ x.first \in Node /\ Second(o) \in Place
      /\ x.time = move[x.first].time /\ x.time \in Int
      /\ Second(o) # NULL => move[Second(o)].time \in Int
                             /\ x.time < move[Second(o)].time
  BY <1>1, <1>2, SecondLater DEF IInv, Timed, LoadsFirst
<1>4. IsOut(x) /\ Timed(o) /\ now \in Int /\ since[o] \in Int /\ now <= x.time + MaxLate
  BY DEF IInv, Typed, Timed, OnTime
<1>5. /\ Limit(o) \in Int /\ Limit(o) = x.time + MAX_DURATION
      /\ Limited(o) /\ Second(o) # NULL => move[Second(o)].time <= Limit(o)
  BY <1>1, <1>3, Sizes DEF ExceedsLimit, Limit
<1>6. /\ DOMAIN out' = Output /\ \A p \in Output : p # o => out'[p] = out[p]
      /\ out'[o] = [y EXCEPT !.first = Second(o)]
      /\ since'[o] = x.time /\ now' = now /\ move' = move
  BY Zenon DEF PopTo, Second, IInv, Typed, PwmEvent
<1>7. /\ DOMAIN out'[o] = Fields
      /\ out'[o].flags = Flag("ON", Ticks(o) # 0)
      /\ out'[o].func = (IF Second(o) = NULL /\ Limited(o) THEN "end" ELSE x.func)
      /\ out'[o].time = (IF Second(o) # NULL THEN move[Second(o)].time
                         ELSE IF Limited(o) THEN Limit(o) ELSE Off)
      /\ out'[o].end = x.end /\ out'[o].on = x.on /\ out'[o].off = x.off
      /\ out'[o].cycle = x.cycle /\ out'[o].first = Second(o) /\ out'[o].last = x.last
  BY <1>4, <1>6, Zenon DEF IsOut, Fields
<1> HIDE DEF y
<1>8. IsOut(out'[o])
  BY <1>2, <1>3, <1>4, <1>5, <1>7, Sizes, OffIsNoTime DEF IsOut
<1>9. o \in Guarded /\ Active(o)' => Limited(o)
  BY <1>7 DEF Active, Limited, Default, Flag
<1>10. /\ out'[o].time # Off => out'[o].time \in Int /\ out'[o].time >= x.time
       /\ Limited(o) => out'[o].time # Off /\ out'[o].time <= Limit(o)
  BY <1>3, <1>5, <1>7, Sizes, OffIsNoTime
<1>11. Timed(o)'
  <2>1. OnTime(o)'
    BY <1>3, <1>4, <1>6, <1>10, Sizes DEF OnTime
  <2>2. InLimit(o)'
    BY <1>5, <1>6, <1>9, <1>10 DEF InLimit
  <2>3. LoadsFirst(o)' /\ ForPwm(o)'
    BY <1>1, <1>6, <1>7 DEF LoadsFirst, ForPwm
  <2> QED
    BY <1>1, <2>1, <2>2, <2>3 DEF Timed, ForDigital
<1> QED
  BY <1>1, <1>2, <1>6, <1>7, <1>8, <1>11, LoadPops

-----------------------------------------------------------------------------
(* The sections of the commands.                                            *)
LEMMA PushDigitalKeeps ==
    ASSUME IInv, NEW o \in Output, NEW n \in Node, PushDigital(o, n)
    PROVE  IInv'
<1> DEFINE x == out[o]
           time == move[n].time
           checked == [x EXCEPT !.end = time, !.flags = @ \cup {"CHECK_END"}]
           y == IF x.first # NULL THEN x
                ELSE IF WaitsForToggle(x, time) THEN checked
                ELSE [checked EXCEPT !.time = time, !.func = "load"]
<1>1. /\ o \in Digital /\ o \notin Pwm
      /\ task.at = "push" /\ task.oid = o /\ task.node = n /\ n # NULL
  BY Sizes DEF PushDigital
<1>2. CASE OutputsShutDown
  BY <1>2, ShutDownKeeps
<1>3. CASE ~OutputsShutDown
  <2>1. /\ x.first = NULL => ~TooLate(x, time)
        /\ out' = [out EXCEPT ![o] = WithLast(y, n)]
        /\ Pushed(x, n) /\ task' = Idle /\ task'.at = "idle" /\ task'.at # "push"
        /\ UNCHANGED <<now, move, since>>
    BY <1>3 DEF PushDigital, Idle
  <2>2. IsOut(x) /\ Timed(o) /\ now \in Int /\ since[o] \in Int /\ time \in Int
    BY DEF IInv, Typed
  <2>3. y \in {x, checked, [checked EXCEPT !.time = time, !.func = "load"]}
    OBVIOUS
  <2>4. /\ DOMAIN checked = Fields
        /\ checked.end = time /\ checked.flags = x.flags \cup {"CHECK_END"}
        /\ checked.time = x.time /\ checked.func = x.func /\ checked.on = x.on
        /\ checked.off = x.off /\ checked.cycle = x.cycle
        /\ checked.first = x.first /\ checked.last = x.last
    BY <2>2, Zenon DEF IsOut, Fields
  <2> DEFINE ready == [checked EXCEPT !.time = time, !.func = "load"]
  <2>5. /\ DOMAIN ready = Fields
        /\ ready.end = time /\ ready.flags = x.flags \cup {"CHECK_END"}
        /\ ready.time = time /\ ready.func = "load" /\ ready.on = x.on
        /\ ready.off = x.off /\ ready.cycle = x.cycle
        /\ ready.first = x.first /\ ready.last = x.last
    <3> HIDE DEF checked
    <3> QED  BY <2>4, Zenon DEF Fields
  <2>6. y = IF x.first # NULL THEN x
            ELSE IF WaitsForToggle(x, time) THEN checked ELSE ready
    OBVIOUS
  <2> HIDE DEF checked, ready, y
  <2>7. /\ DOMAIN y = Fields /\ y.on = x.on /\ y.off = x.off /\ y.cycle = x.cycle
        /\ y.first = x.first /\ y.last = x.last
    BY <2>2, <2>4, <2>5, <2>6 DEF IsOut
  <2>8. /\ DOMAIN out' = Output /\ \A p \in Output : p # o => out'[p] = out[p]
        /\ DOMAIN out'[o] = Fields
        /\ out'[o].time = y.time /\ out'[o].func = y.func /\ out'[o].flags = y.flags
        /\ out'[o].end = y.end /\ out'[o].on = x.on /\ out'[o].off = x.off
        /\ out'[o].cycle = x.cycle
        /\ out'[o].first = (IF x.first = NULL THEN n ELSE x.first)
        /\ out'[o].last = n
    BY <2>1, <2>7, Zenon DEF WithLast, IInv, Typed, Fields
  <2>9. now <= time + MaxLate
    BY <1>1 DEF IInv, Commanding
  (* What an empty queue makes of the timer.                                *)
  <2>10. ASSUME x.first = NULL
         PROVE  /\ y.end = time /\ y.flags = x.flags \cup {"CHECK_END"}
                /\ \/ "TOGGLING" \in x.flags /\ x.time < time
                      /\ y.time = x.time /\ y.func = x.func
                   \/ y.time = time /\ y.func = "load"
                /\ "CHECK_END" \in x.flags => time <= x.end
    BY <2>1, <2>2, <2>4, <2>5, <2>6, <2>10 DEF TooLate, WaitsForToggle, IsOut
  <2>11. x.first # NULL => y = x
    BY <2>6
  <2>12. /\ "TOGGLING" \in x.flags => x.time # Off /\ x.time \in Int
         /\ y.time # Off => y.time \in Int
         /\ y.end \in Int
    BY <1>1, <2>2, <2>10, <2>11 DEF Timed, ForDigital, IsOut
  <2>13. IsOut(out'[o])
    BY <1>1, <2>2, <2>8, <2>12, Sizes DEF IsOut
  <2>14. Typed'
    <3>1. next' \in [Node -> Place] /\ move_free' \in Place
      BY <2>1, Sizes DEF Pushed, IInv, Typed
    <3> QED
      BY <2>1, <2>8, <2>13, <3>1, Sizes DEF IInv, Typed, InTask
  <2>15. \E own \in [Node -> Owner] : Owned(own)'
    <3> PICK own \in [Node -> Owner] : Owned(own)
      BY DEF IInv
    <3>1. Typed /\ \A p \in Output \ {o} :
               out'[p].first = out[p].first /\ out'[p].last = out[p].last
      BY <2>8 DEF IInv
    <3> QED  BY <1>1, <2>1, <2>8, <2>14, <3>1, PushOwned
  <2>16. Active(o)' = Active(o)
    <3>1. /\ ("TOGGLING" \in y.flags) = ("TOGGLING" \in x.flags)
          /\ y.flags \cap {"ON"} = x.flags \cap {"ON"}
      BY <2>10, <2>11
    <3> QED  BY <2>8, <3>1 DEF Active
  <2>17. Timed(o)'
    <3>1. CASE x.first # NULL
      <4>1. /\ out'[o].time = x.time /\ out'[o].func = x.func /\ out'[o].end = x.end
            /\ out'[o].flags = x.flags /\ out'[o].first = x.first
        BY <2>8, <2>11, <3>1
      <4> QED
        BY <1>1, <2>1, <2>2, <2>16, <3>1, <4>1
        DEF Timed, OnTime, InLimit, LoadsFirst, ForDigital, ForPwm
    <3>2. CASE x.first = NULL
      <4>1. /\ OnTime(o)' /\ out'[o].time # Off
        BY <2>1, <2>2, <2>8, <2>9, <2>10, <2>12, <3>2, OffIsNoTime DEF Timed, OnTime
      <4>2. "TOGGLING" \in x.flags /\ x.time < time => x.func # "load"
        BY <1>1, <2>2, <2>10, <3>2 DEF Timed, ForDigital, IsOut
      <4>3. LoadsFirst(o)'
        BY <1>1, <2>1, <2>8, <2>10, <3>2, <4>2 DEF LoadsFirst
      <4>4. o \in Guarded /\ Active(o) =>
                time <= since[o] + MAX_DURATION
                /\ y.time <= time /\ "CHECK_END" \in y.flags
        BY <1>1, <2>2, <2>10, <2>12, <3>2, Sizes DEF Timed, ForDigital, IsOut
      <4>5. InLimit(o)'
        BY <2>1, <2>2, <2>8, <2>12, <2>16, <4>1, <4>4, Sizes DEF InLimit
      <4>6. /\ y.func \in {"load", "toggle"}
            /\ y.func = "load" => y.time = time
            /\ y.func = "toggle" => "TOGGLING" \in y.flags /\ y.time < time
        BY <1>1, <2>2, <2>10, <3>2, <4>2 DEF Timed, ForDigital
      <4>7. ForDigital(o)'
        BY <1>1, <2>1, <2>2, <2>8, <2>10, <2>12, <2>16, <3>2, <4>1, <4>4, <4>6
        DEF ForDigital
      <4> QED
        BY <1>1, <4>1, <4>3, <4>5, <4>7 DEF Timed, ForPwm
    <3> QED  BY <3>1, <3>2
  <2>18. \A p \in Output : Timed(p)'
    BY <2>1, <2>8, <2>17, Untouched DEF IInv
  <2>19. Commanding'
    BY <2>1 DEF Commanding
  <2> QED
    BY <2>14, <2>15, <2>18, <2>19 DEF IInv
<1> QED
  BY <1>2, <1>3

LEMMA PushPwmKeeps ==
    ASSUME IInv, NEW o \in Output, NEW n \in Node, PushPwm(o, n)
    PROVE  IInv'
<1> DEFINE x == out[o]
<1>1. /\ o \in Pwm /\ o \notin Digital
      /\ task = [at |-> "push", oid |-> o, node |-> n] /\ task.at = "push"
      /\ task.oid = o /\ task.node = n /\ n # NULL
      /\ out' = [out EXCEPT ![o] = WithLast(@, n)]
      /\ Pushed(x, n) /\ UNCHANGED <<now, move, since>>
      /\ task' = IF x.first # NULL THEN Idle ELSE [task EXCEPT !.at = "start"]
  BY Sizes DEF PushPwm
<1>2. /\ task'.at = (IF x.first # NULL THEN "idle" ELSE "start")
      /\ x.first = NULL => task'.oid = o /\ task'.node = n
  BY <1>1 DEF Idle
<1>3. IsOut(x) /\ Timed(o)
  BY DEF IInv, Typed
<1>4. /\ DOMAIN out' = Output /\ \A p \in Output : p # o => out'[p] = out[p]
      /\ DOMAIN out'[o] = Fields
      /\ out'[o].time = x.time /\ out'[o].func = x.func /\ out'[o].flags = x.flags
      /\ out'[o].end = x.end /\ out'[o].on = x.on /\ out'[o].off = x.off
      /\ out'[o].cycle = x.cycle
      /\ out'[o].first = (IF x.first = NULL THEN n ELSE x.first)
      /\ out'[o].last = n
  BY <1>1, <1>3, Zenon DEF WithLast, IInv, Typed, IsOut, Fields
<1>5. IsOut(out'[o])
  BY <1>1, <1>3, <1>4, Sizes DEF IsOut
<1>6. Typed'
  <2>1. next' \in [Node -> Place] /\ move_free' \in Place
    BY <1>1, Sizes DEF Pushed, IInv, Typed
  <2> QED
    BY <1>1, <1>2, <1>4, <1>5, <2>1, Sizes DEF IInv, Typed, InTask
<1>7. \E own \in [Node -> Owner] : Owned(own)'
  <2> PICK own \in [Node -> Owner] : Owned(own)
    BY DEF IInv
  <2>1. Typed /\ task'.at # "push" /\ \A p \in Output \ {o} :
             out'[p].first = out[p].first /\ out'[p].last = out[p].last
    BY <1>2, <1>4 DEF IInv
  <2> QED  BY <1>1, <1>4, <1>6, <2>1, PushOwned
<1>8. Timed(o)'
  <2>1. Active(o)' = Active(o)
    BY <1>4 DEF Active
  <2>2. x.func = "load" /\ x.time # Off => x.first # NULL
    BY <1>1, <1>3 DEF Timed, ForPwm
  <2> QED
    BY <1>1, <1>3, <1>4, <2>1, <2>2
    DEF Timed, OnTime, InLimit, LoadsFirst, ForDigital, ForPwm
<1>9. \A p \in Output : Timed(p)'
  BY <1>1, <1>4, <1>8, Untouched DEF IInv
<1>10. Commanding'
  BY <1>1, <1>2, <1>3, <1>4 DEF IInv, Commanding, Timed, ForPwm
<1> QED
  BY <1>6, <1>7, <1>9, <1>10 DEF IInv

LEMMA StartPwmKeeps ==
    ASSUME IInv, NEW o \in Output, NEW n \in Node, StartPwm(o, n)
    PROVE  IInv'
<1> DEFINE x == out[o]
           time == move[n].time
<1>1. task.at = "start" /\ task.oid = o /\ task.node = n
  BY DEF StartPwm
<1>2. o \in Pwm /\ o \notin Digital /\ x.first = n /\ (x.func = "end" \/ x.time = Off)
      /\ now <= time + MaxLate
  BY <1>1, Sizes DEF IInv, Commanding
<1>3. CASE OutputsShutDown
  BY <1>3, ShutDownKeeps
<1>4. CASE ~OutputsShutDown
  <2>1. /\ ~(x.func = "end" /\ x.time < time)
        /\ out' = [out EXCEPT ![o] = [x EXCEPT !.func = "load", !.time = time]]
        /\ task' = Idle /\ task'.at = "idle"
        /\ UNCHANGED <<now, move, next, move_free, since>>
    BY <1>4 DEF StartPwm, Idle, pool
  <2>2. IsOut(x) /\ Timed(o) /\ now \in Int /\ since[o] \in Int /\ time \in Int
    BY DEF IInv, Typed
  <2>3. /\ DOMAIN out' = Output /\ \A p \in Output : p # o => out'[p] = out[p]
        /\ DOMAIN out'[o] = Fields
        /\ out'[o].time = time /\ out'[o].func = "load" /\ out'[o].flags = x.flags
        /\ out'[o].end = x.end /\ out'[o].on = x.on /\ out'[o].off = x.off
        /\ out'[o].cycle = x.cycle /\ out'[o].first = x.first /\ out'[o].last = x.last
    BY <2>1, <2>2, Zenon DEF IInv, Typed, IsOut, Fields
  <2>4. IsOut(out'[o])
    BY <2>2, <2>3 DEF IsOut
  <2>5. Typed'
    BY <2>1, <2>3, <2>4 DEF IInv, Typed, InTask
  <2>6. \E own \in [Node -> Owner] : Owned(own)'
    BY <2>1, <2>3, OwnersStay
  <2>7. Timed(o)'
    <3>1. Active(o)' = Active(o)
      BY <2>3 DEF Active
    <3>2. o \in Guarded /\ Active(o) => time <= since[o] + MAX_DURATION
      BY <1>2, <2>1, <2>2, Sizes, OffIsNoTime DEF Timed, InLimit, IsOut
    <3> QED
      BY <1>2, <2>1, <2>2, <2>3, <3>1, <3>2, OffIsNoTime, Sizes
      DEF Timed, OnTime, InLimit, LoadsFirst, ForDigital, ForPwm
  <2>8. \A p \in Output : Timed(p)'
    BY <2>1, <2>3, <2>7, Untouched DEF IInv
  <2>9. Commanding'
    BY <2>1 DEF Commanding
  <2> QED
    BY <2>5, <2>6, <2>8, <2>9 DEF IInv
<1> QED
  BY <1>3, <1>4

LEMMA UpdateKeeps ==
    ASSUME IInv, task.at = "idle", NEW o \in Digital, NEW value \in BOOLEAN,
           UpdateDigitalOut(o, value)
    PROVE  IInv'
<1> DEFINE x == out[o]
           limited == o \in Guarded /\ value # (o \in DefaultOn)
           end == now + MAX_DURATION
           on == Flag("ON", value)
<1>1. o \in Output /\ o \notin Pwm
  BY Sizes DEF Output
<1>2. CASE OutputsShutDown
  BY <1>2, ShutDownKeeps
<1>3. CASE ~OutputsShutDown
  <2>1. /\ x.first = NULL
        /\ out' = [out EXCEPT ![o] =
                 IF limited
                 THEN [@ EXCEPT !.time = end, !.end = end, !.func = "load",
                                !.flags = on \cup {"CHECK_END"}]
                 ELSE [@ EXCEPT !.time = Off, !.flags = on]]
        /\ since' = [since EXCEPT ![o] = now]
        /\ UNCHANGED <<now, task, move, next, move_free>>
    BY <1>3 DEF UpdateDigitalOut, pool
  <2>2. IsOut(x) /\ Timed(o) /\ now \in Int
    BY <1>1 DEF IInv, Typed
  <2> HIDE DEF limited, end, on
  <2>3. /\ DOMAIN out' = Output /\ \A p \in Output : p # o => out'[p] = out[p]
        /\ DOMAIN out'[o] = Fields
        /\ out'[o].time = (IF limited THEN end ELSE Off)
        /\ out'[o].end = (IF limited THEN end ELSE x.end)
        /\ out'[o].func = (IF limited THEN "load" ELSE x.func)
        /\ out'[o].flags = (IF limited THEN on \cup {"CHECK_END"} ELSE on)
        /\ out'[o].on = x.on /\ out'[o].off = x.off
        /\ out'[o].cycle = x.cycle /\ out'[o].first = x.first /\ out'[o].last = x.last
    BY <1>1, <2>1, <2>2, Zenon DEF IInv, Typed, IsOut, Fields
  <2>4. end \in Int /\ end = now + MAX_DURATION /\ end >= now
    BY <2>2, Sizes DEF end
  <2>5. IsOut(out'[o])
    BY <2>2, <2>3, <2>4 DEF IsOut
  <2>6. Typed'
    BY <1>1, <2>1, <2>2, <2>3, <2>5 DEF IInv, Typed, InTask
  <2>7. \E own \in [Node -> Owner] : Owned(own)'
    BY <2>1, <2>3, OwnersStay
  <2>8. Timed(o)'
    <3>1. "TOGGLING" \notin out'[o].flags /\ (limited => "CHECK_END" \in out'[o].flags)
      BY <2>3 DEF on, Flag
    <3>2. o \in Guarded /\ Active(o)' => limited
      BY <2>3, <3>1 DEF Active, limited, on, Default, Flag
    <3>3. since'[o] = now /\ now' = now
      BY <1>1, <2>1 DEF IInv, Typed
    <3>4. o \in Guarded /\ Active(o)' =>
              /\ out'[o].time = end /\ out'[o].end = end /\ end = since'[o] + MAX_DURATION
      BY <2>3, <2>4, <3>2, <3>3
    <3>5. OnTime(o)'
      BY <2>2, <2>3, <2>4, <3>3, Sizes DEF OnTime
    <3>6. InLimit(o)'
      BY <2>4, <3>4, OffIsNoTime, Sizes DEF InLimit
    <3>7. LoadsFirst(o)'
      BY <2>1, <2>3 DEF LoadsFirst
    <3>8. ForDigital(o)'
      BY <1>1, <2>1, <2>2, <2>3, <2>4, <3>1, <3>2, <3>4, Sizes DEF Timed, ForDigital
    <3> QED
      BY <1>1, <3>5, <3>6, <3>7, <3>8 DEF Timed, ForPwm
  <2>9. \A p \in Output : Timed(p)'
    <3>1. ASSUME NEW p \in Output, p # o  PROVE Timed(p)'
      <4>1. Timed(p) /\ since'[p] = since[p]
        BY <2>1, <3>1 DEF IInv, Typed
      <4> QED  BY <2>1, <2>3, <3>1, <4>1, Untouched
    <3> QED  BY <2>8, <3>1
  <2>10. Commanding'
    BY <2>1 DEF Commanding
  <2> QED
    BY <2>6, <2>7, <2>9, <2>10 DEF IInv
<1> QED
  BY <1>2, <1>3

LEMMA SetCycleKeeps ==
    ASSUME IInv, task.at = "idle", NEW o \in Digital, NEW ticks \in Nat,
           SetDigitalOutPwmCycle(o, ticks)
    PROVE  IInv'
<1> DEFINE x == out[o]
<1>1. o \in Output
  BY DEF Output
<1>2. CASE OutputsShutDown
  BY <1>2, ShutDownKeeps
<1>3. CASE ~OutputsShutDown
  <2>1. /\ out' = [out EXCEPT ![o].cycle = ticks]
        /\ UNCHANGED <<now, task, move, next, move_free, since>>
    BY <1>3 DEF SetDigitalOutPwmCycle, pool
  <2>2. IsOut(x) /\ Timed(o)
    BY <1>1 DEF IInv, Typed
  <2>3. /\ DOMAIN out' = Output /\ \A p \in Output : p # o => out'[p] = out[p]
        /\ DOMAIN out'[o] = Fields
        /\ out'[o].time = x.time /\ out'[o].func = x.func /\ out'[o].flags = x.flags
        /\ out'[o].end = x.end /\ out'[o].on = x.on /\ out'[o].off = x.off
        /\ out'[o].cycle = ticks /\ out'[o].first = x.first /\ out'[o].last = x.last
    BY <1>1, <2>1, <2>2, Zenon DEF IInv, Typed, IsOut, Fields
  <2>4. Typed'
    BY <2>1, <2>2, <2>3 DEF IInv, Typed, IsOut, InTask
  <2>5. \E own \in [Node -> Owner] : Owned(own)'
    BY <2>1, <2>3, OwnersStay
  <2>6. Timed(o)'
    BY <2>1, <2>2, <2>3
    DEF Active, Timed, OnTime, InLimit, LoadsFirst, ForDigital, ForPwm
  <2>7. \A p \in Output : Timed(p)'
    BY <2>1, <2>3, <2>6, Untouched DEF IInv
  <2>8. Commanding'
    BY <2>1 DEF Commanding
  <2> QED
    BY <2>4, <2>5, <2>7, <2>8 DEF IInv
<1> QED
  BY <1>2, <1>3

LEMMA QueueKeeps ==
    ASSUME IInv, task.at = "idle", NEW o \in Output, NEW lead \in Nat,
           NEW ticks \in Nat, QueueOutput(o, now + lead, ticks)
    PROVE  IInv'
<1>1. CASE OutputsShutDown
  BY <1>1, ShutDownKeeps
<1>2. CASE ~OutputsShutDown
  <2> PICK n \in Place : n = move_free
    BY DEF IInv, Typed
  <2> PICK time \in Int : time = now + lead
    BY DEF IInv, Typed
  <2>1. /\ time > LastTime(o) /\ n # NULL /\ n \in Node
        /\ move' = [move EXCEPT ![n] = [time |-> time, ticks |-> ticks]]
        /\ move_free' = next[n]
        /\ task' = [at |-> "push", oid |-> o, node |-> n]
        /\ UNCHANGED <<now, out, next, since>>
    BY <1>2, Sizes DEF QueueOutput
  <2>2. task'.at = "push" /\ task'.oid = o /\ task'.node = n
    BY <2>1
  <2>3. /\ move' \in [Node -> [time : Int, ticks : Nat]]
        /\ move'[n].time = time /\ \A m \in Node : m # n => move'[m] = move[m]
    BY <2>1 DEF IInv, Typed
  <2>4. now \in Int /\ now <= time + MaxLate
    BY Sizes DEF IInv, Typed
  <2>5. Typed'
    BY <2>1, <2>2, <2>3 DEF IInv, Typed, InTask
  <2>6. \E own \in [Node -> Owner] : Owned(own)'
    <3> PICK own \in [Node -> Owner] : Owned(own)
      BY DEF IInv
    <3>1. Typed /\ \A m \in Node \ {n} : move'[m].time = move[m].time
      BY <2>3 DEF IInv
    <3> QED  BY <2>1, <2>2, <2>3, <2>5, <3>1, AllocOwned
  <2>7. ASSUME NEW p \in Output  PROVE Timed(p)'
    <3>1. /\ Timed(p) /\ out'[p] = out[p] /\ since'[p] = since[p] /\ now' = now
          /\ out[p].first # NULL =>
                 move'[out[p].first].time = move[out[p].first].time
      BY <2>1, <2>3, FirstNotFree DEF IInv
    <3> QED  BY <3>1, Untouched
  <2>8. Commanding'
    BY <2>1, <2>2, <2>3, <2>4 DEF Commanding
  <2> QED
    BY <2>5, <2>6, <2>7, <2>8 DEF IInv
<1> QED
  BY <1>1, <1>2

-----------------------------------------------------------------------------
(* All outputs are at their defaults, with no timer, and all nodes are free.*)
THEOREM OutputsInitial == BoardInit /\ OutputsInit => IInv
<1> SUFFICES ASSUME BoardInit, OutputsInit  PROVE IInv
  OBVIOUS
<1>1. /\ now = 0 /\ task.at = "idle" /\ next = Linked /\ move_free = 1
      /\ move = [n \in Node |-> [time |-> 0, ticks |-> 0]]
      /\ since = [o \in Output |-> 0] /\ DOMAIN out = Output
      /\ \A o \in Output : out[o] =
             [time |-> Off, func |-> "load", flags |-> Default(o), end |-> 0,
              on |-> 0, off |-> 0, cycle |-> 0, first |-> NULL, last |-> NULL]
  BY DEF BoardInit, OutputsInit, Idle
<1>2. \A o \in Output :
          /\ DOMAIN out[o] = Fields
          /\ out[o].time = Off /\ out[o].func = "load" /\ out[o].flags = Default(o)
          /\ out[o].end = 0 /\ out[o].on = 0 /\ out[o].off = 0 /\ out[o].cycle = 0
          /\ out[o].first = NULL /\ out[o].last = NULL
  BY <1>1 DEF Fields
<1>3. next \in [Node -> Place] /\ move_free \in Place
  BY <1>1, Sizes, SMT DEF Linked, Node, Place, NULL
<1>4. Typed
  BY <1>1, <1>2, <1>3, Sizes DEF Typed, IsOut, InTask
<1>5. \E own \in [Node -> Owner] : Owned(own)
  BY <1>1, <1>2, ResetOwned
<1>6. ASSUME NEW o \in Output  PROVE Timed(o)
  <2>1. ~Active(o) /\ "TOGGLING" \notin out[o].flags
    BY <1>2 DEF Active, Default, Flag
  <2> QED
    BY <1>2, <2>1 DEF Timed, OnTime, InLimit, LoadsFirst, ForDigital, ForPwm
<1>7. Commanding
  BY <1>1 DEF Commanding
<1> QED
  BY <1>4, <1>5, <1>6, <1>7 DEF IInv

(* An event of a timer that is on the list.                                 *)
LEMMA EventKeeps ==
    ASSUME IInv, NEW o \in Output, OutputEvent(o)
    PROVE  IInv'
<1>1. out[o].time # Off
  BY DEF OutputEvent, Runs
<1>2. CASE DigitalToggleEvent(o)
  BY <1>1, <1>2, ToggleKeeps
<1>3. CASE DigitalLoadEvent(o)
  BY <1>1, <1>3, DigitalLoadKeeps
<1>4. CASE PwmEvent(o)
  BY <1>1, <1>4, PwmEventKeeps
<1>5. CASE EventFails(o)
  BY <1>5, ShutDownKeeps DEF EventFails
<1> QED
  BY <1>2, <1>3, <1>4, <1>5 DEF OutputEvent

(* Commands, events and the sections of commands keep the invariant.        *)
THEOREM OutputsStep == IInv /\ [OutputsNext]_OutputsAll => IInv'
<1> SUFFICES ASSUME IInv, [OutputsNext]_OutputsAll  PROVE IInv'
  OBVIOUS
<1>1. ASSUME NEW o \in Output, NEW lead \in Leads, NEW ticks \in OnTicks,
             Command, QueueOutput(o, now + lead, ticks)
      PROVE  IInv'
  <2>1. lead \in Nat /\ ticks \in Nat /\ task.at = "idle"
    BY <1>1, Sizes DEF Command, AnyCommand, Idle
  <2> QED  BY <1>1, <2>1, QueueKeeps
<1>2. ASSUME NEW o \in Digital, NEW value \in BOOLEAN, Command, UpdateDigitalOut(o, value)
      PROVE  IInv'
  BY <1>2, UpdateKeeps DEF Command, AnyCommand, Idle
<1>3. ASSUME NEW o \in Digital, NEW ticks \in CycleTicks, Command,
             SetDigitalOutPwmCycle(o, ticks)
      PROVE  IInv'
  BY <1>3, SetCycleKeeps, Sizes DEF Command, AnyCommand, Idle
<1>4. CASE OutputsTick
  BY <1>4, TickKeeps
<1>5. ASSUME NEW o \in Output, OutputEvent(o)  PROVE IInv'
  BY <1>5, EventKeeps
<1>6. ASSUME NEW o \in Output, NEW n \in Node,
             PushDigital(o, n) \/ PushPwm(o, n) \/ StartPwm(o, n)
      PROVE  IInv'
  BY <1>6, PushDigitalKeeps, PushPwmKeeps, StartPwmKeeps
<1>7. CASE UNCHANGED <<now, task, outputVars>>
  <2>1. UNCHANGED <<now, task, out, move, next, move_free, since>>
    BY <1>7 DEF outputVars, pool
  <2>2. Typed' /\ Commanding'
    BY <2>1 DEF IInv, Typed, InTask, Commanding
  <2>3. \E own \in [Node -> Owner] : Owned(own)'
    BY <2>1, OwnersStay
  <2>4. \A p \in Output : Timed(p)'
    BY <2>1, Untouched DEF IInv
  <2> QED  BY <2>2, <2>3, <2>4 DEF IInv
<1> QED
  BY <1>1, <1>2, <1>3, <1>4, <1>5, <1>6, <1>7 DEF OutputsNext, OutputsAll

(* With a max_duration, an output is away from its default no longer than   *)
(* that and the lateness of the interrupt, whatever is queued for it, for   *)
(* every number of outputs and of moves.                                    *)
THEOREM OutputsKeepLimits == OutputsSpec => []KeepsMaxDuration
<1>1. IInv => KeepsMaxDuration
  <2> SUFFICES ASSUME IInv, NEW o \in Guarded, Active(o)
               PROVE  now <= since[o] + MAX_DURATION + MaxLate
    BY DEF KeepsMaxDuration
  <2>1. /\ o \in Output /\ Timed(o) /\ IsOut(out[o]) /\ now \in Int /\ since[o] \in Int
    BY Sizes DEF IInv, Typed
  <2> QED
    BY <2>1, Sizes DEF Timed, OnTime, InLimit, IsOut
<1> QED
  BY <1>1, OutputsInitial, OutputsStep, PTL DEF OutputsSpec

(* Only a load takes the first node from a queue, but for a shutdown.       *)
LEMMA OnlyLoadsPop ==
    ASSUME IInv, OutputsNext, ~shutdown', NEW o \in Output, out[o].first # NULL,
           out'[o].first # out[o].first
    PROVE  /\ OutputEvent(o) /\ out[o].func = "load"
           /\ \E x : PopTo(o, x)
<1>1. ~OutputsShutDown
  BY DEF OutputsShutDown
<1>2. DOMAIN out = Output /\ \A p \in Output : IsOut(out[p])
  BY DEF IInv, Typed
<1>3. ASSUME NEW p \in Output, NEW time, NEW ticks, QueueOutput(p, time, ticks)
      PROVE  out' = out
  BY <1>1, <1>3 DEF QueueOutput
<1>4. ASSUME NEW p \in Digital, NEW value \in BOOLEAN, UpdateDigitalOut(p, value)
      PROVE  FALSE
  <2> DEFINE end == now + MAX_DURATION
             limited == p \in Guarded /\ value # (p \in DefaultOn)
             on == Flag("ON", value)
  <2>1. /\ out[p].first = NULL /\ p \in Output
        /\ out' = [out EXCEPT ![p] =
                 IF limited
                 THEN [@ EXCEPT !.time = end, !.end = end, !.func = "load",
                                !.flags = on \cup {"CHECK_END"}]
                 ELSE [@ EXCEPT !.time = Off, !.flags = on]]
    BY <1>1, <1>4 DEF UpdateDigitalOut, Output
  <2>2. p # o => out'[o] = out[o]
    BY <1>2, <2>1, Zenon
  <2> QED  BY <2>1, <2>2
<1>5. ASSUME NEW p \in Digital, NEW ticks, SetDigitalOutPwmCycle(p, ticks)
      PROVE  FALSE
  <2>1. out[p].first = NULL /\ out' = [out EXCEPT ![p].cycle = ticks]
    BY <1>1, <1>5 DEF SetDigitalOutPwmCycle
  <2>2. p # o => out'[o] = out[o]
    BY <1>2, <2>1, Zenon
  <2> QED  BY <2>1, <2>2
<1>6. ASSUME NEW p \in Output, NEW n \in Node, PushDigital(p, n)  PROVE FALSE
  <2> DEFINE time == move[n].time
             x == out[p]
             checked == [x EXCEPT !.end = time, !.flags = @ \cup {"CHECK_END"}]
             y == IF x.first # NULL THEN x
                  ELSE IF WaitsForToggle(x, time) THEN checked
                  ELSE [checked EXCEPT !.time = time, !.func = "load"]
  <2>1. out' = [out EXCEPT ![p] = WithLast(y, n)]
    BY <1>1, <1>6 DEF PushDigital
  <2> HIDE DEF checked
  <2>2. CASE p # o
    BY <1>2, <2>1, <2>2, Zenon
  <2>3. CASE p = o
    <3>1. y = x
      BY <2>3
    <3> HIDE DEF y
    <3>2. out'[o] = WithLast(x, n)
      BY <1>2, <2>1, <2>3, <3>1, Zenon
    <3>3. out'[o].first = x.first
      BY <1>2, <2>3, <3>2, Zenon DEF WithLast, IsOut, Fields
    <3> QED  BY <2>3, <3>3
  <2> QED  BY <2>2, <2>3
<1>7. ASSUME NEW p \in Output, NEW n \in Node, PushPwm(p, n)  PROVE FALSE
  <2>1. out' = [out EXCEPT ![p] = WithLast(out[p], n)]
    BY <1>7 DEF PushPwm
  <2>2. CASE p # o
    BY <1>2, <2>1, <2>2, Zenon
  <2>3. CASE p = o
    <3>1. out'[o] = WithLast(out[o], n)
      BY <1>2, <2>1, <2>3, Zenon
    <3>2. out'[o].first = out[o].first
      BY <1>2, <3>1, Zenon DEF WithLast, IsOut, Fields
    <3> QED  BY <3>2
  <2> QED  BY <2>2, <2>3
<1>8. ASSUME NEW p \in Output, NEW n \in Node, StartPwm(p, n)  PROVE FALSE
  <2>1. out' = [out EXCEPT ![p] = [out[p] EXCEPT !.func = "load", !.time = move[n].time]]
    BY <1>1, <1>8 DEF StartPwm
  <2>2. out'[o].first = out[o].first
    BY <1>2, <2>1, Zenon DEF IsOut, Fields
  <2> QED  BY <2>2
<1>9. ASSUME NEW p \in Output, OutputEvent(p)
      PROVE  p = o /\ out[o].func = "load" /\ \E x : PopTo(o, x)
  <2>1. CASE DigitalToggleEvent(p)
    <3> DEFINE x == out[p]
               on == "ON" \notin x.flags
               later == x.time + (IF on THEN x.on ELSE x.off)
               ends == "CHECK_END" \in x.flags /\ later >= x.end
    <3>1. out' = [out EXCEPT ![p] =
              [x EXCEPT !.flags = IF on THEN @ \cup {"ON"} ELSE @ \ {"ON"},
                        !.func = IF ends THEN "load" ELSE @,
                        !.time = IF ends THEN x.end ELSE later]]
      BY <2>1 DEF DigitalToggleEvent
    <3> HIDE DEF on, later, ends
    <3>2. out'[o].first = out[o].first
      BY <1>2, <3>1, Zenon DEF IsOut, Fields
    <3> QED  BY <3>2
  <2>2. CASE EventFails(p)
    BY <1>1, <2>2 DEF EventFails
  <2>3. CASE DigitalLoadEvent(p) \/ PwmEvent(p)
    <3>1. out[p].func = "load" /\ \E x : PopTo(p, x)
      BY <2>3, Zenon DEF DigitalLoadEvent, PwmEvent
    <3>2. p # o => out'[o] = out[o]
      BY <1>2, <3>1, Zenon DEF PopTo
    <3> QED  BY <3>1, <3>2
  <2> QED
    BY <1>9, <2>1, <2>2, <2>3 DEF OutputEvent
<1>10. OutputsTick => out' = out
  BY DEF OutputsTick, outputVars
<1>11. ClearShutdown /\ UNCHANGED <<now, task, wake, outputVars>> => out' = out
  BY DEF outputVars
<1> QED
  BY <1>3, <1>4, <1>5, <1>6, <1>7, <1>8, <1>9, <1>10, <1>11 DEF OutputsNext

(* Every update of every queue takes effect at its own time, late by no     *)
(* more than the interrupt is.                                              *)
THEOREM UpdatesTakeEffect == OutputsSpec => UpdatesOnTime
<1> DEFINE Effect ==
        \A o \in Output :
           out[o].first # NULL /\ out'[o].first # out[o].first /\ ~shutdown'
               => LET time == move[out[o].first].time
                  IN since'[o] = time /\ time <= now /\ now <= time + MaxLate
<1>1. IInv /\ [OutputsNext]_OutputsAll => [Effect]_outputVars
  <2> SUFFICES ASSUME IInv, OutputsNext, ~shutdown', NEW o \in Output,
                      out[o].first # NULL, out'[o].first # out[o].first
               PROVE  LET time == move[out[o].first].time
                      IN since'[o] = time /\ time <= now /\ now <= time + MaxLate
    BY DEF OutputsAll
  <2>1. OutputEvent(o) /\ out[o].func = "load" /\ \E x : PopTo(o, x)
    BY OnlyLoadsPop
  <2>2. out[o].time # Off /\ out[o].time <= now
    BY <2>1 DEF OutputEvent, Runs
  <2>3. out[o].time = move[out[o].first].time /\ now <= out[o].time + MaxLate
    BY <2>1, <2>2 DEF IInv, Timed, OnTime, LoadsFirst
  <2>4. since'[o] = out[o].time
    BY <2>1 DEF PopTo, IInv, Typed
  <2> QED
    BY <2>2, <2>3, <2>4
<1> QED
  BY <1>1, OutputsInitial, OutputsStep, PTL DEF OutputsSpec, UpdatesOnTime

-----------------------------------------------------------------------------
(* Induction up to N, over the set of the numbers a fact holds for.         *)
LEMMA UpTo ==
    ASSUME NEW N \in Nat, NEW T, 0 \in T, \A n \in 0..(N - 1) : n \in T => n + 1 \in T
    PROVE  \A n \in 0..N : n \in T
<1> DEFINE R == OpToRel(<, Nat)
           B == {n \in 0..N : n \notin T}
<1>1. \A a, b \in Nat : <<a, b>> \in R <=> a < b
  BY DEF OpToRel
<1>2. IsWellFoundedOn(R, Nat)
  BY NatLessThanWellFounded
<1>3. B \subseteq Nat
  OBVIOUS
<1> SUFFICES ASSUME B # {} PROVE FALSE
  OBVIOUS
<1> HIDE DEF R
<1>4. \E x \in B : \A y \in B : ~(<<y, x>> \in R)
  <2> HIDE DEF B
  <2> QED
    BY <1>2, <1>3, WFMin
<1>5. PICK x \in B : \A y \in B : ~(<<y, x>> \in R)
  BY <1>4
<1>6. x \in 0..N /\ x \notin T /\ x # 0
  OBVIOUS
<1>7. x - 1 \in 0..(N - 1) /\ (x - 1) + 1 = x /\ x - 1 \in 0..N
  BY <1>6
<1>8. x - 1 \in T
  <2>1. x - 1 \in B => <<x - 1, x>> \in R
    BY <1>1, <1>6, <1>7
  <2> QED
    BY <1>5, <1>7, <2>1
<1> QED
  BY <1>6, <1>7, <1>8

(* What follows each node in a list of at most k nodes with the links nx.   *)
Linking(f, nx, k) ==
    f = [i \in 0 .. k |->
            [n \in 0 .. MoveCount |->
                IF i = 0 \/ n = NULL THEN <<>> ELSE <<n>> \o f[i - 1][nx[n]]]]

(* There are such lists for all links.                                      *)
LEMMA LinkingExists ==
    ASSUME NEW nx, NEW N \in Nat
    PROVE  \E f : Linking(f, nx, N)
<1> DEFINE P == 0 .. MoveCount
           T == {k \in 0 .. N : \E f : Linking(f, nx, k)}
<1>1. 0 \in T
  <2> DEFINE f == [i \in 0 .. 0 |-> [n \in P |-> <<>>]]
  <2>1. Linking(f, nx, 0)
    BY DEF Linking
  <2> QED
    BY <2>1
<1>2. ASSUME NEW k \in 0 .. (N - 1), k \in T PROVE k + 1 \in T
  <2>1. PICK f : Linking(f, nx, k)
    BY <1>2
  <2> DEFINE Row(h, i) ==
                 [n \in P |-> IF i = 0 \/ n = NULL THEN <<>> ELSE <<n>> \o h[i - 1][nx[n]]]
             x == Row(f, k + 1)
             g == [i \in 0 .. (k + 1) |-> IF i = k + 1 THEN x ELSE f[i]]
  <2>2. k \in Nat /\ k + 1 \in 0 .. N
    OBVIOUS
  <2>3. \A i \in 0 .. k : f[i] = Row(f, i)
    BY <2>1, <2>2 DEF Linking
  <2>4. \A i \in 0 .. k : g[i] = f[i]
    BY <2>2
  <2>5. g[k + 1] = x
    BY <2>2
  <2>6. \A i \in 0 .. (k + 1) : g[i] = Row(g, i)
    <3> SUFFICES ASSUME NEW i \in 0 .. (k + 1)
                 PROVE  g[i] = Row(g, i)
      OBVIOUS
    <3> HIDE DEF g
    <3>1. CASE i = k + 1
      <4>1. i - 1 = k /\ k \in 0 .. k /\ i # 0
        BY <2>2, <3>1
      <4>2. g[i - 1] = f[k] /\ f[i - 1] = f[k]
        BY <2>4, <4>1
      <4>3. Row(g, i) = Row(f, i)
        BY <4>2
      <4> HIDE DEF Row
      <4> QED
        BY <2>5, <3>1, <4>3
    <3>2. CASE i # k + 1
      <4>1. i \in 0 .. k /\ (i # 0 => i - 1 \in 0 .. k)
        BY <2>2, <3>2
      <4>2. i # 0 => g[i - 1] = f[i - 1]
        BY <2>4, <4>1
      <4>3. Row(g, i) = Row(f, i)
        BY <4>2
      <4> HIDE DEF Row
      <4> QED
        BY <2>3, <2>4, <4>1, <4>3
    <3> QED
      BY <3>1, <3>2
  <2>7. g = [i \in 0 .. (k + 1) |-> g[i]]
    OBVIOUS
  <2> HIDE DEF g
  <2>8. Linking(g, nx, k + 1)
    BY <2>6, <2>7 DEF Linking
  <2> QED
    BY <2>2, <2>8
<1> HIDE DEF T
<1>3. N \in T
  BY <1>1, <1>2, UpTo
<1> QED
  BY <1>3 DEF T

(* The list s from n on, by the links nx.                                   *)
Follows(s, n, nx) ==
    /\ n = IF s = <<>> THEN NULL ELSE s[1]
    /\ \A i \in 1 .. Len(s) : nx[s[i]] = IF i < Len(s) THEN s[i + 1] ELSE NULL

(* Without its first node it is the list from the next one on.              *)
LEMMA FollowsTail ==
    ASSUME NEW s \in Seq(Node), NEW n, NEW nx, Follows(s, n, nx), s # <<>>
    PROVE  Follows(Tail(s), nx[n], nx) /\ n = Head(s)
<1>1. /\ Len(s) \in Nat /\ Len(s) > 0 /\ Tail(s) \in Seq(Node)
      /\ Len(Tail(s)) = Len(s) - 1
      /\ \A i \in 1 .. (Len(s) - 1) : Tail(s)[i] = s[i + 1]
      /\ Head(s) = s[1]
      /\ Len(<<>>) = 0 /\ \A t \in Seq(Node) : Len(t) = 0 => t = <<>>
  BY EmptySeq
<1>2. n = s[1] /\ nx[n] = IF 1 < Len(s) THEN s[2] ELSE NULL
  BY <1>1 DEF Follows
<1>3. nx[n] = IF Tail(s) = <<>> THEN NULL ELSE Tail(s)[1]
  <2>1. CASE Len(s) = 1
    <3>1. Len(Tail(s)) = 0
      BY <1>1, <2>1
    <3>2. Tail(s) = <<>>
      BY <1>1, <3>1
    <3> QED
      BY <1>2, <2>1, <3>2
  <2>2. CASE Len(s) # 1
    <3>1. Len(Tail(s)) # 0 /\ 1 \in 1 .. (Len(s) - 1) /\ 1 < Len(s)
      BY <1>1, <2>2
    <3>2. Tail(s) # <<>>
      BY <1>1, <3>1
    <3>3. Tail(s)[1] = s[1 + 1] /\ 1 + 1 = 2
      BY <1>1, <3>1
    <3> QED
      BY <1>2, <3>1, <3>2, <3>3
  <2> QED
    BY <2>1, <2>2
<1>4. ASSUME NEW i \in 1 .. Len(Tail(s))
      PROVE  nx[Tail(s)[i]] = IF i < Len(Tail(s)) THEN Tail(s)[i + 1] ELSE NULL
  <2>1. i + 1 \in 1 .. Len(s) /\ i \in 1 .. (Len(s) - 1)
    BY <1>1
  <2>2. nx[s[i + 1]] = IF i + 1 < Len(s) THEN s[(i + 1) + 1] ELSE NULL
    BY <2>1 DEF Follows
  <2>3. i < Len(Tail(s)) <=> i + 1 < Len(s)
    BY <1>1, <2>1
  <2>4. i + 1 < Len(s) => i + 1 \in 1 .. (Len(s) - 1)
    BY <1>1, <2>1
  <2>5. i + 1 < Len(s) => Tail(s)[i + 1] = s[(i + 1) + 1]
    BY <1>1, <2>4
  <2> QED
    BY <1>1, <2>1, <2>2, <2>3, <2>5
<1> QED
  BY <1>1, <1>2, <1>3, <1>4 DEF Follows

(* A list that is long enough is the one that the links make.               *)
LEMMA LinkingIs ==
    ASSUME NEW nx \in [Node -> 0 .. MoveCount], NEW N \in Nat, NEW f, Linking(f, nx, N),
           NEW s \in Seq(Node), NEW n, Follows(s, n, nx), Len(s) <= N
    PROVE  f[N][n] = s
<1> DEFINE P == 0 .. MoveCount
           Listed(k) == \A t \in Seq(Node) : \A m : Follows(t, m, nx) /\ Len(t) <= k
                                                    => f[k][m] = t
           T == {k \in 0 .. N : Listed(k)}
<1>1. MoveCount \in Nat /\ Node \subseteq P /\ NULL \in P /\ NULL \notin Node
  BY OutputsAssumption DEF Node, NULL
<1>2. ASSUME NEW k \in 0 .. N, NEW m \in P
      PROVE  f[k][m] = IF k = 0 \/ m = NULL THEN <<>> ELSE <<m>> \o f[k - 1][nx[m]]
  <2> DEFINE Row(i) ==
          [l \in P |-> IF i = 0 \/ l = NULL THEN <<>> ELSE <<l>> \o f[i - 1][nx[l]]]
  <2>1. f = [i \in 0 .. N |-> Row(i)]
    BY DEF Linking
  <2>2. Row(k)[m] = IF k = 0 \/ m = NULL THEN <<>> ELSE <<m>> \o f[k - 1][nx[m]]
    OBVIOUS
  <2> HIDE DEF Row
  <2>3. f[k] = Row(k)
    BY <2>1
  <2> QED
    BY <2>2, <2>3
<1>3. ASSUME NEW k \in 0 .. N, NEW m, Follows(<<>>, m, nx) PROVE f[k][m] = <<>>
  <2>1. m = NULL
    BY <1>3 DEF Follows
  <2> QED
    BY <1>1, <1>2, <2>1
<1>4. 0 \in T
  <2>1. ASSUME NEW t \in Seq(Node), NEW m, Follows(t, m, nx), Len(t) <= 0
        PROVE  f[0][m] = t
    <3>1. t = <<>>
      BY <2>1
    <3> QED
      BY <1>3, <2>1, <3>1
  <2> QED
    BY <2>1
<1>5. ASSUME NEW k \in 0 .. (N - 1), Listed(k) PROVE Listed(k + 1)
  <2> SUFFICES ASSUME NEW t \in Seq(Node), NEW m, Follows(t, m, nx), Len(t) <= k + 1
               PROVE  f[k + 1][m] = t
    OBVIOUS
  <2>1. k + 1 \in 0 .. N /\ k + 1 # 0 /\ (k + 1) - 1 = k
    OBVIOUS
  <2>2. CASE t = <<>>
    BY <1>3, <2>1, <2>2
  <2>3. CASE t # <<>>
    <3>1. /\ Tail(t) \in Seq(Node) /\ Len(Tail(t)) <= k
          /\ Head(t) \in Node /\ t = <<Head(t)>> \o Tail(t)
      BY <2>3
    <3>2. Follows(Tail(t), nx[m], nx) /\ m = Head(t)
      BY <2>3, FollowsTail
    <3>3. f[k][nx[m]] = Tail(t)
      BY <1>5, <3>1, <3>2
    <3>4. f[k + 1][m] = <<m>> \o f[k][nx[m]]
      BY <1>1, <1>2, <2>1, <3>1, <3>2
    <3> QED
      BY <3>1, <3>2, <3>3, <3>4
  <2> QED
    BY <2>2, <2>3
<1>6. \A k \in 0 .. (N - 1) : k \in T => k + 1 \in T
  <2> HIDE DEF Listed
  <2>1. \A k \in 0 .. (N - 1) : k + 1 \in 0 .. N
    OBVIOUS
  <2> QED
    BY <1>5, <2>1
<1> HIDE DEF T
<1>7. N \in T
  <2>1. \A k \in 0 .. N : k \in T
    BY <1>4, <1>6, UpTo
  <2> QED
    BY <2>1
<1> QED
  BY <1>7 DEF T

(* Nodes gives the list that the links make, if it is no longer than the    *)
(* pool.                                                                    *)
LEMMA NodesAre ==
    next \in [Node -> Place] =>
        \A s \in Seq(Node) : \A n :
            Follows(s, n, next) /\ Len(s) <= MoveCount => Nodes(n) = s
<1> SUFFICES ASSUME next \in [Node -> Place], NEW s \in Seq(Node), NEW n,
                    Follows(s, n, next), Len(s) <= MoveCount
             PROVE  Nodes(n) = s
  OBVIOUS
<1> DEFINE f == CHOOSE c : c = [i \in 0 .. MoveCount |->
                [m \in 0 .. MoveCount |->
                    IF i = 0 \/ m = NULL THEN <<>> ELSE <<m>> \o c[i - 1][next[m]]]]
<1>1. MoveCount \in Nat
  BY Sizes
<1>2. Linking(f, next, MoveCount)
  <2>1. \E g : Linking(g, next, MoveCount)
    BY <1>1, LinkingExists
  <2>2. \E g : g = [i \in 0 .. MoveCount |->
                [m \in 0 .. MoveCount |->
                    IF i = 0 \/ m = NULL THEN <<>> ELSE <<m>> \o g[i - 1][next[m]]]]
    BY <2>1, Zenon DEF Linking
  <2> QED
    BY <2>2, Zenon DEF Linking
<1>3. Nodes(n) = f[MoveCount][n]
  BY DEF Nodes, Chain
<1> HIDE DEF f
<1>4. next \in [Node -> 0 .. MoveCount]
  BY DEF Place
<1>5. f[MoveCount][n] = s
  BY <1>1, <1>2, <1>4, LinkingIs
<1> QED
  BY <1>3, <1>5

LEMMA NodesAreNext ==
    (next \in [Node -> Place] =>
        \A s \in Seq(Node) : \A n :
            Follows(s, n, next) /\ Len(s) <= MoveCount => Nodes(n) = s)'
BY NodesAre, PTL

(* A list that has no node twice is no longer than the pool.                *)
LEMMA ShortEnough ==
    ASSUME NEW s \in Seq(Node), \A i, j \in 1 .. Len(s) : s[i] = s[j] => i = j
    PROVE  Len(s) <= MoveCount
<1> DEFINE N == Len(s)
<1>1. N \in Nat /\ s \in [1 .. N -> Node] /\ MoveCount \in Nat /\ Node = 1 .. MoveCount
  BY LenProperties, Sizes DEF Node
<1> HIDE DEF N
<1>2. /\ IsFiniteSet(1 .. N) /\ Cardinality(1 .. N) = N
      /\ IsFiniteSet(1 .. MoveCount) /\ Cardinality(1 .. MoveCount) = MoveCount
  <2>1. \A n \in Nat : IsFiniteSet(1 .. n) /\ Cardinality(1 .. n) = n
    <3> TAKE n \in Nat
    <3>1. IsFiniteSet(1 .. n) /\ Cardinality(1 .. n) = IF 1 > n THEN 0 ELSE n - 1 + 1
      BY FS_Interval
    <3> QED
      BY <3>1
  <2> QED
    BY <1>1, <2>1
<1>3. CASE Cardinality(1 .. MoveCount) < Cardinality(1 .. N)
  <2>1. s \in [1 .. N -> 1 .. MoveCount]
    BY <1>1
  <2>2. \E x, y \in 1 .. N : x # y /\ s[x] = s[y]
    BY <1>2, <1>3, <2>1, FS_PigeonHole
  <2> QED
    BY <2>2 DEF N
<1> QED
  BY <1>1, <1>2, <1>3 DEF N

-----------------------------------------------------------------------------
(* The lists q of the outputs and of the free nodes: each is what the links *)
(* make of its head, no node is in two places, and none is in one while a   *)
(* command has it in its hand.                                              *)
List == Output \cup {FREE}
First(a) == IF a = FREE THEN move_free ELSE out[a].first
Once(q) ==
    \A a, b \in List : \A i \in 1 .. Len(q[a]), j \in 1 .. Len(q[b]) :
        q[a][i] = q[b][j] => a = b /\ i = j
Last(q) == \A o \in Output : q[o] # <<>> => q[o][Len(q[o])] = out[o].last
Aside(q) ==
    task.at = "push" => \A a \in List : \A i \in 1 .. Len(q[a]) : q[a][i] # task.node
Lined(q) ==
    /\ \A a \in List : Follows(q[a], First(a), next)
    /\ Once(q) /\ Last(q) /\ Aside(q)

Lists == [List -> Seq(Node)]

(* What the lists are.                                                      *)
LEMMA ListsTyped ==
    ASSUME NEW q \in Lists, NEW a \in List
    PROVE  /\ q[a] \in Seq(Node) /\ Len(q[a]) \in Nat
           /\ (q[a] = <<>> <=> Len(q[a]) = 0)
           /\ \A i \in 1 .. Len(q[a]) : q[a][i] \in Node
BY EmptySeq DEF Lists

(* Nodes gives these lists.                                                 *)
LEMMA Shown ==
    ASSUME NEW q \in Lists
    PROVE  /\ Typed /\ Lined(q) =>
                  /\ \A o \in Output : Nodes(out[o].first) = q[o]
                  /\ Nodes(move_free) = q[FREE]
           /\ Typed' /\ Lined(q)' =>
                  /\ \A o \in Output : Nodes(out[o].first)' = q[o]
                  /\ Nodes(move_free)' = q[FREE]
<1>1. ASSUME NEW a \in List, Once(q) PROVE q[a] \in Seq(Node) /\ Len(q[a]) <= MoveCount
  <2>1. q[a] \in Seq(Node)
    BY ListsTyped
  <2>2. \A i, j \in 1 .. Len(q[a]) : q[a][i] = q[a][j] => i = j
    BY <1>1 DEF Once
  <2> QED
    BY <2>1, <2>2, ShortEnough
<1>2. FREE \in List /\ \A o \in Output : o \in List /\ o # FREE
  BY Owners DEF List
<1>3. ASSUME Typed, Lined(q)
      PROVE  /\ \A o \in Output : Nodes(out[o].first) = q[o]
             /\ Nodes(move_free) = q[FREE]
  <2>1. \A a \in List : Nodes(First(a)) = q[a]
    <3>1. next \in [Node -> Place] /\ Once(q)
      BY <1>3 DEF Typed, Lined
    <3>2. \A s \in Seq(Node) : \A n :
              Follows(s, n, next) /\ Len(s) <= MoveCount => Nodes(n) = s
      BY <3>1, NodesAre
    <3> QED
      BY <1>1, <1>3, <3>1, <3>2 DEF Lined
  <2> QED
    BY <1>2, <2>1 DEF First
<1>4. ASSUME Typed', Lined(q)'
      PROVE  /\ \A o \in Output : Nodes(out[o].first)' = q[o]
             /\ Nodes(move_free)' = q[FREE]
  <2>1. \A a \in List : Nodes(First(a))' = q[a]
    <3>1. next' \in [Node -> Place] /\ Once(q)
      BY <1>4 DEF Typed, Lined
    <3>2. \A s \in Seq(Node) : \A n :
              Follows(s, n, next') /\ Len(s) <= MoveCount => Nodes(n)' = s
      BY <3>1, NodesAreNext
    <3> QED
      BY <1>1, <1>4, <3>1, <3>2 DEF Lined
  <2> QED
    BY <1>2, <2>1 DEF First
<1> QED
  BY <1>3, <1>4

(* A list that a change of links leaves alone, grows by one node in front,  *)
(* or at its end.                                                           *)
LEMMA FollowsSame ==
    ASSUME NEW s \in Seq(Node), NEW m, NEW nx, NEW ny, Follows(s, m, nx),
           \A i \in 1 .. Len(s) : ny[s[i]] = nx[s[i]]
    PROVE  Follows(s, m, ny)
BY DEF Follows

LEMMA FollowsFront ==
    ASSUME NEW s \in Seq(Node), NEW n \in Node, NEW nx, Follows(s, nx[n], nx)
    PROVE  Follows(<<n>> \o s, n, nx)
<1> DEFINE t == <<n>> \o s
           L == Len(s)
<1>1. /\ L \in Nat /\ t \in Seq(Node) /\ Len(t) = L + 1 /\ t[1] = n /\ t # <<>>
      /\ \A i \in 2 .. (L + 1) : t[i] = s[i - 1]
      /\ s = <<>> <=> L = 0
  BY EmptySeq
<1>2. nx[n] = IF s = <<>> THEN NULL ELSE s[1]
  BY DEF Follows
<1>3. \A i \in 1 .. L : nx[s[i]] = IF i < L THEN s[i + 1] ELSE NULL
  BY DEF Follows
<1> HIDE DEF t, L
<1>4. ASSUME NEW i \in 1 .. (L + 1)
      PROVE  nx[t[i]] = IF i < L + 1 THEN t[i + 1] ELSE NULL
  <2>1. CASE i = 1
    <3>1. L # 0 => 2 \in 2 .. (L + 1) /\ 2 - 1 = 1
      BY <1>1
    <3>2. L # 0 => t[2] = s[1]
      BY <1>1, <3>1
    <3> QED
      BY <1>1, <1>2, <2>1, <3>2
  <2>2. CASE i # 1
    <3>1. i \in 2 .. (L + 1) /\ i - 1 \in 1 .. L /\ (i - 1 < L <=> i < L + 1)
          /\ (i < L + 1 => i + 1 \in 2 .. (L + 1)) /\ (i - 1) + 1 = i /\ (i + 1) - 1 = i
      BY <1>1, <2>2
    <3>2. t[i] = s[i - 1] /\ (i < L + 1 => t[i + 1] = s[i])
      BY <1>1, <3>1
    <3>3. nx[s[i - 1]] = IF i - 1 < L THEN s[i] ELSE NULL
      BY <1>3, <3>1
    <3> QED
      BY <3>1, <3>2, <3>3
  <2> QED
    BY <2>1, <2>2
<1> QED
  BY <1>1, <1>4 DEF Follows, t

LEMMA FollowsEnd ==
    ASSUME NEW s \in Seq(Node), NEW m, NEW n \in Node, NEW nx, NEW ny,
           Follows(s, m, nx), ny[n] = NULL,
           \A i \in 1 .. Len(s) : ny[s[i]] = IF i = Len(s) THEN n ELSE nx[s[i]]
    PROVE  Follows(Append(s, n), IF s = <<>> THEN n ELSE m, ny)
<1> DEFINE t == Append(s, n)
           L == Len(s)
<1>1. /\ L \in Nat /\ t \in Seq(Node) /\ Len(t) = L + 1 /\ t[L + 1] = n /\ t # <<>>
      /\ \A i \in 1 .. L : t[i] = s[i]
      /\ s = <<>> <=> L = 0
  BY EmptySeq, AppendProperties
<1>2. m = IF s = <<>> THEN NULL ELSE s[1]
  BY DEF Follows
<1>3. \A i \in 1 .. L : nx[s[i]] = IF i < L THEN s[i + 1] ELSE NULL
  BY DEF Follows
<1>4. \A i \in 1 .. L : ny[s[i]] = IF i = L THEN n ELSE nx[s[i]]
  OBVIOUS
<1> HIDE DEF t, L
<1>5. t[1] = IF s = <<>> THEN n ELSE m
  <2>1. L # 0 => 1 \in 1 .. L
    BY <1>1
  <2>2. L = 0 => L + 1 = 1
    OBVIOUS
  <2> QED
    BY <1>1, <1>2, <2>1, <2>2
<1>6. ASSUME NEW i \in 1 .. (L + 1)
      PROVE  ny[t[i]] = IF i < L + 1 THEN t[i + 1] ELSE NULL
  <2>1. CASE i = L + 1
    BY <1>1, <2>1
  <2>2. CASE i = L
    <3>1. i \in 1 .. L /\ i < L + 1
      BY <1>1, <2>2
    <3> QED
      BY <1>1, <1>4, <2>2, <3>1
  <2>3. CASE i # L /\ i # L + 1
    <3>1. i \in 1 .. L /\ i < L /\ i < L + 1 /\ i + 1 \in 1 .. L
      BY <1>1, <2>3
    <3>2. t[i] = s[i] /\ t[i + 1] = s[i + 1] /\ nx[s[i]] = s[i + 1]
      BY <1>1, <1>3, <3>1
    <3> QED
      BY <1>4, <2>3, <3>1, <3>2
  <2> QED
    BY <2>1, <2>2, <2>3
<1> QED
  BY <1>1, <1>5, <1>6 DEF Follows, t

(* A list begins with its head.                                             *)
LEMMA HeadFirst ==
    ASSUME NEW q \in Lists, Lined(q), NEW a \in List
    PROVE  /\ First(a) = NULL <=> q[a] = <<>>
           /\ First(a) # NULL => First(a) = q[a][1] /\ First(a) = Head(q[a])
<1>1. First(a) = IF q[a] = <<>> THEN NULL ELSE q[a][1]
  BY DEF Lined, Follows
<1>2. q[a] # <<>> => q[a][1] \in Node /\ Head(q[a]) = q[a][1]
  <2>1. q[a] # <<>> => 1 \in 1 .. Len(q[a])
    BY ListsTyped
  <2> QED
    BY <2>1, ListsTyped
<1>3. NULL \notin Node
  BY Sizes
<1> QED
  BY <1>1, <1>2, <1>3

(* The lists after each change of the pool.                                 *)
LEMMA PopLined ==
    ASSUME Typed, NEW q \in Lists, Lined(q), NEW o \in Output, NEW n \in Node,
           out[o].first = n, out'[o].first = next[n], out'[o].last = out[o].last,
           \A p \in Output \ {o} :
               out'[p].first = out[p].first /\ out'[p].last = out[p].last,
           next' = [next EXCEPT ![n] = move_free], move_free' = n, task' = task
    PROVE  LET b == [q EXCEPT ![o] = Tail(q[o]), ![FREE] = <<n>> \o q[FREE]]
           IN  q[o] # <<>> /\ Head(q[o]) = n /\ b \in Lists /\ Lined(b)'
<1> DEFINE b == [q EXCEPT ![o] = Tail(q[o]), ![FREE] = <<n>> \o q[FREE]]
<1>1. FREE \in List /\ o \in List /\ o # FREE /\ \A p \in Output : p \in List /\ p # FREE
  BY Owners DEF List
<1>2. n # NULL /\ First(o) = n /\ First(FREE) = move_free
  BY <1>1, Sizes DEF First
<1>3. q[o] # <<>> /\ Head(q[o]) = n /\ q[o][1] = n
  BY <1>1, <1>2, HeadFirst
<1> DEFINE L == Len(q[o])
           M == Len(q[FREE])
<1>4. /\ q[o] \in Seq(Node) /\ L \in Nat /\ L # 0 /\ Tail(q[o]) \in Seq(Node)
      /\ Len(Tail(q[o])) = L - 1
      /\ \A i \in 1 .. (L - 1) : Tail(q[o])[i] = q[o][i + 1]
  BY <1>1, <1>3, ListsTyped
<1>5. /\ q[FREE] \in Seq(Node) /\ M \in Nat /\ <<n>> \o q[FREE] \in Seq(Node)
      /\ Len(<<n>> \o q[FREE]) = M + 1
      /\ (<<n>> \o q[FREE])[1] = n
      /\ \A i \in 2 .. (M + 1) : (<<n>> \o q[FREE])[i] = q[FREE][i - 1]
  BY <1>1, ListsTyped
<1>6. /\ b[o] = Tail(q[o]) /\ b[FREE] = <<n>> \o q[FREE]
      /\ \A a \in List \ {o, FREE} : b[a] = q[a]
  BY <1>1 DEF Lists
<1>7. b \in Lists
  BY <1>4, <1>5 DEF Lists
<1>7a. Len(b[o]) = L - 1 /\ Len(b[FREE]) = M + 1 /\ Len(q[o]) = L /\ Len(q[FREE]) = M
  BY <1>4, <1>5, <1>6
<1> HIDE DEF b, L, M
(* Where each node was.                                                     *)
<1> DEFINE Src(a, i) == IF a = FREE /\ i = 1 THEN o ELSE a
           Idx(a, i) == IF a = o THEN i + 1
                        ELSE IF a = FREE /\ i # 1 THEN i - 1 ELSE i
<1>8. ASSUME NEW a \in List, NEW i \in 1 .. Len(b[a])
      PROVE  /\ Src(a, i) \in List /\ Idx(a, i) \in 1 .. Len(q[Src(a, i)])
             /\ b[a][i] = q[Src(a, i)][Idx(a, i)]
  <2>1. CASE a = o
    <3>1. i \in 1 .. (L - 1) /\ i + 1 \in 1 .. L
      BY <1>4, <1>7a, <2>1, <1>8
    <3> QED
      BY <1>1, <1>4, <1>6, <1>7a, <2>1, <3>1
  <2>2. CASE a = FREE
    <3>1. CASE i = 1
      <4>1. 1 \in 1 .. L
        BY <1>4
      <4> QED
        BY <1>1, <1>3, <1>5, <1>6, <1>7a, <2>2, <3>1, <4>1
    <3>2. CASE i # 1
      <4>1. i \in 2 .. (M + 1) /\ i - 1 \in 1 .. M
        BY <1>5, <1>8, <1>7a, <2>2, <3>2
      <4> QED
        BY <1>1, <1>5, <1>6, <1>7a, <2>2, <3>2, <4>1
    <3> QED
      BY <3>1, <3>2
  <2>3. CASE a \notin {o, FREE}
    BY <1>6, <2>3
  <2> QED
    BY <2>1, <2>2, <2>3
<1>9. ASSUME NEW a \in List, NEW i \in 1 .. Len(b[a]), NEW c \in List,
             NEW j \in 1 .. Len(b[c]), Src(a, i) = Src(c, j), Idx(a, i) = Idx(c, j)
      PROVE  a = c /\ i = j
  <2>1. i \in Int /\ j \in Int /\ i >= 1 /\ j >= 1
    <3>1. Len(b[a]) \in Nat /\ Len(b[c]) \in Nat
      BY <1>7, ListsTyped
    <3> QED
      BY <3>1
  <2> QED
    BY <1>1, <1>9, <2>1
<1> HIDE DEF Src, Idx
<1>10. Once(b)'
  <2>1. Once(q)
    BY DEF Lined
  <2>2. ASSUME NEW a \in List, NEW c \in List, NEW i \in 1 .. Len(b[a]),
               NEW j \in 1 .. Len(b[c]), b[a][i] = b[c][j]
        PROVE  a = c /\ i = j
    <3>1. q[Src(a, i)][Idx(a, i)] = q[Src(c, j)][Idx(c, j)]
      BY <1>8, <2>2
    <3>2. Src(a, i) = Src(c, j) /\ Idx(a, i) = Idx(c, j)
      BY <1>8, <2>1, <3>1 DEF Once
    <3> QED
      BY <1>9, <3>2
  <2> QED
    BY <2>2 DEF Once
<1>11. Last(b)'
  <2>1. ASSUME NEW p \in Output, b[p] # <<>> PROVE b[p][Len(b[p])] = out'[p].last
    <3>1. Last(q) /\ p \in List /\ p # FREE
      BY <1>1 DEF Lined
    <3>2. CASE p = o
      <4>1. L - 1 # 0 /\ L - 1 \in 1 .. (L - 1) /\ (L - 1) + 1 = L
        <5>1. L - 1 # 0
          BY <1>1, <1>7, <1>7a, <2>1, <3>2, ListsTyped
        <5> QED
          BY <1>4, <5>1
      <4>2. Tail(q[o])[L - 1] = q[o][L]
        BY <1>4, <4>1
      <4>3. q[o][L] = out[o].last
        BY <1>3, <1>7a, <3>1 DEF Last
      <4> QED
        BY <1>4, <1>6, <1>7a, <3>2, <4>2, <4>3
    <3>3. CASE p # o
      BY <1>6, <2>1, <3>1, <3>3 DEF Last
    <3> QED
      BY <3>2, <3>3
  <2> QED
    BY <2>1 DEF Last
<1>12. Aside(b)'
  <2>1. Aside(q)
    BY DEF Lined
  <2>2. ASSUME task.at = "push", NEW a \in List, NEW i \in 1 .. Len(b[a])
        PROVE  b[a][i] # task.node
    BY <1>8, <2>1, <2>2 DEF Aside
  <2> QED
    BY <2>2 DEF Aside
<1>13. ASSUME NEW a \in List PROVE Follows(b[a], First(a)', next')
  <2>1. next \in [Node -> Place] /\ next'[n] = move_free
        /\ \A m \in Node : m # n => next'[m] = next[m]
    BY DEF Typed
  <2>2. Once(q) /\ Follows(q[a], First(a), next) /\ q[a] \in Seq(Node)
    BY ListsTyped DEF Lined
  <2>3. ASSUME NEW i \in 1 .. Len(q[a]), a # o PROVE next'[q[a][i]] = next[q[a][i]]
    <3>1. 1 \in 1 .. L
      BY <1>4
    <3>2. q[a][i] # n
      BY <1>1, <1>3, <1>7a, <2>2, <2>3, <3>1 DEF Once
    <3> QED
      BY <2>1, <2>3, <3>2, ListsTyped
  <2>4. CASE a = o
    <3>1. Follows(Tail(q[o]), next[n], next)
      <4>1. Follows(q[o], n, next)
        BY <1>2, <2>2, <2>4
      <4> QED
        BY <1>3, <1>4, <4>1, FollowsTail
    <3>2. ASSUME NEW i \in 1 .. (L - 1) PROVE next'[Tail(q[o])[i]] = next[Tail(q[o])[i]]
      <4>1. 1 \in 1 .. L /\ i + 1 \in 1 .. L /\ i + 1 # 1
        BY <1>4
      <4>2. q[o][i + 1] # n /\ q[o][i + 1] \in Node
        BY <1>1, <1>3, <1>7a, <2>2, <4>1, ListsTyped DEF Once
      <4> QED
        BY <1>4, <2>1, <4>2
    <3>3. Follows(Tail(q[o]), next[n], next')
      BY <1>4, <3>1, <3>2, FollowsSame
    <3>4. First(a)' = next[n]
      BY <1>1, <2>4 DEF First
    <3> QED
      BY <1>6, <2>4, <3>3, <3>4
  <2>5. CASE a = FREE
    <3>1. Follows(q[FREE], move_free, next)
      BY <1>2, <2>2, <2>5
    <3>2. Follows(q[FREE], move_free, next')
      <4>1. \A i \in 1 .. Len(q[FREE]) : next'[q[FREE][i]] = next[q[FREE][i]]
        BY <1>1, <2>3, <2>5
      <4> QED
        BY <1>5, <3>1, <4>1, FollowsSame
    <3>3. Follows(<<n>> \o q[FREE], n, next')
      BY <1>5, <2>1, <3>2, FollowsFront
    <3>4. First(a)' = n
      BY <2>5 DEF First
    <3> QED
      BY <1>6, <2>5, <3>3, <3>4
  <2>6. CASE a \notin {o, FREE}
    <3>1. a \in Output
      BY <2>6 DEF List
    <3>2. First(a)' = First(a)
      BY <1>1, <2>6, <3>1 DEF First
    <3>3. Follows(q[a], First(a), next')
      BY <2>2, <2>3, <2>6, FollowsSame
    <3> QED
      BY <1>6, <2>6, <3>2, <3>3
  <2> QED
    BY <2>4, <2>5, <2>6
<1>14. Lined(b)'
  BY <1>10, <1>11, <1>12, <1>13 DEF Lined
<1> QED
  BY <1>3, <1>7, <1>14 DEF b

LEMMA PushLined ==
    ASSUME Typed, NEW q \in Lists, Lined(q), NEW o \in Output, NEW n \in Node,
           task.at = "push", task.node = n, task'.at # "push",
           out'[o].first = (IF out[o].first = NULL THEN n ELSE out[o].first),
           out'[o].last = n,
           \A p \in Output \ {o} :
               out'[p].first = out[p].first /\ out'[p].last = out[p].last,
           Pushed(out[o], n)
    PROVE  LET b == [q EXCEPT ![o] = Append(q[o], n)]
           IN  b \in Lists /\ Lined(b)'
<1> DEFINE b == [q EXCEPT ![o] = Append(q[o], n)]
           L == Len(q[o])
<1>1. FREE \in List /\ o \in List /\ o # FREE /\ \A p \in Output : p \in List /\ p # FREE
  BY Owners DEF List
<1>2. /\ q[o] \in Seq(Node) /\ L \in Nat /\ Append(q[o], n) \in Seq(Node)
      /\ Len(Append(q[o], n)) = L + 1 /\ Append(q[o], n)[L + 1] = n
      /\ \A i \in 1 .. L : Append(q[o], n)[i] = q[o][i]
      /\ q[o] = <<>> <=> L = 0
  BY <1>1, ListsTyped, AppendProperties
<1>3. b[o] = Append(q[o], n) /\ \A a \in List \ {o} : b[a] = q[a]
  BY <1>1 DEF Lists
<1>4. b \in Lists
  BY <1>2 DEF Lists
<1>5. Len(b[o]) = L + 1 /\ Len(q[o]) = L
  BY <1>2, <1>3
<1> HIDE DEF b, L
<1>6. Once(q) /\ Last(q) /\ \A a \in List : \A i \in 1 .. Len(q[a]) : q[a][i] # n
  BY DEF Lined, Aside
<1>7. ASSUME NEW a \in List, NEW i \in 1 .. Len(b[a])
      PROVE  \/ i \in 1 .. Len(q[a]) /\ b[a][i] = q[a][i]
             \/ a = o /\ i = L + 1 /\ b[a][i] = n
  <2>1. CASE a = o
    <3>1. i \in 1 .. L \/ i = L + 1
      BY <1>2, <1>5, <1>7, <2>1
    <3> QED
      BY <1>2, <1>3, <1>5, <2>1, <3>1
  <2>2. CASE a # o
    BY <1>3, <2>2
  <2> QED
    BY <2>1, <2>2
<1>8. Once(b)'
  <2>1. ASSUME NEW a \in List, NEW c \in List, NEW i \in 1 .. Len(b[a]),
               NEW j \in 1 .. Len(b[c]), b[a][i] = b[c][j]
        PROVE  a = c /\ i = j
    BY <1>6, <1>7, <2>1 DEF Once
  <2> QED
    BY <2>1 DEF Once
<1>9. Last(b)'
  <2>1. ASSUME NEW p \in Output, b[p] # <<>> PROVE b[p][Len(b[p])] = out'[p].last
    BY <1>1, <1>2, <1>3, <1>5, <1>6, <2>1 DEF Last
  <2> QED
    BY <2>1 DEF Last
<1>10. Aside(b)'
  BY DEF Aside
<1>11. /\ next \in [Node -> Place] /\ next'[n] = NULL /\ move_free' = move_free
       /\ out[o].last \in Place
       /\ \A m \in Node : m # n /\ (out[o].first # NULL => m # out[o].last)
                          => next'[m] = next[m]
       /\ out[o].first # NULL /\ out[o].last \in Node /\ out[o].last # n
             => next'[out[o].last] = n
  BY SMT DEF Pushed, Typed, IsOut
<1>12. /\ out[o].first = NULL <=> q[o] = <<>>
       /\ out[o].first # NULL => L \in 1 .. L /\ out[o].last = q[o][L]
  <2>1. First(o) = out[o].first
    BY <1>1 DEF First
  <2>2. out[o].first = NULL <=> q[o] = <<>>
    BY <1>1, <2>1, HeadFirst
  <2>3. q[o] # <<>> => L \in 1 .. L
    BY <1>2
  <2> QED
    BY <1>5, <1>6, <2>2, <2>3 DEF Last
<1>13. ASSUME NEW a \in List PROVE Follows(b[a], First(a)', next')
  <2>1. Follows(q[a], First(a), next) /\ q[a] \in Seq(Node)
    BY ListsTyped DEF Lined
  <2>2. CASE a = o
    <3>1. First(a) = out[o].first /\ First(a)' = IF q[o] = <<>> THEN n ELSE First(a)
      BY <1>1, <1>12, <2>2 DEF First
    <3>2. ASSUME NEW i \in 1 .. L
          PROVE  next'[q[o][i]] = IF i = L THEN n ELSE next[q[o][i]]
      <4>1. q[o][i] \in Node /\ q[o][i] # n
        BY <1>1, <1>5, <1>6, ListsTyped
      <4>2. out[o].first # NULL
        <5>1. L # 0
          BY <1>2
        <5> QED
          BY <1>2, <1>12, <5>1
      <4>3. CASE i = L
        BY <1>11, <1>12, <4>1, <4>2, <4>3
      <4>4. CASE i # L
        <5>1. q[o][i] # q[o][L]
          BY <1>1, <1>5, <1>6, <1>12, <4>2, <4>4 DEF Once
        <5> QED
          BY <1>11, <1>12, <4>1, <4>2, <4>4, <5>1
      <4> QED
        BY <4>3, <4>4
    <3>3. \A i \in 1 .. Len(q[o]) :
              next'[q[o][i]] = IF i = Len(q[o]) THEN n ELSE next[q[o][i]]
      BY <1>5, <3>2
    <3>4. Follows(q[o], First(a), next)
      BY <2>1, <2>2
    <3>5. Follows(Append(q[o], n), IF q[o] = <<>> THEN n ELSE First(a), next')
      BY <1>2, <1>11, <3>3, <3>4, FollowsEnd
    <3> QED
      BY <1>3, <2>2, <3>1, <3>5
  <2>3. CASE a # o
    <3>1. First(a)' = First(a)
      <4>1. a = FREE \/ a \in Output
        BY DEF List
      <4> QED
        BY <1>1, <1>11, <2>3, <4>1 DEF First
    <3>2. ASSUME NEW i \in 1 .. Len(q[a]) PROVE next'[q[a][i]] = next[q[a][i]]
      <4>1. q[a][i] \in Node /\ q[a][i] # n
        BY <1>6, ListsTyped
      <4>2. out[o].first # NULL => q[a][i] # out[o].last
        BY <1>1, <1>5, <1>6, <1>12, <2>3 DEF Once
      <4> QED
        BY <1>11, <4>1, <4>2
    <3>3. Follows(q[a], First(a), next')
      BY <2>1, <3>2, FollowsSame
    <3> QED
      BY <1>3, <2>3, <3>1, <3>3
  <2> QED
    BY <2>2, <2>3
<1>14. Lined(b)'
  BY <1>8, <1>9, <1>10, <1>13 DEF Lined
<1> QED
  BY <1>4, <1>14 DEF b

LEMMA AllocLined ==
    ASSUME Typed, NEW q \in Lists, Lined(q), NEW n \in Node, move_free = n,
           move_free' = next[n], UNCHANGED <<out, next>>,
           task'.at = "push", task'.node = n
    PROVE  LET b == [q EXCEPT ![FREE] = Tail(q[FREE])]
           IN  q[FREE] # <<>> /\ Head(q[FREE]) = n /\ b \in Lists /\ Lined(b)'
<1> DEFINE b == [q EXCEPT ![FREE] = Tail(q[FREE])]
           M == Len(q[FREE])
<1>1. FREE \in List /\ \A p \in Output : p \in List /\ p # FREE
  BY Owners DEF List
<1>2. n # NULL /\ First(FREE) = n
  BY Sizes DEF First
<1>3. q[FREE] # <<>> /\ Head(q[FREE]) = n /\ q[FREE][1] = n
  BY <1>1, <1>2, HeadFirst
<1>4. /\ q[FREE] \in Seq(Node) /\ M \in Nat /\ M # 0 /\ Tail(q[FREE]) \in Seq(Node)
      /\ Len(Tail(q[FREE])) = M - 1
      /\ \A i \in 1 .. (M - 1) : Tail(q[FREE])[i] = q[FREE][i + 1]
  BY <1>1, <1>3, ListsTyped
<1>5. b[FREE] = Tail(q[FREE]) /\ \A a \in List \ {FREE} : b[a] = q[a]
  BY <1>1 DEF Lists
<1>6. b \in Lists
  BY <1>4 DEF Lists
<1>7. Len(b[FREE]) = M - 1 /\ Len(q[FREE]) = M
  BY <1>4, <1>5
<1> HIDE DEF b, M
<1> DEFINE Idx(a, i) == IF a = FREE THEN i + 1 ELSE i
<1>8. ASSUME NEW a \in List, NEW i \in 1 .. Len(b[a])
      PROVE  /\ Idx(a, i) \in 1 .. Len(q[a]) /\ b[a][i] = q[a][Idx(a, i)]
             /\ a = FREE => Idx(a, i) # 1
  <2>1. CASE a = FREE
    <3>1. i \in 1 .. (M - 1) /\ i + 1 \in 1 .. M /\ i + 1 # 1
      BY <1>4, <1>7, <1>8, <2>1
    <3> QED
      BY <1>4, <1>5, <1>7, <2>1, <3>1
  <2>2. CASE a # FREE
    BY <1>5, <2>2
  <2> QED
    BY <2>1, <2>2
<1>9. ASSUME NEW a \in List, NEW i \in 1 .. Len(b[a]), NEW j \in 1 .. Len(b[a]),
             Idx(a, i) = Idx(a, j)
      PROVE  i = j
  <2>1. i \in Int /\ j \in Int
    BY <1>6, ListsTyped
  <2> QED
    BY <1>9, <2>1
<1> HIDE DEF Idx
<1>10. Once(q) /\ Last(q)
  BY DEF Lined
<1>11. Once(b)'
  <2>1. ASSUME NEW a \in List, NEW c \in List, NEW i \in 1 .. Len(b[a]),
               NEW j \in 1 .. Len(b[c]), b[a][i] = b[c][j]
        PROVE  a = c /\ i = j
    <3>1. q[a][Idx(a, i)] = q[c][Idx(c, j)]
      BY <1>8, <2>1
    <3>2. a = c /\ Idx(a, i) = Idx(c, j)
      BY <1>8, <1>10, <3>1 DEF Once
    <3> QED
      BY <1>9, <3>2
  <2> QED
    BY <2>1 DEF Once
<1>12. Last(b)'
  BY <1>1, <1>5, <1>10 DEF Last
<1>13. Aside(b)'
  <2>1. ASSUME NEW a \in List, NEW i \in 1 .. Len(b[a]) PROVE b[a][i] # n
    <3>1. 1 \in 1 .. Len(q[FREE])
      BY <1>4, <1>7
    <3> QED
      BY <1>1, <1>3, <1>8, <1>10, <3>1 DEF Once
  <2> QED
    BY <2>1 DEF Aside
<1>14. ASSUME NEW a \in List PROVE Follows(b[a], First(a)', next')
  <2>1. Follows(q[a], First(a), next)
    BY DEF Lined
  <2>2. CASE a = FREE
    <3>1. Follows(Tail(q[FREE]), next[n], next)
      <4>1. Follows(q[FREE], n, next)
        BY <1>2, <2>1, <2>2
      <4> QED
        BY <1>3, <1>4, <4>1, FollowsTail
    <3>2. First(a)' = next[n]
      BY <2>2 DEF First
    <3> QED
      BY <1>5, <2>2, <3>1, <3>2
  <2>3. CASE a # FREE
    BY <1>5, <2>1, <2>3 DEF First
  <2> QED
    BY <2>2, <2>3
<1>15. Lined(b)'
  BY <1>11, <1>12, <1>13, <1>14 DEF Lined
<1> QED
  BY <1>3, <1>6, <1>15 DEF b

LEMMA StayLined ==
    ASSUME Typed, NEW q \in Lists, Lined(q), UNCHANGED <<next, move_free>>,
           task' = task \/ task'.at # "push",
           \A p \in Output : out'[p].first = out[p].first /\ out'[p].last = out[p].last
    PROVE  Lined(q)'
<1>1. \A a \in List : First(a)' = First(a)
  BY DEF First, List
<1>2. Last(q)' /\ Aside(q)' /\ Once(q)'
  BY DEF Lined, Last, Aside, Once
<1> QED
  BY <1>1, <1>2 DEF Lined

(* The lists that move_reset makes.                                         *)
ResetLists == [a \in List |-> IF a = FREE THEN [i \in Node |-> i] ELSE <<>>]

LEMMA ResetLined ==
    /\ next = Linked /\ move_free = 1 /\ task.at # "push"
    /\ \A o \in Output : out[o].first = NULL
    => ResetLists \in Lists /\ Lined(ResetLists)
<1> SUFFICES ASSUME next = Linked, move_free = 1, task.at # "push",
                    \A o \in Output : out[o].first = NULL
             PROVE  ResetLists \in Lists /\ Lined(ResetLists)
  OBVIOUS
<1> DEFINE s == [i \in Node |-> i]
<1>1. /\ MoveCount \in Nat /\ MoveCount > 0 /\ Node = 1 .. MoveCount
      /\ FREE \in List /\ \A p \in Output : p \in List /\ p # FREE
  BY Sizes, Owners DEF List, Node
<1>2. s \in Seq(Node) /\ Len(s) = MoveCount /\ \A i \in Node : s[i] = i
  BY <1>1
<1>3. ResetLists[FREE] = s /\ \A o \in Output : ResetLists[o] = <<>>
  BY <1>1 DEF ResetLists
<1> HIDE DEF s
<1>4. s # <<>> /\ s[1] = 1
  BY <1>1, <1>2, EmptySeq
<1>5. ResetLists \in Lists
  BY <1>1, <1>2, EmptySeq DEF ResetLists, Lists, s
<1>6. ASSUME NEW a \in List PROVE Follows(ResetLists[a], First(a), next)
  <2>1. CASE a = FREE
    <3>1. \A i \in 1 .. Len(s) : next[s[i]] = IF i < Len(s) THEN s[i + 1] ELSE NULL
      <4> SUFFICES ASSUME NEW i \in 1 .. Len(s)
                   PROVE  next[s[i]] = IF i < Len(s) THEN s[i + 1] ELSE NULL
        OBVIOUS
      <4>1. i \in Node /\ s[i] = i /\ next[i] = IF i = MoveCount THEN NULL ELSE i + 1
        BY <1>1, <1>2 DEF Linked
      <4>2. CASE i = MoveCount
        BY <1>1, <1>2, <4>1, <4>2
      <4>3. CASE i # MoveCount
        <5>1. i < MoveCount /\ i + 1 \in Node
          BY <1>1, <4>1, <4>3
        <5> QED
          BY <1>2, <4>1, <4>3, <5>1
      <4> QED
        BY <4>2, <4>3
    <3> QED
      BY <1>3, <1>4, <2>1, <3>1 DEF Follows, First
  <2>2. CASE a # FREE
    <3>1. a \in Output /\ First(a) = NULL
      BY <2>2 DEF List, First
    <3>2. 1 .. Len(<<>>) = {}
      OBVIOUS
    <3> QED
      BY <1>3, <3>1, <3>2 DEF Follows
  <2> QED
    BY <2>1, <2>2
<1>7. Once(ResetLists)
  <2>1. ASSUME NEW a \in List, NEW c \in List, NEW i \in 1 .. Len(ResetLists[a]),
               NEW j \in 1 .. Len(ResetLists[c]), ResetLists[a][i] = ResetLists[c][j]
        PROVE  a = c /\ i = j
    <3>1. 1 .. Len(<<>>) = {}
      OBVIOUS
    <3>2. a = FREE /\ c = FREE
      BY <1>3, <2>1, <3>1 DEF List
    <3> QED
      BY <1>1, <1>2, <1>3, <2>1, <3>2
  <2> QED
    BY <2>1 DEF Once
<1>8. Last(ResetLists) /\ Aside(ResetLists)
  BY <1>3 DEF Last, Aside
<1> QED
  BY <1>5, <1>6, <1>7, <1>8 DEF Lined

(* What MoveQueue shows of the pool, and its steps.                         *)
Queues == [o \in Output |-> Nodes(out[o].first)]
InHands == IF task.at = "push" THEN task.node ELSE NULL
Queued == \E q \in Lists : Lined(q)
Serves == [Moves!Next]_Moves!queueVars /\ Queued'

LEMMA Views ==
    ASSUME NEW q \in Lists
    PROVE  /\ Typed /\ Lined(q) =>
                  Queues = [o \in Output |-> q[o]] /\ Nodes(move_free) = q[FREE]
           /\ Typed' /\ Lined(q)' =>
                  Queues' = [o \in Output |-> q[o]] /\ Nodes(move_free)' = q[FREE]
BY Shown DEF Queues

(* Each kind of change is a step of MoveQueue, or shows nothing of it.       *)
LEMMA StayServes ==
    ASSUME Typed, Typed', Queued, UNCHANGED <<next, move_free>>, InHands' = InHands,
           task' = task \/ task'.at # "push",
           \A p \in Output : out'[p].first = out[p].first /\ out'[p].last = out[p].last
    PROVE  Serves
<1>1. PICK q \in Lists : Lined(q)
  BY DEF Queued
<1>2. Lined(q)'
  BY <1>1, StayLined
<1>3. Queues' = Queues /\ Nodes(move_free)' = Nodes(move_free)
  BY <1>1, <1>2, Views
<1>4. UNCHANGED Moves!queueVars
  BY <1>3 DEF Moves!queueVars, Queues, InHands
<1> QED
  BY <1>2, <1>4 DEF Serves, Queued

LEMMA PopServes ==
    ASSUME Typed, Typed', Queued, NEW o \in Output, NEW n \in Node,
           out[o].first = n, out'[o].first = next[n], out'[o].last = out[o].last,
           \A p \in Output \ {o} :
               out'[p].first = out[p].first /\ out'[p].last = out[p].last,
           next' = [next EXCEPT ![n] = move_free], move_free' = n, task' = task
    PROVE  Serves
<1>1. PICK q \in Lists : Lined(q)
  BY DEF Queued
<1> DEFINE b == [q EXCEPT ![o] = Tail(q[o]), ![FREE] = <<n>> \o q[FREE]]
<1>2. q[o] # <<>> /\ Head(q[o]) = n /\ b \in Lists /\ Lined(b)'
  BY <1>1, PopLined
<1>3. /\ b[o] = Tail(q[o]) /\ b[FREE] = <<n>> \o q[FREE]
      /\ \A p \in Output \ {o} : b[p] = q[p]
  BY Owners DEF Lists, List
<1> HIDE DEF b
<1>4. /\ Queues = [p \in Output |-> q[p]] /\ Nodes(move_free) = q[FREE]
      /\ Queues' = [p \in Output |-> b[p]] /\ Nodes(move_free)' = b[FREE]
  BY <1>1, <1>2, Views
<1>5. Queues[o] = q[o] /\ Queues' = [Queues EXCEPT ![o] = Tail(@)]
  BY <1>3, <1>4
<1>6. Nodes(move_free)' = <<Head(Queues[o])>> \o Nodes(move_free)
  BY <1>2, <1>3, <1>4, <1>5
<1>7. Moves!Pop(o)
  BY <1>2, <1>5, <1>6 DEF Moves!Pop, Queues
<1> QED
  BY <1>2, <1>7 DEF Serves, Queued, Moves!Next

LEMMA PushServes ==
    ASSUME Typed, Typed', Queued, NEW o \in Output, NEW n \in Node,
           task.at = "push", task.node = n, task'.at # "push",
           out'[o].first = (IF out[o].first = NULL THEN n ELSE out[o].first),
           out'[o].last = n,
           \A p \in Output \ {o} :
               out'[p].first = out[p].first /\ out'[p].last = out[p].last,
           Pushed(out[o], n)
    PROVE  Serves
<1>1. PICK q \in Lists : Lined(q)
  BY DEF Queued
<1> DEFINE b == [q EXCEPT ![o] = Append(q[o], n)]
<1>2. b \in Lists /\ Lined(b)'
  BY <1>1, PushLined
<1>3. /\ b[o] = Append(q[o], n) /\ b[FREE] = q[FREE]
      /\ \A p \in Output \ {o} : b[p] = q[p]
  BY Owners DEF Lists, List
<1> HIDE DEF b
<1>4. /\ Queues = [p \in Output |-> q[p]] /\ Nodes(move_free) = q[FREE]
      /\ Queues' = [p \in Output |-> b[p]] /\ Nodes(move_free)' = b[FREE]
  BY <1>1, <1>2, Views
<1>5. /\ Queues' = [Queues EXCEPT ![o] = Append(@, n)]
      /\ Nodes(move_free)' = Nodes(move_free)
  BY <1>3, <1>4
<1>6. InHands = n /\ n # NULL /\ InHands' = NULL
  BY Sizes DEF InHands
<1>7. Moves!Push(o)
  BY <1>5, <1>6 DEF Moves!Push, Queues, InHands
<1> QED
  BY <1>2, <1>7 DEF Serves, Queued, Moves!Next

LEMMA AllocServes ==
    ASSUME Typed, Typed', Queued, NEW n \in Node, move_free = n, task.at = "idle",
           move_free' = next[n], UNCHANGED <<out, next>>,
           task'.at = "push", task'.node = n
    PROVE  Serves
<1>1. PICK q \in Lists : Lined(q)
  BY DEF Queued
<1> DEFINE b == [q EXCEPT ![FREE] = Tail(q[FREE])]
<1>2. q[FREE] # <<>> /\ Head(q[FREE]) = n /\ b \in Lists /\ Lined(b)'
  BY <1>1, AllocLined
<1>3. b[FREE] = Tail(q[FREE]) /\ \A p \in Output : b[p] = q[p]
  BY Owners DEF Lists, List
<1> HIDE DEF b
<1>4. /\ Queues = [p \in Output |-> q[p]] /\ Nodes(move_free) = q[FREE]
      /\ Queues' = [p \in Output |-> b[p]] /\ Nodes(move_free)' = b[FREE]
  BY <1>1, <1>2, Views
<1>5. Queues' = Queues
  BY <1>3, <1>4
<1>6. InHands = NULL /\ InHands' = n
  BY DEF InHands
<1>7. Moves!Alloc
  BY <1>2, <1>3, <1>4, <1>5, <1>6 DEF Moves!Alloc, Queues, InHands
<1> QED
  BY <1>2, <1>7 DEF Serves, Queued, Moves!Next

LEMMA ResetLinedNext ==
    (/\ next = Linked /\ move_free = 1 /\ task.at # "push"
     /\ \A o \in Output : out[o].first = NULL
     => ResetLists \in Lists /\ Lined(ResetLists))'
BY ResetLined, PTL

LEMMA ShutDownServes ==
    ASSUME Typed, Typed', OutputsShutDown
    PROVE  Serves
<1>1. task' = Idle /\ next' = Linked /\ move_free' = 1
  BY DEF OutputsShutDown
<1>2. \A o \in Output : out'[o].first = NULL
  BY DEF OutputsShutDown, Typed, IsOut, Fields
<1>3. ResetLists \in Lists /\ Lined(ResetLists)'
  BY <1>1, <1>2, ResetLinedNext DEF Idle, Lists, ResetLists
<1>4. /\ \A o \in Output : ResetLists[o] = <<>>
      /\ ResetLists[FREE] = [i \in Node |-> i]
  BY Owners DEF ResetLists, List
<1>5. /\ Queues' = [o \in Output |-> ResetLists[o]]
      /\ Nodes(move_free)' = ResetLists[FREE]
  BY <1>3, Views
<1>6. Queues' = [o \in Output |-> <<>>]
  BY <1>4, <1>5
<1>7. InHands' = NULL
  BY <1>1 DEF InHands, Idle
<1>8. Moves!Reset
  BY <1>4, <1>5, <1>6, <1>7 DEF Moves!Reset, Queues, InHands
<1> QED
  BY <1>3, <1>8 DEF Serves, Queued, Moves!Next

(* The callbacks.                                                           *)
LEMMA EventServes ==
    ASSUME IInv, Typed', Queued, NEW o \in Output, OutputEvent(o)
    PROVE  Serves
<1> DEFINE x == out[o]
<1>1. Typed /\ DOMAIN out = Output /\ DOMAIN x = Fields
  BY DEF IInv, Typed, IsOut
<1>2. CASE DigitalToggleEvent(o)
  <2>1. UNCHANGED <<next, move_free, task>>
    BY <1>2 DEF DigitalToggleEvent, pool
  <2>2. \A p \in Output : out'[p].first = out[p].first /\ out'[p].last = out[p].last
    <3>1. \A p \in Output \ {o} : out'[p] = out[p]
      BY <1>1, <1>2, Zenon DEF DigitalToggleEvent
    <3>2. out'[o].first = x.first /\ out'[o].last = x.last
      BY <1>1, <1>2, Zenon DEF DigitalToggleEvent, Fields
    <3> QED
      BY <3>1, <3>2
  <2>3. InHands' = InHands
    BY <2>1 DEF InHands
  <2> QED
    BY <1>1, <2>1, <2>2, <2>3, StayServes
<1>3. ASSUME NEW y, PopTo(o, y), DOMAIN y = Fields, y.last = x.last, x.first # NULL
      PROVE  Serves
  <2>1. x.first \in Node
    BY <1>3, FirstNotFree
  <2>2. /\ next' = [next EXCEPT ![x.first] = move_free] /\ move_free' = x.first
        /\ task' = task
    BY <1>3 DEF PopTo
  <2>3. \A p \in Output \ {o} : out'[p] = out[p]
    BY <1>1, <1>3 DEF PopTo
  <2>4. out'[o].first = next[x.first] /\ out'[o].last = x.last
    BY <1>1, <1>3, Zenon DEF PopTo, Fields
  <2> QED
    BY <1>1, <2>1, <2>2, <2>3, <2>4, PopServes
<1>4. CASE DigitalLoadEvent(o)
  <2> DEFINE checks == Limited(o) \/ Second(o) # NULL
             end == IF Second(o) # NULL THEN move[Second(o)].time
                    ELSE IF Limited(o) THEN Limit(o) ELSE 0
             pulse == x.time + Ticks(o)
             flags == Flag("ON", Ticks(o) # 0) \cup Flag("TOGGLING", Toggles(o))
                      \cup Flag("CHECK_END", checks)
             pulses == Toggles(o) /\ ~(checks /\ pulse >= end)
             y == [x EXCEPT
                    !.flags = flags, !.end = end,
                    !.func = IF pulses THEN "toggle" ELSE @,
                    !.on = IF pulses THEN Ticks(o) ELSE @,
                    !.off = IF pulses THEN x.cycle - Ticks(o) ELSE @,
                    !.time = IF pulses THEN pulse ELSE IF checks THEN end ELSE Off]
  <2>1. x.first # NULL /\ PopTo(o, y)
    BY <1>4 DEF DigitalLoadEvent
  <2> HIDE DEF checks, end, pulse, flags, pulses
  <2>2. DOMAIN y = Fields /\ y.last = x.last
    BY <1>1, Zenon DEF Fields
  <2> HIDE DEF y
  <2> QED
    BY <1>3, <2>1, <2>2
<1>5. CASE PwmEvent(o)
  <2>1. x.first # NULL
    BY <1>5 DEF PwmEvent, OutputEvent, Runs, IInv, Timed, ForPwm
  <2>2. PICK flags, func, time :
            PopTo(o, [x EXCEPT !.flags = flags, !.func = func, !.time = time])
    BY <1>5 DEF PwmEvent
  <2> DEFINE y == [x EXCEPT !.flags = flags, !.func = func, !.time = time]
  <2>3. DOMAIN y = Fields /\ y.last = x.last
    BY <1>1 DEF Fields
  <2> QED
    BY <1>3, <2>1, <2>2, <2>3
<1>6. CASE EventFails(o)
  BY <1>1, <1>6, ShutDownServes DEF EventFails
<1> QED
  BY <1>2, <1>4, <1>5, <1>6 DEF OutputEvent

(* The commands.                                                            *)
LEMMA QueueServes ==
    ASSUME IInv, Typed', Queued, task.at = "idle", NEW o \in Output, NEW time,
           NEW ticks, QueueOutput(o, time, ticks)
    PROVE  Serves
<1>1. Typed
  BY DEF IInv
<1>2. CASE OutputsShutDown
  BY <1>1, <1>2, ShutDownServes
<1>3. CASE ~OutputsShutDown
  <2>1. /\ move_free # NULL /\ move_free' = next[move_free]
        /\ task'.at = "push" /\ task'.node = move_free
        /\ UNCHANGED <<out, next>>
    BY <1>3 DEF QueueOutput
  <2>2. move_free \in Node
    BY <1>1, <2>1, Sizes DEF Typed
  <2> QED
    BY <1>1, <2>1, <2>2, AllocServes
<1> QED
  BY <1>2, <1>3

LEMMA PushesServe ==
    ASSUME IInv, Typed', Queued, NEW o \in Output, NEW n \in Node,
           \/ PushDigital(o, n) \/ PushPwm(o, n) \/ StartPwm(o, n)
    PROVE  Serves
<1> DEFINE x == out[o]
<1>1. Typed /\ DOMAIN out = Output /\ DOMAIN x = Fields
  BY DEF IInv, Typed, IsOut
<1>2. CASE OutputsShutDown
  BY <1>1, <1>2, ShutDownServes
<1>3. ASSUME NEW y, out' = [out EXCEPT ![o] = WithLast(y, n)], DOMAIN y = Fields,
             y.first = x.first, Pushed(x, n), task.at = "push", task.node = n,
             task'.at # "push"
      PROVE  Serves
  <2>1. \A p \in Output \ {o} : out'[p] = out[p]
    BY <1>1, <1>3
  <2>2. out'[o].first = (IF x.first = NULL THEN n ELSE x.first) /\ out'[o].last = n
    BY <1>1, <1>3 DEF WithLast, Fields
  <2> QED
    BY <1>1, <1>3, <2>1, <2>2, PushServes
<1>4. CASE ~OutputsShutDown /\ PushDigital(o, n)
  <2> DEFINE time == move[n].time
             checked == [x EXCEPT !.end = time, !.flags = @ \cup {"CHECK_END"}]
             y == IF x.first # NULL THEN x
                  ELSE IF WaitsForToggle(x, time) THEN checked
                  ELSE [checked EXCEPT !.time = time, !.func = "load"]
  <2>1. /\ out' = [out EXCEPT ![o] = WithLast(y, n)] /\ Pushed(x, n)
        /\ task.at = "push" /\ task.node = n /\ task'.at # "push"
    BY <1>4 DEF PushDigital, Idle
  <2>2. DOMAIN y = Fields /\ y.first = x.first
    BY <1>1 DEF Fields
  <2> QED
    BY <1>3, <2>1, <2>2
<1>5. CASE ~OutputsShutDown /\ PushPwm(o, n)
  <2>1. /\ out' = [out EXCEPT ![o] = WithLast(x, n)] /\ Pushed(x, n)
        /\ task.at = "push" /\ task.node = n /\ task'.at # "push"
    BY <1>1, <1>5 DEF PushPwm, Idle
  <2> QED
    BY <1>1, <1>3, <2>1
<1>6. CASE ~OutputsShutDown /\ StartPwm(o, n)
  <2>1. /\ UNCHANGED <<next, move_free>> /\ task.at = "start" /\ task'.at = "idle"
        /\ out' = [out EXCEPT ![o] = [x EXCEPT !.func = "load", !.time = move[n].time]]
    BY <1>6 DEF StartPwm, Idle, pool
  <2>2. \A p \in Output : out'[p].first = out[p].first /\ out'[p].last = out[p].last
    BY <1>1, <2>1 DEF Fields
  <2>3. InHands' = InHands
    BY <2>1 DEF InHands
  <2> QED
    BY <1>1, <2>1, <2>2, <2>3, StayServes
<1> QED
  BY <1>2, <1>4, <1>5, <1>6

LEMMA SettingServes ==
    ASSUME IInv, Typed', Queued, NEW o \in Digital,
           \/ \E value \in BOOLEAN : UpdateDigitalOut(o, value)
           \/ \E ticks : SetDigitalOutPwmCycle(o, ticks)
    PROVE  Serves
<1> DEFINE x == out[o]
<1>1. Typed /\ DOMAIN out = Output /\ DOMAIN x = Fields /\ o \in Output
  BY DEF IInv, Typed, IsOut, Output
<1>2. CASE OutputsShutDown
  BY <1>1, <1>2, ShutDownServes
<1>3. ASSUME UNCHANGED <<next, move_free, task>>, \A p \in Output \ {o} : out'[p] = out[p],
             out'[o].first = x.first, out'[o].last = x.last
      PROVE  Serves
  <2>1. InHands' = InHands
    BY <1>3 DEF InHands
  <2>2. \A p \in Output : out'[p].first = out[p].first /\ out'[p].last = out[p].last
    BY <1>3
  <2> QED
    BY <1>1, <1>3, <2>1, <2>2, StayServes
<1>4. ASSUME ~OutputsShutDown, NEW value \in BOOLEAN, UpdateDigitalOut(o, value)
      PROVE  Serves
  <2>1. UNCHANGED <<next, move_free, task>>
    BY <1>4 DEF UpdateDigitalOut, pool
  <2>2. \A p \in Output \ {o} : out'[p] = out[p]
    BY <1>1, <1>4 DEF UpdateDigitalOut
  <2> DEFINE limited == o \in Guarded /\ value # (o \in DefaultOn)
             end == now + MAX_DURATION
             on == Flag("ON", value)
             y == [x EXCEPT !.time = end, !.end = end, !.func = "load",
                            !.flags = on \cup {"CHECK_END"}]
             z == [x EXCEPT !.time = Off, !.flags = on]
  <2>3. out' = [out EXCEPT ![o] = IF limited THEN y ELSE z]
    BY <1>4, Zenon DEF UpdateDigitalOut
  <2>4. out'[o].first = x.first /\ out'[o].last = x.last
    <3>1. y.first = x.first /\ y.last = x.last /\ z.first = x.first /\ z.last = x.last
      BY <1>1, Zenon DEF Fields
    <3> HIDE DEF y, z, limited
    <3>2. out'[o] = IF limited THEN y ELSE z
      BY <1>1, <2>3
    <3> QED
      BY <3>1, <3>2
  <2> QED
    BY <1>3, <2>1, <2>2, <2>4
<1>5. ASSUME ~OutputsShutDown, NEW ticks, SetDigitalOutPwmCycle(o, ticks)
      PROVE  Serves
  <2>1. UNCHANGED <<next, move_free, task>>
    BY <1>5 DEF SetDigitalOutPwmCycle, pool
  <2>2. \A p \in Output \ {o} : out'[p] = out[p]
    BY <1>1, <1>5 DEF SetDigitalOutPwmCycle
  <2>3. out'[o].first = x.first /\ out'[o].last = x.last
    BY <1>1, <1>5 DEF SetDigitalOutPwmCycle, Fields
  <2> QED
    BY <1>3, <2>1, <2>2, <2>3
<1> QED
  BY <1>2, <1>4, <1>5

(* Every step of the outputs.                                               *)
LEMMA NextServes == IInv /\ Queued /\ [OutputsNext]_OutputsAll => Serves
<1> SUFFICES ASSUME IInv, Queued, [OutputsNext]_OutputsAll PROVE Serves
  OBVIOUS
<1>1. Typed /\ Typed'
  BY OutputsStep DEF IInv
<1>2. ASSUME UNCHANGED <<out, next, move_free, task>> PROVE Serves
  <2>1. InHands' = InHands
    BY <1>2 DEF InHands
  <2> QED
    BY <1>1, <1>2, <2>1, StayServes
<1>3. ASSUME NEW o \in Output, NEW lead \in Leads, NEW ticks \in OnTicks,
             Command, QueueOutput(o, now + lead, ticks)
      PROVE  Serves
  <2>1. task.at = "idle"
    BY <1>3 DEF Command, AnyCommand, Idle
  <2> QED
    BY <1>1, <1>3, <2>1, QueueServes
<1>4. CASE OutputsTick
  BY <1>2, <1>4 DEF OutputsTick, outputVars, pool
<1>5. CASE UNCHANGED <<task, outputVars>>
  BY <1>2, <1>5 DEF outputVars, pool
<1>6. CASE UNCHANGED OutputsAll
  BY <1>5, <1>6 DEF OutputsAll
<1> QED
  BY <1>1, <1>3, <1>4, <1>5, <1>6, EventServes, PushesServe, SettingServes DEF OutputsNext

(* And the first state.                                                     *)
LEMMA InitServes == BoardInit /\ OutputsInit => Moves!Init /\ Queued
<1> SUFFICES ASSUME BoardInit, OutputsInit PROVE Moves!Init /\ Queued
  OBVIOUS
<1>1. Typed
  BY OutputsInitial DEF IInv
<1>2. /\ next = Linked /\ move_free = 1 /\ task.at # "push"
      /\ \A o \in Output : out[o].first = NULL
  BY DEF OutputsInit, BoardInit, Idle
<1>3. ResetLists \in Lists /\ Lined(ResetLists)
  BY <1>2, ResetLined
<1>4. /\ \A o \in Output : ResetLists[o] = <<>>
      /\ ResetLists[FREE] = [i \in Node |-> i]
  BY Owners DEF ResetLists, List
<1>5. /\ Queues = [o \in Output |-> ResetLists[o]]
      /\ Nodes(move_free) = ResetLists[FREE]
  BY <1>1, <1>3, Views
<1>6. Queues = [o \in Output |-> <<>>] /\ InHands = NULL
  BY <1>2, <1>4, <1>5 DEF InHands
<1> QED
  BY <1>3, <1>4, <1>5, <1>6 DEF Moves!Init, Queues, InHands, Queued

(* Whatever interrupts cut and wherever a shutdown comes, the links make    *)
(* first-in first-out queues and one list of free nodes: every step of the  *)
(* outputs takes the head of the free list, puts the node in hand at the    *)
(* end of one queue, frees the head of one, puts all back in the order of   *)
(* move_reset, or changes none of it.                                       *)
THEOREM PoolIsQueues == OutputsSpec => ImplementsQueues
<1>1. IInv /\ Queued /\ [OutputsNext]_OutputsAll => [Moves!Next]_Moves!queueVars
  BY NextServes DEF Serves
<1>2. IInv /\ Queued /\ [OutputsNext]_OutputsAll => Queued'
  BY NextServes DEF Serves
<1> QED
  BY <1>1, <1>2, InitServes, OutputsInitial, OutputsStep, PTL
     DEF OutputsSpec, ImplementsQueues, Moves!Spec
===============================================================================
