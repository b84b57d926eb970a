-------------------------------- MODULE Config --------------------------------
(***************************************************************************)
(* The configuration in src/basecmd.c: the memory that is only ever given  *)
(* out, the table of object ids, the size of a move and the pool that      *)
(* finalize_config makes; and the count of the clock's turns.              *)
(*                                                                         *)
(* Memory is counted in words.  The pool in use is with Outputs and Homing.*)
(***************************************************************************)
EXTENDS Board, FiniteSetsExt

CONSTANTS
    OidType,    \* kinds of objects, by their configuration command
    ObjectSize, \* the words of an object of each
    MoveSize,   \* and of the moves it queues, or 0
    PinsLater,  \* those whose pins are set up when the object has its memory
    OidCounts,  \* how many ids the host may allocate
    MemorySize, \* the words of dynmem_pool
    MaxMoves,   \* the moves that finalize_config asks for (1024)
    TURN,       \* the clock's turn (2^32)
    StatsTicks, \* five seconds
    StatsLate   \* how long the task loop may take before it calls stats_update

ASSUME ConfigAssumption ==
    /\ ObjectSize \in [OidType -> Nat \ {0}] /\ MoveSize \in [OidType -> Nat]
    /\ PinsLater \subseteq OidType /\ OidCounts \subseteq Nat
    /\ {MemorySize, MaxMoves, StatsTicks, StatsLate} \subseteq Nat \ {0}
    /\ TURN \in Nat /\ StatsTicks + StatsLate < TURN

Nil == Off  \* no address, and no type
Blank == [type |-> Nil, data |-> Nil, whole |-> FALSE]

VARIABLES
    memory,  \* alloc_end, and where the table of ids and the moves are
    oids,    \* the table, with whether the object's command ran to its end
    moves,   \* move_count and move_item_size
    stats    \* stats_send_time, its high word, and the time of the last call
configVars == <<memory, oids, moves, stats>>

(* alloc_init, and the zeros of the other variables.                        *)
NoMemory == [alloc_end |-> 0, oids |-> Nil, move_list |-> Nil]
NoMoves == [count |-> 0, item_size |-> 0]
NoStats == [send_time |-> 0, high |-> 0, called |-> 0]
ConfigInit ==
    /\ memory = NoMemory /\ oids = <<>> /\ moves = NoMoves
    /\ stats = NoStats

(* alloc_chunk: whether there is room; a shutdown if not.                   *)
HasRoom(size) == memory.alloc_end + size <= MemorySize

(* is_finalized.  Mutant: objects may be added for ever.                    *)
NeverFinal(m) == FALSE
is_finalized(m) == m.count > 0

Rejected == shutdown' = TRUE /\ UNCHANGED configVars

(* command_allocate_oids                                                    *)
OID_SIZE == 2
AllocateOids(count) ==
    IF memory.oids # Nil \/ ~HasRoom(count * OID_SIZE) THEN Rejected
    ELSE /\ memory' = [memory EXCEPT !.oids = memory.alloc_end,
                                     !.alloc_end = @ + count * OID_SIZE]
         /\ oids' = [i \in 1 .. count |-> Blank]
         /\ UNCHANGED <<shutdown, moves, stats>>

(* The table's entry, as far as the configuration command came.             *)
Assignable(oid) ==
    oid <= Len(oids) /\ ~is_finalized(moves) /\ oids[oid].type = Nil
NoteOid(oid, type, data, whole) ==
    oids' = [oids EXCEPT ![oid] = [type |-> type, data |-> data, whole |-> whole]]

(* oid_alloc, which notes the type before it may shut down for want of      *)
(* memory; the pins, any of which may be refused, before it or after it;    *)
(* and move_queue_setup, last.                                              *)
ConfigObject(oid, type) ==
    \/ (~Assignable(oid) \/ type \notin PinsLater) /\ Rejected
    \/ /\ Assignable(oid) /\ ~HasRoom(ObjectSize[type])
       /\ NoteOid(oid, type, Nil, FALSE)
       /\ shutdown' = TRUE /\ UNCHANGED <<memory, moves, stats>>
    \/ /\ Assignable(oid) /\ HasRoom(ObjectSize[type])
       /\ memory' = [memory EXCEPT !.alloc_end = @ + ObjectSize[type]]
       /\ \/ /\ type \in PinsLater
             /\ NoteOid(oid, type, memory.alloc_end, FALSE)
             /\ shutdown' = TRUE /\ UNCHANGED moves
          \/ /\ NoteOid(oid, type, memory.alloc_end, TRUE)
             /\ moves' = [moves EXCEPT !.item_size = Max({@, MoveSize[type]})]
             /\ UNCHANGED shutdown
       /\ UNCHANGED stats

(* command_finalize_config: move_finalize, alloc_chunks, as many as fit.    *)
FinalizeConfig ==
    LET size == Max({moves.item_size, 1})
        count == Min({MaxMoves, (MemorySize - memory.alloc_end) \div size})
    IN IF is_finalized(moves) \/ count = 0 THEN Rejected
       ELSE /\ moves' = [count |-> count, item_size |-> size]
            /\ memory' = [memory EXCEPT !.move_list = memory.alloc_end,
                                        !.alloc_end = @ + count * size]
            /\ UNCHANGED <<shutdown, oids, stats>>

(* command_emergency_stop, and command_reset: esp_restart_noos.             *)
EmergencyStop == AnyCommand /\ shutdown' = TRUE /\ UNCHANGED <<now, task, wake, configVars>>
ResetBoard ==
    /\ AnyCommand /\ shutdown' = FALSE /\ now' = 0 /\ UNCHANGED <<task, wake>>
    /\ memory' = NoMemory /\ oids' = <<>> /\ moves' = NoMoves
    /\ stats' = NoStats

ConfigTick ==
    /\ now < MaxTime /\ now < stats.called + StatsLate /\ now' = now + 1
    /\ UNCHANGED <<shutdown, task, wake, configVars>>

(* stats_update, the part that turns the high word.                         *)
StatsUpdate ==
    LET cur == now % TURN
    IN /\ stats.called < now
       /\ stats' = IF (cur - stats.send_time) % TURN < StatsTicks
                   THEN [stats EXCEPT !.called = now]
                   ELSE [called |-> now, send_time |-> cur,
                         high |-> stats.high + (IF cur < stats.send_time THEN 1 ELSE 0)]
       /\ UNCHANGED <<now, shutdown, task, wake, memory, oids, moves>>

ConfigNext ==
    \/ /\ Command
       /\ \/ \E count \in OidCounts : AllocateOids(count)
          \/ \E count \in OidCounts : \E oid \in 1 .. count, t \in OidType :
                 ConfigObject(oid, t)
          \/ FinalizeConfig
       /\ UNCHANGED <<now, task, wake>>
    \/ EmergencyStop
    \/ ResetBoard
    \/ ClearShutdown /\ UNCHANGED <<now, task, wake, configVars>>
    \/ (ConfigTick \/ StatsUpdate) /\ UNCHANGED commands

ConfigAll == <<now, shutdown, task, wake, commands, configVars>>
ConfigSpec == BoardInit /\ ConfigInit /\ [][ConfigNext]_ConfigAll

-----------------------------------------------------------------------------
(* What was given out: where it begins and ends.                            *)
Area(from, size) == [from |-> from, to |-> from + size]
Objects == {i \in DOMAIN oids : oids[i].data # Nil}
Areas ==
    {Area(oids[i].data, ObjectSize[oids[i].type]) : i \in Objects}
    \cup (IF memory.oids = Nil THEN {} ELSE {Area(memory.oids, OID_SIZE * Len(oids))})
    \cup (IF memory.move_list = Nil THEN {}
          ELSE {Area(memory.move_list, moves.count * moves.item_size)})

(* Nothing that was given out overlaps or is beyond the pool, through       *)
(* rejected commands, shutdowns and their clearing.                         *)
MemoryDisjoint ==
    /\ \A a \in Areas : a.from \in 0 .. a.to /\ a.to <= MemorySize
    /\ \A a, b \in Areas : a = b \/ a.to <= b.from \/ b.to <= a.from
    /\ \A i, j \in Objects : i = j \/ oids[i].data # oids[j].data

(* Once the pool is made, its moves hold those of every object whose        *)
(* configuration ran to its end, whatever was refused before.  (One that    *)
(* was refused a pin after it had its memory can be used after              *)
(* clear_shutdown; the size of its moves was not noted.)                    *)
MovesHold ==
    moves.count > 0 =>
        \A i \in DOMAIN oids : oids[i].whole => MoveSize[oids[i].type] <= moves.item_size

(* The uptime that command_get_uptime would report is right, however often  *)
(* the clock has turned, with a task loop that comes by often enough.       *)
UptimeRight ==
    now <= stats.called + StatsLate =>
    now \div TURN = stats.high + (IF now % TURN < stats.send_time THEN 1 ELSE 0)

ConfigSound == MemoryDisjoint /\ MovesHold /\ UptimeRight
===============================================================================
