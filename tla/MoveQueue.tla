------------------------------- MODULE MoveQueue ------------------------------
(***************************************************************************)
(* What the pool of moves of src/basecmd.c promises its users: each node   *)
(* is free, in the hand of one command, or in one place of one queue, and  *)
(* queues are first in, first out.                                         *)
(***************************************************************************)
EXTENDS Sequences

CONSTANTS
    Queue, \* the queues
    All,   \* all nodes, in the order in which move_reset links them
    None   \* the null pointer

VARIABLES
    queue, \* the nodes of each queue
    free,  \* the free nodes, the last one freed first
    held   \* the node a command has taken and not queued yet, or None

queueVars == <<queue, free, held>>

Init == queue = [q \in Queue |-> <<>>] /\ free = All /\ held = None

Alloc ==
    /\ held = None /\ free # <<>>
    /\ held' = Head(free) /\ free' = Tail(free)
    /\ UNCHANGED queue

Push(q) ==
    /\ held # None
    /\ queue' = [queue EXCEPT ![q] = Append(@, held)]
    /\ held' = None
    /\ UNCHANGED free

Pop(q) ==
    /\ queue[q] # <<>>
    /\ queue' = [queue EXCEPT ![q] = Tail(@)]
    /\ free' = <<Head(queue[q])>> \o free
    /\ UNCHANGED held

(* A shutdown forgets all queues, whatever a command held.                  *)
Reset ==
    /\ queue' = [q \in Queue |-> <<>>] /\ free' = All /\ held' = None

Next == Alloc \/ Reset \/ \E q \in Queue : Push(q) \/ Pop(q)

Spec == Init /\ [][Next]_queueVars
===============================================================================
