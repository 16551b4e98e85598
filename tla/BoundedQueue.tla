---------------------------- MODULE BoundedQueue ----------------------------
(***************************************************************************)
(* What RingBuffer promises: a first-in-first-out queue of bounded length. *)
(* last is the item that the latest consume() has taken out.               *)
(***************************************************************************)
EXTENDS Naturals, Sequences

CONSTANTS Items, NoItem, capacity

VARIABLES queue, last

QueueInit == queue = << >> /\ last = NoItem

Put(x) ==
    /\ Len(queue) < capacity
    /\ queue' = Append(queue, x)
    /\ UNCHANGED last

Get ==
    /\ queue # << >>
    /\ last' = Head(queue)
    /\ queue' = Tail(queue)

QueueNext == (\E x \in Items : Put(x)) \/ Get

QueueSpec == QueueInit /\ [][QueueNext]_<<queue, last>>
=============================================================================
