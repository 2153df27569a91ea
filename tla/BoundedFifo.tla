---------------------------- MODULE BoundedFifo ----------------------------
(***************************************************************************)
(* What a bounded queue between an interrupt handler and a thread promises *)
(* to its reader: every item that was taken in comes out whole, once, and  *)
(* in order; an item that finds the queue full is dropped on entry.        *)
(***************************************************************************)
EXTENDS Naturals, Sequences

CONSTANTS
    ITEMS,     \* what may be queued
    CAPACITY   \* how many items fit

VARIABLE queue

Init == queue = <<>>

Put ==
    /\ Len(queue) < CAPACITY
    /\ \E item \in ITEMS : queue' = Append(queue, item)

Get ==
    /\ queue # <<>>
    /\ queue' = Tail(queue)

Next == Put \/ Get

Spec == Init /\ [][Next]_queue
=============================================================================
