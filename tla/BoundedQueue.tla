---------------------------- MODULE BoundedQueue ----------------------------
(***************************************************************************)
(* What a bounded_buffer with one pushing and one popping thread promises: *)
(* a first-in first-out queue of at most Limit items.  The k-th item put   *)
(* is named by its number k, so "delivered" tells loss, duplication and    *)
(* reordering apart.                                                       *)
(***************************************************************************)
EXTENDS Naturals, Sequences

CONSTANTS Limit,    \* how many items the queue can hold
          Items     \* how many items are put in all (a bound)

VARIABLES queue,      \* the items put and not yet taken, oldest first
          sent,       \* how many items were put
          delivered   \* the item that was taken last, 0 before the first

Init == /\ queue = << >>
        /\ sent = 0
        /\ delivered = 0

Put == /\ sent < Items
       /\ Len(queue) < Limit
       /\ queue' = Append(queue, sent + 1)
       /\ sent' = sent + 1
       /\ UNCHANGED delivered

Take == /\ queue # << >>
        /\ delivered' = Head(queue)
        /\ queue' = Tail(queue)
        /\ UNCHANGED sent

Next == Put \/ Take

vars == <<queue, sent, delivered>>

Spec == Init /\ [][Next]_vars /\ WF_vars(Take)
=============================================================================
