---------------------------- MODULE BoundedBuffer ----------------------------
(***************************************************************************)
(* One bounded_buffer between its two users, as host_producer.cpp and      *)
(* hyperscan_consumer.cpp use it: the producer calls peek_front, fills the *)
(* slot it was given, and calls push_front; one worker thread calls        *)
(* peek_back, reads the slot, and calls pop_back.                          *)
(*                                                                         *)
(* What is done under m_mutex is one action.  The slot is written and read *)
(* OUTSIDE the mutex, through the pointer the peek returned, a header word *)
(* and a body in separate steps, so a race on a slot shows as a torn or a  *)
(* stale read.  notify_one is called after the unlock, a step of its own.  *)
(***************************************************************************)
EXTENDS RingBuffer

CONSTANT Items    \* how many items the producer pushes (a bound)

ASSUME ItemsAssumption == Items \in Nat

Threads == {"producer", "consumer"}

VARIABLES ring,       \* m_head, m_tail, m_full, m_empty
          slots,      \* m_container: each slot's header and body
          pc,         \* where each thread is
          ptr,        \* the slot index behind the pointer each thread holds
          waiting,    \* the threads blocked in a condition variable's wait
          sent,       \* how many items were pushed
          seen,       \* the header and body the consumer read from its slot
          delivered   \* the item of the last slot that was popped

vars == <<ring, slots, pc, ptr, waiting, sent, seen, delivered>>

Item == 0 .. Items
Slot == [header : Item, body : Item]

TypeOK ==
  /\ ring \in Ring
  /\ slots \in [Index -> Slot]
  /\ pc \in [Threads -> {"peek", "first", "second", "commit", "notify", "done"}]
  /\ ptr \in [Threads -> Index]
  /\ waiting \subseteq Threads
  /\ sent \in Item
  /\ seen \in Slot
  /\ delivered \in Item

Init ==
  /\ ring = NewRing
  /\ slots = [i \in Index |-> [header |-> 0, body |-> 0]]
  /\ pc = [t \in Threads |-> IF Items = 0 THEN "done" ELSE "peek"]
  /\ ptr = [t \in Threads |-> 0]
  /\ waiting = {}
  /\ sent = 0
  /\ seen = [header |-> 0, body |-> 0]
  /\ delivered = 0

Goto(t, l) == pc' = [pc EXCEPT ![t] = l]

(***************************************************************************)
(* The producer.                                                           *)
(***************************************************************************)
\* peek_front finds m_full and waits on m_not_full.
WaitNotFull ==
  /\ pc["producer"] = "peek" /\ "producer" \notin waiting
  /\ ring.full
  /\ waiting' = waiting \union {"producer"}
  /\ UNCHANGED <<ring, slots, pc, ptr, sent, seen, delivered>>

\* Mutant: the wait is dropped.
PeekFrontNoWait ==
  /\ pc["producer"] = "peek" /\ "producer" \notin waiting
  /\ ptr' = [ptr EXCEPT !["producer"] = ring.tail]
  /\ Goto("producer", "first")
  /\ UNCHANGED <<ring, slots, waiting, sent, seen, delivered>>

\* peek_front returns &m_container[m_tail].
PeekFront ==
  /\ pc["producer"] = "peek" /\ "producer" \notin waiting
  /\ ~ring.full
  /\ ptr' = [ptr EXCEPT !["producer"] = ring.tail]
  /\ Goto("producer", "first")
  /\ UNCHANGED <<ring, slots, waiting, sent, seen, delivered>>

\* The caller copies the words of the lines into the slot ...
FillBody ==
  /\ pc["producer"] = "first"
  /\ slots' = [slots EXCEPT ![ptr["producer"]].body = sent + 1]
  /\ Goto("producer", "second")
  /\ UNCHANGED <<ring, ptr, waiting, sent, seen, delivered>>

\* ... and then the metadata word at the line's start_index.
FillHeader ==
  /\ pc["producer"] = "second"
  /\ slots' = [slots EXCEPT ![ptr["producer"]].header = sent + 1]
  /\ Goto("producer", "commit")
  /\ UNCHANGED <<ring, ptr, waiting, sent, seen, delivered>>

\* push_front, up to its unlock.
Push ==
  /\ pc["producer"] = "commit"
  /\ ring' = PushFront(ring)
  /\ sent' = sent + 1
  /\ Goto("producer", "notify")
  /\ UNCHANGED <<slots, ptr, waiting, seen, delivered>>

\* m_not_empty.notify_one()
NotifyNotEmpty ==
  /\ pc["producer"] = "notify"
  /\ waiting' = waiting \ {"consumer"}
  /\ Goto("producer", IF sent = Items THEN "done" ELSE "peek")
  /\ UNCHANGED <<ring, slots, ptr, sent, seen, delivered>>

(***************************************************************************)
(* The consumer.                                                           *)
(***************************************************************************)
\* peek_back finds m_empty and waits on m_not_empty.
WaitNotEmpty ==
  /\ pc["consumer"] = "peek" /\ "consumer" \notin waiting
  /\ ring.empty
  /\ waiting' = waiting \union {"consumer"}
  /\ UNCHANGED <<ring, slots, pc, ptr, sent, seen, delivered>>

\* Mutant: the wait is dropped.
PeekBackNoWait ==
  /\ pc["consumer"] = "peek" /\ "consumer" \notin waiting
  /\ ptr' = [ptr EXCEPT !["consumer"] = ring.head]
  /\ Goto("consumer", "first")
  /\ UNCHANGED <<ring, slots, waiting, sent, seen, delivered>>

\* peek_back returns &m_container[m_head].
PeekBack ==
  /\ pc["consumer"] = "peek" /\ "consumer" \notin waiting
  /\ ~ring.empty
  /\ ptr' = [ptr EXCEPT !["consumer"] = ring.head]
  /\ Goto("consumer", "first")
  /\ UNCHANGED <<ring, slots, waiting, sent, seen, delivered>>

\* The worker reads the metadata word ...
ReadHeader ==
  /\ pc["consumer"] = "first"
  /\ seen' = [seen EXCEPT !.header = slots[ptr["consumer"]].header]
  /\ Goto("consumer", "second")
  /\ UNCHANGED <<ring, slots, ptr, waiting, sent, delivered>>

\* ... and scans the words that follow it.
ReadBody ==
  /\ pc["consumer"] = "second"
  /\ seen' = [seen EXCEPT !.body = slots[ptr["consumer"]].body]
  /\ Goto("consumer", "commit")
  /\ UNCHANGED <<ring, slots, ptr, waiting, sent, delivered>>

\* pop_back, up to its unlock.
Pop ==
  /\ pc["consumer"] = "commit"
  /\ ring' = PopBack(ring)
  /\ delivered' = seen.body
  /\ Goto("consumer", "notify")
  /\ UNCHANGED <<slots, ptr, waiting, sent, seen>>

\* Mutant: the producer is notified only once the ring is drained.
NotifyWhenDrained ==
  /\ pc["consumer"] = "notify"
  /\ waiting' = IF ring.empty THEN waiting \ {"producer"} ELSE waiting
  /\ Goto("consumer", IF delivered = Items THEN "done" ELSE "peek")
  /\ UNCHANGED <<ring, slots, ptr, sent, seen, delivered>>

\* m_not_full.notify_one()
NotifyNotFull ==
  /\ pc["consumer"] = "notify"
  /\ waiting' = waiting \ {"producer"}
  /\ Goto("consumer", IF delivered = Items THEN "done" ELSE "peek")
  /\ UNCHANGED <<ring, slots, ptr, sent, seen, delivered>>

-----------------------------------------------------------------------------
Producer == \/ WaitNotFull \/ PeekFront \/ FillBody \/ FillHeader
            \/ Push \/ NotifyNotEmpty
Consumer == \/ WaitNotEmpty \/ PeekBack \/ ReadHeader \/ ReadBody
            \/ Pop \/ NotifyNotFull

\* A condition variable may return from its wait without a notification.
SpuriousWakeup ==
  \E t \in waiting :
     /\ waiting' = waiting \ {t}
     /\ UNCHANGED <<ring, slots, pc, ptr, sent, seen, delivered>>

\* Both threads are through: the system stops here, and nowhere else.
Stopped ==
  /\ \A t \in Threads : pc[t] = "done"
  /\ UNCHANGED vars

Next == Producer \/ Consumer \/ SpuriousWakeup \/ Stopped

\* The operating system runs every runnable thread; it owes no spurious wakeup.
Fairness == WF_vars(Producer) /\ WF_vars(Consumer)

Spec == Init /\ [][Next]_vars /\ Fairness

-----------------------------------------------------------------------------
(***************************************************************************)
(* Properties.                                                             *)
(***************************************************************************)
InFlight == sent - delivered

\* Threads that hold a pointer into m_container.
Holds(t) == pc[t] \in {"first", "second", "commit"}

\* m_head, m_tail and the two flags always tell exactly how many pushed items
\* are unpopped, and never more than the ring can hold: neither push_front
\* nor pop_back, which trust the caller to have peeked, over- or underruns.
FlagsExact ==
  /\ InFlight \in 0 .. Capacity
  /\ ring.empty <=> InFlight = 0
  /\ ring.full  <=> InFlight = Capacity
  /\ ring.tail = Wrap(ring.head + InFlight)

\* The slots are accessed outside the mutex: the producer is never filling
\* the slot the consumer is reading.
SlotExclusion ==
  Holds("producer") /\ Holds("consumer") => ptr["producer"] # ptr["consumer"]

\* A worker that finished reading its slot read a whole item, header and body
\* of the same push, and the oldest one it has not had yet.
ReadsWholeAndInOrder ==
  pc["consumer"] = "commit" =>
     seen = [header |-> delivered + 1, body |-> delivered + 1]

\* notify_one comes after the unlock, and is sent to a thread that may not be
\* waiting: still, a thread that sleeps although it could go on has a
\* notification coming.
NoLostWakeup ==
  /\ "consumer" \in waiting /\ ~ring.empty => pc["producer"] = "notify"
  /\ "producer" \in waiting /\ ~ring.full  => pc["consumer"] = "notify"

\* Every item is taken in the end: neither thread sleeps forever.
AllDelivered == <>(delivered = Items)

\* The ring with its flags, its condition variables and its pointers into the
\* slots implements a first-in first-out queue of Capacity items.
Queue ==
  INSTANCE BoundedQueue
    WITH Limit <- Capacity,
         queue <- [j \in 1 .. InFlight |-> slots[Wrap(ring.head + j - 1)].body]

ImplementsQueue == Queue!Spec
=============================================================================
