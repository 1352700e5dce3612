------------------------ MODULE BoundedBuffer_proofs ------------------------
(***************************************************************************)
(* Proofs about BoundedBuffer, for every ring size N and number of Items:  *)
(* the ring never over- or underruns, a slot is never written and read at  *)
(* once, every read is whole and in order, no wakeup is lost, and every    *)
(* step is a step of the abstract queue.                                   *)
(***************************************************************************)
EXTENDS BoundedBuffer, SequenceTheorems, TLAPS

(***************************************************************************)
(* The index arithmetic, stated without the modulus.                       *)
(***************************************************************************)
\* (i + 1) % N stays within the ring and differs from i + 1 only at its end.
LEMMA NextIsWrap == \A i \in Index : Next1(i) = Wrap(i + 1) /\ Next1(i) \in Index
<1>. SUFFICES ASSUME NEW i \in Index
              PROVE  Next1(i) = Wrap(i + 1) /\ Next1(i) \in Index
  OBVIOUS
<1>1. CASE i + 1 < N
  <2>1. (i + 1) % N = i + 1
    BY <1>1, NAssumption DEF Index
  <2>. QED
    BY <1>1, <2>1, NAssumption DEF Index, Next1, Wrap
<1>2. CASE i + 1 = N
  <2>1. N % N = 0
    BY NAssumption
  <2>. QED
    BY <1>2, <2>1, NAssumption DEF Index, Next1, Wrap
<1>. QED
  BY <1>1, <1>2, NAssumption DEF Index

(***************************************************************************)
(* What push_front and pop_back do to a ring that tells n items in flight. *)
(***************************************************************************)
Tells(r, n) ==
  /\ r \in Ring
  /\ r.empty <=> n = 0
  /\ r.full  <=> n = Capacity
  /\ r.tail = Wrap(r.head + n)

\* A push into a ring with a free slot leaves one that tells one item more.
LEMMA PushTells ==
  ASSUME NEW r, NEW n \in 0 .. Capacity - 1, Tells(r, n)
  PROVE  Tells(PushFront(r), n + 1) /\ PushFront(r).head = r.head
<1> DEFINE t == Next1(r.tail)
<1>1. r \in Ring /\ r.tail \in Index /\ r.head \in Index
  BY DEF Tells, Ring
<1>2. t = Wrap(r.tail + 1) /\ t \in Index /\ Next1(t) = Wrap(t + 1)
  BY <1>1, NextIsWrap
<1>3. PushFront(r) = [head |-> r.head, tail |-> t,
                      full |-> r.full \/ Next1(t) = r.head, empty |-> FALSE]
  BY DEF PushFront
<1>4. ~r.full
  BY DEF Tells
<1>. HIDE DEF t
<1>5. t = Wrap(r.head + (n + 1))
  BY <1>1, <1>2, NAssumption DEF Tells, Wrap, Index, Capacity
<1>6. (Next1(t) = r.head) <=> (n + 1 = Capacity)
  BY <1>1, <1>2, <1>5, NAssumption DEF Wrap, Index, Capacity
<1>7. PushFront(r) \in Ring
  BY <1>1, <1>2, <1>3, <1>4 DEF Ring
<1>8. /\ PushFront(r).head = r.head
      /\ PushFront(r).tail = t
      /\ PushFront(r).empty = FALSE
      /\ PushFront(r).full = (r.full \/ Next1(t) = r.head)
  BY <1>3
<1>9. n + 1 # 0
  OBVIOUS
<1>. QED
  BY <1>4, <1>5, <1>6, <1>7, <1>8, <1>9, Zenon DEF Tells

\* A pop from a ring that is not empty leaves one that tells one item less.
LEMMA PopTells ==
  ASSUME NEW r, NEW n \in 1 .. Capacity, Tells(r, n)
  PROVE  /\ Tells(PopBack(r), n - 1)
         /\ PopBack(r).head = Wrap(r.head + 1)
<1> DEFINE h == Next1(r.head)
<1>1. r \in Ring /\ r.tail \in Index /\ r.head \in Index
  BY DEF Tells, Ring
<1>2. h = Wrap(r.head + 1) /\ h \in Index
  BY <1>1, NextIsWrap
<1>3. PopBack(r) = [head |-> h, tail |-> r.tail,
                    full |-> FALSE, empty |-> r.empty \/ h = r.tail]
  BY DEF PopBack
<1>4. ~r.empty
  BY DEF Tells
<1>. HIDE DEF h
<1>5. r.tail = Wrap(h + (n - 1))
  BY <1>1, <1>2, NAssumption DEF Tells, Wrap, Index, Capacity
<1>6. (h = r.tail) <=> (n - 1 = 0)
  BY <1>1, <1>2, <1>5, NAssumption DEF Wrap, Index, Capacity
<1>7. PopBack(r) \in Ring
  BY <1>1, <1>2, <1>3, <1>4 DEF Ring
<1>8. n - 1 # Capacity
  BY NAssumption DEF Capacity
<1>9. /\ PopBack(r).head = h
      /\ PopBack(r).tail = r.tail
      /\ PopBack(r).full = FALSE
      /\ PopBack(r).empty = (r.empty \/ h = r.tail)
  BY <1>3
<1>. QED
  BY <1>2, <1>4, <1>5, <1>6, <1>7, <1>8, <1>9, Zenon DEF Tells

(***************************************************************************)
(* The inductive invariant.                                                *)
(***************************************************************************)
\* The slots from m_head on hold the items in flight, in order.
InOrder(s, h, d, n) ==
  \A j \in 0 .. n - 1 :
     s[Wrap(h + j)] = [header |-> d + 1 + j, body |-> d + 1 + j]

SlotsInOrder == InOrder(slots, ring.head, delivered, InFlight)

\* The producer's pointer is the free slot at m_tail, filled as far as its
\* program counter says.
ProducerInv ==
  /\ pc["producer"] # "done" /\ pc["producer"] # "notify" => sent < Items
  /\ pc["producer"] = "done" => sent = Items
  /\ Holds("producer") => ptr["producer"] = ring.tail /\ InFlight < Capacity
  /\ pc["producer"] \in {"second", "commit"}
       => slots[ptr["producer"]].body = sent + 1
  /\ pc["producer"] = "commit" => slots[ptr["producer"]].header = sent + 1

\* The consumer's pointer is the slot at m_head, which holds the next item.
ConsumerInv ==
  /\ pc["consumer"] # "done" /\ pc["consumer"] # "notify" => delivered < Items
  /\ Holds("consumer") => ptr["consumer"] = ring.head /\ InFlight > 0
  /\ pc["consumer"] \in {"second", "commit"} => seen.header = delivered + 1
  /\ pc["consumer"] = "commit" => seen.body = delivered + 1

\* A thread waits only inside its peek; it sleeps on although it could go on
\* only while the other thread has not yet called notify_one.
WaitInv ==
  /\ \A t \in waiting : pc[t] = "peek"
  /\ NoLostWakeup

IInv == /\ TypeOK
        /\ FlagsExact
        /\ SlotsInOrder
        /\ ProducerInv
        /\ ConsumerInv
        /\ WaitInv

LEMMA InitIInv == Init => IInv
<1>. SUFFICES ASSUME Init PROVE IInv
  OBVIOUS
<1>. USE NAssumption, ItemsAssumption DEF Init
<1>1. TypeOK
  BY DEF TypeOK, Ring, NewRing, Index, Threads, Item, Slot
<1>2. FlagsExact
  BY DEF FlagsExact, NewRing, InFlight, Capacity, Wrap
<1>3. SlotsInOrder
  BY DEF SlotsInOrder, InOrder, InFlight
<1>4. ProducerInv /\ ConsumerInv
  BY DEF ProducerInv, ConsumerInv, Holds, Threads
<1>5. WaitInv
  BY DEF WaitInv, NoLostWakeup
<1>. QED
  BY <1>1, <1>2, <1>3, <1>4, <1>5 DEF IInv

\* FlagsExact is Tells for the items in flight.
LEMMA FlagsAreTells ==
  /\ TypeOK => (FlagsExact <=> InFlight \in 0 .. Capacity /\ Tells(ring, InFlight))
  /\ TypeOK' => (FlagsExact' <=> InFlight' \in 0 .. Capacity /\ Tells(ring', InFlight'))
BY DEF TypeOK, FlagsExact, Tells

\* Distinct offsets below N lead from a slot to distinct slots.
LEMMA WrapDistinct ==
  ASSUME NEW i \in Index, NEW j \in Index, NEW k \in Index
  PROVE  /\ Wrap(i + j) \in Index
         /\ j # k => Wrap(i + j) # Wrap(i + k)
         /\ Wrap(Wrap(i + 1) + j) = IF j + 1 < N THEN Wrap(i + (j + 1)) ELSE i
BY NAssumption DEF Wrap, Index

\* A push raises m_full only, a pop raises m_empty only.
LEMMA PushFullOnly == ~PushFront(ring).full => ~ring.full
BY DEF PushFront

LEMMA PopEmptyOnly == ~PopBack(ring).empty => ~ring.empty
BY DEF PopBack

\* The slot at m_tail, which the producer fills, holds none of the items in flight.
LEMMA FillKeepsOrder ==
  ASSUME TypeOK, FlagsExact, SlotsInOrder, ProducerInv, Holds("producer"),
         NEW s, slots' = [slots EXCEPT ![ptr["producer"]] = s],
         UNCHANGED <<ring, sent, delivered>>
  PROVE  SlotsInOrder'
<1>. SUFFICES ASSUME NEW j \in 0 .. InFlight - 1
              PROVE  slots'[Wrap(ring.head + j)]
                       = [header |-> delivered + 1 + j, body |-> delivered + 1 + j]
  BY DEF SlotsInOrder, InOrder, InFlight
<1>1. /\ InFlight \in 0 .. Capacity - 1
      /\ ptr["producer"] = Wrap(ring.head + InFlight)
  BY NAssumption DEF ProducerInv, FlagsExact, Capacity
<1>2. j \in Index /\ InFlight \in Index /\ j # InFlight /\ ring.head \in Index
  BY <1>1, NAssumption DEF Index, Capacity, TypeOK, Ring
<1>3. /\ Wrap(ring.head + j) # Wrap(ring.head + InFlight)
      /\ Wrap(ring.head + j) \in Index
  BY <1>2, WrapDistinct, Zenon
<1>. QED
  BY <1>1, <1>3 DEF SlotsInOrder, InOrder, TypeOK

\* The slot the consumer reads holds the oldest item in flight.
LEMMA HeadSlot ==
  ASSUME TypeOK, FlagsExact, SlotsInOrder, ConsumerInv, Holds("consumer")
  PROVE  slots[ptr["consumer"]] = [header |-> delivered + 1, body |-> delivered + 1]
<1>1. ptr["consumer"] = ring.head /\ 0 \in 0 .. InFlight - 1
  BY NAssumption DEF ConsumerInv, FlagsExact, Capacity
<1>2. Wrap(ring.head + 0) = ring.head
  BY NAssumption DEF TypeOK, Ring, Index, Wrap
<1>3. delivered + 1 + 0 = delivered + 1
  BY DEF TypeOK, Item
<1>. QED
  BY <1>1, <1>2, <1>3 DEF SlotsInOrder, InOrder

LEMMA NextIInv == IInv /\ [Next]_vars => IInv'
<1>. SUFFICES ASSUME IInv, [Next]_vars PROVE IInv'
  OBVIOUS
<1>. USE NAssumption, ItemsAssumption
<1>0. /\ TypeOK /\ FlagsExact /\ SlotsInOrder
      /\ ProducerInv /\ ConsumerInv /\ WaitInv
  BY DEF IInv
<1>1. CASE WaitNotFull
  <2>. USE <1>0, <1>1 DEF WaitNotFull
  <2>1. TypeOK'
    BY DEF TypeOK, Threads
  <2>2. FlagsExact' /\ SlotsInOrder' /\ ProducerInv' /\ ConsumerInv'
    BY DEF FlagsExact, SlotsInOrder, InOrder, ProducerInv, ConsumerInv, InFlight, Holds
  <2>3. WaitInv'
    BY DEF WaitInv, NoLostWakeup
  <2>. QED
    BY <2>1, <2>2, <2>3 DEF IInv
<1>2. CASE PeekFront
  <2>. USE <1>0, <1>2 DEF PeekFront, Goto
  <2>1. TypeOK'
    BY DEF TypeOK, Threads, Ring
  <2>2. FlagsExact' /\ SlotsInOrder'
    BY DEF FlagsExact, SlotsInOrder, InOrder, InFlight
  <2>3. ProducerInv'
    BY DEF ProducerInv, FlagsExact, InFlight, Holds, TypeOK, Threads, Capacity
  <2>4. ConsumerInv'
    BY DEF ConsumerInv, InFlight, Holds, TypeOK, Threads
  <2>5. WaitInv'
    BY DEF WaitInv, NoLostWakeup, TypeOK, Threads
  <2>. QED
    BY <2>1, <2>2, <2>3, <2>4, <2>5 DEF IInv
<1>3. CASE FillBody
  <2>. USE <1>0, <1>3 DEF FillBody, Goto
  <2>1. TypeOK'
    BY DEF TypeOK, Threads, Slot, Item, ProducerInv
  <2>2. FlagsExact'
    BY DEF FlagsExact, InFlight
  <2>3. SlotsInOrder'
    <3>1. Holds("producer")
      BY DEF Holds
    <3>. QED
      BY <3>1, FillKeepsOrder
  <2>4. ProducerInv'
    BY DEF ProducerInv, InFlight, Holds, TypeOK, Threads, Slot
  <2>5. ConsumerInv'
    BY DEF ConsumerInv, InFlight, Holds, TypeOK, Threads
  <2>6. WaitInv'
    BY DEF WaitInv, NoLostWakeup, TypeOK, Threads
  <2>. QED
    BY <2>1, <2>2, <2>3, <2>4, <2>5, <2>6 DEF IInv
<1>4. CASE FillHeader
  <2>. USE <1>0, <1>4 DEF FillHeader, Goto
  <2>1. TypeOK'
    BY DEF TypeOK, Threads, Slot, Item, ProducerInv
  <2>2. FlagsExact'
    BY DEF FlagsExact, InFlight
  <2>3. SlotsInOrder'
    <3>1. Holds("producer")
      BY DEF Holds
    <3>. QED
      BY <3>1, FillKeepsOrder
  <2>4. ProducerInv'
    BY DEF ProducerInv, InFlight, Holds, TypeOK, Threads, Slot
  <2>5. ConsumerInv'
    BY DEF ConsumerInv, InFlight, Holds, TypeOK, Threads
  <2>6. WaitInv'
    BY DEF WaitInv, NoLostWakeup, TypeOK, Threads
  <2>. QED
    BY <2>1, <2>2, <2>3, <2>4, <2>5, <2>6 DEF IInv
<1>5. CASE Push
  <2>. USE <1>0, <1>5 DEF Push, Goto
  <2>0. /\ InFlight \in 0 .. Capacity - 1
        /\ InFlight' = InFlight + 1
        /\ Tells(ring, InFlight)
    BY FlagsAreTells DEF ProducerInv, Holds, FlagsExact, InFlight, TypeOK, Item, Capacity
  <2>a. Tells(ring', InFlight') /\ ring'.head = ring.head
    BY <2>0, PushTells
  <2>1. TypeOK'
    BY <2>a DEF TypeOK, Threads, Item, Tells, ProducerInv
  <2>2. FlagsExact'
    BY <2>0, <2>a, <2>1, FlagsAreTells DEF Capacity
  <2>3. SlotsInOrder'
    <3>1. ring.tail = Wrap(ring.head + InFlight)
      BY DEF FlagsExact
    <3>2. slots[ring.tail] = [header |-> sent + 1, body |-> sent + 1]
      BY DEF ProducerInv, Holds, TypeOK, Slot, Ring
    <3>3. sent + 1 = delivered + 1 + InFlight
      BY DEF InFlight, TypeOK, Item
    <3>. QED
      BY <2>0, <2>a, <3>1, <3>2, <3>3 DEF SlotsInOrder, InOrder
  <2>4. ProducerInv'
    BY DEF ProducerInv, Holds, TypeOK, Threads
  <2>5. ConsumerInv'
    BY <2>0, <2>a DEF ConsumerInv, Holds, TypeOK, Threads, Capacity
  <2>6. WaitInv'
    BY <2>a, PushFullOnly DEF WaitInv, NoLostWakeup, TypeOK, Threads
  <2>. QED
    BY <2>1, <2>2, <2>3, <2>4, <2>5, <2>6 DEF IInv
<1>6. CASE NotifyNotEmpty
  <2>. USE <1>0, <1>6 DEF NotifyNotEmpty, Goto
  <2>1. TypeOK'
    BY DEF TypeOK, Threads
  <2>2. FlagsExact' /\ SlotsInOrder'
    BY DEF FlagsExact, SlotsInOrder, InOrder, InFlight
  <2>3. ProducerInv'
    BY DEF ProducerInv, Holds, TypeOK, Threads, Item
  <2>4. ConsumerInv'
    BY DEF ConsumerInv, InFlight, Holds, TypeOK, Threads
  <2>5. WaitInv'
    BY DEF WaitInv, NoLostWakeup, TypeOK, Threads
  <2>. QED
    BY <2>1, <2>2, <2>3, <2>4, <2>5 DEF IInv
<1>7. CASE WaitNotEmpty
  <2>. USE <1>0, <1>7 DEF WaitNotEmpty
  <2>1. TypeOK'
    BY DEF TypeOK, Threads
  <2>2. FlagsExact' /\ SlotsInOrder' /\ ProducerInv' /\ ConsumerInv'
    BY DEF FlagsExact, SlotsInOrder, InOrder, ProducerInv, ConsumerInv, InFlight, Holds
  <2>3. WaitInv'
    BY DEF WaitInv, NoLostWakeup
  <2>. QED
    BY <2>1, <2>2, <2>3 DEF IInv
<1>8. CASE PeekBack
  <2>. USE <1>0, <1>8 DEF PeekBack, Goto
  <2>1. TypeOK'
    BY DEF TypeOK, Threads, Ring
  <2>2. FlagsExact' /\ SlotsInOrder'
    BY DEF FlagsExact, SlotsInOrder, InOrder, InFlight
  <2>3. ProducerInv'
    BY DEF ProducerInv, InFlight, Holds, TypeOK, Threads
  <2>4. ConsumerInv'
    BY DEF ConsumerInv, FlagsExact, InFlight, Holds, TypeOK, Threads, Capacity
  <2>5. WaitInv'
    BY DEF WaitInv, NoLostWakeup, TypeOK, Threads
  <2>. QED
    BY <2>1, <2>2, <2>3, <2>4, <2>5 DEF IInv
<1>9. CASE ReadHeader
  <2>. USE <1>0, <1>9 DEF ReadHeader, Goto
  <2>0. slots[ptr["consumer"]] = [header |-> delivered + 1, body |-> delivered + 1]
    BY HeadSlot DEF Holds
  <2>1. TypeOK'
    BY DEF TypeOK, Threads, Slot
  <2>2. FlagsExact' /\ SlotsInOrder'
    BY DEF FlagsExact, SlotsInOrder, InOrder, InFlight
  <2>3. ProducerInv'
    BY DEF ProducerInv, InFlight, Holds, TypeOK, Threads
  <2>4. ConsumerInv'
    BY <2>0 DEF ConsumerInv, InFlight, Holds, TypeOK, Threads, Slot
  <2>5. WaitInv'
    BY DEF WaitInv, NoLostWakeup, TypeOK, Threads
  <2>. QED
    BY <2>1, <2>2, <2>3, <2>4, <2>5 DEF IInv
<1>10. CASE ReadBody
  <2>. USE <1>0, <1>10 DEF ReadBody, Goto
  <2>0. slots[ptr["consumer"]] = [header |-> delivered + 1, body |-> delivered + 1]
    BY HeadSlot DEF Holds
  <2>1. TypeOK'
    BY DEF TypeOK, Threads, Slot
  <2>2. FlagsExact' /\ SlotsInOrder'
    BY DEF FlagsExact, SlotsInOrder, InOrder, InFlight
  <2>3. ProducerInv'
    BY DEF ProducerInv, InFlight, Holds, TypeOK, Threads
  <2>4. ConsumerInv'
    BY <2>0 DEF ConsumerInv, InFlight, Holds, TypeOK, Threads, Slot
  <2>5. WaitInv'
    BY DEF WaitInv, NoLostWakeup, TypeOK, Threads
  <2>. QED
    BY <2>1, <2>2, <2>3, <2>4, <2>5 DEF IInv
<1>11. CASE Pop
  <2>. USE <1>0, <1>11 DEF Pop, Goto
  <2>0. /\ InFlight \in 1 .. Capacity
        /\ delivered' = delivered + 1
        /\ InFlight' = InFlight - 1
        /\ Tells(ring, InFlight)
    BY FlagsAreTells DEF ConsumerInv, Holds, FlagsExact, InFlight, TypeOK, Item, Capacity
  <2>a. Tells(ring', InFlight') /\ ring'.head = Wrap(ring.head + 1)
    BY <2>0, PopTells
  <2>1. TypeOK'
    BY <2>0, <2>a DEF TypeOK, Threads, Item, Tells, ConsumerInv
  <2>2. FlagsExact'
    BY <2>0, <2>a, <2>1, FlagsAreTells DEF Capacity
  <2>3. SlotsInOrder'
    <3>. SUFFICES ASSUME NEW j \in 0 .. InFlight' - 1
                  PROVE  slots[Wrap(ring'.head + j)]
                           = [header |-> delivered' + 1 + j, body |-> delivered' + 1 + j]
      BY DEF SlotsInOrder, InOrder
    <3>1. j \in Index /\ j + 1 < N /\ j + 1 \in 0 .. InFlight - 1 /\ ring.head \in Index
      BY <2>0 DEF Index, Capacity, TypeOK, Ring
    <3>2. Wrap(ring'.head + j) = Wrap(ring.head + (j + 1))
      BY <3>1, <2>a, WrapDistinct
    <3>3. delivered' + 1 + j = delivered + 1 + (j + 1)
      BY <2>0, <3>1 DEF TypeOK, Item
    <3>. QED
      BY <3>1, <3>2, <3>3 DEF SlotsInOrder, InOrder
  <2>4. ProducerInv'
    <3>1. ring'.tail = ring.tail
      BY DEF PopBack
    <3>. QED
      BY <3>1, <2>0 DEF ProducerInv, Holds, TypeOK, Threads, Capacity
  <2>5. ConsumerInv'
    BY DEF ConsumerInv, Holds, TypeOK, Threads
  <2>6. WaitInv'
    BY PopEmptyOnly DEF WaitInv, NoLostWakeup, TypeOK, Threads
  <2>. QED
    BY <2>1, <2>2, <2>3, <2>4, <2>5, <2>6 DEF IInv
<1>12. CASE NotifyNotFull
  <2>. USE <1>0, <1>12 DEF NotifyNotFull, Goto
  <2>1. TypeOK'
    BY DEF TypeOK, Threads
  <2>2. FlagsExact' /\ SlotsInOrder'
    BY DEF FlagsExact, SlotsInOrder, InOrder, InFlight
  <2>3. ProducerInv'
    BY DEF ProducerInv, InFlight, Holds, TypeOK, Threads
  <2>4. ConsumerInv'
    BY DEF ConsumerInv, Holds, TypeOK, Threads, Item
  <2>5. WaitInv'
    BY DEF WaitInv, NoLostWakeup, TypeOK, Threads
  <2>. QED
    BY <2>1, <2>2, <2>3, <2>4, <2>5 DEF IInv
<1>13. CASE SpuriousWakeup
  <2>. USE <1>0, <1>13 DEF SpuriousWakeup
  <2>1. TypeOK'
    BY DEF TypeOK
  <2>2. FlagsExact' /\ SlotsInOrder' /\ ProducerInv' /\ ConsumerInv'
    BY DEF FlagsExact, SlotsInOrder, InOrder, ProducerInv, ConsumerInv, InFlight, Holds
  <2>3. WaitInv'
    BY DEF WaitInv, NoLostWakeup
  <2>. QED
    BY <2>1, <2>2, <2>3 DEF IInv
<1>14. CASE UNCHANGED vars
  BY <1>0, <1>14 DEF vars, IInv, TypeOK, FlagsExact, SlotsInOrder, InOrder, ProducerInv,
                     ConsumerInv, WaitInv, NoLostWakeup, InFlight, Holds
<1>. QED
  BY <1>1, <1>2, <1>3, <1>4, <1>5, <1>6, <1>7, <1>8, <1>9, <1>10, <1>11, <1>12,
     <1>13, <1>14 DEF Next, Producer, Consumer, Stopped

(***************************************************************************)
(* The theorems.                                                           *)
(***************************************************************************)
\* IInv holds throughout every behaviour.
THEOREM Invariance == Spec => []IInv
<1>. QED
  BY InitIInv, NextIInv, PTL DEF Spec

\* Every variable keeps its type.
THEOREM TypeCorrect == Spec => []TypeOK
<1>1. IInv => TypeOK
  BY DEF IInv
<1>. QED
  BY <1>1, Invariance, PTL

\* m_head, m_tail, m_full and m_empty tell the number of items in flight.
THEOREM FlagsAreExact == Spec => []FlagsExact
<1>1. IInv => FlagsExact
  BY DEF IInv
<1>. QED
  BY <1>1, Invariance, PTL

\* The producer never fills the slot the consumer is reading.
THEOREM NoSlotRace == Spec => []SlotExclusion
<1>1. ASSUME IInv PROVE SlotExclusion
  <2>. SUFFICES ASSUME Holds("producer"), Holds("consumer")
                PROVE  ptr["producer"] # ptr["consumer"]
    BY DEF SlotExclusion
  <2>1. /\ InFlight \in 1 .. Capacity - 1
        /\ ptr["producer"] = Wrap(ring.head + InFlight)
        /\ ptr["consumer"] = ring.head /\ ring.head \in Index
    BY <1>1, NAssumption
       DEF IInv, ProducerInv, ConsumerInv, FlagsExact, Capacity, TypeOK, Ring
  <2>. QED
    BY <2>1, NAssumption DEF Wrap, Index, Capacity
<1>. QED
  BY <1>1, Invariance, PTL

\* What a worker reads is one whole item, and the next one.
THEOREM ReadsAreWhole == Spec => []ReadsWholeAndInOrder
<1>1. ASSUME IInv PROVE ReadsWholeAndInOrder
  <2>. SUFFICES ASSUME pc["consumer"] = "commit"
                PROVE  seen = [header |-> delivered + 1, body |-> delivered + 1]
    BY DEF ReadsWholeAndInOrder
  <2>1. seen.header = delivered + 1 /\ seen.body = delivered + 1
    BY <1>1 DEF IInv, ConsumerInv
  <2>. QED
    BY <1>1, <2>1 DEF IInv, TypeOK, Slot
<1>. QED
  BY <1>1, Invariance, PTL

\* A thread that sleeps although it could go on has a notification coming.
THEOREM WakeupsAreNotLost == Spec => []NoLostWakeup
<1>1. IInv => NoLostWakeup
  BY DEF IInv, WaitInv
<1>. QED
  BY <1>1, Invariance, PTL

(***************************************************************************)
(* Refinement.  The abstract queue of n items in flight after d delivered  *)
(* ones is the sequence of the numbers d + 1 .. d + n.                     *)
(***************************************************************************)
Numbers(d, n) == [j \in 1 .. n |-> d + j]

\* The sequence the refinement mapping reads from n slots from h on.
Mapped(s, h, n) == [j \in 1 .. n |-> s[Wrap(h + j - 1)].body]

\* Under the inductive invariant the mapped queue is that sequence.
LEMMA QueueIsNumbers ==
  ASSUME NEW s, NEW h \in Index, NEW d \in Nat, NEW n \in Nat,
         InOrder(s, h, d, n)
  PROVE  Mapped(s, h, n) = Numbers(d, n)
<1>. SUFFICES ASSUME NEW j \in 1 .. n
              PROVE  s[Wrap(h + j - 1)].body = d + j
  BY DEF Numbers, Mapped
<1>1. j - 1 \in 0 .. n - 1 /\ h + (j - 1) = h + j - 1 /\ d + 1 + (j - 1) = d + j
  BY NAssumption DEF Index
<1>2. s[Wrap(h + (j - 1))] = [header |-> d + 1 + (j - 1), body |-> d + 1 + (j - 1)]
  BY <1>1 DEF InOrder
<1>. QED
  BY <1>1, <1>2

\* Its length, and what putting the next number or taking the first makes of it.
LEMMA NumbersSequence ==
  ASSUME NEW d \in Nat, NEW n \in Nat
  PROVE  /\ Numbers(d, n) \in Seq(Nat)
         /\ Len(Numbers(d, n)) = n
         /\ Append(Numbers(d, n), d + n + 1) = Numbers(d, n + 1)
         /\ n > 0 => /\ Numbers(d, n) # << >>
                     /\ Head(Numbers(d, n)) = d + 1
                     /\ Tail(Numbers(d, n)) = Numbers(d + 1, n - 1)
<1> DEFINE s == Numbers(d, n)
<1>1. s \in Seq(Nat) /\ Len(s) = n
  BY DEF Numbers
<1>2. \A i \in 1 .. n : s[i] = d + i
  BY DEF Numbers
<1>3. Append(s, d + n + 1) = Numbers(d, n + 1)
  <2>1. Append(s, d + n + 1) = [i \in 1 .. n + 1 |-> IF i = n + 1 THEN d + n + 1 ELSE s[i]]
    BY <1>1, AppendProperties
  <2>. QED
    BY <1>2, <2>1 DEF Numbers
<1>4. ASSUME n > 0
      PROVE  /\ s # << >>
             /\ Head(s) = d + 1
             /\ Tail(s) = Numbers(d + 1, n - 1)
  <2>1. s # << >>
    BY <1>1, <1>4
  <2>2. /\ Head(s) = s[1]
        /\ Tail(s) \in Seq(Nat) /\ Len(Tail(s)) = n - 1
        /\ \A i \in 1 .. n - 1 : Tail(s)[i] = s[i + 1]
    BY <1>1, <2>1, <1>4
  <2>3. \A i \in 1 .. n - 1 : Tail(s)[i] = d + 1 + i
    BY <1>2, <2>2
  <2>4. /\ Numbers(d + 1, n - 1) \in Seq(Nat) /\ Len(Numbers(d + 1, n - 1)) = n - 1
        /\ \A i \in 1 .. n - 1 : Numbers(d + 1, n - 1)[i] = d + 1 + i
    BY <1>4 DEF Numbers
  <2>5. Tail(s) = Numbers(d + 1, n - 1)
    <3>1. /\ Len(Tail(s)) = Len(Numbers(d + 1, n - 1))
          /\ \A i \in 1 .. Len(Tail(s)) : Tail(s)[i] = Numbers(d + 1, n - 1)[i]
      BY <2>2, <2>3, <2>4
    <3>. QED
      BY <2>2, <2>4, <3>1, SeqEqual, Zenon
  <2>. QED
    BY <1>2, <1>4, <2>1, <2>2, <2>5
<1>. QED
  BY <1>1, <1>3, <1>4

\* Every step of the ring is a step of the abstract queue or leaves it alone
\* (the safety part of ImplementsQueue).
THEOREM Implementation == Spec => Queue!Init /\ [][Queue!Next]_(Queue!vars)
<1>1. Init => Queue!Init
  <2>. SUFFICES ASSUME Init PROVE Queue!Init
    OBVIOUS
  <2>1. 1 .. InFlight = {}
    BY DEF Init, InFlight
  <2>. QED
    BY <2>1 DEF Init, Queue!Init
<1>2. IInv /\ IInv' /\ [Next]_vars => [Queue!Next]_(Queue!vars)
  <2>. SUFFICES ASSUME IInv, IInv', [Next]_vars
                PROVE  [Queue!Next]_(Queue!vars)
    OBVIOUS
  <2> DEFINE q == [j \in 1 .. InFlight |-> slots[Wrap(ring.head + j - 1)].body]
  <2>0. Capacity \in Nat
    BY NAssumption DEF Capacity
  <2>1. /\ delivered \in Nat /\ sent \in Nat /\ InFlight \in Nat
        /\ ring.head \in Index /\ sent = delivered + InFlight
    BY <2>0, ItemsAssumption DEF IInv, TypeOK, Item, Ring, FlagsExact, InFlight
  <2>a. /\ delivered' \in Nat /\ sent' \in Nat /\ InFlight' \in Nat
        /\ ring'.head \in Index
    <3>1. TypeOK' /\ FlagsExact'
      BY DEF IInv
    <3>2. delivered' \in Nat /\ sent' \in Nat /\ ring'.head \in Index
      BY <3>1, ItemsAssumption DEF TypeOK, Item, Ring
    <3>3. InFlight' \in Nat
      BY <2>0, <3>1 DEF FlagsExact
    <3>. QED
      BY <3>2, <3>3
  <2>2. q = Numbers(delivered, InFlight)
    <3>1. InOrder(slots, ring.head, delivered, InFlight)
      BY DEF IInv, SlotsInOrder
    <3>2. Mapped(slots, ring.head, InFlight) = Numbers(delivered, InFlight)
      BY <2>1, <3>1, QueueIsNumbers
    <3>. QED
      BY <3>2 DEF Mapped
  <2>3. q' = Numbers(delivered', InFlight')
    <3>1. InOrder(slots', ring'.head, delivered', InFlight')
      BY DEF IInv, SlotsInOrder
    <3>2. Mapped(slots', ring'.head, InFlight') = Numbers(delivered', InFlight')
      BY <2>a, <3>1, QueueIsNumbers
    <3>. QED
      BY <3>2 DEF Mapped
  <2>. HIDE DEF q
  <2>4. CASE Push
    <3>1. /\ sent < Items /\ InFlight < Capacity
          /\ sent' = sent + 1 /\ delivered' = delivered /\ InFlight' = InFlight + 1
      BY <2>1, <2>4 DEF Push, IInv, ProducerInv, Holds, InFlight
    <3>2. Len(q) < Capacity
      BY <2>1, <2>2, <3>1, NumbersSequence
    <3>3. q' = Append(q, sent + 1)
      BY <2>1, <2>2, <2>3, <3>1, NumbersSequence
    <3>. QED
      BY <3>1, <3>2, <3>3 DEF Queue!Next, Queue!Put, q
  <2>5. CASE Pop
    <3>1. /\ InFlight > 0 /\ sent' = sent
          /\ delivered' = delivered + 1 /\ InFlight' = InFlight - 1
      BY <2>1, <2>5 DEF Pop, IInv, ConsumerInv, Holds, InFlight
    <3>2. q # << >> /\ delivered' = Head(q) /\ q' = Tail(q)
      BY <2>1, <2>2, <2>3, <3>1, NumbersSequence
    <3>. QED
      BY <3>1, <3>2 DEF Queue!Next, Queue!Take, q
  <2>6. CASE UNCHANGED <<sent, delivered>>
    <3>1. InFlight' = InFlight
      BY <2>6 DEF InFlight
    <3>2. q' = q
      BY <2>2, <2>3, <2>6, <3>1
    <3>. QED
      BY <2>6, <3>2 DEF Queue!vars, q
  <2>. QED
    BY <2>4, <2>5, <2>6
    DEF Next, Producer, Consumer, WaitNotFull, PeekFront, FillBody, FillHeader,
        NotifyNotEmpty, WaitNotEmpty, PeekBack, ReadHeader, ReadBody,
        NotifyNotFull, SpuriousWakeup, Stopped, vars
<1>. QED
  BY <1>1, <1>2, Invariance, PTL DEF Spec
=============================================================================
