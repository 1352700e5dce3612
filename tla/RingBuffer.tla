----------------------------- MODULE RingBuffer -----------------------------
(***************************************************************************)
(* The index arithmetic of bounded_buffer<T, N>                            *)
(* (software/include/bounded_buffer.h): what each of the four member       *)
(* functions does to m_head, m_tail, m_full and m_empty while it holds     *)
(* m_mutex.  The buffer's slots, which the callers access outside the      *)
(* mutex, belong to the modules that use this one.                         *)
(***************************************************************************)
EXTENDS Naturals

CONSTANT N    \* the template parameter N: QUEUE_SIZE slots

ASSUME NAssumption == N \in Nat \ {0}

Index == 0 .. N - 1

Ring == [head : Index, tail : Index, full : BOOLEAN, empty : BOOLEAN]

\* The constructor.
NewRing == [head |-> 0, tail |-> 0, full |-> FALSE, empty |-> TRUE]

\* Mutant: the index is not taken modulo the size.
NextNoModulo(i) == i + 1

\* (i + 1) % m_container.size()
Next1(i) == (i + 1) % N

\* Mutants: no slot is kept free; m_empty is not cleared.
PushFrontNoFreeSlot(r) ==
  LET tail == Next1(r.tail)
  IN  [head |-> r.head, tail |-> tail, full |-> tail = r.head, empty |-> FALSE]

PushFrontStaysEmpty(r) ==
  [r EXCEPT !.tail = Next1(@), !.full = @ \/ Next1(Next1(r.tail)) = r.head]

\* push_front: m_full is only ever raised here, m_empty only ever cleared.
PushFront(r) ==
  LET tail == Next1(r.tail)
  IN  [head  |-> r.head,
       tail  |-> tail,
       full  |-> r.full \/ Next1(tail) = r.head,
       empty |-> FALSE]

\* Mutant: m_empty is not raised.
PopBackNeverEmpty(r) == [r EXCEPT !.head = Next1(@), !.full = FALSE]

\* pop_back: m_full is only ever cleared here, m_empty only ever raised.
PopBack(r) ==
  LET head == Next1(r.head)
  IN  [head  |-> head,
       tail  |-> r.tail,
       full  |-> FALSE,
       empty |-> r.empty \/ head = r.tail]

(***************************************************************************)
(* One slot is kept free to tell a full ring from an empty one, except     *)
(* that a ring of a single slot uses it.                                   *)
(***************************************************************************)
Capacity == IF N = 1 THEN 1 ELSE N - 1

\* The slot an offset of at most N from a slot leads to.
Wrap(i) == IF i < N THEN i ELSE i - N
=============================================================================
