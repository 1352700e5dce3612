--------------------------- MODULE Compactor_proofs ---------------------------
(***************************************************************************)
(* Proofs about Compactor, for any number of outputs, trees of any size,   *)
(* pipes of any depth and flits filled in any way: it implements           *)
(* PacketStage.                                                            *)
(*                                                                         *)
(* A place in a packet's words is the packet's number and how many words   *)
(* of each lane have passed.  Each pipe is a path from the place up to     *)
(* which it has been read to the place up to which it has been written;    *)
(* a kernel's two inputs have been read up to places of one packet, whose  *)
(* sum is the place up to which its output has been written.               *)
(***************************************************************************)
EXTENDS Compactor, Integers, SequenceTheorems, FiniteSetTheorems,
        WellFoundedInduction, TLAPS

-----------------------------------------------------------------------------
(***************************************************************************)
(* Streams as paths.  Each flit of a stream leads from what has been told  *)
(* by the flits before it to what has been told with it: a link <<p, f,    *)
(* q>>.  What a proof needs of a stream is where it starts and ends.       *)
(***************************************************************************)
\* The flits of s lead from p to q, each by a link of L.
Path(s, p, q, L) ==
  \E t : /\ t[1] = p /\ t[Len(s) + 1] = q
         /\ \A i \in 1 .. Len(s) : <<t[i], s[i], t[i + 1]>> \in L

\* A stream of no flits.
LEMMA PathEmpty ==
  ASSUME NEW p, NEW q, NEW L
  PROVE  Path(<< >>, p, q, L) <=> p = q
<1>1. Len(<< >>) = 0 /\ 1 .. 0 = {}
  OBVIOUS
<1>2. ASSUME p = q
      PROVE  Path(<< >>, p, q, L)
  <2> DEFINE t == [i \in {1} |-> p]
  <2>1. t[1] = p /\ t[Len(<< >>) + 1] = q
    BY <1>1, <1>2
  <2>. QED
    BY <1>1, <2>1 DEF Path
<1>. QED
  BY <1>1, <1>2 DEF Path

\* A write.
LEMMA PathAppend ==
  ASSUME NEW T, NEW s \in Seq(T), NEW f \in T, NEW p, NEW q, NEW r, NEW L,
         Path(s, p, q, L), <<q, f, r>> \in L
  PROVE  Path(Append(s, f), p, r, L)
<1>1. PICK t : /\ t[1] = p /\ t[Len(s) + 1] = q
               /\ \A i \in 1 .. Len(s) : <<t[i], s[i], t[i + 1]>> \in L
  BY DEF Path
<1> DEFINE n == Len(s) + 1
           u == [i \in 1 .. n + 1 |-> IF i <= n THEN t[i] ELSE r]
           a == Append(s, f)
<1>2. /\ n \in Nat \ {0} /\ Len(a) = n /\ a[n] = f
      /\ \A i \in 1 .. Len(s) : a[i] = s[i]
  OBVIOUS
<1>3. /\ \A i \in 1 .. n : u[i] = t[i]
      /\ u[n + 1] = r /\ u[1] = t[1]
  BY <1>2
<1>. HIDE DEF u
<1>4. ASSUME NEW i \in 1 .. n
      PROVE  <<u[i], a[i], u[i + 1]>> \in L
  <2>1. CASE i \in 1 .. Len(s)
    <3>1. i \in 1 .. n /\ i + 1 \in 1 .. n
      BY <2>1
    <3>2. u[i] = t[i] /\ u[i + 1] = t[i + 1] /\ a[i] = s[i]
      BY <1>2, <1>3, <2>1, <3>1
    <3>. QED
      BY <1>1, <2>1, <3>2
  <2>2. CASE i = n
    <3>1. n \in 1 .. n
      BY <1>2
    <3>2. u[n] = q /\ u[n + 1] = r /\ a[n] = f
      BY <1>1, <1>2, <1>3, <3>1
    <3>. QED
      BY <2>2, <3>2
  <2>. QED
    BY <2>1, <2>2
<1>5. u[1] = p /\ u[Len(a) + 1] = r
  BY <1>1, <1>2, <1>3
<1>6. \A i \in 1 .. Len(a) : <<u[i], a[i], u[i + 1]>> \in L
  BY <1>2, <1>4
<1>. QED
  BY <1>5, <1>6 DEF Path

\* A read.
LEMMA PathTail ==
  ASSUME NEW T, NEW s \in Seq(T), s # << >>, NEW p, NEW q, NEW L, Path(s, p, q, L)
  PROVE  \E r : <<p, Head(s), r>> \in L /\ Path(Tail(s), r, q, L)
<1>1. PICK t : /\ t[1] = p /\ t[Len(s) + 1] = q
               /\ \A i \in 1 .. Len(s) : <<t[i], s[i], t[i + 1]>> \in L
  BY DEF Path
<1> DEFINE n == Len(s)
           v == Tail(s)
           u == [i \in 1 .. n |-> t[i + 1]]
<1>2. /\ n \in Nat \ {0} /\ Len(v) = n - 1 /\ Head(s) = s[1]
      /\ \A i \in 1 .. n - 1 : v[i] = s[i + 1]
  OBVIOUS
<1>3. \A i \in 1 .. n : u[i] = t[i + 1]
  OBVIOUS
<1>. HIDE DEF u, v
<1>4. 1 \in 1 .. n /\ n \in 1 .. n
  BY <1>2
<1>5. <<p, Head(s), t[2]>> \in L
  BY <1>1, <1>2, <1>4
<1>6. u[1] = t[2] /\ u[n] = q
  BY <1>1, <1>3, <1>4
<1>7. ASSUME NEW i \in 1 .. n - 1
      PROVE  <<u[i], v[i], u[i + 1]>> \in L
  <2>1. i \in 1 .. n /\ i + 1 \in 1 .. n
    BY <1>2
  <2>2. u[i] = t[i + 1] /\ u[i + 1] = t[(i + 1) + 1] /\ v[i] = s[i + 1]
    BY <1>2, <1>3, <2>1
  <2>. QED
    BY <1>1, <2>1, <2>2
<1>8. Path(v, t[2], q, L)
  <2>1. u[1] = t[2] /\ u[Len(v) + 1] = q
    BY <1>2, <1>6
  <2>2. \A i \in 1 .. Len(v) : <<u[i], v[i], u[i + 1]>> \in L
    BY <1>2, <1>7
  <2>. QED
    BY <2>1, <2>2 DEF Path
<1>. QED
  BY <1>5, <1>8 DEF v

\* More links.
LEMMA PathMore ==
  ASSUME NEW s, NEW p, NEW q, NEW L, NEW M, L \subseteq M, Path(s, p, q, L)
  PROVE  Path(s, p, q, M)
BY DEF Path

-----------------------------------------------------------------------------
(***************************************************************************)
(* The heap.                                                               *)
(***************************************************************************)
\* The pipes on the way from pipe l to the root: the least set with l that
\* has with a pipe the one above it.
Closed(S, l) == S \subseteq Pipes /\ l \in S /\ \A m \in S : m > 1 => m \div 2 \in S
Up(l) == {n \in Pipes : \A S \in SUBSET Pipes : Closed(S, l) => n \in S}

LEMMA Half ==
  ASSUME NEW m \in Nat \ {0}, m > 1
  PROVE  /\ m \div 2 \in Nat \ {0} /\ m \div 2 < m
         /\ m = 2 * (m \div 2) \/ m = 2 * (m \div 2) + 1
OBVIOUS

LEMMA HalfPipe ==
  ASSUME NEW m \in Pipes, m > 1
  PROVE  m \div 2 \in Kernels /\ m \div 2 \in Pipes
<1>1. Group \in Nat /\ m \in Nat \ {0} /\ m <= 2 * Group - 1
  BY CompactorAssumption DEF Pipes
<1>. QED
  BY <1>1, Half DEF Pipes, Kernels

LEMMA UpClosed ==
  ASSUME NEW l \in Pipes
  PROVE  Closed(Up(l), l)
<1>1. l \in Up(l)
  BY DEF Up, Closed
<1>2. ASSUME NEW m \in Up(l), m > 1
      PROVE  m \div 2 \in Up(l)
  <2>1. m \div 2 \in Pipes
    BY <1>2, HalfPipe DEF Up
  <2>2. ASSUME NEW S \in SUBSET Pipes, Closed(S, l)
        PROVE  m \div 2 \in S
    BY <1>2, <2>2 DEF Up, Closed
  <2>. QED
    BY <2>1, <2>2 DEF Up
<1>. QED
  BY <1>1, <1>2 DEF Up, Closed

LEMMA UpLeast ==
  ASSUME NEW l, NEW S, Closed(S, l)
  PROVE  Up(l) \subseteq S
BY DEF Up, Closed

\* Nothing lies between a pipe on the way and the next one.
LEMMA UpHalves ==
  ASSUME NEW l \in Pipes, NEW n \in Up(l), NEW m \in Up(l), m < n
  PROVE  m <= n \div 2
<1>1. /\ l \in Nat \ {0} /\ Pipes \subseteq Nat \ {0} /\ Up(l) \subseteq Pipes
      /\ \A k \in Pipes : \A j \in Nat \ {0} : j <= k => j \in Pipes
  BY CompactorAssumption DEF Pipes, Up
<1>2. Up(l) \subseteq {l} \cup {k \in Pipes : k <= l \div 2}
  <2> DEFINE S == {l} \cup {k \in Pipes : k <= l \div 2}
  <2>1. ASSUME NEW k \in S, k > 1
        PROVE  k \div 2 \in S
    <3>1. k \in Pipes /\ k \in Nat \ {0}
      BY <1>1
    <3>2. k \div 2 \in Pipes /\ k \div 2 < k
      BY <1>1, <2>1, <3>1, HalfPipe, Half
    <3>3. l \div 2 \in Nat /\ k \div 2 \in Nat
      BY <1>1, <3>1, <3>2
    <3>. QED
      BY <1>1, <3>1, <3>2, <3>3
  <2>2. Closed(S, l)
    BY <2>1 DEF Closed
  <2>. QED
    BY <2>2, UpLeast
<1> DEFINE T == {k \in Up(l) : \A j \in Up(l) : j < k => j <= k \div 2}
<1>3. l \in T
  BY <1>1, <1>2, UpClosed DEF Closed
<1>4. ASSUME NEW k \in T, k > 1
      PROVE  k \div 2 \in T
  <2> DEFINE h == k \div 2
             S == {j \in Up(l) : j >= h} \cup {j \in Pipes : j <= h \div 2}
  <2>1. k \in Up(l) /\ k \in Nat \ {0} /\ h \in Nat \ {0} /\ h < k /\ h \in Up(l)
    BY <1>1, <1>4, Half, UpClosed DEF Closed
  <2>2. \A j \in Up(l) : j < k => j <= h
    OBVIOUS
  <2>3. l \in S
    <3>1. k <= l
      BY <1>1, <1>2, <2>1
    <3>. QED
      BY <1>1, <2>1, <3>1, UpClosed DEF Closed
  <2>4. ASSUME NEW j \in S, j > 1
        PROVE  j \div 2 \in S
    <3>1. j \in Nat \ {0} /\ j \in Pipes /\ j \div 2 \in Pipes /\ j \div 2 \in Nat /\ j \div 2 < j
      BY <1>1, <2>4, HalfPipe, Half
    <3>2. CASE j \in Up(l) /\ j >= h
      <4>1. j \div 2 \in Up(l)
        BY <2>4, <3>2, UpClosed DEF Closed
      <4>2. j = h \/ j >= k
        BY <2>1, <2>2, <3>1, <3>2
      <4>3. j >= k => j \div 2 >= h
        BY <2>1, <3>1
      <4>. QED
        BY <3>1, <4>1, <4>2, <4>3
    <3>3. CASE j <= h \div 2
      BY <2>1, <3>1, <3>3
    <3>. QED
      BY <3>2, <3>3
  <2>5. Closed(S, l)
    BY <1>1, <2>3, <2>4 DEF Closed
  <2>6. Up(l) \subseteq S
    BY <2>5, UpLeast
  <2>7. \A j \in Up(l) : j < h => j <= h \div 2
    BY <1>1, <2>1, <2>6
  <2>. QED
    BY <2>1, <2>7
<1>5. Closed(T, l)
  BY <1>1, <1>3, <1>4 DEF Closed
<1>6. Up(l) \subseteq T
  BY <1>5, UpLeast
<1>. QED
  BY <1>6

\* A set of numbers has a least one.
LEMMA Least ==
  ASSUME NEW S \in SUBSET Nat, S # {}
  PROVE  \E m \in S : \A n \in S : m <= n
<1> DEFINE R == OpToRel(<, Nat)
<1>1. IsWellFoundedOn(R, Nat)
  BY NatLessThanWellFounded
<1>. HIDE DEF R
<1>2. PICK m \in S : \A n \in S : <<n, m>> \notin R
  BY <1>1, WFMin
<1>3. \A n \in S : ~(n < m)
  BY <1>2 DEF R, OpToRel
<1>. QED
  BY <1>3

LEMMA UpRoot ==
  ASSUME NEW l \in Pipes
  PROVE  1 \in Up(l)
<1>1. Up(l) \in SUBSET Nat /\ Up(l) # {} /\ 0 \notin Up(l)
  <2>1. Pipes \subseteq Nat \ {0} /\ Up(l) \subseteq Pipes
    BY CompactorAssumption DEF Pipes, Up
  <2>2. l \in Up(l)
    BY UpClosed DEF Closed
  <2>. QED
    BY <2>1, <2>2
<1>2. PICK m \in Up(l) : \A n \in Up(l) : m <= n
  BY <1>1, Least
<1>3. m \in Nat \ {0}
  BY <1>1
<1>4. m > 1 => m \div 2 \in Up(l) /\ m \div 2 < m
  BY <1>3, UpClosed, Half DEF Closed
<1>5. ~(m > 1)
  BY <1>1, <1>2, <1>3, <1>4
<1>. QED
  BY <1>3, <1>5

\* A kernel is on the way from a leaf exactly if one of the pipes that it reads
\* is, and then not both are.
LEMMA HeapSplit ==
  ASSUME NEW l \in Pipes, l >= Group, NEW n \in Kernels
  PROVE  /\ 2 * n \in Pipes /\ 2 * n + 1 \in Pipes /\ n \in Pipes
         /\ n \in Up(l) <=> 2 * n \in Up(l) \/ 2 * n + 1 \in Up(l)
         /\ ~(2 * n \in Up(l) /\ 2 * n + 1 \in Up(l))
<1>1. /\ Group \in Nat /\ n \in Nat \ {0} /\ n < Group /\ l \in Nat
      /\ 2 * n \in Pipes /\ 2 * n + 1 \in Pipes /\ n \in Pipes
  BY CompactorAssumption DEF Pipes, Kernels
<1>2. Closed(Up(l), l)
  BY UpClosed
<1>3. 2 * n > 1 /\ 2 * n + 1 > 1 /\ (2 * n) \div 2 = n /\ (2 * n + 1) \div 2 = n
  BY <1>1
<1>4. 2 * n \in Up(l) \/ 2 * n + 1 \in Up(l) => n \in Up(l)
  BY <1>2, <1>3 DEF Closed
<1>5. ASSUME n \in Up(l), 2 * n \notin Up(l), 2 * n + 1 \notin Up(l)
      PROVE  FALSE
  <2> DEFINE S == Up(l) \ {n}
  <2>1. ASSUME NEW m \in S, m > 1
        PROVE  m \div 2 \in S
    <3>1. m \in Nat \ {0} /\ m \div 2 \in Up(l)
      BY <1>2, <2>1 DEF Closed, Pipes
    <3>2. m \div 2 # n
      BY <1>5, <2>1, <3>1, Half
    <3>. QED
      BY <3>1, <3>2
  <2>2. Closed(S, l)
    BY <1>1, <1>2, <2>1 DEF Closed
  <2>. QED
    BY <1>5, <2>2, UpLeast
<1>6. ~(2 * n \in Up(l) /\ 2 * n + 1 \in Up(l))
  <2>1. 2 * n < 2 * n + 1 /\ ~(2 * n <= n)
    BY <1>1
  <2>. QED
    BY <1>3, <2>1, UpHalves
<1>. QED
  BY <1>1, <1>4, <1>5, <1>6

\* No leaf is on the way from another one.
LEMMA HeapLeaf ==
  ASSUME NEW l \in Pipes, l >= Group, NEW m \in Pipes, m >= Group
  PROVE  m \in Up(l) <=> m = l
<1>1. Group \in Nat \ {0} /\ l \in Nat \ {0} /\ m \in Nat \ {0} /\ l <= 2 * Group - 1
  BY CompactorAssumption DEF Pipes
<1>2. l \in Up(l)
  BY UpClosed DEF Closed
<1>3. ASSUME m \in Up(l)
      PROVE  m = l
  <2>1. m < l => m <= l \div 2
    BY <1>2, <1>3, UpHalves
  <2>2. ~(m <= l \div 2)
    BY <1>1
  <2>3. ~(l < m)
    <3> DEFINE S == {k \in Pipes : k <= l}
    <3>1. ASSUME NEW k \in S, k > 1
          PROVE  k \div 2 \in S
      <4>1. k \in Nat \ {0} /\ k \div 2 \in Pipes /\ k \div 2 < k
        BY <3>1, HalfPipe, Half DEF Pipes
      <4>2. k \div 2 \in Nat
        BY <4>1
      <4>. QED
        BY <1>1, <4>1, <4>2
    <3>2. Closed(S, l)
      BY <1>1, <3>1 DEF Closed
    <3>3. m <= l
      BY <1>3, <3>2, UpLeast
    <3>. QED
      BY <1>1, <3>3
  <2>. QED
    BY <1>1, <2>1, <2>2, <2>3
<1>. QED
  BY <1>2, <1>3

-----------------------------------------------------------------------------
(***************************************************************************)
(* Lanes: the pipe that a lane is written to.                              *)
(***************************************************************************)
Out(i)  == (i - 1) \div Group + 1
Leaf(i) == Group + ((i - 1) % Group)

LEMMA LaneAt ==
  /\ \A i \in Lanes : Out(i) \in Outputs /\ Leaf(i) \in Pipes /\ Leaf(i) >= Group
  /\ \A i, j \in Lanes : Out(i) = Out(j) /\ Leaf(i) = Leaf(j) => i = j
<1>1. Group \in Nat \ {0} /\ FanOut \in Nat \ {0} /\ FanOut * Group \in Nat
  BY CompactorAssumption
<1>2. ASSUME NEW i \in Lanes
      PROVE  /\ Out(i) \in Outputs /\ Leaf(i) \in Pipes /\ Leaf(i) >= Group
             /\ i - 1 = Group * (Out(i) - 1) + (Leaf(i) - Group)
  <2> DEFINE a == i - 1
             q == a \div Group
             r == a % Group
  <2>1. a \in Nat /\ a < FanOut * Group
    BY <1>1 DEF Lanes, FanIn
  <2>. HIDE DEF a
  <2>2. a = Group * q + r /\ r \in 0 .. Group - 1 /\ q \in Nat
    BY <1>1, <2>1
  <2>3. q < FanOut
    BY <1>1, <2>1
  <2>4. Out(i) = q + 1 /\ Leaf(i) = Group + r
    BY DEF Out, Leaf, a
  <2>. HIDE DEF q, r
  <2>5. Out(i) \in Outputs
    BY <1>1, <2>2, <2>3, <2>4 DEF Outputs
  <2>6. Leaf(i) \in Pipes /\ Leaf(i) >= Group
    BY <1>1, <2>2, <2>4 DEF Pipes
  <2>7. Out(i) - 1 = q /\ Leaf(i) - Group = r
    BY <1>1, <2>2, <2>4
  <2>. QED
    BY <2>2, <2>5, <2>6, <2>7 DEF a
<1>3. ASSUME NEW i \in Lanes, NEW j \in Lanes, Out(i) = Out(j), Leaf(i) = Leaf(j)
      PROVE  i = j
  <2>1. i - 1 = j - 1
    BY <1>2, <1>3
  <2>2. i \in Int /\ j \in Int
    BY <1>1 DEF Lanes, FanIn
  <2>. QED
    BY <2>1, <2>2
<1>. QED
  BY <1>2, <1>3

-----------------------------------------------------------------------------
(***************************************************************************)
(* The words of a packet.                                                  *)
(***************************************************************************)
\* How many words there are of each lane.
Count      == [Lanes -> Nat]
NoWords    == [i \in Lanes |-> 0]
Plus(b, c) == [i \in Lanes |-> b[i] + c[i]]
Only(word) == [i \in Lanes |-> IF word # Empty /\ word[2] = i THEN 1 ELSE 0]
Below(b, c) == \A i \in Lanes : b[i] <= c[i]

\* The bags of words of packet p, and what such a bag has of each lane.
PacketBag(p) == UNION {[W -> Nat \ {0}] : W \in SUBSET ({p} \X Lanes)}
Words(b, p)  == [i \in Lanes |-> IF <<p, i>> \in DOMAIN b THEN b[<<p, i>>] ELSE 0]

LEMMA PacketBags ==
  ASSUME NEW p, NEW b
  PROVE  b \in PacketBag(p) <=> /\ DOMAIN b \subseteq {p} \X Lanes
                                /\ b \in [DOMAIN b -> Nat \ {0}]
<1>1. ASSUME b \in PacketBag(p)
      PROVE  DOMAIN b \subseteq {p} \X Lanes /\ b \in [DOMAIN b -> Nat \ {0}]
  <2>1. PICK W \in SUBSET ({p} \X Lanes) : b \in [W -> Nat \ {0}]
    BY <1>1 DEF PacketBag
  <2>2. DOMAIN b = W
    BY <2>1
  <2>. QED
    BY <2>1, <2>2
<1>2. ASSUME DOMAIN b \subseteq {p} \X Lanes, b \in [DOMAIN b -> Nat \ {0}]
      PROVE  b \in PacketBag(p)
  BY <1>2 DEF PacketBag
<1>. QED
  BY <1>1, <1>2

LEMMA WordsType ==
  ASSUME NEW p, NEW b \in PacketBag(p)
  PROVE  Words(b, p) \in Count
BY PacketBags DEF Words, Count

LEMMA EmptyPacketBag ==
  ASSUME NEW p
  PROVE  EmptyBag \in PacketBag(p) /\ Words(EmptyBag, p) = NoWords
<1>1. DOMAIN EmptyBag = {} /\ EmptyBag \in [DOMAIN EmptyBag -> Nat \ {0}]
  BY DEF EmptyBag, SetToBag
<1>. QED
  BY <1>1, PacketBags DEF Words, NoWords

\* Bags of a packet are in the order of their counts.
LEMMA BagOrder ==
  ASSUME NEW p, NEW b \in PacketBag(p), NEW c \in PacketBag(p)
  PROVE  /\ Below(Words(b, p), Words(c, p)) => b \sqsubseteq c
         /\ Words(b, p) = Words(c, p) => b = c
<1>1. /\ DOMAIN b \subseteq {p} \X Lanes /\ \A w \in DOMAIN b : b[w] \in Nat \ {0}
      /\ DOMAIN c \subseteq {p} \X Lanes /\ \A w \in DOMAIN c : c[w] \in Nat \ {0}
      /\ b = [w \in DOMAIN b |-> b[w]] /\ c = [w \in DOMAIN c |-> c[w]]
  BY PacketBags
<1>2. \A i \in Lanes : /\ Words(b, p)[i] = IF <<p, i>> \in DOMAIN b THEN b[<<p, i>>] ELSE 0
                       /\ Words(c, p)[i] = IF <<p, i>> \in DOMAIN c THEN c[<<p, i>>] ELSE 0
  BY DEF Words
<1>3. ASSUME Below(Words(b, p), Words(c, p)), NEW w \in DOMAIN b
      PROVE  w \in DOMAIN c /\ b[w] <= c[w]
  <2>1. PICK i \in Lanes : w = <<p, i>>
    BY <1>1
  <2>2. b[w] <= Words(c, p)[i]
    BY <1>2, <1>3, <2>1 DEF Below
  <2>3. w \in DOMAIN c
    BY <1>1, <1>2, <2>1, <2>2
  <2>. QED
    BY <1>2, <2>1, <2>2, <2>3
<1>4. Below(Words(b, p), Words(c, p)) => b \sqsubseteq c
  BY <1>3 DEF \sqsubseteq
<1>5. ASSUME Words(b, p) = Words(c, p)
      PROVE  b = c
  <2>1. ASSUME NEW i \in Lanes
        PROVE  /\ <<p, i>> \in DOMAIN b <=> <<p, i>> \in DOMAIN c
               /\ <<p, i>> \in DOMAIN b => b[<<p, i>>] = c[<<p, i>>]
    BY <1>1, <1>2, <1>5
  <2>2. DOMAIN b = DOMAIN c /\ \A w \in DOMAIN b : b[w] = c[w]
    BY <1>1, <2>1
  <2>. QED
    BY <1>1, <2>2
<1>. QED
  BY <1>4, <1>5

\* A set of words of the packet is added.
LEMMA BagAdd ==
  ASSUME NEW p, NEW b \in PacketBag(p), NEW W \in SUBSET ({p} \X Lanes)
  PROVE  /\ b (+) SetToBag(W) \in PacketBag(p)
         /\ \A i \in Lanes : Words(b (+) SetToBag(W), p)[i]
                               = Words(b, p)[i] + (IF <<p, i>> \in W THEN 1 ELSE 0)
         /\ b \sqsubseteq b (+) SetToBag(W)
<1> DEFINE c == SetToBag(W)
           s == b (+) c
<1>1. DOMAIN b \subseteq {p} \X Lanes /\ \A w \in DOMAIN b : b[w] \in Nat \ {0}
  BY PacketBags
<1>2. DOMAIN c = W /\ \A w \in W : c[w] = 1
  BY DEF SetToBag
<1>. HIDE DEF c
<1>3. DOMAIN s = DOMAIN b \cup W /\ s = [w \in DOMAIN s |-> s[w]]
  BY <1>2 DEF (+)
<1>4. ASSUME NEW w \in DOMAIN b \cup W
      PROVE  /\ s[w] = (IF w \in DOMAIN b THEN b[w] ELSE 0) + (IF w \in W THEN 1 ELSE 0)
             /\ s[w] \in Nat \ {0} /\ (w \in DOMAIN b => b[w] <= s[w])
  <2>1. s[w] = (IF w \in DOMAIN b THEN b[w] ELSE 0) + (IF w \in W THEN c[w] ELSE 0)
    BY <1>2 DEF (+)
  <2>2. s[w] = (IF w \in DOMAIN b THEN b[w] ELSE 0) + (IF w \in W THEN 1 ELSE 0)
    BY <1>2, <2>1
  <2>. QED
    BY <1>1, <2>2
<1>. HIDE DEF s
<1>5. s \in PacketBag(p)
  <2>1. s \in [DOMAIN s -> Nat \ {0}]
    BY <1>3, <1>4
  <2>2. DOMAIN s \subseteq {p} \X Lanes
    BY <1>1, <1>3
  <2>. QED
    BY <2>1, <2>2, PacketBags
<1>6. ASSUME NEW i \in Lanes
      PROVE  Words(s, p)[i] = Words(b, p)[i] + (IF <<p, i>> \in W THEN 1 ELSE 0)
  <2>1. /\ Words(s, p)[i] = IF <<p, i>> \in DOMAIN s THEN s[<<p, i>>] ELSE 0
        /\ Words(b, p)[i] = IF <<p, i>> \in DOMAIN b THEN b[<<p, i>>] ELSE 0
    BY DEF Words
  <2>. QED
    BY <1>3, <1>4, <2>1
<1>7. b \sqsubseteq s
  BY <1>3, <1>4 DEF \sqsubseteq
<1>. QED
  BY <1>5, <1>6, <1>7 DEF s, c

-----------------------------------------------------------------------------
(***************************************************************************)
(* The invariant.                                                          *)
(***************************************************************************)
\* The types.
Shape ==
  /\ pipe \in [Outputs -> [Pipes -> Seq(Flit)]]
  /\ \A o \in Outputs, n \in Pipes : Len(pipe[o][n]) <= PipeDepth
  /\ seenEop \in [Outputs -> [Kernels -> [{0, 1} -> BOOLEAN]]]
  /\ eop \in [Outputs -> BOOLEAN]
  /\ wide \in [words : [Lanes -> Word \cup {Empty}], eop : BOOLEAN]
  /\ todo \subseteq Lanes /\ flits \in 0 .. MaxFlits /\ hollow \in BOOLEAN
  /\ taken \in Seq(UNION {PacketBag(p) : p \in Nat}) /\ Len(taken) \in 1 .. flits + 1
  /\ \A p \in 1 .. Len(taken) : taken[p] \in PacketBag(p)
  /\ given \in Seq(UNION {PacketBag(p) : p \in Nat}) /\ given # << >>
  /\ \A p \in 1 .. Len(given) : given[p] \in PacketBag(p)

\* A place in a packet's words.
Place == (Nat \ {0}) \X Count

\* What goes through pipe n of output o of the words taken in of packet p.
Share(o, n, p) ==
  [i \in Lanes |-> IF Out(i) = o /\ n \in Up(Leaf(i)) THEN Words(taken[p], p)[i] ELSE 0]

\* A word belongs there.
Belongs(word, o, n, p) ==
  word # Empty => word[1] = p /\ word[2] \in Lanes /\ Out(word[2]) = o /\ n \in Up(Leaf(word[2]))

\* After the words b of packet p, read through pipe n of output o, and after its
\* end if that has been seen, the place is at.
Reached(o, n, seen, p, b, at) ==
  IF seen THEN p < Len(taken) /\ b = Share(o, n, p) /\ at = <<p + 1, NoWords>>
          ELSE p <= Len(taken) /\ at = <<p, b>>

\* Which flit may lead from where to where.
Links(o, n) ==
  {x \in Place \X Flit \X Place :
     LET p   == x[1][1]
         all == Plus(x[1][2], Only(x[2].word))
     IN  /\ Belongs(x[2].word, o, n, p)
         /\ Below(all, Share(o, n, p))
         /\ Reached(o, n, x[2].eop, p, all, x[3])}

\* A pipe leads from a, up to where it has been read, to z.
PipeRight(o, n, a, z) ==
  /\ a \in Place /\ a[1] <= Len(taken) /\ Below(a[2], Share(o, n, a[1]))
  /\ Path(pipe[o][n], a, z, Links(o, n))

\* The pipe of a lane has been written up to z: all that was taken in, less a
\* flit that is still to be written.
LaneEnd(i)   == <<Len(taken), Share(Out(i), Leaf(i), Len(taken))>>
LaneWrite(i) == [word |-> wide.words[i], eop |-> wide.eop]

LaneRight(i, z) ==
  IF i \in todo THEN <<z, LaneWrite(i), LaneEnd(i)>> \in Links(Out(i), Leaf(i))
                ELSE z = LaneEnd(i)

\* The inputs of kernel k have been read up to a0 and a1, and its output has been
\* written up to z.
KernelRight(o, k, a0, a1, z) ==
  /\ ~BothSeen(seenEop[o][k])
  /\ \E p \in Nat \ {0} : \E b0, b1 \in Count :
       /\ Reached(o, 2 * k, seenEop[o][k][0], p, b0, a0)
       /\ Reached(o, 2 * k + 1, seenEop[o][k][1], p, b1, a1)
       /\ z = <<p, Plus(b0, b1)>>

\* The trees have been read up to a[o], and that is what has been given.
GivenRight(a) ==
  /\ \E o \in Outputs : ~eop[o]
  /\ \E h \in [Outputs -> Count] :
       /\ \A o \in Outputs : Reached(o, 1, eop[o], Len(given), h[o], a[o])
       /\ \A i \in Lanes : Words(given[Len(given)], Len(given))[i] = h[Out(i)][i]

\* How far every pipe has been read and written.
Streams(rd, wr) ==
  /\ \A o \in Outputs, n \in Pipes : PipeRight(o, n, rd[o][n], wr[o][n])
  /\ \A i \in Lanes : LaneRight(i, wr[Out(i)][Leaf(i)])
  /\ \A o \in Outputs, k \in Kernels :
       KernelRight(o, k, rd[o][2 * k], rd[o][2 * k + 1], wr[o][k])
  /\ GivenRight([o \in Outputs |-> rd[o][1]])

Table == [Outputs -> [Pipes -> Place]]

IInv == Shape /\ \E rd, wr \in Table : Streams(rd, wr)

-----------------------------------------------------------------------------
(***************************************************************************)
(* Counts and shares.                                                      *)
(***************************************************************************)
LEMMA CountTypes ==
  ASSUME NEW b \in Count, NEW c \in Count, NEW word
  PROVE  /\ NoWords \in Count /\ Plus(b, c) \in Count /\ Only(word) \in Count
         /\ Plus(b, NoWords) = b /\ Plus(b, Only(Empty)) = b
         /\ Below(NoWords, b) /\ Below(b, b)
<1>1. NoWords \in Count /\ Plus(b, c) \in Count /\ Only(word) \in Count
  BY DEF Count, NoWords, Plus, Only
<1>2. Below(NoWords, b) /\ Below(b, b)
  BY DEF Count, NoWords, Below
<1>3. b = [i \in Lanes |-> b[i]] /\ \A i \in Lanes : b[i] \in Nat
  BY DEF Count
<1>4. Plus(b, NoWords) = b
  BY <1>3 DEF Plus, NoWords
<1>5. Plus(b, Only(Empty)) = b
  BY <1>3 DEF Plus, Only
<1>. QED
  BY <1>1, <1>2, <1>4, <1>5

LEMMA PlusOrder ==
  ASSUME NEW b \in Count, NEW c \in Count, NEW d \in Count, NEW e \in Count
  PROVE  /\ Below(b, d) /\ Below(c, e) => Below(Plus(b, c), Plus(d, e))
         /\ Plus(b, c) = Plus(c, b)
         /\ Plus(Plus(b, c), d) = Plus(Plus(b, d), c)
<1>1. \A i \in Lanes : b[i] \in Nat /\ c[i] \in Nat /\ d[i] \in Nat /\ e[i] \in Nat
  BY DEF Count
<1>2. Below(b, d) /\ Below(c, e) => Below(Plus(b, c), Plus(d, e))
  BY <1>1 DEF Below, Plus
<1>3. Plus(b, c) = Plus(c, b)
  BY <1>1 DEF Plus
<1>4. Plus(Plus(b, c), d) = Plus(Plus(b, d), c)
  <2>1. \A i \in Lanes : Plus(Plus(b, c), d)[i] = Plus(Plus(b, d), c)[i]
    BY <1>1 DEF Plus
  <2>. QED
    BY <2>1 DEF Plus
<1>. QED
  BY <1>2, <1>3, <1>4

LEMMA ShareType ==
  ASSUME Shape, NEW o, NEW n, NEW p \in 1 .. Len(taken)
  PROVE  Share(o, n, p) \in Count
<1>1. Words(taken[p], p) \in Count
  BY WordsType DEF Shape
<1>. QED
  BY <1>1 DEF Share, Count

\* What goes through a kernel's inputs goes through its output.
LEMMA ShareSplit ==
  ASSUME NEW o \in Outputs, NEW k \in Kernels, NEW p \in 1 .. Len(taken), Shape
  PROVE  Share(o, k, p) = Plus(Share(o, 2 * k, p), Share(o, 2 * k + 1, p))
<1>1. ASSUME NEW i \in Lanes
      PROVE  Share(o, k, p)[i] = Plus(Share(o, 2 * k, p), Share(o, 2 * k + 1, p))[i]
  <2> DEFINE w == Words(taken[p], p)[i]
  <2>1. w \in Nat
    <3>1. taken[p] \in PacketBag(p)
      BY DEF Shape
    <3>2. Words(taken[p], p) \in Count
      BY <3>1, WordsType
    <3>. QED
      BY <3>2 DEF Count
  <2>. HIDE DEF w
  <2>2. /\ k \in Up(Leaf(i)) <=> 2 * k \in Up(Leaf(i)) \/ 2 * k + 1 \in Up(Leaf(i))
        /\ ~(2 * k \in Up(Leaf(i)) /\ 2 * k + 1 \in Up(Leaf(i)))
    BY LaneAt, HeapSplit
  <2>3. \A n : Share(o, n, p)[i] = IF Out(i) = o /\ n \in Up(Leaf(i)) THEN w ELSE 0
    BY DEF Share, w
  <2>4. Plus(Share(o, 2 * k, p), Share(o, 2 * k + 1, p))[i]
          = Share(o, 2 * k, p)[i] + Share(o, 2 * k + 1, p)[i]
    BY DEF Plus
  <2>. QED
    BY <2>1, <2>2, <2>3, <2>4
<1>. QED
  BY <1>1 DEF Share, Plus

\* All the words of an output's lanes go through its root.
LEMMA ShareRoot ==
  ASSUME NEW o \in Outputs, NEW p, NEW i \in Lanes
  PROVE  Share(o, 1, p)[i] = IF Out(i) = o THEN Words(taken[p], p)[i] ELSE 0
<1>1. 1 \in Up(Leaf(i))
  BY LaneAt, UpRoot
<1>. QED
  BY <1>1 DEF Share

\* Only its own lane's words go through a lane's pipe.
LEMMA ShareLeaf ==
  ASSUME NEW i \in Lanes, NEW p, NEW j \in Lanes
  PROVE  Share(Out(i), Leaf(i), p)[j] = IF j = i THEN Words(taken[p], p)[i] ELSE 0
<1>1. Out(j) = Out(i) /\ Leaf(i) \in Up(Leaf(j)) <=> j = i
  BY LaneAt, HeapLeaf
<1>. QED
  BY <1>1 DEF Share

\* What depends only on the packets taken in is as it was while none comes.
LEMMA SameTaken ==
  ASSUME taken' = taken
  PROVE  /\ \A o, n, p : Share(o, n, p)' = Share(o, n, p)
         /\ \A o, n, seen, p, b, at :
              Reached(o, n, seen, p, b, at)' <=> Reached(o, n, seen, p, b, at)
         /\ \A o, n : Links(o, n)' = Links(o, n)
         /\ \A i : LaneEnd(i)' = LaneEnd(i)
<1>1. \A o, n, p : Share(o, n, p)' = Share(o, n, p)
  BY DEF Share, Words
<1>2. \A o, n, seen, p, b, at :
        Reached(o, n, seen, p, b, at)' <=> Reached(o, n, seen, p, b, at)
  BY <1>1 DEF Reached
<1>3. \A o, n : Links(o, n)' = Links(o, n)
  BY <1>1, <1>2 DEF Links, Belongs
<1>4. \A i : LaneEnd(i)' = LaneEnd(i)
  BY <1>1 DEF LaneEnd
<1>. QED
  BY <1>1, <1>2, <1>3, <1>4

-----------------------------------------------------------------------------
(***************************************************************************)
(* Reading.                                                                *)
(***************************************************************************)
\* What the first flit of a pipe tells: its word belongs there, the words read
\* with it are owed, and the pipe leads on from the place that it reaches.
LEMMA ReadPipe ==
  ASSUME Shape, NEW o \in Outputs, NEW n \in Pipes, pipe[o][n] # << >>,
         NEW a, NEW z, PipeRight(o, n, a, z),
         NEW f, f = Head(pipe[o][n]), NEW all, all = Plus(a[2], Only(f.word))
  PROVE  /\ f \in Flit /\ all \in Count /\ Belongs(f.word, o, n, a[1])
         /\ Below(all, Share(o, n, a[1]))
         /\ \E r \in Place : /\ Reached(o, n, f.eop, a[1], all, r)
                             /\ r[1] <= Len(taken) /\ Below(r[2], Share(o, n, r[1]))
                             /\ Path(Tail(pipe[o][n]), r, z, Links(o, n))
<1>1. pipe[o][n] \in Seq(Flit) /\ Path(pipe[o][n], a, z, Links(o, n))
  BY DEF Shape, PipeRight
<1>2. PICK r : <<a, f, r>> \in Links(o, n) /\ Path(Tail(pipe[o][n]), r, z, Links(o, n))
  BY <1>1, PathTail
<1>3. /\ a \in Place /\ f \in Flit /\ r \in Place
      /\ Belongs(f.word, o, n, a[1]) /\ Below(all, Share(o, n, a[1]))
      /\ Reached(o, n, f.eop, a[1], all, r)
  BY <1>2 DEF Links
<1>4. a[1] \in Nat \ {0} /\ a[2] \in Count /\ all \in Count /\ Len(taken) \in Nat
  <2>1. a[1] \in Nat \ {0} /\ a[2] \in Count
    BY <1>3 DEF Place
  <2>2. Only(f.word) \in Count
    BY <2>1, CountTypes
  <2>3. all \in Count
    BY <2>1, <2>2, CountTypes
  <2>. QED
    BY <2>1, <2>3 DEF Shape
<1>5. r[1] <= Len(taken) /\ Below(r[2], Share(o, n, r[1]))
  <2>1. CASE f.eop
    <3>1. r = <<a[1] + 1, NoWords>> /\ a[1] < Len(taken)
      BY <1>3, <2>1 DEF Reached
    <3>2. a[1] + 1 \in 1 .. Len(taken)
      BY <1>4, <3>1
    <3>3. Share(o, n, a[1] + 1) \in Count
      BY <3>2, ShareType
    <3>4. Below(NoWords, Share(o, n, a[1] + 1))
      BY <1>4, <3>3, CountTypes
    <3>5. r[1] = a[1] + 1 /\ r[2] = NoWords
      BY <3>1
    <3>. QED
      BY <3>2, <3>4, <3>5
  <2>2. CASE ~f.eop
    BY <1>3, <2>2 DEF Reached
  <2>. QED
    BY <2>1, <2>2
<1>. QED
  BY <1>2, <1>3, <1>4, <1>5

-----------------------------------------------------------------------------
(***************************************************************************)
(* compact_2to1.                                                           *)
(***************************************************************************)
\* A kernel's iteration reads one input up to r, and writes its output up to w,
\* if at all.
LEMMA CompactPlaces ==
  ASSUME Shape, NEW rd \in Table, NEW wr \in Table, Streams(rd, wr),
         NEW o \in Outputs, NEW k \in Kernels, Compact(o, k),
         NEW i, i = (IF Readable(o, k, 0) THEN 0 ELSE 1), NEW x, x = 2 * k + i
  PROVE  /\ i \in {0, 1} /\ x \in Pipes
         /\ \E r, w \in Place :
              /\ PipeRight(o, x, r, wr[o][x])'
              /\ PipeRight(o, k, rd[o][k], w)'
              /\ KernelRight(o, k, [rd[o] EXCEPT ![x] = r][2 * k],
                                   [rd[o] EXCEPT ![x] = r][2 * k + 1], w)'
<1> DEFINE j    == IF i = 0 THEN 1 ELSE 0
           y    == 2 * k + j
           s    == pipe[o][x]
           f    == Head(s)
           seen == [seenEop[o][k] EXCEPT ![i] = f.eop]
           both == BothSeen(seen)
<1>1. /\ i \in {0, 1} /\ j \in {0, 1} /\ i # j /\ k \in Nat
      /\ x \in Pipes /\ y \in Pipes /\ k \in Pipes /\ x # k /\ y # k /\ x # y
      /\ \/ i = 0 /\ j = 1 /\ x = 2 * k /\ y = 2 * k + 1
         \/ i = 1 /\ j = 0 /\ x = 2 * k + 1 /\ y = 2 * k
  <2>1. /\ Group \in Nat /\ k \in Nat \ {0} /\ k < Group
    BY CompactorAssumption DEF Kernels
  <2>2. (i = 0 /\ j = 1) \/ (i = 1 /\ j = 0)
    OBVIOUS
  <2>3. k <= 2 * Group - 1 /\ 2 * k <= 2 * Group - 1 /\ 2 * k + 1 <= 2 * Group - 1
    BY <2>1
  <2>4. k \in Pipes /\ 2 * k \in Pipes /\ 2 * k + 1 \in Pipes
    BY <2>1, <2>3 DEF Pipes
  <2>5. CASE i = 0 /\ j = 1
    <3>1. x = 2 * k /\ y = 2 * k + 1
      BY <2>1, <2>5
    <3>2. x # k /\ y # k /\ x # y
      BY <2>1, <3>1
    <3>. QED
      BY <2>1, <2>4, <2>5, <3>1, <3>2
  <2>6. CASE i = 1 /\ j = 0
    <3>1. x = 2 * k + 1 /\ y = 2 * k
      BY <2>1, <2>6
    <3>2. x # k /\ y # k /\ x # y
      BY <2>1, <3>1
    <3>. QED
      BY <2>1, <2>4, <2>6, <3>1, <3>2
  <2>. QED
    BY <2>2, <2>5, <2>6
<1>2. s # << >> /\ ~seenEop[o][k][i] /\ s \in Seq(Flit)
  <2>1. Readable(o, k, i)
    BY DEF Compact
  <2>2. pipe[o][x] # << >> /\ ~seenEop[o][k][i]
    BY <2>1 DEF Readable
  <2>. QED
    BY <1>1, <2>2 DEF Shape
<1>3. /\ pipe[o][k] \in Seq(Flit) /\ seenEop[o][k] \in [{0, 1} -> BOOLEAN]
      /\ taken' = taken /\ Len(taken) \in Nat
  <2>1. taken' = taken
    BY DEF Compact
  <2>. QED
    BY <1>1, <2>1 DEF Shape
<1>4. /\ PipeRight(o, x, rd[o][x], wr[o][x]) /\ PipeRight(o, y, rd[o][y], wr[o][y])
      /\ PipeRight(o, k, rd[o][k], wr[o][k])
      /\ KernelRight(o, k, rd[o][2 * k], rd[o][2 * k + 1], wr[o][k])
  BY <1>1 DEF Streams
<1>5. PICK p \in Nat \ {0}, b \in Count, c \in Count :
        /\ Reached(o, x, seenEop[o][k][i], p, b, rd[o][x])
        /\ Reached(o, y, seenEop[o][k][j], p, c, rd[o][y])
        /\ wr[o][k] = <<p, Plus(b, c)>>
  <2>1. PICK p \in Nat \ {0}, b0 \in Count, b1 \in Count :
          /\ Reached(o, 2 * k, seenEop[o][k][0], p, b0, rd[o][2 * k])
          /\ Reached(o, 2 * k + 1, seenEop[o][k][1], p, b1, rd[o][2 * k + 1])
          /\ wr[o][k] = <<p, Plus(b0, b1)>>
    BY <1>4 DEF KernelRight
  <2>2. Plus(b0, b1) = Plus(b1, b0)
    BY PlusOrder
  <2>. QED
    BY <1>1, <2>1, <2>2
<1>6. rd[o][x] = <<p, b>> /\ p \in 1 .. Len(taken)
  BY <1>2, <1>3, <1>5 DEF Reached
<1> DEFINE all == Plus(b, Only(f.word))
<1>7. /\ f \in Flit /\ all \in Count /\ Belongs(f.word, o, x, p)
      /\ Below(all, Share(o, x, p))
      /\ \E r \in Place : /\ Reached(o, x, f.eop, p, all, r)
                          /\ r[1] <= Len(taken) /\ Below(r[2], Share(o, x, r[1]))
                          /\ Path(Tail(s), r, wr[o][x], Links(o, x))
  <2>1. PICK e, a, t : e = f /\ a = rd[o][x] /\ t = Plus(a[2], Only(e.word))
    OBVIOUS
  <2>2. a[1] = p /\ a[2] = b /\ t = all
    BY <1>6, <2>1
  <2>3. /\ o \in Outputs /\ x \in Pipes /\ pipe[o][x] # << >> /\ e = Head(pipe[o][x])
        /\ PipeRight(o, x, a, wr[o][x]) /\ t = Plus(a[2], Only(e.word))
    BY <1>1, <1>2, <1>4, <2>1
  <2>4. /\ e \in Flit /\ t \in Count /\ Belongs(e.word, o, x, a[1])
        /\ Below(t, Share(o, x, a[1]))
        /\ \E r \in Place : /\ Reached(o, x, e.eop, a[1], t, r)
                            /\ r[1] <= Len(taken) /\ Below(r[2], Share(o, x, r[1]))
                            /\ Path(Tail(s), r, wr[o][x], Links(o, x))
    BY <2>3, ReadPipe
  <2>. QED
    BY <2>1, <2>2, <2>4
<1>8. PICK r \in Place : /\ Reached(o, x, f.eop, p, all, r)
                         /\ r[1] <= Len(taken) /\ Below(r[2], Share(o, x, r[1]))
                         /\ Path(Tail(s), r, wr[o][x], Links(o, x))
  BY <1>7
<1>9. Below(c, Share(o, y, p))
  <2>1. CASE seenEop[o][k][j]
    <3>1. c = Share(o, y, p)
      BY <1>5, <2>1 DEF Reached
    <3>2. Below(c, c)
      BY <1>5, CountTypes
    <3>. QED
      BY <3>1, <3>2
  <2>2. CASE ~seenEop[o][k][j]
    <3>1. rd[o][y] = <<p, c>>
      BY <1>5, <2>2 DEF Reached
    <3>. QED
      BY <1>4, <3>1 DEF PipeRight
  <2>. QED
    BY <2>1, <2>2
<1> DEFINE g == [f EXCEPT !.eop = both]
<1>10. /\ seen[i] = f.eop /\ seen[j] = seenEop[o][k][j]
       /\ seen \in [{0, 1} -> BOOLEAN] /\ both \in BOOLEAN
       /\ both <=> f.eop /\ seenEop[o][k][j]
  <2>1. f.eop \in BOOLEAN
    BY <1>7 DEF Flit
  <2>2. seen[i] = f.eop /\ seen[j] = seenEop[o][k][j] /\ seen \in [{0, 1} -> BOOLEAN]
    BY <1>1, <1>3, <2>1
  <2>. QED
    BY <1>1, <2>2 DEF BothSeen
<1>11. g \in Flit /\ g.word = f.word /\ g.eop = both
  BY <1>7, <1>10 DEF Flit
<1>12. PICK w \in Place : w = IF both THEN <<p + 1, NoWords>> ELSE <<p, Plus(all, c)>>
  <2>1. Plus(all, c) \in Count /\ NoWords \in Count
    BY <1>5, <1>7, CountTypes
  <2>. HIDE DEF all
  <2>2. <<p + 1, NoWords>> \in Place /\ <<p, Plus(all, c)>> \in Place
    BY <1>5, <2>1 DEF Place
  <2>. QED
    BY <2>2
<1>13. both => p < Len(taken) /\ Plus(all, c) = Share(o, k, p)
  <2>. SUFFICES ASSUME both
                PROVE  p < Len(taken) /\ Plus(all, c) = Share(o, k, p)
    OBVIOUS
  <2>1. p < Len(taken) /\ all = Share(o, x, p) /\ c = Share(o, y, p)
    BY <1>5, <1>8, <1>10 DEF Reached
  <2>2. Share(o, k, p) = Plus(Share(o, 2 * k, p), Share(o, 2 * k + 1, p))
    BY <1>6, ShareSplit
  <2>3. Share(o, x, p) \in Count /\ Share(o, y, p) \in Count
    BY <1>6, ShareType
  <2>4. Plus(Share(o, x, p), Share(o, y, p)) = Plus(Share(o, y, p), Share(o, x, p))
    BY <2>3, PlusOrder
  <2>. QED
    BY <1>1, <2>1, <2>2, <2>4
<1>. HIDE DEF both, seen, g
<1>14. <<wr[o][k], g, w>> \in Links(o, k)
  <2>1. Belongs(g.word, o, k, p)
    <3>1. ASSUME g.word # Empty
          PROVE  k \in Up(Leaf(f.word[2]))
      <4>1. f.word[2] \in Lanes /\ x \in Up(Leaf(f.word[2]))
        BY <1>7, <1>11, <3>1 DEF Belongs
      <4>2. Leaf(f.word[2]) \in Pipes /\ Leaf(f.word[2]) >= Group
        BY <4>1, LaneAt
      <4>3. x = 2 * k \/ x = 2 * k + 1
        BY <1>1
      <4>. QED
        BY <4>1, <4>2, <4>3, HeapSplit
    <3>. QED
      BY <1>7, <1>11, <3>1 DEF Belongs
  <2>2. Plus(Plus(b, c), Only(g.word)) = Plus(all, c)
    <3>1. PICK d \in Count : d = Only(f.word)
      BY <1>5, CountTypes
    <3>2. Plus(Plus(b, c), d) = Plus(Plus(b, d), c)
      BY <1>5, PlusOrder
    <3>. QED
      BY <1>11, <3>1, <3>2
  <2>3. Below(Plus(all, c), Share(o, k, p))
    <3>1. PICK a \in Count, d \in Count, e \in Count :
            a = all /\ d = Share(o, x, p) /\ e = Share(o, y, p)
      BY <1>6, <1>7, ShareType
    <3>2. Below(a, d) /\ Below(c, e)
      BY <1>7, <1>9, <3>1
    <3>3. Below(Plus(a, c), Plus(d, e)) /\ Plus(d, e) = Plus(e, d)
      BY <1>5, <3>2, PlusOrder
    <3>4. Share(o, k, p) = Plus(Share(o, 2 * k, p), Share(o, 2 * k + 1, p))
      BY <1>6, ShareSplit
    <3>. QED
      BY <1>1, <3>1, <3>3, <3>4
  <2>4. Reached(o, k, g.eop, p, Plus(all, c), w)
    BY <1>6, <1>11, <1>12, <1>13 DEF Reached
  <2>5. wr[o][k] \in Place /\ wr[o][k][1] = p /\ wr[o][k][2] = Plus(b, c)
    <3>1. wr[o][k] \in Place
      BY <1>1 DEF Table
    <3>. QED
      BY <1>5, <3>1
  <2>. QED
    BY <1>11, <1>12, <2>1, <2>2, <2>3, <2>4, <2>5 DEF Links
<1>15. ~Writes(f, both) => w = wr[o][k]
  BY <1>5, <1>12, CountTypes DEF Writes
<1>16. /\ \A q, n, a : Links(q, n)' = Links(q, n) /\ Share(q, n, a)' = Share(q, n, a)
       /\ \A q, n, e, a, d, at : Reached(q, n, e, a, d, at)' <=> Reached(q, n, e, a, d, at)
  BY <1>3, SameTaken
<1>17. /\ pipe'[o][x] = Tail(s)
       /\ pipe'[o][k] = IF Writes(f, both) THEN Append(pipe[o][k], g) ELSE pipe[o][k]
       /\ seenEop'[o][k] = IF both THEN [m \in {0, 1} |-> FALSE] ELSE seen
  <2>. HIDE DEF j
  <2>1. pipe \in [Outputs -> [Pipes -> Seq(Flit)]]
    BY DEF Shape
  <2>2. DOMAIN seenEop = Outputs /\ DOMAIN seenEop[o] = Kernels
    BY DEF Shape
  <2>3. seenEop' = [seenEop EXCEPT ![o][k] = IF both THEN [m \in {0, 1} |-> FALSE] ELSE seen]
    BY DEF Compact, both, seen
  <2>4. \/ /\ Writes(f, both)
           /\ pipe' = [[pipe EXCEPT ![o][x] = Tail(@)] EXCEPT ![o][k] = Append(@, g)]
        \/ ~Writes(f, both) /\ pipe' = [pipe EXCEPT ![o][x] = Tail(@)]
    BY DEF Compact, both, seen, g
  <2>5. seenEop'[o][k] = IF both THEN [m \in {0, 1} |-> FALSE] ELSE seen
    BY <2>2, <2>3
  <2>. QED
    BY <1>1, <2>1, <2>4, <2>5
<1>18. PipeRight(o, x, r, wr[o][x])'
  BY <1>3, <1>8, <1>16, <1>17 DEF PipeRight
<1>19. PipeRight(o, k, rd[o][k], w)'
  <2>1. Path(pipe[o][k], rd[o][k], wr[o][k], Links(o, k))
    BY <1>4 DEF PipeRight
  <2>2. Path(Append(pipe[o][k], g), rd[o][k], w, Links(o, k))
    BY <1>3, <1>11, <1>14, <2>1, PathAppend
  <2>3. Path(pipe'[o][k], rd[o][k], w, Links(o, k))
    BY <1>15, <1>17, <2>1, <2>2
  <2>. QED
    BY <1>3, <1>4, <1>16, <2>3 DEF PipeRight
<1>20. KernelRight(o, k, [rd[o] EXCEPT ![x] = r][2 * k],
                         [rd[o] EXCEPT ![x] = r][2 * k + 1], w)'
  <2> DEFINE a == [rd[o] EXCEPT ![x] = r]
  <2>1. a[x] = r /\ a[y] = rd[o][y]
    BY <1>1 DEF Table
  <2>2. /\ ~BothSeen(seenEop'[o][k])
        /\ \E q \in Nat \ {0} : \E d, e \in Count :
             /\ Reached(o, x, seenEop'[o][k][i], q, d, a[x])
             /\ Reached(o, y, seenEop'[o][k][j], q, e, a[y])
             /\ w = <<q, Plus(d, e)>>
    <3>1. CASE both
      <4>1. /\ ~seenEop'[o][k][0] /\ ~seenEop'[o][k][1]
            /\ ~seenEop'[o][k][i] /\ ~seenEop'[o][k][j]
        BY <1>1, <1>17, <3>1
      <4>2. p < Len(taken) /\ r = <<p + 1, NoWords>> /\ rd[o][y] = <<p + 1, NoWords>>
        BY <1>5, <1>8, <1>10, <3>1 DEF Reached
      <4>3. w = <<p + 1, Plus(NoWords, NoWords)>> /\ NoWords \in Count
        BY <1>12, <3>1, <1>5, CountTypes
      <4>4. p + 1 \in Nat \ {0} /\ p + 1 <= Len(taken)
        BY <1>3, <4>2
      <4>5. /\ Reached(o, x, seenEop'[o][k][i], p + 1, NoWords, a[x])
            /\ Reached(o, y, seenEop'[o][k][j], p + 1, NoWords, a[y])
        BY <2>1, <4>1, <4>2, <4>4 DEF Reached
      <4>. QED
        BY <4>1, <4>3, <4>4, <4>5 DEF BothSeen
    <3>2. CASE ~both
      <4>1. ~BothSeen(seenEop'[o][k])
        BY <1>17, <3>2 DEF both
      <4>2. seenEop'[o][k][i] = f.eop /\ seenEop'[o][k][j] = seenEop[o][k][j]
        BY <1>10, <1>17, <3>2
      <4>3. w = <<p, Plus(all, c)>>
        BY <1>12, <3>2
      <4>. QED
        BY <1>5, <1>7, <1>8, <2>1, <4>1, <4>2, <4>3
    <3>. QED
      BY <3>1, <3>2
  <2>3. /\ ~BothSeen(seenEop'[o][k])
        /\ \E q \in Nat \ {0} : \E d, e \in Count :
             /\ Reached(o, 2 * k, seenEop'[o][k][0], q, d, a[2 * k])
             /\ Reached(o, 2 * k + 1, seenEop'[o][k][1], q, e, a[2 * k + 1])
             /\ w = <<q, Plus(d, e)>>
    <3>1. \A d, e \in Count : Plus(d, e) = Plus(e, d)
      BY PlusOrder
    <3>. QED
      BY <1>1, <2>2, <3>1
  <2>. QED
    BY <1>16, <2>3 DEF KernelRight
<1>. QED
  BY <1>1, <1>8, <1>12, <1>18, <1>19, <1>20

LEMMA TableSet ==
  ASSUME NEW t \in Table, NEW o \in Outputs, NEW n \in Pipes, NEW at \in Place
  PROVE  \E u \in Table : /\ u[o] = [t[o] EXCEPT ![n] = at]
                          /\ u[o][n] = at
                          /\ \A q \in Outputs, m \in Pipes :
                               q # o \/ m # n => u[q][m] = t[q][m]
<1> DEFINE u == [t EXCEPT ![o] = [t[o] EXCEPT ![n] = at]]
<1>1. t[o] \in [Pipes -> Place]
  BY DEF Table
<1>2. [t[o] EXCEPT ![n] = at] \in [Pipes -> Place]
  BY <1>1
<1>3. u \in Table /\ u[o] = [t[o] EXCEPT ![n] = at]
  BY <1>2 DEF Table
<1>4. ASSUME NEW q \in Outputs, NEW m \in Pipes, q # o \/ m # n
      PROVE  u[q][m] = t[q][m]
  <2>1. CASE q = o
    BY <1>1, <1>3, <1>4, <2>1
  <2>2. CASE q # o
    BY <2>2 DEF Table
  <2>. QED
    BY <2>1, <2>2
<1>5. u[o][n] = at
  BY <1>1, <1>3
<1>. QED
  BY <1>3, <1>4, <1>5

LEMMA CompactStreams ==
  ASSUME Shape, NEW rd \in Table, NEW wr \in Table, Streams(rd, wr),
         NEW o \in Outputs, NEW k \in Kernels, Compact(o, k)
  PROVE  \E u, v \in Table : Streams(u, v)'
<1>1. PICK i : i = IF Readable(o, k, 0) THEN 0 ELSE 1
  OBVIOUS
<1>2. PICK x : x = 2 * k + i
  OBVIOUS
<1>3. /\ i \in {0, 1} /\ x \in Pipes
      /\ \E r, w \in Place :
           /\ PipeRight(o, x, r, wr[o][x])'
           /\ PipeRight(o, k, rd[o][k], w)'
           /\ KernelRight(o, k, [rd[o] EXCEPT ![x] = r][2 * k],
                                [rd[o] EXCEPT ![x] = r][2 * k + 1], w)'
  BY <1>1, <1>2, CompactPlaces
<1>4. PICK r \in Place, w \in Place :
        /\ PipeRight(o, x, r, wr[o][x])'
        /\ PipeRight(o, k, rd[o][k], w)'
        /\ KernelRight(o, k, [rd[o] EXCEPT ![x] = r][2 * k],
                             [rd[o] EXCEPT ![x] = r][2 * k + 1], w)'
  BY <1>3
<1>5. /\ Group \in Nat /\ k \in Nat \ {0} /\ k < Group /\ k \in Pipes
      /\ Kernels \subseteq Pipes /\ Kernels \subseteq Nat \ {0}
      /\ x = 2 * k \/ x = 2 * k + 1
      /\ \A m \in Kernels : 2 * m \in Pipes /\ 2 * m + 1 \in Pipes
      /\ 1 \in Pipes /\ x # 1 /\ x # k
  BY <1>2, <1>3, CompactorAssumption DEF Kernels, Pipes
<1>6. PICK u \in Table : /\ u[o] = [rd[o] EXCEPT ![x] = r] /\ u[o][x] = r
                         /\ \A q \in Outputs, m \in Pipes :
                              q # o \/ m # x => u[q][m] = rd[q][m]
  BY <1>3, TableSet
<1>7. PICK v \in Table : /\ v[o] = [wr[o] EXCEPT ![k] = w] /\ v[o][k] = w
                         /\ \A q \in Outputs, m \in Pipes :
                              q # o \/ m # k => v[q][m] = wr[q][m]
  BY <1>5, TableSet
<1>8. /\ taken' = taken /\ wide' = wide /\ todo' = todo /\ eop' = eop /\ given' = given
      /\ \A q \in Outputs, n \in Pipes :
           q # o \/ (n # x /\ n # k) => pipe'[q][n] = pipe[q][n]
      /\ \A q \in Outputs, m \in Kernels :
           q # o \/ m # k => seenEop'[q][m] = seenEop[q][m]
  <2> DEFINE f    == Head(pipe[o][x])
             seen == [seenEop[o][k] EXCEPT ![i] = f.eop]
             both == BothSeen(seen)
             g    == [f EXCEPT !.eop = both]
  <2>1. /\ taken' = taken /\ wide' = wide /\ todo' = todo /\ eop' = eop /\ given' = given
    BY DEF Compact
  <2>2. \/ pipe' = [[pipe EXCEPT ![o][x] = Tail(@)] EXCEPT ![o][k] = Append(@, g)]
        \/ pipe' = [pipe EXCEPT ![o][x] = Tail(@)]
    BY <1>1, <1>2 DEF Compact
  <2>3. \E e : seenEop' = [seenEop EXCEPT ![o][k] = e]
    BY <1>1, <1>2 DEF Compact
  <2>4. pipe \in [Outputs -> [Pipes -> Seq(Flit)]]
    BY DEF Shape
  <2>5. DOMAIN seenEop = Outputs /\ \A q \in Outputs : DOMAIN seenEop[q] = Kernels
    BY DEF Shape
  <2>. HIDE DEF g
  <2>6. \A q \in Outputs, n \in Pipes :
          q # o \/ (n # x /\ n # k) => pipe'[q][n] = pipe[q][n]
    <3>1. CASE pipe' = [pipe EXCEPT ![o][x] = Tail(@)]
      BY <2>4, <3>1
    <3>2. CASE pipe' = [[pipe EXCEPT ![o][x] = Tail(@)] EXCEPT ![o][k] = Append(@, g)]
      BY <2>4, <3>2
    <3>. QED
      BY <2>2, <3>1, <3>2
  <2>7. \A q \in Outputs, m \in Kernels : q # o \/ m # k => seenEop'[q][m] = seenEop[q][m]
    BY <2>3, <2>5
  <2>. QED
    BY <2>1, <2>6, <2>7
<1>9. /\ \A q, n, a : Links(q, n)' = Links(q, n) /\ Share(q, n, a)' = Share(q, n, a)
      /\ \A q, n, e, a, d, at : Reached(q, n, e, a, d, at)' <=> Reached(q, n, e, a, d, at)
      /\ \A j : LaneEnd(j)' = LaneEnd(j)
  BY <1>8, SameTaken
<1>10. ASSUME NEW q \in Outputs, NEW n \in Pipes
       PROVE  PipeRight(q, n, u[q][n], v[q][n])'
  <2>1. CASE q = o /\ n = x
    BY <1>4, <1>5, <1>6, <1>7, <2>1
  <2>2. CASE q = o /\ n = k
    BY <1>4, <1>5, <1>6, <1>7, <2>2
  <2>3. CASE q # o \/ (n # x /\ n # k)
    <3>1. u[q][n] = rd[q][n] /\ v[q][n] = wr[q][n] /\ pipe'[q][n] = pipe[q][n]
      BY <1>6, <1>7, <1>8, <2>3
    <3>2. PipeRight(q, n, rd[q][n], wr[q][n])
      BY DEF Streams
    <3>. QED
      BY <1>8, <1>9, <3>1, <3>2 DEF PipeRight
  <2>. QED
    BY <2>1, <2>2, <2>3
<1>11. ASSUME NEW j \in Lanes
       PROVE  LaneRight(j, v[Out(j)][Leaf(j)])'
  <2>1. Out(j) \in Outputs /\ Leaf(j) \in Pipes /\ Leaf(j) # k
    BY <1>5, LaneAt DEF Pipes
  <2>2. v[Out(j)][Leaf(j)] = wr[Out(j)][Leaf(j)]
    BY <1>7, <2>1
  <2>3. LaneRight(j, wr[Out(j)][Leaf(j)])
    BY DEF Streams
  <2>. QED
    BY <1>8, <1>9, <2>2, <2>3 DEF LaneRight, LaneWrite
<1>12. ASSUME NEW q \in Outputs, NEW m \in Kernels
       PROVE  KernelRight(q, m, u[q][2 * m], u[q][2 * m + 1], v[q][m])'
  <2>1. CASE q = o /\ m = k
    BY <1>4, <1>6, <1>7, <2>1
  <2>2. CASE q # o \/ m # k
    <3>1. q # o \/ (2 * m # x /\ 2 * m + 1 # x)
      BY <1>5, <2>2
    <3>2. /\ u[q][2 * m] = rd[q][2 * m] /\ u[q][2 * m + 1] = rd[q][2 * m + 1]
          /\ v[q][m] = wr[q][m] /\ seenEop'[q][m] = seenEop[q][m]
      BY <1>5, <1>6, <1>7, <1>8, <2>2, <3>1
    <3>3. KernelRight(q, m, rd[q][2 * m], rd[q][2 * m + 1], wr[q][m])
      BY DEF Streams
    <3>. QED
      BY <1>9, <3>2, <3>3 DEF KernelRight
  <2>. QED
    BY <2>1, <2>2
<1>13. GivenRight([q \in Outputs |-> u[q][1]])'
  <2>1. [q \in Outputs |-> u[q][1]] = [q \in Outputs |-> rd[q][1]]
    BY <1>5, <1>6
  <2>2. GivenRight([q \in Outputs |-> rd[q][1]])
    BY DEF Streams
  <2>. QED
    BY <1>8, <1>9, <2>1, <2>2 DEF GivenRight, Words
<1>. QED
  BY <1>10, <1>11, <1>12, <1>13 DEF Streams

-----------------------------------------------------------------------------
(***************************************************************************)
(* Histories.                                                              *)
(***************************************************************************)
\* The bags of PacketStage are those of this module.
LEMMA SameBags ==
  /\ Stage!EmptyBag = EmptyBag
  /\ \A b, c : Stage!(+)(b, c) = b (+) c /\ (Stage!\sqsubseteq(b, c) <=> b \sqsubseteq c)
BY DEF Stage!EmptyBag, Stage!SetToBag, Stage!(+), Stage!\sqsubseteq,
       EmptyBag, SetToBag, (+), \sqsubseteq

\* Words of the packet at hand, the n-th, are added to a history, and perhaps
\* its end.
HistoryGrown(h, g, n, W, last) ==
  /\ g \in Seq(UNION {PacketBag(p) : p \in Nat}) /\ g # << >>
  /\ Len(g) = IF last THEN n + 1 ELSE n
  /\ \A p \in 1 .. Len(g) : g[p] \in PacketBag(p)
  /\ \A p \in 1 .. n - 1 : g[p] = h[p]
  /\ \A i \in Lanes : Words(g[n], n)[i] = Words(h[n], n)[i] + (IF <<n, i>> \in W THEN 1 ELSE 0)
  /\ last => Words(g[n + 1], n + 1) = NoWords
  /\ Stage!Grows(h, g)

LEMMA HistoryAdd ==
  ASSUME NEW h \in Seq(UNION {PacketBag(p) : p \in Nat}), h # << >>,
         \A p \in 1 .. Len(h) : h[p] \in PacketBag(p),
         NEW n, n = Len(h), NEW W \in SUBSET ({n} \X Lanes), NEW last \in BOOLEAN,
         NEW g, g = Stage!Add(h, SetToBag(W), last)
  PROVE  HistoryGrown(h, g, n, W, last)
<1> DEFINE Bags == UNION {PacketBag(p) : p \in Nat}
           b == h[n] (+) SetToBag(W)
           e == [h EXCEPT ![n] = b]
<1>1. n \in Nat \ {0} /\ n \in 1 .. n
  OBVIOUS
<1>2. /\ b \in PacketBag(n) /\ h[n] \sqsubseteq b
      /\ \A i \in Lanes : Words(b, n)[i] = Words(h[n], n)[i] + (IF <<n, i>> \in W THEN 1 ELSE 0)
  <2>1. h[n] \in PacketBag(n)
    BY <1>1
  <2>. QED
    BY <2>1, BagAdd
<1>3. b \in Bags /\ EmptyBag \in Bags
  BY <1>1, <1>2, EmptyPacketBag
<1>. HIDE DEF Bags, b
<1>4. e \in Seq(Bags) /\ Len(e) = n /\ e[n] = b /\ \A p \in 1 .. n - 1 : e[p] = h[p]
  BY <1>1, <1>3 DEF Bags
<1>5. g = IF last THEN Append(e, EmptyBag) ELSE e
  BY SameBags DEF Stage!Add, b
<1>. HIDE DEF e
<1>6. /\ g \in Seq(Bags) /\ Len(g) = IF last THEN n + 1 ELSE n
      /\ g[n] = b /\ \A p \in 1 .. n - 1 : g[p] = h[p]
      /\ last => g[n + 1] = EmptyBag
  BY <1>1, <1>3, <1>4, <1>5
<1>7. ASSUME NEW p \in 1 .. Len(g)
      PROVE  g[p] \in PacketBag(p)
  <2>1. p \in 1 .. n - 1 \/ p = n \/ (last /\ p = n + 1)
    BY <1>1, <1>6
  <2>. QED
    BY <1>1, <1>2, <1>6, <2>1, EmptyPacketBag
<1>8. last => Words(g[n + 1], n + 1) = NoWords
  BY <1>6, EmptyPacketBag
<1>9. Stage!Grows(h, g)
  BY <1>1, <1>2, <1>6, SameBags DEF Stage!Grows
<1>10. g # << >>
  BY <1>1, <1>6
<1>. QED
  BY <1>2, <1>6, <1>7, <1>8, <1>9, <1>10 DEF Bags, HistoryGrown

-----------------------------------------------------------------------------
(***************************************************************************)
(* split_pipes.                                                            *)
(***************************************************************************)
\* The lanes are written from the lowest one.
LEMMA LaneAtHand ==
  ASSUME Shape, todo # {}, NEW i, i = CHOOSE j \in todo : \A k \in todo : j <= k
  PROVE  i \in todo /\ i \in Lanes
<1>1. todo \in SUBSET Nat /\ todo \subseteq Lanes
  BY CompactorAssumption DEF Shape, Lanes, FanIn
<1>2. \E j \in todo : \A k \in todo : j <= k
  BY <1>1, Least
<1>. QED
  BY <1>1, <1>2

LEMMA SplitWriteStreams ==
  ASSUME Shape, NEW rd \in Table, NEW wr \in Table, Streams(rd, wr), SplitWrite
  PROVE  \E u, v \in Table : Streams(u, v)'
<1>1. PICK i : i = CHOOSE j \in todo : \A k \in todo : j <= k
  OBVIOUS
<1>2. PICK o, n : o = Out(i) /\ n = Leaf(i)
  OBVIOUS
<1>3. i \in todo /\ i \in Lanes
  BY <1>1, LaneAtHand DEF SplitWrite
<1>4. o \in Outputs /\ n \in Pipes /\ n >= Group
  BY <1>2, <1>3, LaneAt
<1>5. /\ pipe' = [pipe EXCEPT ![o][n] = Append(@, LaneWrite(i))]
      /\ todo' = todo \ {i} /\ taken' = taken /\ wide' = wide /\ eop' = eop
      /\ given' = given /\ seenEop' = seenEop
  BY <1>1, <1>2 DEF SplitWrite, Out, Leaf, LaneWrite
<1>6. /\ pipe \in [Outputs -> [Pipes -> Seq(Flit)]] /\ pipe[o][n] \in Seq(Flit)
      /\ LaneWrite(i) \in Flit
  BY <1>3, <1>4 DEF Shape, LaneWrite, Flit
<1>7. /\ pipe'[o][n] = Append(pipe[o][n], LaneWrite(i))
      /\ \A q \in Outputs, m \in Pipes : q # o \/ m # n => pipe'[q][m] = pipe[q][m]
  BY <1>4, <1>5, <1>6
<1>8. /\ \A q, m, a : Links(q, m)' = Links(q, m) /\ Share(q, m, a)' = Share(q, m, a)
      /\ \A q, m, e, a, d, at : Reached(q, m, e, a, d, at)' <=> Reached(q, m, e, a, d, at)
      /\ \A j : LaneEnd(j)' = LaneEnd(j)
  BY <1>5, SameTaken
<1>9. PICK w \in Place : w = LaneEnd(i) /\ <<wr[o][n], LaneWrite(i), w>> \in Links(o, n)
  <2>1. LaneRight(i, wr[o][n])
    BY <1>2, <1>3 DEF Streams
  <2>2. <<wr[o][n], LaneWrite(i), LaneEnd(i)>> \in Links(o, n)
    BY <1>2, <1>3, <2>1 DEF LaneRight
  <2>. QED
    BY <2>2 DEF Links
<1>10. PICK v \in Table : /\ v[o] = [wr[o] EXCEPT ![n] = w] /\ v[o][n] = w
                          /\ \A q \in Outputs, m \in Pipes :
                               q # o \/ m # n => v[q][m] = wr[q][m]
  BY <1>4, TableSet
<1>11. ASSUME NEW q \in Outputs, NEW m \in Pipes
       PROVE  PipeRight(q, m, rd[q][m], v[q][m])'
  <2>1. PipeRight(q, m, rd[q][m], wr[q][m])
    BY DEF Streams
  <2>2. CASE q = o /\ m = n
    <3>1. Path(pipe[o][n], rd[o][n], wr[o][n], Links(o, n))
      BY <2>1, <2>2 DEF PipeRight
    <3>2. Path(pipe'[o][n], rd[o][n], v[o][n], Links(o, n))
      BY <1>6, <1>7, <1>9, <1>10, <3>1, PathAppend
    <3>. QED
      BY <1>5, <1>8, <2>1, <2>2, <3>2 DEF PipeRight
  <2>3. CASE q # o \/ m # n
    BY <1>5, <1>7, <1>8, <1>10, <2>1, <2>3 DEF PipeRight
  <2>. QED
    BY <2>2, <2>3
<1>12. ASSUME NEW j \in Lanes
       PROVE  LaneRight(j, v[Out(j)][Leaf(j)])'
  <2>1. Out(j) \in Outputs /\ Leaf(j) \in Pipes
    BY LaneAt
  <2>2. LaneRight(j, wr[Out(j)][Leaf(j)])
    BY DEF Streams
  <2>3. CASE j = i
    BY <1>2, <1>5, <1>8, <1>9, <1>10, <2>3 DEF LaneRight
  <2>4. CASE j # i
    <3>1. Out(j) # o \/ Leaf(j) # n
      BY <1>2, <1>3, <2>4, LaneAt
    <3>2. v[Out(j)][Leaf(j)] = wr[Out(j)][Leaf(j)]
      BY <1>10, <2>1, <3>1
    <3>. QED
      BY <1>5, <1>8, <2>2, <2>4, <3>2 DEF LaneRight, LaneWrite
  <2>. QED
    BY <2>3, <2>4
<1>13. ASSUME NEW q \in Outputs, NEW m \in Kernels
       PROVE  KernelRight(q, m, rd[q][2 * m], rd[q][2 * m + 1], v[q][m])'
  <2>1. m \in Pipes /\ m # n
    BY <1>4, CompactorAssumption DEF Kernels, Pipes
  <2>2. v[q][m] = wr[q][m]
    BY <1>10, <2>1
  <2>3. KernelRight(q, m, rd[q][2 * m], rd[q][2 * m + 1], wr[q][m])
    BY DEF Streams
  <2>. QED
    BY <1>5, <1>8, <2>2, <2>3 DEF KernelRight
<1>14. GivenRight([q \in Outputs |-> rd[q][1]])'
  <2>1. GivenRight([q \in Outputs |-> rd[q][1]])
    BY DEF Streams
  <2>. QED
    BY <1>5, <1>8, <2>1 DEF GivenRight, Words
<1>. QED
  BY <1>11, <1>12, <1>13, <1>14 DEF Streams

\* A flit taken in adds its words to what is to go through the pipes of their
\* lanes, and nothing else; n is the packet at hand.
TakenGrown(filled, last, n) ==
  /\ n \in Nat \ {0} /\ n <= MaxFlits /\ filled \subseteq Lanes
  /\ taken' \in Seq(UNION {PacketBag(p) : p \in Nat})
  /\ Len(taken') = IF last THEN n + 1 ELSE n
  /\ \A p \in 1 .. Len(taken') : taken'[p] \in PacketBag(p)
  /\ Stage!Grows(taken, taken')
  /\ \A o, m : \A p \in 1 .. n - 1 : Share(o, m, p)' = Share(o, m, p)
  /\ \A o, m : \A i \in Lanes :
       Share(o, m, n)'[i] = Share(o, m, n)[i]
         + (IF i \in filled /\ Out(i) = o /\ m \in Up(Leaf(i)) THEN 1 ELSE 0)
  /\ last => \A o, m : Share(o, m, n + 1)' = NoWords

LEMMA TakenGrows ==
  ASSUME Shape, NEW filled \in Fills, NEW last \in BOOLEAN, SplitRead(filled, last),
         NEW n, n = Len(taken)
  PROVE  TakenGrown(filled, last, n)
<1> DEFINE W == {wide'.words[i] : i \in filled}
<1>1. /\ filled \subseteq Lanes /\ n \in Nat \ {0} /\ n <= MaxFlits
      /\ taken \in Seq(UNION {PacketBag(p) : p \in Nat}) /\ taken # << >>
      /\ \A p \in 1 .. Len(taken) : taken[p] \in PacketBag(p)
  <2>1. filled \subseteq Lanes
    BY CompactorAssumption DEF Lanes, FanIn
  <2>2. Len(taken) <= flits + 1 /\ flits < MaxFlits /\ flits \in Nat /\ MaxFlits \in Nat
    BY CompactorAssumption DEF Shape, SplitRead
  <2>. QED
    BY <2>1, <2>2 DEF Shape
<1>2. wide'.words = [i \in Lanes |-> IF i \in filled THEN <<n, i>> ELSE Empty]
  BY DEF SplitRead
<1>3. W \in SUBSET ({n} \X Lanes) /\ \A i \in Lanes : <<n, i>> \in W <=> i \in filled
  <2>1. \A i \in filled : wide'.words[i] = <<n, i>>
    BY <1>1, <1>2
  <2>2. W = {<<n, i>> : i \in filled}
    BY <2>1
  <2>. HIDE DEF W
  <2>. QED
    BY <1>1, <2>2
<1>4. taken' = Stage!Add(taken, SetToBag(W), last)
  BY <1>1, <1>2 DEF SplitRead
<1>. HIDE DEF W
<1>5. HistoryGrown(taken, taken', n, W, last)
  BY <1>1, <1>3, <1>4, HistoryAdd
<1>6. ASSUME NEW o, NEW m, NEW p \in 1 .. n - 1
      PROVE  Share(o, m, p)' = Share(o, m, p)
  BY <1>5 DEF Share, Words, HistoryGrown
<1>7. ASSUME NEW o, NEW m, NEW i \in Lanes
      PROVE  Share(o, m, n)'[i] = Share(o, m, n)[i]
               + (IF i \in filled /\ Out(i) = o /\ m \in Up(Leaf(i)) THEN 1 ELSE 0)
  <2>1. /\ Share(o, m, n)'[i] = IF Out(i) = o /\ m \in Up(Leaf(i))
                                 THEN Words(taken'[n], n)[i] ELSE 0
        /\ Share(o, m, n)[i]  = IF Out(i) = o /\ m \in Up(Leaf(i))
                                 THEN Words(taken[n], n)[i] ELSE 0
    BY DEF Share, Words
  <2>2. Words(taken'[n], n)[i] = Words(taken[n], n)[i] + (IF i \in filled THEN 1 ELSE 0)
    BY <1>3, <1>5 DEF HistoryGrown
  <2>. QED
    BY <2>1, <2>2
<1>8. ASSUME last, NEW o, NEW m
      PROVE  Share(o, m, n + 1)' = NoWords
  <2>1. Share(o, m, n + 1)' = [i \in Lanes |-> IF Out(i) = o /\ m \in Up(Leaf(i))
                                                THEN Words(taken'[n + 1], n + 1)[i] ELSE 0]
    BY DEF Share, Words
  <2>. QED
    BY <1>5, <1>8, <2>1 DEF NoWords, HistoryGrown
<1>. QED
  BY <1>1, <1>5, <1>6, <1>7, <1>8 DEF TakenGrown, HistoryGrown

LEMMA SplitReadStreams ==
  ASSUME Shape, NEW rd \in Table, NEW wr \in Table, Streams(rd, wr),
         NEW filled \in Fills, NEW last \in BOOLEAN, SplitRead(filled, last)
  PROVE  \E u, v \in Table : Streams(u, v)'
<1>1. PICK n : n = Len(taken)
  OBVIOUS
<1>2. /\ n \in Nat \ {0} /\ n <= MaxFlits /\ filled \subseteq Lanes
      /\ Len(taken') = IF last THEN n + 1 ELSE n
      /\ \A o, m : \A p \in 1 .. n - 1 : Share(o, m, p)' = Share(o, m, p)
      /\ \A o, m : \A i \in Lanes :
           Share(o, m, n)'[i] = Share(o, m, n)[i]
             + (IF i \in filled /\ Out(i) = o /\ m \in Up(Leaf(i)) THEN 1 ELSE 0)
      /\ last => \A o, m : Share(o, m, n + 1)' = NoWords
  <2>1. TakenGrown(filled, last, n)
    BY <1>1, TakenGrows
  <2>. QED
    BY <2>1 DEF TakenGrown
<1>3. /\ todo = {} /\ todo' = {i \in Lanes : Sends(wide'.words[i], last)}
      /\ wide' = [words |-> [i \in Lanes |-> IF i \in filled THEN <<n, i>> ELSE Empty],
                  eop |-> last]
      /\ pipe' = pipe /\ seenEop' = seenEop /\ eop' = eop /\ given' = given
  BY <1>1 DEF SplitRead
<1>4. ASSUME NEW o, NEW m, NEW p \in 1 .. n
      PROVE  /\ Share(o, m, p) \in Count /\ Share(o, m, p)' \in Count
             /\ Below(Share(o, m, p), Share(o, m, p)')
             /\ p < n => Share(o, m, p)' = Share(o, m, p)
  <2>1. Share(o, m, p) \in Count
    BY <1>1, ShareType
  <2>2. \A i \in Lanes : Share(o, m, p)[i] \in Nat
    BY <2>1 DEF Count
  <2>3. CASE p < n
    <3>1. Share(o, m, p)' = Share(o, m, p)
      BY <1>2, <2>3
    <3>. QED
      BY <2>1, <3>1, CountTypes
  <2>4. CASE p = n
    <3>1. \A i \in Lanes : Share(o, m, n)'[i] \in Nat /\ Share(o, m, n)[i] <= Share(o, m, n)'[i]
      BY <1>2, <2>2, <2>4
    <3>2. Share(o, m, n)' = [i \in Lanes |-> Share(o, m, n)'[i]]
      BY DEF Share
    <3>3. Share(o, m, n)' \in Count
      BY <3>1, <3>2 DEF Count
    <3>. QED
      BY <1>2, <2>1, <2>4, <3>1, <3>3 DEF Below
  <2>. QED
    BY <1>2, <2>3, <2>4
<1>5. ASSUME NEW b \in Count, NEW o, NEW m, NEW p \in 1 .. n, Below(b, Share(o, m, p))
      PROVE  Below(b, Share(o, m, p)')
  BY <1>4, <1>5 DEF Below, Count
<1>6. ASSUME NEW o, NEW m, NEW e, NEW p \in Nat \ {0}, NEW b, NEW at,
             Reached(o, m, e, p, b, at)
      PROVE  Reached(o, m, e, p, b, at)'
  <2>1. CASE e
    <3>1. p < n /\ b = Share(o, m, p) /\ at = <<p + 1, NoWords>>
      BY <1>1, <1>6, <2>1 DEF Reached
    <3>2. p < Len(taken') /\ b = Share(o, m, p)'
      BY <1>2, <3>1
    <3>. QED
      BY <2>1, <3>1, <3>2 DEF Reached
  <2>2. CASE ~e
    <3>1. p <= n /\ at = <<p, b>>
      BY <1>1, <1>6, <2>2 DEF Reached
    <3>2. p <= Len(taken')
      BY <1>2, <3>1
    <3>. QED
      BY <2>2, <3>1, <3>2 DEF Reached
  <2>. QED
    BY <2>1, <2>2
<1>7. ASSUME NEW o, NEW m
      PROVE  Links(o, m) \subseteq Links(o, m)'
  <2> SUFFICES ASSUME NEW l \in Links(o, m)
               PROVE  l \in Links(o, m)'
    OBVIOUS
  <2> DEFINE p   == l[1][1]
             all == Plus(l[1][2], Only(l[2].word))
  <2>1. /\ l \in Place \X Flit \X Place
        /\ Belongs(l[2].word, o, m, p) /\ Below(all, Share(o, m, p))
        /\ Reached(o, m, l[2].eop, p, all, l[3])
    BY DEF Links
  <2>2. p \in Nat \ {0} /\ l[1][2] \in Count
    BY <2>1 DEF Place
  <2>3. all \in Count
    BY <2>2, CountTypes
  <2>4. p \in 1 .. n
    BY <1>1, <2>1, <2>2 DEF Reached
  <2>5. Below(all, Share(o, m, p)')
    BY <1>5, <2>1, <2>3, <2>4
  <2>6. Reached(o, m, l[2].eop, p, all, l[3])'
    BY <1>6, <2>1, <2>2
  <2>. QED
    BY <2>1, <2>5, <2>6 DEF Links, Belongs
<1>8. ASSUME NEW o \in Outputs, NEW m \in Pipes
      PROVE  PipeRight(o, m, rd[o][m], wr[o][m])'
  <2> DEFINE a == rd[o][m]
  <2>1. /\ a \in Place /\ a[1] <= n /\ Below(a[2], Share(o, m, a[1]))
        /\ Path(pipe[o][m], a, wr[o][m], Links(o, m))
    BY <1>1 DEF Streams, PipeRight
  <2>. HIDE DEF a
  <2>2. a[1] \in 1 .. n /\ a[2] \in Count
    BY <1>2, <2>1 DEF Place
  <2>3. Below(a[2], Share(o, m, a[1])')
    BY <1>5, <2>1, <2>2
  <2>4. a[1] <= Len(taken')
    BY <1>2, <2>2
  <2>5. Path(pipe'[o][m], a, wr[o][m], Links(o, m)')
    BY <1>3, <1>7, <2>1, PathMore
  <2>. QED
    BY <2>1, <2>3, <2>4, <2>5 DEF PipeRight, a
<1>9. ASSUME NEW i \in Lanes
      PROVE  LaneRight(i, wr[Out(i)][Leaf(i)])'
  <2>1. PICK o, m : o = Out(i) /\ m = Leaf(i)
    OBVIOUS
  <2>2. o \in Outputs /\ m \in Pipes /\ m \in Up(m)
    BY <2>1, LaneAt, UpClosed DEF Closed
  <2>3. wr[o][m] = <<n, Share(o, m, n)>> /\ wr[o][m] \in Place
    <3>1. LaneRight(i, wr[Out(i)][Leaf(i)])
      BY DEF Streams
    <3>2. wr[o][m] = <<n, Share(o, m, n)>>
      BY <1>1, <1>3, <2>1, <3>1 DEF LaneRight, LaneEnd
    <3>3. wr[o][m] \in Place
      BY <2>2 DEF Table
    <3>. QED
      BY <3>2, <3>3
  <2>4. PICK word, all : word = wide'.words[i] /\ all = Plus(Share(o, m, n), Only(word))
    OBVIOUS
  <2>5. word = (IF i \in filled THEN <<n, i>> ELSE Empty) /\ <<n, i>> # Empty
    BY <1>2, <1>3, <2>4 DEF Empty
  <2>6. all = Share(o, m, n)'
    <3>1. ASSUME NEW j \in Lanes
          PROVE  all[j] = Share(o, m, n)'[j]
      <4>1. Out(j) = o /\ m \in Up(Leaf(j)) <=> j = i
        BY <2>1, LaneAt, HeapLeaf
      <4>2. all[j] = Share(o, m, n)[j] + (IF i \in filled /\ i = j THEN 1 ELSE 0)
        BY <2>4, <2>5 DEF Plus, Only
      <4>. QED
        BY <1>2, <4>1, <4>2
    <3>2. Share(o, m, n)' = [j \in Lanes |-> Share(o, m, n)'[j]] /\ all = [j \in Lanes |-> all[j]]
      BY <2>4 DEF Share, Plus
    <3>. QED
      BY <3>1, <3>2
  <2>7. n \in 1 .. n /\ Share(o, m, n) \in Count /\ Share(o, m, n)' \in Count
    BY <1>2, <1>4
  <2>8. PICK e : e = LaneEnd(i)'
    OBVIOUS
  <2>9. e = IF last THEN <<n + 1, NoWords>> ELSE <<n, all>>
    <3>1. CASE last
      <4>1. Share(Out(i), Leaf(i), n + 1)' = NoWords /\ Len(taken') = n + 1
        BY <1>2, <3>1
      <4>2. LaneEnd(i)' = <<n + 1, Share(Out(i), Leaf(i), n + 1)'>>
        BY <4>1 DEF LaneEnd, Share, Words
      <4>. QED
        BY <2>8, <3>1, <4>1, <4>2
    <3>2. CASE ~last
      <4>1. Len(taken') = n
        BY <1>2, <3>2
      <4>2. LaneEnd(i)' = <<n, Share(o, m, n)'>>
        BY <2>1, <4>1 DEF LaneEnd, Share, Words
      <4>. QED
        BY <2>6, <2>8, <3>2, <4>2
    <3>. QED
      BY <3>1, <3>2
  <2>10. CASE word # Empty \/ last
    <3>1. i \in todo'
      BY <1>3, <2>4, <2>10 DEF Sends
    <3>2. PICK f : f = [word |-> word, eop |-> last]
      OBVIOUS
    <3>3. f = LaneWrite(i)' /\ f.word = word /\ f.eop = last
      BY <1>3, <2>4, <3>2 DEF LaneWrite
    <3>4. f \in Flit
      <4>1. MaxFlits \in Nat
        BY CompactorAssumption
      <4>2. word \in Word \cup {Empty}
        BY <1>2, <2>5, <4>1 DEF Word
      <4>. QED
        BY <3>2, <4>2 DEF Flit
    <3>5. e \in Place
      <4>1. all \in Count /\ NoWords \in Count
        BY <2>6, <2>7, CountTypes
      <4>. QED
        BY <1>2, <2>9, <4>1 DEF Place
    <3>6. Belongs(word, o, m, n)
      BY <2>1, <2>2, <2>5 DEF Belongs
    <3>7. Below(all, Share(o, m, n)')
      BY <2>6, <2>7, CountTypes
    <3>8. Reached(o, m, last, n, all, e)'
      BY <1>2, <2>6, <2>9 DEF Reached
    <3>9. <<<<n, Share(o, m, n)>>, f, e>> \in Links(o, m)'
      BY <2>3, <2>4, <3>3, <3>4, <3>5, <3>6, <3>7, <3>8 DEF Links, Belongs
    <3>. QED
      BY <2>1, <2>3, <2>8, <3>1, <3>3, <3>9 DEF LaneRight
  <2>11. CASE word = Empty /\ ~last
    <3>1. i \notin todo'
      BY <1>3, <2>4, <2>11 DEF Sends
    <3>2. all = Share(o, m, n)
      BY <2>4, <2>7, <2>11, CountTypes
    <3>. QED
      BY <2>1, <2>3, <2>8, <2>9, <2>11, <3>1, <3>2 DEF LaneRight
  <2>. QED
    BY <2>10, <2>11
<1>10. ASSUME NEW o \in Outputs, NEW m \in Kernels
       PROVE  KernelRight(o, m, rd[o][2 * m], rd[o][2 * m + 1], wr[o][m])'
  <2>1. KernelRight(o, m, rd[o][2 * m], rd[o][2 * m + 1], wr[o][m])
    BY DEF Streams
  <2>. QED
    BY <1>3, <1>6, <2>1 DEF KernelRight
<1>11. GivenRight([o \in Outputs |-> rd[o][1]])'
  <2>1. GivenRight([o \in Outputs |-> rd[o][1]])
    BY DEF Streams
  <2>2. Len(given) \in Nat \ {0}
    BY DEF Shape
  <2>. QED
    BY <1>3, <1>6, <2>1, <2>2 DEF GivenRight, Words
<1>. QED
  BY <1>8, <1>9, <1>10, <1>11 DEF Streams

-----------------------------------------------------------------------------
(***************************************************************************)
(* merge_pipes.                                                            *)
(***************************************************************************)
\* What an iteration does to the packet at hand, the n-th: every tree has been
\* read up to u[o][1], after h[o] of the packet's words and, if seen[o], its end.
Merged(rd, u, h, seen, n) ==
  /\ n \in 1 .. Len(taken)
  /\ \A o \in Outputs :
       /\ Reached(o, 1, seen[o], n, h[o], u[o][1]) /\ Below(h[o], Share(o, 1, n))
       /\ \A m \in Pipes \ {1} : u[o][m] = rd[o][m]
  /\ eop' = IF \A o \in Outputs : seen[o] THEN [o \in Outputs |-> FALSE] ELSE seen
  /\ \A i \in Lanes : Words(given'[n], n)[i] = h[Out(i)][i]
  /\ \E W : HistoryGrown(given, given', n, W, \A o \in Outputs : seen[o])

LEMMA MergePlaces ==
  ASSUME Shape, NEW rd \in Table, NEW wr \in Table, Streams(rd, wr), Merge,
         NEW n, n = Len(given)
  PROVE  \E u \in Table, h \in [Outputs -> Count], seen \in [Outputs -> BOOLEAN] :
           /\ Merged(rd, u, h, seen, n)
           /\ \A o \in Outputs : PipeRight(o, 1, u[o][1], wr[o][1])'
<1> DEFINE f(o) == Head(pipe[o][1])
           last == \A o \in Outputs : eop[o] \/ (o \in ReadyOutputs /\ f(o).eop)
           W    == {f(o).word : o \in {q \in ReadyOutputs : f(q).word # Empty}}
<1>1. /\ n \in Nat \ {0} /\ Len(taken) \in Nat \ {0}
      /\ pipe \in [Outputs -> [Pipes -> Seq(Flit)]] /\ eop \in [Outputs -> BOOLEAN]
      /\ 1 \in Pipes /\ Outputs # {}
      /\ ReadyOutputs \subseteq Outputs
      /\ \A o \in ReadyOutputs : pipe[o][1] # << >> /\ ~eop[o]
  <2>1. 1 \in Pipes /\ 1 \in Outputs
    BY CompactorAssumption DEF Pipes, Outputs
  <2>. QED
    BY <2>1 DEF Shape, ReadyOutputs
<1>2. PICK g \in [Outputs -> Count] :
        /\ \A o \in Outputs : Reached(o, 1, eop[o], n, g[o], rd[o][1])
        /\ \A i \in Lanes : Words(given[n], n)[i] = g[Out(i)][i]
  BY DEF Streams, GivenRight
<1>3. n \in 1 .. Len(taken)
  <2>1. PICK o \in Outputs : ~eop[o]
    BY DEF Streams, GivenRight
  <2>2. n <= Len(taken)
    BY <1>2, <2>1 DEF Reached
  <2>. QED
    BY <1>1, <2>2
<1>4. ASSUME NEW o \in Outputs
      PROVE  /\ PipeRight(o, 1, rd[o][1], wr[o][1]) /\ g[o] \in Count
             /\ Below(g[o], Share(o, 1, n)) /\ Share(o, 1, n) \in Count
             /\ rd[o] \in [Pipes -> Place]
  <2>1. PipeRight(o, 1, rd[o][1], wr[o][1]) /\ g[o] \in Count /\ rd[o] \in [Pipes -> Place]
    BY <1>1 DEF Streams, Table
  <2>2. Share(o, 1, n) \in Count
    BY <1>3, ShareType
  <2>3. CASE eop[o]
    BY <1>2, <2>1, <2>2, <2>3, CountTypes DEF Reached
  <2>4. CASE ~eop[o]
    BY <1>2, <2>1, <2>2, <2>4 DEF Reached, PipeRight
  <2>. QED
    BY <2>1, <2>2, <2>3, <2>4
<1>5. ASSUME NEW o \in ReadyOutputs
      PROVE  /\ f(o) \in Flit /\ Belongs(f(o).word, o, 1, n)
             /\ Plus(g[o], Only(f(o).word)) \in Count
             /\ Below(Plus(g[o], Only(f(o).word)), Share(o, 1, n))
             /\ \E r \in Place : /\ Reached(o, 1, f(o).eop, n, Plus(g[o], Only(f(o).word)), r)
                                 /\ r[1] <= Len(taken) /\ Below(r[2], Share(o, 1, r[1]))
                                 /\ Path(Tail(pipe[o][1]), r, wr[o][1], Links(o, 1))
  <2>1. rd[o][1] = <<n, g[o]>>
    BY <1>1, <1>2 DEF Reached
  <2>2. rd[o][1][1] = n /\ rd[o][1][2] = g[o]
    BY <2>1
  <2>3. /\ o \in Outputs /\ pipe[o][1] # << >> /\ 1 \in Pipes
        /\ PipeRight(o, 1, rd[o][1], wr[o][1])
    BY <1>1, <1>4
  <2>4. PICK e, all, a : /\ e = Head(pipe[o][1]) /\ a = rd[o][1]
                         /\ all = Plus(a[2], Only(e.word))
    OBVIOUS
  <2>5. /\ e \in Flit /\ all \in Count /\ Belongs(e.word, o, 1, a[1])
        /\ Below(all, Share(o, 1, a[1]))
        /\ \E r \in Place : /\ Reached(o, 1, e.eop, a[1], all, r)
                            /\ r[1] <= Len(taken) /\ Below(r[2], Share(o, 1, r[1]))
                            /\ Path(Tail(pipe[o][1]), r, wr[o][1], Links(o, 1))
    BY <2>3, <2>4, ReadPipe
  <2>. QED
    BY <2>2, <2>4, <2>5
<1>. HIDE DEF f
<1> DEFINE R(o) == CHOOSE r \in Place :
                     /\ Reached(o, 1, f(o).eop, n, Plus(g[o], Only(f(o).word)), r)
                     /\ r[1] <= Len(taken) /\ Below(r[2], Share(o, 1, r[1]))
                     /\ Path(Tail(pipe[o][1]), r, wr[o][1], Links(o, 1))
<1>6. ASSUME NEW o \in ReadyOutputs
      PROVE  /\ R(o) \in Place
             /\ Reached(o, 1, f(o).eop, n, Plus(g[o], Only(f(o).word)), R(o))
             /\ R(o)[1] <= Len(taken) /\ Below(R(o)[2], Share(o, 1, R(o)[1]))
             /\ Path(Tail(pipe[o][1]), R(o), wr[o][1], Links(o, 1))
  BY <1>5
<1>. HIDE DEF R
<1>7. PICK h \in [Outputs -> Count] :
        h = [o \in Outputs |-> IF o \in ReadyOutputs THEN Plus(g[o], Only(f(o).word)) ELSE g[o]]
  BY <1>4, <1>5
<1>8. PICK seen \in [Outputs -> BOOLEAN] :
        seen = [o \in Outputs |-> eop[o] \/ (o \in ReadyOutputs /\ f(o).eop)]
  OBVIOUS
<1>9. PICK u \in Table :
        u = [o \in Outputs |-> IF o \in ReadyOutputs THEN [rd[o] EXCEPT ![1] = R(o)] ELSE rd[o]]
  <2> DEFINE w == [o \in Outputs |-> IF o \in ReadyOutputs THEN [rd[o] EXCEPT ![1] = R(o)]
                                                           ELSE rd[o]]
  <2>1. ASSUME NEW o \in Outputs
        PROVE  w[o] \in [Pipes -> Place]
    BY <1>4, <1>6
  <2>2. w \in Table
    BY <2>1 DEF Table
  <2>. QED
    BY <2>2
<1>10. ASSUME NEW o \in Outputs
       PROVE  /\ o \in ReadyOutputs => u[o][1] = R(o)
              /\ o \notin ReadyOutputs => u[o][1] = rd[o][1]
              /\ \A m \in Pipes \ {1} : u[o][m] = rd[o][m]
              /\ o \in ReadyOutputs => h[o] = Plus(g[o], Only(f(o).word))
              /\ o \notin ReadyOutputs => h[o] = g[o]
              /\ seen[o] = (eop[o] \/ (o \in ReadyOutputs /\ f(o).eop))
  BY <1>1, <1>4, <1>7, <1>8, <1>9
<1>11. /\ taken' = taken
       /\ pipe' = [o \in Outputs |->
                      IF o \in ReadyOutputs THEN [pipe[o] EXCEPT ![1] = Tail(@)] ELSE pipe[o]]
       /\ eop' = IF last THEN [o \in Outputs |-> FALSE] ELSE seen
       /\ given' = Stage!Add(given, SetToBag(W), last)
  <2> DEFINE word == [o \in ReadyOutputs |-> Head(pipe[o][1]).word]
             full == {o \in ReadyOutputs : word[o] # Empty}
             se   == [o \in Outputs |-> eop[o] \/ (o \in ReadyOutputs /\ Head(pipe[o][1]).eop)]
             all  == \A o \in Outputs : se[o]
  <2>1. /\ taken' = taken
        /\ pipe' = [o \in Outputs |->
                       IF o \in ReadyOutputs THEN [pipe[o] EXCEPT ![1] = Tail(@)] ELSE pipe[o]]
        /\ eop' = IF all THEN [o \in Outputs |-> FALSE] ELSE se
        /\ given' = Stage!Add(given, SetToBag({word[o] : o \in full}), all)
    BY DEF Merge
  <2>2. {word[o] : o \in full} = W
    BY DEF f
  <2>3. se = seen
    BY <1>8 DEF f
  <2>4. all = last
    BY DEF f
  <2>. HIDE DEF word, full, se, all, W, last
  <2>. QED
    BY <2>1, <2>2, <2>3, <2>4
<1>12. last = (\A o \in Outputs : seen[o])
  BY <1>10
<1>13. /\ W \in SUBSET ({n} \X Lanes)
       /\ \A i \in Lanes : <<n, i>> \in W <=>
            Out(i) \in ReadyOutputs /\ f(Out(i)).word = <<n, i>>
  <2>1. ASSUME NEW o \in ReadyOutputs, f(o).word # Empty
        PROVE  \E i \in Lanes : f(o).word = <<n, i>> /\ Out(i) = o
    <3>1. f(o).word \in Word \cup {Empty}
      BY <1>5 DEF Flit
    <3>2. PICK p, i : f(o).word = <<p, i>>
      BY <2>1, <3>1 DEF Word
    <3>3. p = n /\ i \in Lanes /\ Out(i) = o
      <4>1. Belongs(<<p, i>>, o, 1, n) /\ <<p, i>> # Empty
        BY <1>5, <2>1, <3>2
      <4>2. <<p, i>>[1] = p /\ <<p, i>>[2] = i
        OBVIOUS
      <4>. QED
        BY <4>1, <4>2 DEF Belongs
    <3>. QED
      BY <3>2, <3>3
  <2>2. W \in SUBSET ({n} \X Lanes)
    <3>1. \A w \in W : \E o \in ReadyOutputs : w = f(o).word /\ f(o).word # Empty
      OBVIOUS
    <3>. HIDE DEF W
    <3>2. ASSUME NEW w \in W
          PROVE  w \in {n} \X Lanes
      <4>1. PICK o \in ReadyOutputs : w = f(o).word /\ f(o).word # Empty
        BY <3>1
      <4>2. PICK i \in Lanes : f(o).word = <<n, i>>
        BY <2>1, <4>1
      <4>. QED
        BY <4>1, <4>2
    <3>. QED
      BY <3>2
  <2>3. ASSUME NEW i \in Lanes, <<n, i>> \in W
        PROVE  Out(i) \in ReadyOutputs /\ f(Out(i)).word = <<n, i>>
    <3>1. PICK o \in ReadyOutputs : f(o).word # Empty /\ f(o).word = <<n, i>>
      BY <2>3
    <3>2. PICK j \in Lanes : f(o).word = <<n, j>> /\ Out(j) = o
      BY <2>1, <3>1
    <3>3. j = i
      BY <3>1, <3>2
    <3>. QED
      BY <3>1, <3>2, <3>3
  <2>4. ASSUME NEW i \in Lanes, Out(i) \in ReadyOutputs, f(Out(i)).word = <<n, i>>
        PROVE  <<n, i>> \in W
    <3>1. <<n, i>> # Empty
      BY <1>1 DEF Empty
    <3>. QED
      BY <2>4, <3>1
  <2>. QED
    BY <2>2, <2>3, <2>4
<1>. HIDE DEF W
<1>14. HistoryGrown(given, given', n, W, last)
  <2>1. /\ given \in Seq(UNION {PacketBag(p) : p \in Nat}) /\ given # << >>
        /\ \A p \in 1 .. Len(given) : given[p] \in PacketBag(p)
    BY DEF Shape
  <2>2. last \in BOOLEAN
    BY <1>12
  <2>. HIDE DEF last
  <2>. QED
    BY <1>11, <1>13, <2>1, <2>2, HistoryAdd
<1>15. ASSUME NEW i \in Lanes
       PROVE  Words(given'[n], n)[i] = h[Out(i)][i]
  <2>1. Out(i) \in Outputs
    BY LaneAt
  <2>2. Words(given'[n], n)[i] = g[Out(i)][i] + (IF <<n, i>> \in W THEN 1 ELSE 0)
    BY <1>2, <1>14 DEF HistoryGrown
  <2>3. g[Out(i)][i] \in Nat
    BY <1>4, <2>1 DEF Count
  <2>4. CASE Out(i) \in ReadyOutputs
    <3>1. h[Out(i)][i] = g[Out(i)][i] + Only(f(Out(i)).word)[i]
      BY <1>10, <2>1, <2>4 DEF Plus
    <3>2. Only(f(Out(i)).word)[i] = IF f(Out(i)).word # Empty /\ f(Out(i)).word[2] = i THEN 1 ELSE 0
      BY DEF Only
    <3>3. f(Out(i)).word # Empty /\ f(Out(i)).word[2] = i <=> f(Out(i)).word = <<n, i>>
      <4>1. PICK w : w = f(Out(i)).word
        OBVIOUS
      <4>2. w \in Word \cup {Empty} /\ (w # Empty => w[1] = n)
        BY <1>5, <2>4, <4>1 DEF Flit, Belongs
      <4>3. <<n, i>> # Empty
        BY <1>1 DEF Empty
      <4>4. w # Empty /\ w[2] = i => w = <<n, i>>
        BY <4>2 DEF Word
      <4>5. w = <<n, i>> => w # Empty /\ w[2] = i
        BY <4>3
      <4>. QED
        BY <4>1, <4>4, <4>5
    <3>. QED
      BY <1>13, <2>2, <2>4, <3>1, <3>2, <3>3
  <2>5. CASE Out(i) \notin ReadyOutputs
    BY <1>10, <1>13, <2>1, <2>2, <2>3, <2>5
  <2>. QED
    BY <2>4, <2>5
<1>16. ASSUME NEW o \in Outputs
       PROVE  /\ Reached(o, 1, seen[o], n, h[o], u[o][1]) /\ Below(h[o], Share(o, 1, n))
              /\ \A m \in Pipes \ {1} : u[o][m] = rd[o][m]
  <2>1. CASE o \in ReadyOutputs
    <3>1. seen[o] = f(o).eop
      <4>1. f(o).eop \in BOOLEAN
        BY <1>5, <2>1 DEF Flit
      <4>. QED
        BY <1>1, <1>10, <2>1, <4>1
    <3>2. h[o] = Plus(g[o], Only(f(o).word)) /\ u[o][1] = R(o)
      BY <1>10, <2>1
    <3>3. Reached(o, 1, seen[o], n, h[o], u[o][1])
      BY <1>6, <2>1, <3>1, <3>2
    <3>4. Below(h[o], Share(o, 1, n))
      BY <1>5, <2>1, <3>2
    <3>5. \A m \in Pipes \ {1} : u[o][m] = rd[o][m]
      BY <1>10
    <3>. QED
      BY <3>3, <3>4, <3>5
  <2>2. CASE o \notin ReadyOutputs
    <3>1. seen[o] = eop[o]
      <4>1. eop[o] \in BOOLEAN
        BY <1>1
      <4>2. seen[o] = (eop[o] \/ (o \in ReadyOutputs /\ f(o).eop))
        BY <1>10
      <4>. QED
        BY <2>2, <4>1, <4>2
    <3>. QED
      BY <1>2, <1>4, <1>10, <2>2, <3>1
  <2>. QED
    BY <2>1, <2>2
<1>17. Merged(rd, u, h, seen, n)
  BY <1>3, <1>11, <1>12, <1>14, <1>15, <1>16 DEF Merged
<1>18. ASSUME NEW o \in Outputs
       PROVE  PipeRight(o, 1, u[o][1], wr[o][1])'
  <2>1. \A q, m, a : Links(q, m)' = Links(q, m) /\ Share(q, m, a)' = Share(q, m, a)
    BY <1>11, SameTaken
  <2>2. CASE o \in ReadyOutputs
    <3>1. pipe'[o][1] = Tail(pipe[o][1])
      BY <1>1, <1>11, <2>2
    <3>. QED
      BY <1>6, <1>10, <1>11, <2>1, <2>2, <3>1 DEF PipeRight
  <2>3. CASE o \notin ReadyOutputs
    BY <1>4, <1>10, <1>11, <2>1, <2>3 DEF PipeRight
  <2>. QED
    BY <2>2, <2>3
<1>. QED
  BY <1>17, <1>18

LEMMA MergeStreams ==
  ASSUME Shape, NEW rd \in Table, NEW wr \in Table, Streams(rd, wr), Merge
  PROVE  \E u, v \in Table : Streams(u, v)'
<1>1. PICK n : n = Len(given)
  OBVIOUS
<1>2. PICK u \in Table, h \in [Outputs -> Count], seen \in [Outputs -> BOOLEAN] :
        /\ Merged(rd, u, h, seen, n)
        /\ \A o \in Outputs : PipeRight(o, 1, u[o][1], wr[o][1])'
  BY <1>1, MergePlaces
<1>3. PICK W : HistoryGrown(given, given', n, W, \A o \in Outputs : seen[o])
  BY <1>2 DEF Merged
<1>4. /\ n \in 1 .. Len(taken) /\ n \in Nat /\ Len(taken) \in Nat
      /\ \A o \in Outputs :
           /\ Reached(o, 1, seen[o], n, h[o], u[o][1])
           /\ \A m \in Pipes \ {1} : u[o][m] = rd[o][m]
      /\ eop' = IF \A o \in Outputs : seen[o] THEN [o \in Outputs |-> FALSE] ELSE seen
      /\ \A i \in Lanes : Words(given'[n], n)[i] = h[Out(i)][i]
  BY <1>2 DEF Merged, Shape
<1>5. /\ taken' = taken /\ todo' = todo /\ wide' = wide /\ seenEop' = seenEop
      /\ pipe' = [o \in Outputs |->
                     IF o \in ReadyOutputs THEN [pipe[o] EXCEPT ![1] = Tail(@)] ELSE pipe[o]]
  BY DEF Merge
<1>6. /\ \A q, m, a : Links(q, m)' = Links(q, m) /\ Share(q, m, a)' = Share(q, m, a)
      /\ \A q, m, e, a, d, at : Reached(q, m, e, a, d, at)' <=> Reached(q, m, e, a, d, at)
      /\ \A j : LaneEnd(j)' = LaneEnd(j)
  BY <1>5, SameTaken
<1>7. ASSUME NEW o \in Outputs, NEW m \in Pipes
      PROVE  PipeRight(o, m, u[o][m], wr[o][m])'
  <2>1. CASE m = 1
    BY <1>2, <2>1
  <2>2. CASE m # 1
    <3>1. pipe'[o][m] = pipe[o][m]
      BY <1>5, <2>2 DEF Shape
    <3>2. PipeRight(o, m, rd[o][m], wr[o][m])
      BY DEF Streams
    <3>3. u[o][m] = rd[o][m]
      BY <1>4, <2>2
    <3>. QED
      BY <1>5, <1>6, <3>1, <3>2, <3>3 DEF PipeRight
  <2>. QED
    BY <2>1, <2>2
<1>8. ASSUME NEW j \in Lanes
      PROVE  LaneRight(j, wr[Out(j)][Leaf(j)])'
  <2>1. LaneRight(j, wr[Out(j)][Leaf(j)])
    BY DEF Streams
  <2>. QED
    BY <1>5, <1>6, <2>1 DEF LaneRight, LaneWrite
<1>9. ASSUME NEW o \in Outputs, NEW m \in Kernels
      PROVE  KernelRight(o, m, u[o][2 * m], u[o][2 * m + 1], wr[o][m])'
  <2>1. 2 * m \in Pipes \ {1} /\ 2 * m + 1 \in Pipes \ {1}
    BY CompactorAssumption DEF Kernels, Pipes
  <2>2. u[o][2 * m] = rd[o][2 * m] /\ u[o][2 * m + 1] = rd[o][2 * m + 1]
    BY <1>4, <2>1
  <2>3. KernelRight(o, m, rd[o][2 * m], rd[o][2 * m + 1], wr[o][m])
    BY DEF Streams
  <2>. QED
    BY <1>5, <1>6, <2>2, <2>3 DEF KernelRight
<1>10. GivenRight([o \in Outputs |-> u[o][1]])'
  <2>1. CASE \A o \in Outputs : seen[o]
    <3>1. /\ Len(given') = n + 1 /\ Words(given'[n + 1], n + 1) = NoWords
      BY <1>3, <2>1 DEF HistoryGrown
    <3>2. PICK e \in [Outputs -> Count] : e = [o \in Outputs |-> NoWords]
      <4>1. NoWords \in Count
        BY DEF NoWords, Count
      <4>. QED
        BY <4>1
    <3>3. ASSUME NEW o \in Outputs
          PROVE  Reached(o, 1, eop'[o], n + 1, e[o], u[o][1])
      <4>1. n < Len(taken) /\ u[o][1] = <<n + 1, NoWords>>
        BY <1>4, <2>1 DEF Reached
      <4>2. ~eop'[o] /\ e[o] = NoWords /\ n + 1 <= Len(taken)
        BY <1>4, <2>1, <3>2, <4>1
      <4>. QED
        BY <4>1, <4>2 DEF Reached
    <3>4. \A i \in Lanes : Words(given'[n + 1], n + 1)[i] = e[Out(i)][i]
      BY <3>1, <3>2, LaneAt DEF NoWords
    <3>5. \E o \in Outputs : ~eop'[o]
      <4>1. 1 \in Outputs
        BY CompactorAssumption DEF Outputs
      <4>. QED
        BY <1>4, <2>1, <4>1
    <3>6. \A o \in Outputs :
            Reached(o, 1, eop[o], Len(given), e[o], [q \in Outputs |-> u[q][1]][o])'
      BY <1>6, <3>1, <3>3
    <3>. QED
      BY <3>1, <3>4, <3>5, <3>6 DEF GivenRight, Words
  <2>2. CASE ~\A o \in Outputs : seen[o]
    <3>1. eop' = seen /\ Len(given') = n
      BY <1>3, <1>4, <2>2 DEF HistoryGrown
    <3>2. \A o \in Outputs :
            Reached(o, 1, eop[o], Len(given), h[o], [q \in Outputs |-> u[q][1]][o])'
      BY <1>4, <1>6, <3>1
    <3>. QED
      BY <1>4, <2>2, <3>1, <3>2 DEF GivenRight, Words
  <2>. QED
    BY <2>1, <2>2
<1>. QED
  BY <1>7, <1>8, <1>9, <1>10 DEF Streams

\* What is given is owed, and a packet's end is given when all is.
LEMMA MergeGives ==
  ASSUME Shape, NEW rd \in Table, NEW wr \in Table, Streams(rd, wr), Merge
  PROVE  Stage!Give
<1>1. PICK n : n = Len(given)
  OBVIOUS
<1>2. PICK u \in Table, h \in [Outputs -> Count], seen \in [Outputs -> BOOLEAN] :
        Merged(rd, u, h, seen, n)
  BY <1>1, MergePlaces
<1>3. PICK W : HistoryGrown(given, given', n, W, \A o \in Outputs : seen[o])
  BY <1>2 DEF Merged
<1>4. /\ n \in 1 .. Len(taken) /\ n \in Nat /\ Len(taken) \in Nat
      /\ \A o \in Outputs :
           /\ Reached(o, 1, seen[o], n, h[o], u[o][1])
           /\ Below(h[o], Share(o, 1, n))
      /\ \A i \in Lanes : Words(given'[n], n)[i] = h[Out(i)][i]
  BY <1>2 DEF Merged, Shape
<1>5. given'[n] \in PacketBag(n) /\ taken[n] \in PacketBag(n)
  <2>1. n \in 1 .. Len(given')
    BY <1>3, <1>4 DEF HistoryGrown
  <2>. QED
    BY <1>3, <1>4, <2>1 DEF HistoryGrown, Shape
<1>6. \A i \in Lanes : Out(i) \in Outputs /\ Share(Out(i), 1, n)[i] = Words(taken[n], n)[i]
  BY LaneAt, ShareRoot
<1>7. given'[n] \sqsubseteq taken[n]
  <2>1. Below(Words(given'[n], n), Words(taken[n], n))
    BY <1>4, <1>6 DEF Below
  <2>. QED
    BY <1>5, <2>1, BagOrder
<1>8. ASSUME Len(given') = n + 1
      PROVE  Len(taken) > n /\ given'[n] = taken[n]
  <2>1. \A o \in Outputs : seen[o]
    BY <1>3, <1>4, <1>8 DEF HistoryGrown
  <2>2. \A o \in Outputs : n < Len(taken) /\ h[o] = Share(o, 1, n)
    BY <1>4, <2>1 DEF Reached
  <2>3. Len(taken) > n
    <3>1. 1 \in Outputs
      BY CompactorAssumption DEF Outputs
    <3>. QED
      BY <1>4, <2>2, <3>1
  <2>4. Words(given'[n], n) = Words(taken[n], n)
    <3>1. \A i \in Lanes : Words(given'[n], n)[i] = Words(taken[n], n)[i]
      BY <1>4, <1>6, <2>2
    <3>2. /\ Words(given'[n], n) = [i \in Lanes |-> Words(given'[n], n)[i]]
          /\ Words(taken[n], n) = [i \in Lanes |-> Words(taken[n], n)[i]]
      BY DEF Words
    <3>. QED
      BY <3>1, <3>2
  <2>. QED
    BY <1>5, <2>3, <2>4, BagOrder
<1>9. Stage!Grows(given, given') /\ taken' = taken
  BY <1>3 DEF HistoryGrown, Merge
<1>. QED
  BY <1>1, <1>7, <1>8, <1>9, SameBags DEF Stage!Give

-----------------------------------------------------------------------------
(***************************************************************************)
(* The types.                                                              *)
(***************************************************************************)
LEMMA InitShape ==
  ASSUME Init
  PROVE  Shape
<1>1. /\ taken = <<EmptyBag>> /\ given = <<EmptyBag>>
  BY SameBags DEF Init, Stage!Init
<1>2. \A p \in Nat : EmptyBag \in PacketBag(p)
  BY EmptyPacketBag
<1>3. /\ <<EmptyBag>> \in Seq(UNION {PacketBag(p) : p \in Nat})
      /\ Len(<<EmptyBag>>) = 1 /\ <<EmptyBag>> # << >>
      /\ \A p \in 1 .. 1 : <<EmptyBag>>[p] \in PacketBag(p)
  <2>1. EmptyBag \in UNION {PacketBag(p) : p \in Nat}
    BY <1>2
  <2>. HIDE DEF EmptyBag
  <2>2. \A p \in 1 .. 1 : <<EmptyBag>>[p] \in PacketBag(p)
    BY <1>2
  <2>. QED
    BY <2>1, <2>2
<1>4. /\ pipe \in [Outputs -> [Pipes -> Seq(Flit)]]
      /\ \A o \in Outputs, n \in Pipes : Len(pipe[o][n]) <= PipeDepth
  BY CompactorAssumption DEF Init
<1>5. /\ seenEop \in [Outputs -> [Kernels -> [{0, 1} -> BOOLEAN]]]
      /\ eop \in [Outputs -> BOOLEAN]
      /\ wide \in [words : [Lanes -> Word \cup {Empty}], eop : BOOLEAN]
      /\ todo \subseteq Lanes /\ flits \in 0 .. MaxFlits /\ hollow \in BOOLEAN /\ flits = 0
  <2>1. [i \in Lanes |-> Empty] \in [Lanes -> Word \cup {Empty}]
    OBVIOUS
  <2>2. wide \in [words : [Lanes -> Word \cup {Empty}], eop : BOOLEAN]
    BY <2>1 DEF Init
  <2>3. 0 \in 0 .. MaxFlits
    BY CompactorAssumption
  <2>4. todo \subseteq Lanes /\ flits = 0 /\ hollow \in BOOLEAN
    BY DEF Init
  <2>5. /\ seenEop \in [Outputs -> [Kernels -> [{0, 1} -> BOOLEAN]]]
        /\ eop \in [Outputs -> BOOLEAN]
    BY DEF Init
  <2>. QED
    BY <2>2, <2>3, <2>4, <2>5
<1>. QED
  BY <1>1, <1>3, <1>4, <1>5 DEF Shape

\* One pipe is written or read, the others are as they were.
LEMMA PipeSet ==
  ASSUME NEW t \in [Outputs -> [Pipes -> Seq(Flit)]], NEW o \in Outputs, NEW n \in Pipes,
         NEW s \in Seq(Flit), \A q \in Outputs, m \in Pipes : Len(t[q][m]) <= PipeDepth,
         Len(s) <= PipeDepth, NEW u, u = [t EXCEPT ![o] = [t[o] EXCEPT ![n] = s]]
  PROVE  /\ u \in [Outputs -> [Pipes -> Seq(Flit)]]
         /\ \A q \in Outputs, m \in Pipes : Len(u[q][m]) <= PipeDepth
<1>1. t[o] \in [Pipes -> Seq(Flit)]
  OBVIOUS
<1>2. [t[o] EXCEPT ![n] = s] \in [Pipes -> Seq(Flit)]
  BY <1>1
<1>3. u \in [Outputs -> [Pipes -> Seq(Flit)]]
  BY <1>2
<1>4. ASSUME NEW q \in Outputs, NEW m \in Pipes
      PROVE  Len(u[q][m]) <= PipeDepth
  <2>1. u[q][m] = IF q = o /\ m = n THEN s ELSE t[q][m]
    BY <1>1
  <2>. QED
    BY <2>1
<1>. QED
  BY <1>3, <1>4

LEMMA SplitWriteShape ==
  ASSUME Shape, SplitWrite
  PROVE  Shape'
<1>1. PICK i : i = CHOOSE j \in todo : \A k \in todo : j <= k
  OBVIOUS
<1>2. PICK o, n : o = Out(i) /\ n = Leaf(i)
  OBVIOUS
<1>3. i \in Lanes /\ o \in Outputs /\ n \in Pipes
  BY <1>1, <1>2, LaneAtHand, LaneAt DEF SplitWrite
<1>4. /\ Len(pipe[o][n]) < PipeDepth
      /\ pipe' = [pipe EXCEPT ![o][n] = Append(@, LaneWrite(i))]
      /\ todo' = todo \ {i}
      /\ UNCHANGED <<seenEop, eop, wide, flits, hollow, taken, given>>
  BY <1>1, <1>2 DEF SplitWrite, Out, Leaf, LaneWrite
<1>5. LaneWrite(i) \in Flit
  BY <1>3 DEF Shape, LaneWrite, Flit
<1>6. PICK s : s = Append(pipe[o][n], LaneWrite(i))
  OBVIOUS
<1>7. s \in Seq(Flit) /\ Len(s) <= PipeDepth
  BY <1>3, <1>4, <1>5, <1>6, CompactorAssumption DEF Shape
<1>8. pipe' = [pipe EXCEPT ![o] = [pipe[o] EXCEPT ![n] = s]]
  BY <1>4, <1>6
<1>9. /\ pipe' \in [Outputs -> [Pipes -> Seq(Flit)]]
      /\ \A q \in Outputs, m \in Pipes : Len(pipe'[q][m]) <= PipeDepth
  BY <1>3, <1>7, <1>8, PipeSet DEF Shape
<1>. QED
  BY <1>4, <1>9 DEF Shape

LEMMA SplitReadShape ==
  ASSUME Shape, NEW filled \in Fills, NEW last \in BOOLEAN, SplitRead(filled, last)
  PROVE  Shape'
<1>1. PICK n : n = Len(taken)
  OBVIOUS
<1>2. TakenGrown(filled, last, n)
  BY <1>1, TakenGrows
<1>3. /\ wide' = [words |-> [i \in Lanes |-> IF i \in filled THEN <<n, i>> ELSE Empty],
                  eop |-> last]
      /\ todo' \subseteq Lanes /\ flits' = flits + 1 /\ flits < MaxFlits
      /\ UNCHANGED <<pipe, seenEop, eop, hollow, given>>
  BY <1>1 DEF SplitRead
<1>4. wide' \in [words : [Lanes -> Word \cup {Empty}], eop : BOOLEAN]
  <2>1. \A i \in Lanes : <<n, i>> \in Word
    BY <1>2, CompactorAssumption DEF TakenGrown, Word
  <2>. QED
    BY <1>3, <2>1
<1>5. /\ flits' \in 0 .. MaxFlits
      /\ taken' \in Seq(UNION {PacketBag(p) : p \in Nat})
      /\ Len(taken') \in 1 .. flits' + 1
      /\ \A p \in 1 .. Len(taken') : taken'[p] \in PacketBag(p)
  <2>1. n \in 1 .. flits + 1 /\ flits \in 0 .. MaxFlits /\ MaxFlits \in Nat
    BY <1>1, CompactorAssumption DEF Shape
  <2>. QED
    BY <1>2, <1>3, <2>1 DEF TakenGrown
<1>. QED
  BY <1>3, <1>4, <1>5 DEF Shape

LEMMA CompactShape ==
  ASSUME Shape, NEW o \in Outputs, NEW k \in Kernels, Compact(o, k)
  PROVE  Shape'
<1>1. PICK i : i = IF Readable(o, k, 0) THEN 0 ELSE 1
  OBVIOUS
<1>2. PICK x : x = 2 * k + i
  OBVIOUS
<1>3. i \in {0, 1} /\ k \in Pipes /\ x \in Pipes /\ x # k
  BY <1>1, <1>2, CompactorAssumption DEF Kernels, Pipes
<1>4. pipe[o][x] # << >>
  BY <1>1, <1>2 DEF Compact, Readable
<1> DEFINE f    == Head(pipe[o][x])
           seen == [seenEop[o][k] EXCEPT ![i] = f.eop]
           both == BothSeen(seen)
           g    == [f EXCEPT !.eop = both]
           r    == [pipe EXCEPT ![o][x] = Tail(@)]
<1>5. /\ seenEop' = [seenEop EXCEPT ![o][k] = IF both THEN [j \in {0, 1} |-> FALSE] ELSE seen]
      /\ \/ Len(pipe[o][k]) < PipeDepth /\ pipe' = [r EXCEPT ![o][k] = Append(@, g)]
         \/ pipe' = r
      /\ UNCHANGED <<eop, wide, todo, flits, hollow, taken, given>>
  BY <1>1, <1>2 DEF Compact
<1>6. /\ pipe \in [Outputs -> [Pipes -> Seq(Flit)]]
      /\ \A q \in Outputs, m \in Pipes : Len(pipe[q][m]) <= PipeDepth
      /\ seenEop \in [Outputs -> [Kernels -> [{0, 1} -> BOOLEAN]]] /\ PipeDepth \in Nat
  BY CompactorAssumption DEF Shape
<1>7. /\ f \in Flit /\ f.eop \in BOOLEAN
      /\ Tail(pipe[o][x]) \in Seq(Flit) /\ Len(Tail(pipe[o][x])) <= PipeDepth
  <2>1. pipe[o][x] \in Seq(Flit)
    BY <1>3, <1>6
  <2>2. f \in Flit /\ Tail(pipe[o][x]) \in Seq(Flit) /\ Len(Tail(pipe[o][x])) = Len(pipe[o][x]) - 1
    BY <1>4, <2>1
  <2>3. Len(pipe[o][x]) <= PipeDepth /\ Len(pipe[o][x]) \in Nat
    BY <1>3, <1>6, <2>1
  <2>. QED
    BY <1>6, <2>2, <2>3 DEF Flit
<1>. HIDE DEF f
<1>8. seen \in [{0, 1} -> BOOLEAN]
  BY <1>6, <1>7
<1>. HIDE DEF seen
<1>9. both \in BOOLEAN
  BY <1>8 DEF BothSeen
<1>. HIDE DEF both
<1>10. g \in Flit
  BY <1>7, <1>9 DEF Flit
<1>. HIDE DEF g
<1>11. /\ r \in [Outputs -> [Pipes -> Seq(Flit)]]
       /\ \A q \in Outputs, m \in Pipes : Len(r[q][m]) <= PipeDepth
       /\ r[o][k] = pipe[o][k]
  <2>1. r = [pipe EXCEPT ![o] = [pipe[o] EXCEPT ![x] = Tail(pipe[o][x])]]
    OBVIOUS
  <2>2. r[o][k] = pipe[o][k]
    BY <1>3, <1>6
  <2>. HIDE DEF r
  <2>. QED
    BY <1>3, <1>6, <1>7, <2>1, <2>2, PipeSet
<1>. HIDE DEF r
<1>12. /\ pipe' \in [Outputs -> [Pipes -> Seq(Flit)]]
       /\ \A q \in Outputs, m \in Pipes : Len(pipe'[q][m]) <= PipeDepth
  <2>1. CASE pipe' = r
    BY <1>11, <2>1
  <2>2. CASE Len(pipe[o][k]) < PipeDepth /\ pipe' = [r EXCEPT ![o][k] = Append(@, g)]
    <3>1. PICK s : s = Append(pipe[o][k], g)
      OBVIOUS
    <3>2. s \in Seq(Flit) /\ Len(s) <= PipeDepth
      BY <1>3, <1>6, <1>10, <2>2, <3>1
    <3>3. pipe' = [r EXCEPT ![o] = [r[o] EXCEPT ![k] = s]]
      BY <1>11, <2>2, <3>1
    <3>. QED
      BY <1>3, <1>11, <3>2, <3>3, PipeSet
  <2>. QED
    BY <1>5, <2>1, <2>2
<1>13. seenEop' \in [Outputs -> [Kernels -> [{0, 1} -> BOOLEAN]]]
  <2>1. PICK e \in [{0, 1} -> BOOLEAN] : seenEop' = [seenEop EXCEPT ![o][k] = e]
    BY <1>5, <1>8
  <2>. QED
    BY <1>6, <2>1
<1>. QED
  BY <1>5, <1>12, <1>13 DEF Shape

LEMMA MergeShape ==
  ASSUME Shape, NEW rd \in Table, NEW wr \in Table, Streams(rd, wr), Merge
  PROVE  Shape'
<1>1. PICK n : n = Len(given)
  OBVIOUS
<1>2. PICK u \in Table, h \in [Outputs -> Count], seen \in [Outputs -> BOOLEAN] :
        Merged(rd, u, h, seen, n)
  BY <1>1, MergePlaces
<1>3. /\ given' \in Seq(UNION {PacketBag(p) : p \in Nat}) /\ given' # << >>
      /\ \A p \in 1 .. Len(given') : given'[p] \in PacketBag(p)
      /\ eop' \in [Outputs -> BOOLEAN]
  BY <1>2 DEF Merged, HistoryGrown
<1>4. /\ pipe' = [o \in Outputs |->
                    IF o \in ReadyOutputs THEN [pipe[o] EXCEPT ![1] = Tail(@)] ELSE pipe[o]]
      /\ hollow' \in BOOLEAN /\ UNCHANGED <<seenEop, wide, todo, flits, taken>>
  BY DEF Merge
<1>5. /\ pipe' \in [Outputs -> [Pipes -> Seq(Flit)]]
      /\ \A o \in Outputs, m \in Pipes : Len(pipe'[o][m]) <= PipeDepth
  <2>1. 1 \in Pipes /\ PipeDepth \in Nat
    BY CompactorAssumption DEF Pipes
  <2>2. ASSUME NEW o \in Outputs
        PROVE  /\ pipe'[o] \in [Pipes -> Seq(Flit)]
               /\ \A m \in Pipes : Len(pipe'[o][m]) <= PipeDepth
    <3>1. pipe[o] \in [Pipes -> Seq(Flit)] /\ \A m \in Pipes : Len(pipe[o][m]) <= PipeDepth
      BY DEF Shape
    <3>2. CASE o \in ReadyOutputs
      <4>1. pipe[o][1] \in Seq(Flit) /\ pipe[o][1] # << >>
        BY <2>1, <3>1, <3>2 DEF ReadyOutputs
      <4>2. /\ Tail(pipe[o][1]) \in Seq(Flit) /\ Len(pipe[o][1]) \in Nat
            /\ Len(Tail(pipe[o][1])) = Len(pipe[o][1]) - 1
        BY <4>1
      <4>3. Len(Tail(pipe[o][1])) <= PipeDepth
        BY <2>1, <3>1, <4>2
      <4>4. pipe'[o] = [pipe[o] EXCEPT ![1] = Tail(pipe[o][1])]
        BY <1>4, <3>2
      <4>. QED
        BY <3>1, <4>2, <4>3, <4>4
    <3>3. CASE o \notin ReadyOutputs
      BY <1>4, <3>1, <3>3
    <3>. QED
      BY <3>2, <3>3
  <2>. QED
    BY <1>4, <2>2
<1>. QED
  BY <1>3, <1>4, <1>5 DEF Shape

-----------------------------------------------------------------------------
(***************************************************************************)
(* The invariant holds.                                                    *)
(***************************************************************************)
LEMMA InitStreams ==
  ASSUME Init
  PROVE  \E u, v \in Table : Streams(u, v)
<1>1. Shape
  BY InitShape
<1>2. /\ taken = <<EmptyBag>> /\ given = <<EmptyBag>>
  BY SameBags DEF Init, Stage!Init
<1>3. /\ Len(taken) = 1 /\ taken[1] = EmptyBag /\ Len(given) = 1 /\ given[1] = EmptyBag
  BY <1>2
<1>4. NoWords \in Count /\ Plus(NoWords, NoWords) = NoWords /\ Below(NoWords, NoWords)
  <2>1. NoWords \in Count
    BY DEF NoWords, Count
  <2>. QED
    BY <2>1, CountTypes
<1>5. \A o, n : Share(o, n, 1) = NoWords
  <2>1. Words(EmptyBag, 1) = NoWords
    BY EmptyPacketBag
  <2>2. \A i \in Lanes : Words(taken[1], 1)[i] = 0
    BY <1>3, <2>1 DEF NoWords
  <2>. QED
    BY <2>2 DEF Share, NoWords
<1>6. PICK at \in Place : at = <<1, NoWords>>
  <2>1. <<1, NoWords>> \in Place
    BY <1>4 DEF Place
  <2>. QED
    BY <2>1
<1>7. PICK t \in Table : t = [o \in Outputs |-> [n \in Pipes |-> at]]
  BY DEF Table
<1>8. \A o \in Outputs, n \in Pipes : t[o][n] = at /\ pipe[o][n] = << >>
  BY <1>7 DEF Init
<1>9. \A o, n : Reached(o, n, FALSE, 1, NoWords, at)
  BY <1>3, <1>6 DEF Reached
<1>10. ASSUME NEW o \in Outputs, NEW n \in Pipes
       PROVE  PipeRight(o, n, t[o][n], t[o][n])
  <2>1. Path(pipe[o][n], at, at, Links(o, n))
    BY <1>8, PathEmpty
  <2>. QED
    BY <1>3, <1>4, <1>5, <1>6, <1>8, <2>1 DEF PipeRight
<1>11. ASSUME NEW i \in Lanes
       PROVE  LaneRight(i, t[Out(i)][Leaf(i)])
  BY <1>3, <1>5, <1>6, <1>8, LaneAt DEF LaneRight, LaneEnd, Init
<1>12. ASSUME NEW o \in Outputs, NEW k \in Kernels
       PROVE  KernelRight(o, k, t[o][2 * k], t[o][2 * k + 1], t[o][k])
  <2>1. 2 * k \in Pipes /\ 2 * k + 1 \in Pipes /\ k \in Pipes
    BY CompactorAssumption DEF Kernels, Pipes
  <2>2. ~seenEop[o][k][0] /\ ~seenEop[o][k][1]
    BY DEF Init
  <2>3. seenEop[o][k][0] = FALSE /\ seenEop[o][k][1] = FALSE
    BY DEF Init
  <2>. QED
    <3>1. /\ Reached(o, 2 * k, seenEop[o][k][0], 1, NoWords, t[o][2 * k])
          /\ Reached(o, 2 * k + 1, seenEop[o][k][1], 1, NoWords, t[o][2 * k + 1])
      BY <1>8, <1>9, <2>1, <2>3
    <3>2. t[o][k] = <<1, Plus(NoWords, NoWords)>> /\ 1 \in Nat \ {0}
      BY <1>4, <1>6, <1>8, <2>1
    <3>. QED
      BY <1>4, <2>2, <3>1, <3>2 DEF KernelRight, BothSeen
<1>13. GivenRight([o \in Outputs |-> t[o][1]])
  <2>1. 1 \in Pipes /\ 1 \in Outputs
    BY CompactorAssumption DEF Pipes, Outputs
  <2>2. \A o \in Outputs : eop[o] = FALSE
    BY DEF Init
  <2>3. PICK h \in [Outputs -> Count] : h = [o \in Outputs |-> NoWords]
    BY <1>4
  <2>4. \A o \in Outputs : Reached(o, 1, eop[o], Len(given), h[o], [q \in Outputs |-> t[q][1]][o])
    BY <1>3, <1>8, <1>9, <2>1, <2>2, <2>3
  <2>5. \A i \in Lanes : Words(given[Len(given)], Len(given))[i] = h[Out(i)][i]
    <3>1. Words(EmptyBag, 1) = NoWords
      BY EmptyPacketBag
    <3>. QED
      BY <1>3, <2>3, <3>1, LaneAt DEF NoWords
  <2>. QED
    BY <2>1, <2>2, <2>4, <2>5 DEF GivenRight
<1>. QED
  BY <1>10, <1>11, <1>12, <1>13 DEF Streams

\* An iteration of a kernel is one of the four.
LEMMA Steps ==
  ASSUME Shape, NEW rd \in Table, NEW wr \in Table, Streams(rd, wr), [Next]_vars
  PROVE  /\ Shape' /\ \E u, v \in Table : Streams(u, v)'
         /\ Stage!Next \/ UNCHANGED Stage!vars
<1>1. CASE SplitWrite
  <2>1. UNCHANGED Stage!vars
    BY <1>1 DEF SplitWrite, Stage!vars
  <2>. QED
    BY <1>1, <2>1, SplitWriteShape, SplitWriteStreams
<1>2. ASSUME NEW filled \in Fills, NEW last \in BOOLEAN, SplitRead(filled, last)
      PROVE  /\ Shape' /\ \E u, v \in Table : Streams(u, v)'
             /\ Stage!Next
  <2>1. TakenGrown(filled, last, Len(taken))
    BY <1>2, TakenGrows
  <2>2. Stage!Take
    BY <1>2, <2>1 DEF TakenGrown, SplitRead, Stage!Take
  <2>. QED
    BY <1>2, <2>2, SplitReadShape, SplitReadStreams DEF Stage!Next
<1>3. CASE Merge
  BY <1>3, MergeShape, MergeStreams, MergeGives DEF Stage!Next
<1>4. ASSUME NEW o \in Outputs, NEW k \in Kernels, Compact(o, k)
      PROVE  /\ Shape' /\ \E u, v \in Table : Streams(u, v)'
             /\ UNCHANGED Stage!vars
  <2>1. UNCHANGED Stage!vars
    BY <1>4 DEF Compact, Stage!vars
  <2>. QED
    BY <1>4, <2>1, CompactShape, CompactStreams
<1>5. CASE UNCHANGED vars
  <2>1. /\ pipe' = pipe /\ seenEop' = seenEop /\ eop' = eop /\ wide' = wide /\ todo' = todo
        /\ flits' = flits /\ hollow' = hollow /\ taken' = taken /\ given' = given
    BY <1>5 DEF vars
  <2>2. Shape'
    BY <2>1 DEF Shape
  <2>3. Streams(rd, wr)'
    <3>1. /\ \A q, m : Links(q, m)' = Links(q, m)
          /\ \A q, m, a : Share(q, m, a)' = Share(q, m, a)
          /\ \A q, m, e, a, d, at : Reached(q, m, e, a, d, at)' <=> Reached(q, m, e, a, d, at)
          /\ \A j : LaneEnd(j)' = LaneEnd(j)
      BY <2>1, SameTaken
    <3>2. \A o \in Outputs, n \in Pipes : PipeRight(o, n, rd[o][n], wr[o][n])'
      BY <2>1, <3>1 DEF Streams, PipeRight
    <3>3. \A i \in Lanes : LaneRight(i, wr[Out(i)][Leaf(i)])'
      BY <2>1, <3>1 DEF Streams, LaneRight, LaneWrite
    <3>4. \A o \in Outputs, k \in Kernels :
            KernelRight(o, k, rd[o][2 * k], rd[o][2 * k + 1], wr[o][k])'
      BY <2>1, <3>1 DEF Streams, KernelRight
    <3>5. GivenRight([o \in Outputs |-> rd[o][1]])'
      BY <2>1, <3>1 DEF Streams, GivenRight, Words
    <3>. QED
      BY <3>2, <3>3, <3>4, <3>5 DEF Streams
  <2>4. UNCHANGED Stage!vars
    BY <2>1 DEF Stage!vars
  <2>. QED
    BY <2>2, <2>3, <2>4
<1>. QED
  BY <1>1, <1>2, <1>3, <1>4, <1>5 DEF Next, Split

LEMMA Invariance == Spec => []IInv
<1>1. Init => IInv
  BY InitShape, InitStreams DEF IInv
<1>2. IInv /\ [Next]_vars => IInv'
  <2> SUFFICES ASSUME IInv, [Next]_vars
               PROVE  IInv'
    OBVIOUS
  <2>1. PICK rd \in Table, wr \in Table : Streams(rd, wr)
    BY DEF IInv
  <2>2. Shape
    BY DEF IInv
  <2>3. Shape' /\ \E u, v \in Table : Streams(u, v)'
    BY <2>1, <2>2, Steps
  <2>. QED
    BY <2>3 DEF IInv
<1>. QED
  BY <1>1, <1>2, PTL DEF Spec

\* Every pipe holds flits and no more than its depth, and no more packets have
\* been given than taken in.
THEOREM TypeCorrect == Spec => []TypeOK
<1>1. IInv => TypeOK
  <2> SUFFICES ASSUME IInv
               PROVE  TypeOK
    OBVIOUS
  <2>1. PICK rd \in Table, wr \in Table : Streams(rd, wr)
    BY DEF IInv
  <2>2. Shape
    BY DEF IInv
  <2>3. Len(given) <= Len(taken)
    BY <2>1 DEF Streams, GivenRight, Reached
  <2>4. Len(given) \in 1 .. Len(taken) /\ Len(taken) \in 1 .. MaxFlits + 1
    <3>1. flits \in 0 .. MaxFlits /\ MaxFlits \in Nat /\ Len(taken) \in 1 .. flits + 1
          /\ Len(given) \in Nat \ {0}
      BY <2>2, CompactorAssumption DEF Shape
    <3>. QED
      BY <2>3, <3>1
  <2>. QED
    BY <2>2, <2>4 DEF Shape, TypeOK
<1>. QED
  BY <1>1, Invariance, PTL

\* However the kernels of the trees are scheduled, and whichever words race the
\* end-of-packet marks through them, a packet's words come out with that packet,
\* none lost and none twice, and its end after all of them.
THEOREM Implementation == Spec => CompactsPackets
<1>1. Init => Stage!Init
  BY DEF Init
<1>2. IInv /\ [Next]_vars => [Stage!Next]_(Stage!vars)
  <2> SUFFICES ASSUME IInv, [Next]_vars
               PROVE  Stage!Next \/ UNCHANGED Stage!vars
    OBVIOUS
  <2>1. PICK rd \in Table, wr \in Table : Streams(rd, wr)
    BY DEF IInv
  <2>2. Shape
    BY DEF IInv
  <2>. QED
    BY <2>1, <2>2, Steps
<1>. QED
  BY <1>1, <1>2, Invariance, PTL DEF Spec, CompactsPackets, Stage!Spec
=============================================================================
