-------------------------- MODULE HostPipeline_proofs --------------------------
(***************************************************************************)
(* Proofs about HostPipeline, for any number of workers, rings and buffers *)
(* of any size, any lines and any cut of the payload into chunks: until    *)
(* the producer goes astray (spoilt) each line is scanned whole, once and  *)
(* in order, and in the end every one has been, but for a last few.        *)
(*                                                                         *)
(* The stream of words is a recursion over the lines, and so is the way a  *)
(* worker goes from one event of a buffer to the next: the first part      *)
(* shows what they compute, by induction.  In the second part the buffers  *)
(* that each worker has been dealt are a sequence of intervals of lines:   *)
(* what the rings hold is the end of that sequence, and what has been      *)
(* scanned the front of it.                                                *)
(***************************************************************************)
EXTENDS HostPipeline, SequenceTheorems, WellFoundedInduction, TLAPS

-----------------------------------------------------------------------------
(***************************************************************************)
(* Induction.                                                              *)
(***************************************************************************)
\* A set of numbers has a least one.
LEMMA Least ==
  ASSUME NEW S \in SUBSET Nat, S # {}
  PROVE  \E m \in S : \A n \in S : m <= n
<1> DEFINE R == OpToRel(<, Nat)
<1>1. IsWellFoundedOn(R, Nat)
  BY NatLessThanWellFounded
<1>. HIDE DEF R
<1>2. PICK m \in S : \A n \in S : <<n, m>> \notin R
  BY <1>1, WFMin
<1>3. \A n \in S : ~(n < m)
  BY <1>2 DEF R, OpToRel
<1>. QED
  BY <1>3

\* A set with 0 and with every number's successor has all numbers.
LEMMA Induction ==
  ASSUME NEW S \in SUBSET Nat, 0 \in S, \A n \in S : n + 1 \in S
  PROVE  Nat \subseteq S
<1>. SUFFICES ASSUME Nat \ S # {}
              PROVE  FALSE
  OBVIOUS
<1>1. PICK m \in Nat \ S : \A n \in Nat \ S : m <= n
  BY Least
<1>2. m - 1 \in Nat /\ m - 1 \notin S
  BY <1>1
<1>. QED
  BY <1>1, <1>2

-----------------------------------------------------------------------------
(***************************************************************************)
(* The stream of words.                                                    *)
(***************************************************************************)
\* Every line has words.
LEMMA LengthType == \A l \in Line : LineLength(l) \in Nat \ {0}
<1>. SUFFICES ASSUME NEW l \in Line
              PROVE  LineLength(l) \in Nat \ {0}
  OBVIOUS
<1>1. LinePacks[l] \in Nat \ {0} /\ PackWidth \in Nat \ {0}
  BY HostAssumption DEF Line
<1>2. \A a, b \in Nat \ {0} : a * b \in Nat \ {0}
  OBVIOUS
<1>. QED
  BY <1>1, <1>2 DEF LineLength

\* The recursion is well defined.
LEMMA BehindIs ==
  /\ Behind \in [0 .. Len(LinePacks) -> Nat]
  /\ Behind[0] = 0
  /\ \A l \in Line : Behind[l] = Behind[l - 1] + LineLength(l)
<1> DEFINE D == 0 .. Len(LinePacks)
           Step(g, l) == IF l = 0 THEN 0 ELSE g[l - 1] + LineLength(l)
           Upto(n) == \E g \in [D -> Nat] : \A l \in D : l <= n => g[l] = Step(g, l)
           S == {n \in Nat : Upto(n)}
<1>0. Len(LinePacks) \in Nat /\ Line = 1 .. Len(LinePacks)
  BY HostAssumption DEF Line
<1>1. 0 \in S
  <2> DEFINE g == [l \in D |-> 0]
  <2>1. g \in [D -> Nat] /\ \A l \in D : l <= 0 => g[l] = Step(g, l)
    BY <1>0
  <2>. QED
    BY <2>1
<1>2. ASSUME NEW n \in S
      PROVE  n + 1 \in S
  <2>1. PICK g \in [D -> Nat] : \A l \in D : l <= n => g[l] = Step(g, l)
    BY <1>2
  <2>2. CASE n + 1 \notin D
    BY <1>0, <2>1, <2>2
  <2>3. CASE n + 1 \in D
    <3> DEFINE h == [g EXCEPT ![n + 1] = g[n] + LineLength(n + 1)]
    <3>1. n \in D /\ n + 1 \in Line /\ n \in Nat
      BY <1>0, <2>3
    <3>2. h \in [D -> Nat]
      BY <2>1, <3>1, LengthType, SMTT(30)
    <3>3. \A l \in D : l <= n + 1 => h[l] = Step(h, l)
      <4>. SUFFICES ASSUME NEW l \in D, l <= n + 1
                    PROVE  h[l] = Step(h, l)
        OBVIOUS
      <4>1. l \in Nat
        BY <1>0
      <4>2. CASE l = n + 1
        BY <2>1, <2>3, <3>1, <4>2
      <4>3. CASE l <= n
        BY <1>0, <2>1, <3>1, <4>1, <4>3
      <4>. QED
        BY <3>1, <4>1, <4>2, <4>3
    <3>4. Upto(n + 1)
      <4>. HIDE DEF h, D, Step
      <4>. QED
        BY <3>2, <3>3
    <3>5. n + 1 \in Nat
      BY <3>1
    <3>. HIDE DEF Upto
    <3>. QED
      BY <3>4, <3>5
  <2>. QED
    BY <2>2, <2>3
<1>3. Upto(Len(LinePacks))
  <2>. HIDE DEF Upto
  <2>1. Nat \subseteq S
    BY <1>1, <1>2, Induction
  <2>. QED
    BY <1>0, <2>1
<1>4. PICK g \in [D -> Nat] : \A l \in D : g[l] = Step(g, l)
  BY <1>0, <1>3
<1>5. g = [l \in D |-> Step(g, l)]
  BY <1>4
<1>6. Behind = [l \in D |-> Step(Behind, l)]
  BY <1>5 DEF Behind
<1>7. \A l \in D : Behind[l] = Step(Behind, l)
  BY <1>6
<1>8. Behind[0] = 0 /\ \A l \in Line : Behind[l] = Behind[l - 1] + LineLength(l)
  BY <1>0, <1>7
<1>9. Behind \in [D -> Nat]
  <2> DEFINE T == {n \in Nat : n \in D => Behind[n] \in Nat}
  <2>1. 0 \in T
    BY <1>8
  <2>2. ASSUME NEW n \in T
        PROVE  n + 1 \in T
    <3>1. CASE n + 1 \in D
      <4>1. n \in D /\ n + 1 \in Line /\ (n + 1) - 1 = n
        BY <1>0, <3>1
      <4>2. Behind[n + 1] = Behind[n] + LineLength(n + 1)
        BY <1>8, <4>1
      <4>3. Behind[n] \in Nat
        BY <4>1
      <4>. QED
        BY <4>1, <4>2, <4>3, LengthType
    <3>. QED
      BY <3>1
  <2>3. Nat \subseteq T
    BY <2>1, <2>2, Induction
  <2>4. \A n \in D : Behind[n] \in Nat
    BY <1>0, <2>3
  <2>. QED
    BY <1>6, <2>4
<1>. QED
  BY <1>8, <1>9

\* Later lines end later.
LEMMA BehindGrows ==
  ASSUME NEW k \in 0 .. Len(LinePacks), NEW l \in 0 .. Len(LinePacks), k < l
  PROVE  /\ k + 1 \in Line /\ Behind[k + 1] = Behind[k] + LineLength(k + 1)
         /\ Behind[k] + LineLength(k + 1) <= Behind[l]
         /\ Behind[k] < Behind[l]
<1>0. Len(LinePacks) \in Nat /\ Line = 1 .. Len(LinePacks)
  BY HostAssumption DEF Line
<1>1. k + 1 \in Line /\ (k + 1) - 1 = k
  BY <1>0
<1>2. Behind[k + 1] = Behind[k] + LineLength(k + 1) /\ LineLength(k + 1) \in Nat \ {0}
  BY <1>1, BehindIs, LengthType
<1> DEFINE T == {n \in Nat : n \in k + 1 .. Len(LinePacks) => Behind[k + 1] <= Behind[n]}
<1>3. 0 \in T
  BY <1>0
<1>4. ASSUME NEW n \in T
      PROVE  n + 1 \in T
  <2>1. CASE n < k + 1 \/ n + 1 > Len(LinePacks)
    <3>1. n + 1 \in k + 1 .. Len(LinePacks) => n + 1 = k + 1
      BY <1>0, <2>1
    <3>2. Behind[k + 1] \in Nat
      BY <1>0, <1>1, BehindIs
    <3>. QED
      BY <3>1, <3>2
  <2>2. CASE n >= k + 1 /\ n + 1 <= Len(LinePacks)
    <3>1. n \in k + 1 .. Len(LinePacks) /\ n + 1 \in Line /\ (n + 1) - 1 = n
      BY <1>0, <2>2
    <3>2. Behind[n + 1] = Behind[n] + LineLength(n + 1) /\ LineLength(n + 1) \in Nat
      BY <3>1, BehindIs, LengthType
    <3>3. Behind[k + 1] <= Behind[n]
      BY <3>1
    <3>4. Behind[k + 1] \in Nat /\ Behind[n] \in Nat
      BY <1>0, <1>1, <3>1, BehindIs
    <3>. QED
      BY <3>2, <3>3, <3>4
  <2>. QED
    BY <1>0, <2>1, <2>2
<1>5. Nat \subseteq T
  BY <1>3, <1>4, Induction
<1>6. Behind[k + 1] <= Behind[l]
  BY <1>0, <1>5
<1>7. Behind[k] \in Nat /\ Behind[l] \in Nat
  BY <1>0, BehindIs
<1>. QED
  BY <1>1, <1>2, <1>6, <1>7

\* The words of a line.
DataWord == [kind : {"data"}, line : Nat, at : Nat]

LEMMA WordsType ==
  ASSUME NEW l \in Line
  PROVE  WordsOf(l) \in Seq(DataWord) /\ Len(WordsOf(l)) = LineLength(l)
<1>1. LineLength(l) \in Nat /\ l \in Nat
  BY LengthType, HostAssumption DEF Line
<1>2. WordsOf(l) \in [1 .. LineLength(l) -> DataWord]
  BY <1>1 DEF WordsOf, DataWord
<1>. QED
  BY <1>1, <1>2, IsASeq, LenProperties

\* What FlattenSeq computes, step by step.
LEMMA FlattenIs ==
  ASSUME NEW seqs, Len(seqs) \in Nat \ {0}
  PROVE  \E f : /\ f[1] = seqs[1]
                /\ \A i \in 1 .. Len(seqs) - 1 : f[i + 1] = f[i] \o seqs[i + 1]
                /\ FlattenSeq(seqs) = f[Len(seqs)]
<1> DEFINE D == 1 .. Len(seqs)
           Step(g, i) == IF i = 1 THEN seqs[i] ELSE g[i - 1] \o seqs[i]
           Upto(n) == \E g : \A i \in D : i <= n => g[i] = Step(g, i)
           S == {n \in Nat : Upto(n)}
<1>1. 0 \in S
  OBVIOUS
<1>2. ASSUME NEW n \in S
      PROVE  n + 1 \in S
  <2>1. PICK g : \A i \in D : i <= n => g[i] = Step(g, i)
    BY <1>2
  <2> DEFINE h == [i \in D |-> IF i <= n THEN g[i] ELSE Step(g, i)]
  <2>2. \A i \in D : i <= n + 1 => h[i] = Step(h, i)
    <3>. SUFFICES ASSUME NEW i \in D, i <= n + 1
                  PROVE  h[i] = Step(h, i)
      OBVIOUS
    <3>1. i \in Nat /\ n \in Nat /\ h[i] = Step(g, i)
      BY <2>1
    <3>2. CASE i = 1
      BY <3>1, <3>2
    <3>3. CASE i > 1
      <4>1. i - 1 \in D /\ i - 1 <= n
        BY <3>1, <3>3
      <4>. QED
        BY <3>1, <3>3, <4>1
    <3>. QED
      BY <3>1, <3>2, <3>3
  <2>3. Upto(n + 1)
    <3>. HIDE DEF h, D, Step
    <3>. QED
      BY <2>2
  <2>. HIDE DEF Upto
  <2>. QED
    BY <2>3
<1>3. Upto(Len(seqs))
  <2>. HIDE DEF Upto
  <2>1. Nat \subseteq S
    BY <1>1, <1>2, Induction
  <2>. QED
    BY <2>1
<1>4. PICK g : \A i \in D : g[i] = Step(g, i)
  BY <1>3
<1> DEFINE f == CHOOSE h : h = [i \in D |-> Step(h, i)]
<1>5. [i \in D |-> g[i]] = [i \in D |-> Step([j \in D |-> g[j]], i)]
  BY <1>4
<1>6. f = [i \in D |-> Step(f, i)]
  <2>. HIDE DEF D, Step
  <2>. QED
    BY <1>5
<1>7. FlattenSeq(seqs) = f[Len(seqs)]
  BY DEF FlattenSeq
<1>. HIDE DEF f
<1>8. \A i \in D : f[i] = Step(f, i)
  BY <1>6
<1>9. f[1] = seqs[1]
  BY <1>8
<1>10. ASSUME NEW i \in 1 .. Len(seqs) - 1
       PROVE  f[i + 1] = f[i] \o seqs[i + 1]
  <2>1. i + 1 \in D /\ i + 1 # 1 /\ (i + 1) - 1 = i
    OBVIOUS
  <2>2. f[i + 1] = Step(f, i + 1)
    BY <1>8, <2>1
  <2>. QED
    BY <2>1, <2>2
<1>. QED
  BY <1>7, <1>9, <1>10

\* The stream has the words of one line behind those of the other.
LEMMA StreamIs ==
  /\ Len(Stream) = Behind[Len(LinePacks)]
  /\ \A l \in Line : \A p \in 1 .. LineLength(l) : Stream[Behind[l - 1] + p] = WordsOf(l)[p]
<1> DEFINE seqs == [l \in Line |-> WordsOf(l)]
           n == Len(LinePacks)
<1>0. n \in Nat /\ Line = 1 .. n
  BY HostAssumption DEF Line
<1>1. Len(seqs) = n
  <2>1. seqs \in Seq(Seq(DataWord))
    BY <1>0, WordsType, IsASeq
  <2>. QED
    BY <1>0, <2>1, LenProperties
<1>2. CASE n = 0
  <2>1. Stream = seqs
    BY <1>1, <1>2 DEF Stream, FlattenSeq
  <2>. QED
    BY <1>0, <1>1, <1>2, <2>1, BehindIs
<1>3. CASE n # 0
  <2>1. PICK f : /\ f[1] = seqs[1]
                 /\ \A i \in 1 .. n - 1 : f[i + 1] = f[i] \o seqs[i + 1]
                 /\ Stream = f[n]
    BY <1>0, <1>1, <1>3, FlattenIs DEF Stream
  <2> DEFINE Fine(k) == /\ f[k] \in Seq(DataWord) /\ Len(f[k]) = Behind[k]
                        /\ \A l \in 1 .. k : \A p \in 1 .. LineLength(l) :
                             f[k][Behind[l - 1] + p] = WordsOf(l)[p]
             S == {k \in Nat : k + 1 \in Line => Fine(k + 1)}
  <2>2. 0 \in S
    <3>1. 1 \in Line /\ f[1] = WordsOf(1)
      BY <1>0, <1>3, <2>1
    <3>2. Behind[0] = 0 /\ Behind[1] = Behind[1 - 1] + LineLength(1) /\ LineLength(1) \in Nat
      BY <3>1, BehindIs, LengthType
    <3>3. Behind[1 - 1] = 0 /\ Behind[1] = LineLength(1)
      BY <3>2
    <3>4. f[1] \in Seq(DataWord) /\ Len(f[1]) = Behind[1]
      BY <3>1, <3>3, WordsType
    <3>5. \A l \in 1 .. 1 : \A p \in 1 .. LineLength(l) : f[1][Behind[l - 1] + p] = WordsOf(l)[p]
      <4>. SUFFICES ASSUME NEW p \in 1 .. LineLength(1)
                    PROVE  f[1][Behind[1 - 1] + p] = WordsOf(1)[p]
        OBVIOUS
      <4>1. Behind[1 - 1] + p = p
        BY <3>3
      <4>. QED
        BY <3>1, <4>1
    <3>. QED
      BY <3>4, <3>5
  <2>3. ASSUME NEW k \in S
        PROVE  k + 1 \in S
    <3>. SUFFICES ASSUME k + 2 \in Line
                  PROVE  Fine(k + 2)
      OBVIOUS
    <3> DEFINE q == f[k + 1]
               w == WordsOf(k + 2)
    <3>1. k \in Nat /\ k + 1 \in Line /\ k + 1 \in 1 .. n - 1
      BY <1>0
    <3>2. q \in Seq(DataWord) /\ Len(q) = Behind[k + 1]
          /\ \A l \in 1 .. k + 1 : \A p \in 1 .. LineLength(l) :
               q[Behind[l - 1] + p] = WordsOf(l)[p]
      BY <3>1
    <3>3. f[k + 2] = q \o w
      <4>1. (k + 1) + 1 = k + 2
        BY <3>1
      <4>2. f[k + 2] = f[k + 1] \o seqs[k + 2]
        BY <2>1, <3>1, <4>1
      <4>. QED
        BY <4>2
    <3>4. w \in Seq(DataWord) /\ Len(w) = LineLength(k + 2)
      BY WordsType
    <3>5. Behind[k + 2] = Behind[k + 1] + LineLength(k + 2)
      <4>1. (k + 2) - 1 = k + 1
        BY <3>1
      <4>. QED
        BY <4>1, BehindIs
    <3>. HIDE DEF q, w
    <3>6. f[k + 2] \in Seq(DataWord) /\ Len(f[k + 2]) = Behind[k + 2]
      <4>1. q \o w \in Seq(DataWord) /\ Len(q \o w) = Len(q) + Len(w)
        BY <3>2, <3>4, ConcatProperties
      <4>. QED
        BY <3>2, <3>3, <3>4, <3>5, <4>1
    <3>7. ASSUME NEW l \in 1 .. k + 1, NEW p \in 1 .. LineLength(l)
          PROVE  f[k + 2][Behind[l - 1] + p] = WordsOf(l)[p]
      <4>1. l \in Line /\ l - 1 \in 0 .. n /\ k + 1 \in 0 .. n /\ l \in 0 .. n
        BY <1>0, <3>1
      <4>2. Behind[l] = Behind[l - 1] + LineLength(l) /\ LineLength(l) \in Nat
        BY <4>1, BehindIs, LengthType
      <4>3. Behind[l] <= Behind[k + 1]
        <5>1. CASE l = k + 1
          <6>1. Behind[k + 1] \in Nat
            BY <4>1, BehindIs
          <6>. QED
            BY <5>1, <6>1
        <5>2. CASE l < k + 1
          <6>1. Behind[l] < Behind[k + 1] /\ Behind[l] \in Nat /\ Behind[k + 1] \in Nat
            BY <4>1, <5>2, BehindGrows, BehindIs
          <6>. QED
            BY <6>1
        <5>. QED
          BY <3>1, <5>1, <5>2
      <4>4. Behind[l - 1] \in Nat /\ Behind[k + 1] \in Nat
        BY <4>1, BehindIs
      <4>5. Behind[l - 1] + p \in 1 .. Len(q)
        BY <3>2, <4>2, <4>3, <4>4
      <4>6. f[k + 2][Behind[l - 1] + p] = q[Behind[l - 1] + p]
        BY <3>2, <3>3, <3>4, <4>5, ConcatProperties
      <4>. QED
        BY <3>2, <4>6
    <3>8. ASSUME NEW p \in 1 .. LineLength(k + 2)
          PROVE  f[k + 2][Behind[k + 1] + p] = WordsOf(k + 2)[p]
      <4>1. LineLength(k + 2) \in Nat
        BY LengthType
      <4>2. Len(q) + p \in Len(q) + 1 .. Len(q) + Len(w) /\ (Len(q) + p) - Len(q) = p
        BY <3>2, <3>4, <4>1
      <4>3. \A i \in 1 .. Len(q) + Len(w) :
               (q \o w)[i] = IF i <= Len(q) THEN q[i] ELSE w[i - Len(q)]
        BY <3>2, <3>4, ConcatProperties
      <4>4. Len(q) + p \in 1 .. Len(q) + Len(w) /\ ~(Len(q) + p <= Len(q))
        BY <3>2, <3>4, <4>1, LenProperties
      <4>5. (q \o w)[Len(q) + p] = w[p]
        BY <4>2, <4>3, <4>4
      <4>. QED
        BY <3>2, <3>3, <4>5 DEF w
    <3>9. ASSUME NEW l \in 1 .. k + 2, NEW p \in 1 .. LineLength(l)
          PROVE  f[k + 2][Behind[l - 1] + p] = WordsOf(l)[p]
      <4>1. CASE l = k + 2
        <5>1. l - 1 = k + 1
          BY <3>1, <4>1
        <5>. QED
          BY <3>8, <4>1, <5>1
      <4>2. CASE l \in 1 .. k + 1
        BY <3>7, <4>2
      <4>. QED
        BY <3>1, <4>1, <4>2
    <3>. QED
      BY <3>6, <3>9
  <2>4. Fine(n)
    <3>. HIDE DEF Fine
    <3>1. Nat \subseteq S
      BY <2>2, <2>3, Induction
    <3>2. n - 1 \in Nat /\ (n - 1) + 1 = n /\ n \in Line
      BY <1>0, <1>3
    <3>. QED
      BY <3>1, <3>2
  <2>. QED
    BY <1>0, <2>1, <2>4
<1>. QED
  BY <1>2, <1>3

-----------------------------------------------------------------------------
(***************************************************************************)
(* Buffers.                                                                *)
(***************************************************************************)
\* The event of line l, and those of the lines behind a up to b.
EventOf(l) == [index |-> l - 1, words |-> WordsOf(l)]
Events(a, b) == [i \in 1 .. b - a |-> EventOf(a + i)]

\* Where the metadata of line l is in a buffer whose lines begin behind line a.
PlaceOf(a, l) == (Behind[l - 1] - Behind[a]) + (l - 1 - a)

HoldsLine(buf, place, l) ==
  /\ buf[place] = Metadata(l - 1, LineLength(l))
  /\ \A p \in 1 .. LineLength(l) : buf[place + p] = WordsOf(l)[p]
HoldsLines(buf, a, b) == \A l \in a + 1 .. b : HoldsLine(buf, PlaceOf(a, l), l)

\* What a worker finds in a buffer: the lines behind a up to b.
Carries(buf, a, b) == buf[0] # Zero /\ EventsOf(buf) = Events(a, b)

\* The words of a buffer.
Cell == [kind : {"zero", "junk", "data", "meta"}, line : Nat, at : 0 .. BufferSize]
Buffer == [0 .. BufferSize - 1 -> Cell]

\* A line takes its words and one for its metadata.
LEMMA PlaceIs ==
  ASSUME NEW a \in 0 .. Len(LinePacks)
  PROVE  /\ PlaceOf(a, a + 1) = 0
         /\ \A l \in a + 1 .. Len(LinePacks) :
              /\ l \in Line /\ LineLength(l) \in Nat \ {0}
              /\ PlaceOf(a, l) \in Nat
              /\ PlaceOf(a, l + 1) = PlaceOf(a, l) + LineLength(l) + 1
              /\ \A k \in a + 1 .. l - 1 : PlaceOf(a, k) + LineLength(k) < PlaceOf(a, l)
<1>0. Len(LinePacks) \in Nat /\ Line = 1 .. Len(LinePacks) /\ a \in Nat
  BY HostAssumption DEF Line
<1>1. \A l \in 0 .. Len(LinePacks) : Behind[l] \in Nat
  BY BehindIs
<1>2. PlaceOf(a, a + 1) = 0
  <2>1. (a + 1) - 1 = a
    BY <1>0
  <2>. QED
    BY <1>0, <1>1, <2>1 DEF PlaceOf
<1>3. ASSUME NEW l \in a + 1 .. Len(LinePacks)
      PROVE  /\ l \in Line /\ LineLength(l) \in Nat \ {0}
             /\ PlaceOf(a, l) \in Nat
             /\ PlaceOf(a, l + 1) = PlaceOf(a, l) + LineLength(l) + 1
  <2>1. l \in Line /\ l - 1 \in 0 .. Len(LinePacks) /\ (l + 1) - 1 = l
    BY <1>0
  <2>2. Behind[l] = Behind[l - 1] + LineLength(l) /\ LineLength(l) \in Nat \ {0}
    BY <2>1, BehindIs, LengthType
  <2>3. Behind[a] <= Behind[l - 1]
    <3>1. CASE a = l - 1
      BY <1>1, <2>1, <3>1
    <3>2. CASE a < l - 1
      BY <1>1, <2>1, <3>2, BehindGrows
    <3>. QED
      BY <1>0, <3>1, <3>2
  <2>4. Behind[a] \in Nat /\ Behind[l - 1] \in Nat
    BY <1>1, <2>1
  <2>5. l \in Nat /\ a < l
    BY <1>0
  <2>6. PlaceOf(a, l) \in Nat
    BY <1>0, <2>3, <2>4, <2>5 DEF PlaceOf
  <2>7. PlaceOf(a, l + 1) = (Behind[l] - Behind[a]) + (l - a)
    BY <2>1 DEF PlaceOf
  <2>8. PlaceOf(a, l + 1) = PlaceOf(a, l) + LineLength(l) + 1
    BY <1>0, <2>2, <2>4, <2>5, <2>7 DEF PlaceOf
  <2>. QED
    BY <2>1, <2>2, <2>6, <2>8
<1>4. ASSUME NEW l \in a + 1 .. Len(LinePacks), NEW k \in a + 1 .. l - 1
      PROVE  PlaceOf(a, k) + LineLength(k) < PlaceOf(a, l)
  <2>1. k \in Line /\ k - 1 \in 0 .. Len(LinePacks) /\ l - 1 \in 0 .. Len(LinePacks)
        /\ k - 1 < l - 1 /\ (k - 1) + 1 = k
    BY <1>0
  <2>2. Behind[k - 1] + LineLength(k) <= Behind[l - 1]
    BY <2>1, BehindGrows
  <2>3. Behind[k - 1] \in Nat /\ Behind[l - 1] \in Nat /\ Behind[a] \in Nat /\ LineLength(k) \in Nat
    BY <1>1, <2>1, LengthType
  <2>4. k \in Nat /\ l \in Nat /\ k < l
    BY <1>0
  <2> DEFINE p == Behind[k - 1]
             q == Behind[l - 1]
             r == Behind[a]
             n == LineLength(k)
  <2>5. p \in Nat /\ q \in Nat /\ r \in Nat /\ n \in Nat /\ p + n <= q
    BY <2>2, <2>3
  <2>. SUFFICES (p - r) + (k - 1 - a) + n < (q - r) + (l - 1 - a)
    BY DEF PlaceOf
  <2>. HIDE DEF p, q, r, n
  <2>. QED
    BY <1>0, <2>4, <2>5
<1>. QED
  BY <1>2, <1>3, <1>4

\* What EventsOf computes, step by step.
EventsFrom(buf, from, i) ==
  IF i >= BufferSize \/ buf[i] = Zero THEN << >>
  ELSE IF buf[i].kind # "meta" THEN <<[index |-> -1, words |-> << >>]>>
  ELSE LET n == buf[i].at
       IN  <<[index |-> buf[i].line, words |-> [j \in 1 .. n |-> buf[i + j]]]>>
             \o from[i + n + 1]

LEMMA EventsOfIs ==
  ASSUME NEW buf \in Buffer
  PROVE  \E from :
           /\ EventsOf(buf) = from[0]
           /\ \A i \in 0 .. 2 * BufferSize + 1 : from[i] = EventsFrom(buf, from, i)
<1> DEFINE D == 0 .. 2 * BufferSize + 1
           Step(g, i) == EventsFrom(buf, g, i)
           Down(n) == \E g : \A i \in D : i + n > 2 * BufferSize + 1 => g[i] = Step(g, i)
           S == {n \in Nat : Down(n)}
<1>0. BufferSize \in Nat
  BY HostAssumption
<1>1. 0 \in S
  BY <1>0
<1>2. ASSUME NEW g, NEW h, NEW i \in D,
             \A j \in D : j > i => g[j] = h[j]
      PROVE  Step(g, i) = Step(h, i)
  <2>1. CASE i >= BufferSize \/ buf[i] = Zero \/ buf[i].kind # "meta"
    BY <2>1 DEF EventsFrom
  <2>2. CASE ~(i >= BufferSize \/ buf[i] = Zero \/ buf[i].kind # "meta")
    <3>1. i \in 0 .. BufferSize - 1
      BY <1>0, <2>2
    <3>2. buf[i].at \in 0 .. BufferSize
      BY <3>1 DEF Buffer, Cell
    <3>3. i + buf[i].at + 1 \in D /\ i + buf[i].at + 1 > i
      BY <1>0, <3>1, <3>2
    <3>4. g[i + buf[i].at + 1] = h[i + buf[i].at + 1]
      BY <1>2, <3>3
    <3>. QED
      BY <2>2, <3>4 DEF EventsFrom
  <2>. QED
    BY <2>1, <2>2
<1>3. ASSUME NEW n \in S
      PROVE  n + 1 \in S
  <2>1. PICK g : \A i \in D : i + n > 2 * BufferSize + 1 => g[i] = Step(g, i)
    BY <1>3
  <2> DEFINE h == [i \in D |-> IF i + n > 2 * BufferSize + 1 THEN g[i] ELSE Step(g, i)]
  <2>2. ASSUME NEW i \in D, i + (n + 1) > 2 * BufferSize + 1
        PROVE  h[i] = Step(h, i)
    <3>1. \A j \in D : j > i => g[j] = h[j]
      BY <1>0, <2>2
    <3>2. Step(g, i) = Step(h, i)
      <4>. HIDE DEF h, Step, D
      <4>. QED
        BY <1>2, <3>1
    <3>3. h[i] = Step(g, i)
      <4>. HIDE DEF Step
      <4>. QED
        BY <2>1
    <3>. QED
      BY <3>2, <3>3
  <2>3. Down(n + 1)
    <3>. HIDE DEF h, D, Step
    <3>. QED
      BY <2>2
  <2>. HIDE DEF Down
  <2>. QED
    BY <2>3
<1>4. Down(2 * BufferSize + 2)
  <2>. HIDE DEF Down
  <2>1. Nat \subseteq S
    BY <1>1, <1>3, Induction
  <2>. QED
    BY <1>0, <2>1
<1>5. PICK g : \A i \in D : g[i] = Step(g, i)
  <2>1. \A i \in D : i + (2 * BufferSize + 2) > 2 * BufferSize + 1
    BY <1>0
  <2>. HIDE DEF D, Step
  <2>. QED
    BY <1>4, <2>1
<1> DEFINE from == CHOOSE f : f = [i \in D |-> Step(f, i)]
           h == [i \in D |-> g[i]]
<1>6. ASSUME NEW i \in D
      PROVE  h[i] = Step(h, i)
  <2>1. \A j \in D : j > i => g[j] = h[j]
    OBVIOUS
  <2>. HIDE DEF Step, D
  <2>2. h[i] = Step(g, i)
    BY <1>5
  <2>. HIDE DEF h
  <2>3. Step(g, i) = Step(h, i)
    BY <1>2, <2>1
  <2>. QED
    BY <2>2, <2>3
<1>7. h = [i \in D |-> Step(h, i)]
  <2>. HIDE DEF Step, D
  <2>1. h = [i \in D |-> h[i]]
    OBVIOUS
  <2>. HIDE DEF h
  <2>. QED
    BY <1>6, <2>1
<1>8. from = [i \in D |-> Step(from, i)]
  <2>. HIDE DEF D, Step, h
  <2>. QED
    BY <1>7
<1>9. EventsOf(buf) = from[0]
  BY DEF EventsOf, EventsFrom
<1>10. \A i \in D : from[i] = Step(from, i)
  <2>. HIDE DEF Step, from
  <2>. QED
    BY <1>8
<1>. HIDE DEF from
<1>. QED
  BY <1>9, <1>10

\* A worker finds the lines of a buffer that ends behind them or with a zero.
LEMMA EventsFound ==
  ASSUME NEW buf \in Buffer,
         NEW a \in 0 .. Len(LinePacks), NEW b \in a .. Len(LinePacks),
         HoldsLines(buf, a, b),
         PlaceOf(a, b + 1) <= BufferSize,
         PlaceOf(a, b + 1) < BufferSize => buf[PlaceOf(a, b + 1)] = Zero
  PROVE  EventsOf(buf) = Events(a, b)
<1>0. /\ BufferSize \in Nat /\ Len(LinePacks) \in Nat /\ Line = 1 .. Len(LinePacks)
      /\ a \in Nat /\ b \in Nat
  BY HostAssumption DEF Line
<1>1. PICK from :
        /\ EventsOf(buf) = from[0]
        /\ \A i \in 0 .. 2 * BufferSize + 1 : from[i] = EventsFrom(buf, from, i)
  BY EventsOfIs
<1>2. PlaceOf(a, b + 1) \in Nat
  <2>1. CASE a = b
    BY <2>1, PlaceIs
  <2>2. CASE a < b
    BY <1>0, <2>2, PlaceIs
  <2>. QED
    BY <1>0, <2>1, <2>2
<1>3. from[PlaceOf(a, b + 1)] = << >>
  <2> DEFINE q == PlaceOf(a, b + 1)
  <2>1. q \in 0 .. 2 * BufferSize + 1 /\ (q >= BufferSize \/ buf[q] = Zero)
    BY <1>0, <1>2
  <2>. HIDE DEF q
  <2>2. from[q] = EventsFrom(buf, from, q)
    BY <1>1, <2>1
  <2>3. EventsFrom(buf, from, q) = << >>
    BY <2>1 DEF EventsFrom
  <2>. QED
    BY <2>2, <2>3 DEF q
<1>4. ASSUME NEW l \in a + 1 .. b
      PROVE  /\ PlaceOf(a, l) \in Nat
             /\ from[PlaceOf(a, l)] = <<EventOf(l)>> \o from[PlaceOf(a, l + 1)]
  <2> DEFINE i == PlaceOf(a, l)
  <2>1. /\ l \in Line /\ LineLength(l) \in Nat \ {0} /\ i \in Nat
        /\ PlaceOf(a, l + 1) = i + LineLength(l) + 1
    BY <1>0, PlaceIs
  <2>2. PlaceOf(a, l + 1) <= PlaceOf(a, b + 1)
    <3>1. CASE l = b
      BY <1>2, <3>1
    <3>2. CASE l < b
      <4>1. /\ PlaceOf(a, l) + LineLength(l) < PlaceOf(a, b)
            /\ PlaceOf(a, b) \in Nat /\ LineLength(b) \in Nat
            /\ PlaceOf(a, b + 1) = PlaceOf(a, b) + LineLength(b) + 1
        BY <1>0, <3>2, PlaceIs
      <4>. QED
        BY <2>1, <4>1
    <3>. QED
      BY <1>0, <3>1, <3>2
  <2>3. i < BufferSize /\ i \in 0 .. 2 * BufferSize + 1
    BY <1>0, <1>2, <2>1, <2>2
  <2>4. buf[i] = Metadata(l - 1, LineLength(l))
        /\ \A p \in 1 .. LineLength(l) : buf[i + p] = WordsOf(l)[p]
    BY DEF HoldsLines, HoldsLine
  <2>. HIDE DEF i
  <2>5. buf[i] # Zero /\ buf[i].kind = "meta" /\ buf[i].at = LineLength(l) /\ buf[i].line = l - 1
    BY <2>4 DEF Metadata, Zero
  <2>6. [j \in 1 .. LineLength(l) |-> buf[i + j]] = WordsOf(l)
    BY <2>4 DEF WordsOf
  <2>7. from[i] = <<[index |-> buf[i].line, words |-> [j \in 1 .. buf[i].at |-> buf[i + j]]]>>
                    \o from[i + buf[i].at + 1]
    <3>1. from[i] = EventsFrom(buf, from, i)
      BY <1>1, <2>3
    <3>2. ~(i >= BufferSize \/ buf[i] = Zero) /\ ~(buf[i].kind # "meta")
      BY <1>0, <2>1, <2>3, <2>5 DEF i
    <3>. QED
      BY <3>1, <3>2 DEF EventsFrom
  <2>. QED
    BY <2>1, <2>5, <2>6, <2>7 DEF EventOf, i
<1> DEFINE T == {n \in Nat : n <= b - a => from[PlaceOf(a, b - n + 1)] = Events(b - n, b)}
<1>5. 0 \in T
  <2>1. Events(b, b) = << >>
    BY <1>0 DEF Events
  <2>2. b - 0 + 1 = b + 1 /\ b - 0 = b
    BY <1>0
  <2>. QED
    BY <1>3, <2>1, <2>2
<1>6. ASSUME NEW n \in T
      PROVE  n + 1 \in T
  <2>. SUFFICES ASSUME n + 1 <= b - a
                PROVE  from[PlaceOf(a, b - (n + 1) + 1)] = Events(b - (n + 1), b)
    OBVIOUS
  <2> DEFINE l == b - n
  <2>1. /\ n \in Nat /\ l \in a + 1 .. b /\ b - n + 1 = l + 1
        /\ b - (n + 1) + 1 = l /\ b - (n + 1) = l - 1 /\ n <= b - a
    BY <1>0
  <2>2. from[PlaceOf(a, l + 1)] = Events(l, b)
    BY <2>1
  <2>. HIDE DEF l
  <2>3. from[PlaceOf(a, l)] = <<EventOf(l)>> \o Events(l, b)
    BY <1>4, <2>1, <2>2
  <2>4. <<EventOf(l)>> \o Events(l, b) = Events(l - 1, b)
    <3> DEFINE E == {EventOf(m) : m \in Nat}
               e == Events(l, b)
    <3>1. l \in Nat /\ b - l \in Nat
      BY <1>0, <2>1
    <3>2. e \in Seq(E) /\ Len(e) = b - l /\ \A i \in 1 .. b - l : e[i] = EventOf(l + i)
      <4>1. \A i \in 1 .. b - l : EventOf(l + i) \in E
        BY <3>1
      <4>. HIDE DEF E
      <4>2. [i \in 1 .. b - l |-> EventOf(l + i)] \in Seq(E)
        BY <3>1, <4>1, IsASeq
      <4>3. DOMAIN e = 1 .. b - l /\ \A i \in 1 .. b - l : e[i] = EventOf(l + i)
        BY DEF Events
      <4>4. e \in Seq(E)
        BY <4>2 DEF Events
      <4>. HIDE DEF e
      <4>5. Len(e) = b - l
        <5>1. Len(e) \in Nat /\ 1 .. Len(e) = 1 .. b - l
          BY <4>3, <4>4, LenProperties
        <5>2. \A m, k \in Nat : 1 .. m = 1 .. k => m = k
          OBVIOUS
        <5>. QED
          BY <3>1, <5>1, <5>2
      <4>. QED
        BY <4>3, <4>4, <4>5
    <3>3. <<EventOf(l)>> \in Seq(E) /\ Len(<<EventOf(l)>>) = 1
      BY <3>1
    <3>. HIDE DEF e, E
    <3> DEFINE c == <<EventOf(l)>> \o e
    <3>4. /\ c \in Seq(E) /\ Len(c) = 1 + (b - l)
          /\ \A i \in 1 .. 1 + (b - l) : c[i] = IF i <= 1 THEN <<EventOf(l)>>[i] ELSE e[i - 1]
      BY <3>2, <3>3, ConcatProperties
    <3>5. \A i \in 1 .. 1 + (b - l) : c[i] = EventOf((l - 1) + i)
      <4>. SUFFICES ASSUME NEW i \in 1 .. 1 + (b - l)
                    PROVE  c[i] = EventOf((l - 1) + i)
        OBVIOUS
      <4>1. CASE i = 1
        <5>1. (l - 1) + i = l
          BY <3>1, <4>1
        <5>. QED
          BY <3>4, <4>1, <5>1
      <4>2. CASE i > 1
        <5>1. (l - 1) + i = l + (i - 1) /\ i - 1 \in 1 .. b - l
          BY <3>1, <4>2
        <5>. QED
          BY <3>2, <3>4, <4>2, <5>1
      <4>3. i = 1 \/ i > 1
        BY <1>0, <3>1
      <4>. QED
        BY <4>1, <4>2, <4>3
    <3>6. c = [i \in 1 .. 1 + (b - l) |-> c[i]]
      BY <3>4, LenProperties
    <3>7. 1 + (b - l) = b - (l - 1)
      BY <3>1
    <3>. HIDE DEF c
    <3>8. c = Events(l - 1, b)
      BY <3>5, <3>6, <3>7 DEF Events
    <3>. QED
      BY <3>8 DEF c, e
  <2>. QED
    BY <2>1, <2>3, <2>4
<1>7. b - a \in T
  <2>1. T \in SUBSET Nat
    OBVIOUS
  <2>. HIDE DEF T
  <2>2. Nat \subseteq T
    BY <1>5, <1>6, <2>1, Induction
  <2>. QED
    BY <1>0, <2>2
<1>8. b - (b - a) + 1 = a + 1 /\ b - (b - a) = a /\ b - a <= b - a
  BY <1>0
<1>9. from[PlaceOf(a, a + 1)] = Events(a, b)
  BY <1>7, <1>8
<1>. QED
  BY <1>1, <1>9, PlaceIs

-----------------------------------------------------------------------------
(***************************************************************************)
(* The rings: as in BoundedBuffer_proofs, a push and a pop in terms of the *)
(* number of buffers that a ring tells.                                    *)
(***************************************************************************)
\* (i + 1) % N stays within the ring and differs from i + 1 only at its end.
LEMMA NextIsWrap == \A i \in Index : Next1(i) = Wrap(i + 1) /\ Next1(i) \in Index
<1>. SUFFICES ASSUME NEW i \in Index
              PROVE  Next1(i) = Wrap(i + 1) /\ Next1(i) \in Index
  OBVIOUS
<1>1. CASE i + 1 < N
  <2>1. (i + 1) % N = i + 1
    BY <1>1, NAssumption DEF Index
  <2>. QED
    BY <1>1, <2>1, NAssumption DEF Index, Next1, Wrap
<1>2. CASE i + 1 = N
  <2>1. N % N = 0
    BY NAssumption
  <2>. QED
    BY <1>2, <2>1, NAssumption DEF Index, Next1, Wrap
<1>. QED
  BY <1>1, <1>2, NAssumption DEF Index

Tells(r, n) ==
  /\ r \in Ring
  /\ r.empty <=> n = 0
  /\ r.full  <=> n = Capacity
  /\ r.tail = Wrap(r.head + n)

\* A push into a ring with a free slot leaves one that tells one buffer more.
LEMMA PushTells ==
  ASSUME NEW r, NEW n \in 0 .. Capacity - 1, Tells(r, n)
  PROVE  Tells(PushFront(r), n + 1) /\ PushFront(r).head = r.head
<1> DEFINE t == Next1(r.tail)
<1>1. r \in Ring /\ r.tail \in Index /\ r.head \in Index
  BY DEF Tells, Ring
<1>2. t = Wrap(r.tail + 1) /\ t \in Index /\ Next1(t) = Wrap(t + 1)
  BY <1>1, NextIsWrap
<1>3. PushFront(r) = [head |-> r.head, tail |-> t,
                      full |-> r.full \/ Next1(t) = r.head, empty |-> FALSE]
  BY DEF PushFront
<1>4. ~r.full
  BY DEF Tells
<1>. HIDE DEF t
<1>5. t = Wrap(r.head + (n + 1))
  BY <1>1, <1>2, NAssumption DEF Tells, Wrap, Index, Capacity
<1>6. (Next1(t) = r.head) <=> (n + 1 = Capacity)
  BY <1>1, <1>2, <1>5, NAssumption DEF Wrap, Index, Capacity
<1>7. PushFront(r) \in Ring
  BY <1>1, <1>2, <1>3, <1>4 DEF Ring
<1>8. /\ PushFront(r).head = r.head
      /\ PushFront(r).tail = t
      /\ PushFront(r).empty = FALSE
      /\ PushFront(r).full = (r.full \/ Next1(t) = r.head)
  BY <1>3
<1>9. n + 1 # 0
  OBVIOUS
<1>. QED
  BY <1>4, <1>5, <1>6, <1>7, <1>8, <1>9, Zenon DEF Tells

\* A pop from a ring that is not empty leaves one that tells one buffer less.
LEMMA PopTells ==
  ASSUME NEW r, NEW n \in 1 .. Capacity, Tells(r, n)
  PROVE  /\ Tells(PopBack(r), n - 1)
         /\ PopBack(r).head = Wrap(r.head + 1)
<1> DEFINE h == Next1(r.head)
<1>1. r \in Ring /\ r.tail \in Index /\ r.head \in Index
  BY DEF Tells, Ring
<1>2. h = Wrap(r.head + 1) /\ h \in Index
  BY <1>1, NextIsWrap
<1>3. PopBack(r) = [head |-> h, tail |-> r.tail,
                    full |-> FALSE, empty |-> r.empty \/ h = r.tail]
  BY DEF PopBack
<1>4. ~r.empty
  BY DEF Tells
<1>. HIDE DEF h
<1>5. r.tail = Wrap(h + (n - 1))
  BY <1>1, <1>2, NAssumption DEF Tells, Wrap, Index, Capacity
<1>6. (h = r.tail) <=> (n - 1 = 0)
  BY <1>1, <1>2, <1>5, NAssumption DEF Wrap, Index, Capacity
<1>7. PopBack(r) \in Ring
  BY <1>1, <1>2, <1>3, <1>4 DEF Ring
<1>8. n - 1 # Capacity
  BY NAssumption DEF Capacity
<1>9. /\ PopBack(r).head = h
      /\ PopBack(r).tail = r.tail
      /\ PopBack(r).full = FALSE
      /\ PopBack(r).empty = (r.empty \/ h = r.tail)
  BY <1>3
<1>. QED
  BY <1>2, <1>4, <1>5, <1>6, <1>7, <1>8, <1>9, Zenon DEF Tells

\* The buffers that the indices of a ring tell.
InRingOf(r) == IF r.head <= r.tail THEN r.tail - r.head ELSE r.tail - r.head + N

LEMMA TellsCount ==
  ASSUME NEW r, NEW n \in 0 .. Capacity, Tells(r, n)
  PROVE  InRingOf(r) = n
<1>1. r.tail \in Index /\ r.head \in Index /\ r.tail = Wrap(r.head + n)
  BY DEF Tells, Ring
<1>2. N \in Nat /\ N > 2 /\ n \in 0 .. N - 1
  BY HostAssumption, NAssumption DEF Capacity
<1> DEFINE h == r.head
           l == r.tail
<1>3. h \in 0 .. N - 1 /\ l = IF h + n < N THEN h + n ELSE h + n - N
  BY <1>1, <1>2 DEF Index, Wrap
<1>4. (IF h <= l THEN l - h ELSE l - h + N) = n
  <2>. HIDE DEF h, l
  <2>. QED
    BY <1>2, <1>3
<1>. QED
  BY <1>4 DEF InRingOf

\* The slots of the buffers in a ring, and the free one behind them, differ.
LEMMA SlotsApart ==
  ASSUME NEW r \in Ring, NEW i \in 0 .. Capacity, NEW j \in 0 .. Capacity, i # j
  PROVE  /\ Wrap(r.head + i) # Wrap(r.head + j)
         /\ Wrap(r.head + i) \in Index
<1>1. N \in Nat /\ N > 2 /\ i \in 0 .. N - 1 /\ j \in 0 .. N - 1
  BY HostAssumption, NAssumption DEF Capacity
<1>2. r.head \in 0 .. N - 1
  BY DEF Ring, Index
<1>. QED
  BY <1>1, <1>2 DEF Wrap, Index

-----------------------------------------------------------------------------
(***************************************************************************)
(* The inductive invariant.                                                *)
(***************************************************************************)
\* The buffers in ring t.
InRing(t) == InRingOf(rings[t])
SlotAt(t, k) == slots[t][Wrap(rings[t].head + k)]

\* Those of them with lines, and those that the worker has scanned but not yet
\* given back.
WithLines(t) == IF t < sentinels THEN InRing(t) - 1 ELSE InRing(t)
Held(t) == IF wpc[t] = "pop" THEN 1 ELSE 0

\* The buffer that the producer fills.
Current == slots[bufIdx][FrontSlot]

Shape ==
  /\ pc \in {"chunk", "loop", "peek", "copy", "sentinel", "done"}
  /\ bufIdx \in Thread /\ sentinels \in 0 .. NumThreads
  /\ rings \in [Thread -> Ring]
  /\ slots \in [Thread -> [Index -> Buffer]]
  /\ wpc \in [Thread -> {"peek", "pop", "exited"}]
  /\ scanned \in [Thread -> Seq({EventOf(l) : l \in Line})]
  /\ \A t \in Thread : InRing(t) \in 0 .. Capacity /\ Tells(rings[t], InRing(t))

\* The chunk, and the producer's place in the stream: behind eventIndex lines and lineLength words of the next one.
InputRight ==
  /\ base \in Nat /\ chunk \in Nat /\ done \in BOOLEAN /\ payloadIndex \in Int
  /\ eventIndex \in 0 .. Len(LinePacks) /\ lineLength \in Nat
  /\ base + chunk <= Behind[Len(LinePacks)]
  /\ payloadIndex \in PackWidth .. PackWidth + chunk
  /\ base + payloadIndex - PackWidth = Behind[eventIndex] + lineLength
  /\ lineLength > 0 => eventIndex < Len(LinePacks) /\ lineLength < LineLength(eventIndex + 1)
  /\ pc = "chunk" => ~done /\ payloadIndex = PackWidth + chunk
  /\ pc \in {"peek", "copy"} => InChunk(payloadIndex)
  /\ done => base + chunk = Behind[Len(LinePacks)]

\* The buffer being filled has the lines behind line `first' and the front of
\* the next one.
BufferRight(first) ==
  /\ startIndex = PlaceOf(first, eventIndex + 1)
  /\ currentIndex = startIndex + 1 + lineLength
  /\ startIndex <= BufferSize
  /\ pc \in {"peek", "copy"} => eventIndex = first /\ lineLength = 0
  /\ pc # "peek" =>
       /\ ~rings[bufIdx].full
       /\ HoldsLines(Current, first, eventIndex)
       /\ \A p \in 1 .. lineLength : Current[startIndex + p] = WordsOf(eventIndex + 1)[p]

\* The last chunk, if it has data, brings the last push.  Otherwise what is not
\* pushed is in the buffer at hand.
PushRight(first) ==
  IF pc \in {"sentinel", "done"}
  THEN (chunk > 0 => first = Len(LinePacks)) /\ TailSize(first) <= BufferSize
  ELSE done /\ chunk > 0 => InChunk(payloadIndex)

ProducerRight(first) ==
  /\ first \in 0 .. Len(LinePacks)
  /\ pc \notin {"sentinel", "done"} =>
       /\ sentinels = 0 /\ first <= eventIndex
       /\ InputRight /\ BufferRight(first)
  /\ PushRight(first)

\* The buffers each worker has been dealt, as the intervals of their lines: all
\* up to line `first', none twice.
DealRight(deal, first) ==
  /\ deal \in [Thread -> Seq((0 .. Len(LinePacks)) \X (0 .. Len(LinePacks)))]
  /\ \A t \in Thread : \A j \in 1 .. Len(deal[t]) :
       deal[t][j][1] < deal[t][j][2] /\ deal[t][j][2] <= first
  /\ \A t \in Thread : \A i, j \in 1 .. Len(deal[t]) :
       i < j => deal[t][i][2] <= deal[t][j][1]
  /\ \A t, u \in Thread : t # u =>
       \A i \in 1 .. Len(deal[t]), j \in 1 .. Len(deal[u]) :
         deal[t][i][2] <= deal[u][j][1] \/ deal[u][j][2] <= deal[t][i][1]
  /\ \A l \in 1 .. first : \E t \in Thread : \E j \in 1 .. Len(deal[t]) :
       deal[t][j][1] < l /\ l <= deal[t][j][2]

\* The last of them are in the rings, in front of the sentinel.
RingRight(deal) ==
  \A t \in Thread :
    /\ WithLines(t) \in 0 .. Len(deal[t])
    /\ \A k \in 0 .. WithLines(t) - 1 :
         LET d == deal[t][Len(deal[t]) - WithLines(t) + 1 + k]
         IN  Carries(SlotAt(t, k), d[1], d[2])
    /\ t < sentinels => SlotAt(t, WithLines(t))[0] = Zero
    /\ wpc[t] = "pop" => WithLines(t) > 0
    /\ wpc[t] = "exited" => t < sentinels /\ WithLines(t) = 0

\* The others, and the one the worker holds, have been scanned.
Seen(deal, t) == Len(deal[t]) - WithLines(t) + Held(t)

ScanRight(deal) ==
  \A t \in Thread :
    /\ \A i, j \in 1 .. Len(scanned[t]) :
         i < j => scanned[t][i].index < scanned[t][j].index
    /\ \A i \in 1 .. Len(scanned[t]) : \E j \in 1 .. Seen(deal, t) :
         deal[t][j][1] <= scanned[t][i].index /\ scanned[t][i].index < deal[t][j][2]
    /\ \A j \in 1 .. Seen(deal, t) : \A l \in deal[t][j][1] + 1 .. deal[t][j][2] :
         \E i \in 1 .. Len(scanned[t]) : scanned[t][i].index = l - 1

Right(deal, first) ==
  ProducerRight(first) /\ DealRight(deal, first) /\ RingRight(deal) /\ ScanRight(deal)

IInv == Shape /\ \E deal, first : Right(deal, first)

\* It holds until a step of the producer spoils it.
SInv == ~spoilt => IInv

-----------------------------------------------------------------------------
(***************************************************************************)
(* Parts of the steps.                                                     *)
(***************************************************************************)
\* The types that every step uses.
LEMMA Types ==
  ASSUME Shape
  PROVE  /\ N \in Nat /\ N > 2 /\ Capacity = N - 1 /\ BufferSize \in Nat
         /\ NumThreads \in Nat /\ 0 \in Thread
         /\ \A t \in Thread :
              /\ rings[t] \in Ring /\ rings[t].tail \in Index /\ rings[t].head \in Index
              /\ InRing(t) \in 0 .. Capacity
              /\ rings[t].tail = Wrap(rings[t].head + InRing(t))
              /\ rings[t].full <=> InRing(t) = Capacity
              /\ rings[t].empty <=> InRing(t) = 0
              /\ slots[t] \in [Index -> Buffer]
              /\ \A k \in 0 .. Capacity : SlotAt(t, k) \in Buffer
              /\ Held(t) \in {0, 1}
<1>1. N \in Nat /\ N > 2 /\ Capacity = N - 1 /\ BufferSize \in Nat
      /\ NumThreads \in Nat /\ 0 \in Thread
  BY HostAssumption, NAssumption DEF Capacity, Thread
<1>. SUFFICES ASSUME NEW t \in Thread
              PROVE  /\ rings[t] \in Ring /\ rings[t].tail \in Index /\ rings[t].head \in Index
                     /\ InRing(t) \in 0 .. Capacity
                     /\ rings[t].tail = Wrap(rings[t].head + InRing(t))
                     /\ rings[t].full <=> InRing(t) = Capacity
                     /\ rings[t].empty <=> InRing(t) = 0
                     /\ slots[t] \in [Index -> Buffer]
                     /\ \A k \in 0 .. Capacity : SlotAt(t, k) \in Buffer
                     /\ Held(t) \in {0, 1}
  BY <1>1
<1>2. /\ rings[t] \in Ring /\ rings[t].tail \in Index /\ rings[t].head \in Index
      /\ slots[t] \in [Index -> Buffer]
  BY DEF Shape, Ring
<1>3. /\ InRing(t) \in 0 .. Capacity
      /\ rings[t].tail = Wrap(rings[t].head + InRing(t))
      /\ rings[t].full <=> InRing(t) = Capacity
      /\ rings[t].empty <=> InRing(t) = 0
  BY DEF Shape, Tells
<1>4. \A k \in 0 .. Capacity : Wrap(rings[t].head + k) \in Index
  BY <1>1, <1>2 DEF Wrap, Index
<1>5. Held(t) \in {0, 1}
  BY DEF Held
<1>. QED
  BY <1>2, <1>3, <1>4, <1>5 DEF SlotAt

\* Writing the slot behind the buffers of a ring leaves those alone.
LEMMA WriteBehind ==
  ASSUME Shape, NEW t \in Thread, NEW buf,
         ~rings[t].full,
         slots' = [slots EXCEPT ![t][rings[t].tail] = buf]
  PROVE  /\ \A u \in Thread : \A k \in 0 .. InRing(u) - 1 :
              slots'[u][Wrap(rings[u].head + k)] = SlotAt(u, k)
         /\ slots'[t][rings[t].tail] = buf
         /\ rings[t].tail = Wrap(rings[t].head + InRing(t))
         /\ InRing(t) < Capacity
<1>1. slots \in [Thread -> [Index -> Buffer]] /\ rings[t].tail \in Index
  BY Types DEF Shape
<1>2. InRing(t) \in 0 .. Capacity /\ InRing(t) # Capacity /\ Capacity \in Nat
      /\ rings[t].tail = Wrap(rings[t].head + InRing(t))
  BY Types
<1>3. InRing(t) < Capacity
  BY <1>2
<1>4. slots'[t][rings[t].tail] = buf
  BY <1>1
<1>5. ASSUME NEW u \in Thread, NEW k \in 0 .. InRing(u) - 1
      PROVE  slots'[u][Wrap(rings[u].head + k)] = SlotAt(u, k)
  <2>1. CASE u # t
    BY <1>1, <2>1 DEF SlotAt
  <2>2. CASE u = t
    <3>1. Wrap(rings[t].head + k) # rings[t].tail /\ Wrap(rings[t].head + k) \in Index
      <4>1. k \in 0 .. Capacity /\ k # InRing(t) /\ rings[t] \in Ring
        BY <1>2, <2>2, Types
      <4>. QED
        BY <1>2, <4>1, SlotsApart
    <3>. QED
      BY <1>1, <2>2, <3>1 DEF SlotAt
  <2>. QED
    BY <2>1, <2>2
<1>. QED
  BY <1>2, <1>3, <1>4, <1>5

\* A push makes the slot at the tail the last buffer of the ring.
LEMMA PushRing ==
  ASSUME Shape, NEW t \in Thread, ~rings[t].full,
         rings' = [rings EXCEPT ![t] = PushFront(@)]
  PROVE  /\ rings' \in [Thread -> Ring]
         /\ \A u \in Thread : /\ Tells(rings'[u], InRing(u)')
                              /\ rings'[u].head = rings[u].head
                              /\ InRing(u)' \in 0 .. Capacity
         /\ InRing(t)' = InRing(t) + 1
         /\ \A u \in Thread : u # t => InRing(u)' = InRing(u)
<1>1. rings \in [Thread -> Ring] /\ Capacity \in Nat /\ InRing(t) \in 0 .. Capacity
      /\ (rings[t].full <=> InRing(t) = Capacity) /\ Tells(rings[t], InRing(t))
  <2>1. Capacity \in Nat /\ InRing(t) \in 0 .. Capacity
        /\ (rings[t].full <=> InRing(t) = Capacity)
    BY Types
  <2>. QED
    BY <2>1 DEF Shape
<1>2. InRing(t) \in 0 .. Capacity - 1
  BY <1>1
<1>3. rings'[t] = PushFront(rings[t]) /\ \A u \in Thread : u # t => rings'[u] = rings[u]
  BY <1>1
<1>4. Tells(rings'[t], InRing(t) + 1) /\ rings'[t].head = rings[t].head
  BY <1>1, <1>2, <1>3, PushTells
<1>5. InRing(t)' = InRing(t) + 1 /\ InRing(t) + 1 \in 0 .. Capacity
  BY <1>2, <1>4, TellsCount, <1>1 DEF InRing
<1>6. \A u \in Thread : u # t => InRing(u)' = InRing(u)
  BY <1>3 DEF InRing
<1>7. \A u \in Thread : /\ Tells(rings'[u], InRing(u)')
                        /\ rings'[u].head = rings[u].head
                        /\ InRing(u)' \in 0 .. Capacity
  BY <1>3, <1>4, <1>5, <1>6 DEF Shape
<1>8. rings' \in [Thread -> Ring]
  BY <1>1, <1>3, <1>4 DEF Tells
<1>. QED
  BY <1>5, <1>6, <1>7, <1>8

\* A pop takes the first buffer.
LEMMA PopRing ==
  ASSUME Shape, NEW t \in Thread, InRing(t) > 0,
         rings' = [rings EXCEPT ![t] = PopBack(@)]
  PROVE  /\ rings' \in [Thread -> Ring]
         /\ \A u \in Thread : /\ Tells(rings'[u], InRing(u)')
                              /\ InRing(u)' \in 0 .. Capacity
         /\ InRing(t)' = InRing(t) - 1
         /\ \A u \in Thread : u # t => InRing(u)' = InRing(u) /\ rings'[u] = rings[u]
         /\ \A k \in 0 .. Capacity - 1 :
              Wrap(rings'[t].head + k) = Wrap(rings[t].head + (k + 1))
         /\ rings'[t].tail = rings[t].tail
         /\ ~rings'[t].full
<1>1. rings \in [Thread -> Ring] /\ Capacity \in Nat /\ InRing(t) \in 0 .. Capacity
      /\ Tells(rings[t], InRing(t)) /\ rings[t].head \in Index
  BY Types DEF Shape
<1>2. InRing(t) \in 1 .. Capacity
  BY <1>1
<1>3. rings'[t] = PopBack(rings[t]) /\ \A u \in Thread : u # t => rings'[u] = rings[u]
  BY <1>1
<1>4. Tells(rings'[t], InRing(t) - 1) /\ rings'[t].head = Wrap(rings[t].head + 1)
  BY <1>1, <1>2, <1>3, PopTells
<1>5. InRing(t)' = InRing(t) - 1 /\ InRing(t) - 1 \in 0 .. Capacity
  BY <1>2, <1>4, TellsCount, <1>1 DEF InRing
<1>6. \A u \in Thread : u # t => InRing(u)' = InRing(u)
  BY <1>3 DEF InRing
<1>7. \A u \in Thread : Tells(rings'[u], InRing(u)') /\ InRing(u)' \in 0 .. Capacity
  BY <1>3, <1>4, <1>5, <1>6 DEF Shape
<1>8. rings' \in [Thread -> Ring]
  BY <1>1, <1>3, <1>4 DEF Tells
<1>9. \A k \in 0 .. Capacity - 1 : Wrap(rings'[t].head + k) = Wrap(rings[t].head + (k + 1))
  <2>1. N \in Nat /\ N > 2 /\ Capacity = N - 1 /\ rings[t].head \in 0 .. N - 1
    BY <1>1, Types DEF Index
  <2>. QED
    BY <1>4, <2>1 DEF Wrap
<1>10. rings'[t].tail = rings[t].tail /\ ~rings'[t].full
  BY <1>3 DEF PopBack
<1>. QED
  BY <1>3, <1>5, <1>6, <1>7, <1>8, <1>9, <1>10

\* What RingRight says of one ring.
RingOfRight(deal, t) ==
  /\ WithLines(t) \in 0 .. Len(deal[t])
  /\ \A k \in 0 .. WithLines(t) - 1 :
       LET d == deal[t][Len(deal[t]) - WithLines(t) + 1 + k]
       IN  Carries(SlotAt(t, k), d[1], d[2])
  /\ t < sentinels => SlotAt(t, WithLines(t))[0] = Zero
  /\ wpc[t] = "pop" => WithLines(t) > 0
  /\ wpc[t] = "exited" => t < sentinels /\ WithLines(t) = 0

\* The slots that RingRight looks at are those of the buffers in the ring.
LEMMA WithLinesType ==
  ASSUME Shape, NEW deal, RingRight(deal), NEW t \in Thread
  PROVE  /\ WithLines(t) \in Nat /\ WithLines(t) <= Len(deal[t])
         /\ WithLines(t) <= InRing(t) /\ InRing(t) \in Nat
         /\ t < sentinels => WithLines(t) = InRing(t) - 1
         /\ ~(t < sentinels) => WithLines(t) = InRing(t)
         /\ Held(t) <= WithLines(t)
         /\ Held(t) \in {0, 1}
<1>1. InRing(t) \in 0 .. Capacity /\ Capacity \in Nat /\ Held(t) \in {0, 1}
  BY Types
<1>2. WithLines(t) \in 0 .. Len(deal[t]) /\ (wpc[t] = "pop" => WithLines(t) > 0)
  BY DEF RingRight
<1>3. WithLines(t) = IF t < sentinels THEN InRing(t) - 1 ELSE InRing(t)
  BY DEF WithLines
<1>4. Held(t) = IF wpc[t] = "pop" THEN 1 ELSE 0
  BY DEF Held
<1>. QED
  BY <1>1, <1>2, <1>3, <1>4

\* Steps that leave the buffers in the rings alone.
LEMMA RingKept ==
  ASSUME Shape, NEW deal, RingRight(deal),
         UNCHANGED <<rings, sentinels, wpc>>,
         \A u \in Thread : \A k \in 0 .. InRing(u) - 1 :
            slots'[u][Wrap(rings[u].head + k)] = SlotAt(u, k)
  PROVE  RingRight(deal)'
<1>. SUFFICES ASSUME NEW t \in Thread
              PROVE  RingOfRight(deal, t)'
  BY DEF RingRight, RingOfRight
<1>1. RingOfRight(deal, t)
  BY DEF RingRight, RingOfRight
<1>2. WithLines(t)' = WithLines(t)
  BY DEF WithLines, InRing
<1>3. \A k \in 0 .. InRing(t) - 1 : SlotAt(t, k)' = SlotAt(t, k)
  BY DEF SlotAt
<1>4. \A k \in 0 .. WithLines(t) - 1 : SlotAt(t, k)' = SlotAt(t, k)
  BY <1>3, WithLinesType
<1>5. t < sentinels =>
        slots'[t][Wrap(rings[t].head + WithLines(t))] = SlotAt(t, WithLines(t))
  <2>1. t < sentinels => WithLines(t) \in 0 .. InRing(t) - 1
    BY WithLinesType
  <2>. QED
    BY <2>1
<1>6. WithLines(t) \in 0 .. Len(deal[t])
  BY <1>1 DEF RingOfRight
<1>7. \A k \in 0 .. WithLines(t)' - 1 :
        LET d == deal[t][Len(deal[t]) - WithLines(t)' + 1 + k]
        IN  Carries(SlotAt(t, k)', d[1], d[2])
  BY <1>1, <1>2, <1>4 DEF RingOfRight
<1>8. t < sentinels' => slots'[t][Wrap(rings'[t].head + WithLines(t)')][0] = Zero
  BY <1>1, <1>2, <1>5 DEF RingOfRight, SlotAt
<1>9. /\ wpc'[t] = "pop" => WithLines(t)' > 0
      /\ wpc'[t] = "exited" => t < sentinels' /\ WithLines(t)' = 0
  BY <1>1, <1>2 DEF RingOfRight
<1>. QED
  BY <1>2, <1>6, <1>7, <1>8, <1>9 DEF RingOfRight, SlotAt

LEMMA ScanKept ==
  ASSUME NEW deal, ScanRight(deal), UNCHANGED <<rings, sentinels, wpc, scanned>>
  PROVE  ScanRight(deal)'
BY DEF ScanRight, Seen, WithLines, InRing, Held

\* A buffer with lines is pushed: they are dealt to the worker of its ring.
LEMMA PushLines ==
  ASSUME Shape, NEW deal, NEW first \in 0 .. Len(LinePacks),
         DealRight(deal, first), RingRight(deal), ScanRight(deal),
         NEW t \in Thread, NEW b \in first + 1 .. Len(LinePacks), NEW buf,
         sentinels = 0, ~rings[t].full, Carries(buf, first, b),
         slots' = [slots EXCEPT ![t][rings[t].tail] = buf],
         rings' = [rings EXCEPT ![t] = PushFront(@)],
         UNCHANGED <<sentinels, wpc, scanned>>
  PROVE  \E d : DealRight(d, b) /\ RingRight(d)' /\ ScanRight(d)'
<1> DEFINE Pair == (0 .. Len(LinePacks)) \X (0 .. Len(LinePacks))
           d == [deal EXCEPT ![t] = Append(@, <<first, b>>)]
<1>0. Len(LinePacks) \in Nat /\ first \in Nat /\ b \in Nat /\ <<first, b>> \in Pair
  BY HostAssumption
<1>1. deal \in [Thread -> Seq(Pair)]
  BY DEF DealRight
<1>2. d \in [Thread -> Seq(Pair)]
  BY <1>0, <1>1, AppendProperties
<1>3. \A u \in Thread : u # t => d[u] = deal[u]
  BY <1>1
<1>4. /\ Len(d[t]) = Len(deal[t]) + 1
      /\ \A j \in 1 .. Len(deal[t]) : d[t][j] = deal[t][j]
      /\ d[t][Len(deal[t]) + 1] = <<first, b>>
  <2>1. d[t] = Append(deal[t], <<first, b>>) /\ deal[t] \in Seq(Pair)
    BY <1>1
  <2>. HIDE DEF d
  <2>. QED
    BY <1>0, <2>1, AppendProperties
<1>5. \A u \in Thread : Len(deal[u]) \in Nat
  BY <1>1, LenProperties
<1>. HIDE DEF d
<1>6. \A u \in Thread : \A j \in 1 .. Len(deal[u]) : d[u][j] = deal[u][j]
  BY <1>3, <1>4
<1>7. \A u \in Thread : \A j \in 1 .. Len(d[u]) :
         \/ j \in 1 .. Len(deal[u]) /\ d[u][j] = deal[u][j]
         \/ u = t /\ j = Len(deal[t]) + 1 /\ d[u][j] = <<first, b>>
  <2>. SUFFICES ASSUME NEW u \in Thread, NEW j \in 1 .. Len(d[u])
                PROVE  \/ j \in 1 .. Len(deal[u]) /\ d[u][j] = deal[u][j]
                       \/ u = t /\ j = Len(deal[t]) + 1 /\ d[u][j] = <<first, b>>
    OBVIOUS
  <2>1. CASE u # t
    BY <1>3, <2>1
  <2>2. CASE u = t
    <3>1. Len(deal[t]) \in Nat /\ j \in 1 .. Len(deal[t]) + 1
      BY <1>4, <1>5, <2>2
    <3>2. j \in 1 .. Len(deal[t]) \/ j = Len(deal[t]) + 1
      BY <3>1
    <3>. QED
      BY <1>4, <2>2, <3>2
  <2>. QED
    BY <2>1, <2>2
<1>8. DealRight(d, b)
  <2>1. \A u \in Thread : \A j \in 1 .. Len(deal[u]) :
           /\ deal[u][j] \in Pair
           /\ deal[u][j][1] \in Nat /\ deal[u][j][2] \in Nat
           /\ deal[u][j][1] < deal[u][j][2] /\ deal[u][j][2] <= first
    BY <1>0, <1>1 DEF DealRight
  <2>2. \A u \in Thread : \A j \in 1 .. Len(d[u]) : d[u][j][1] < d[u][j][2] /\ d[u][j][2] <= b
    <3>. SUFFICES ASSUME NEW u \in Thread, NEW j \in 1 .. Len(d[u])
                  PROVE  d[u][j][1] < d[u][j][2] /\ d[u][j][2] <= b
      OBVIOUS
    <3>1. CASE j \in 1 .. Len(deal[u]) /\ d[u][j] = deal[u][j]
      BY <1>0, <2>1, <3>1
    <3>2. CASE d[u][j] = <<first, b>>
      BY <1>0, <3>2
    <3>. QED
      BY <1>7, <3>1, <3>2
  <2>3. \A u \in Thread : \A i, j \in 1 .. Len(d[u]) : i < j => d[u][i][2] <= d[u][j][1]
    <3>. SUFFICES ASSUME NEW u \in Thread, NEW i \in 1 .. Len(d[u]), NEW j \in 1 .. Len(d[u]),
                         i < j
                  PROVE  d[u][i][2] <= d[u][j][1]
      OBVIOUS
    <3>1. i \in 1 .. Len(deal[u]) /\ d[u][i] = deal[u][i]
      BY <1>5, <1>7, SMTT(30)
    <3>2. CASE j \in 1 .. Len(deal[u]) /\ d[u][j] = deal[u][j]
      BY <3>1, <3>2 DEF DealRight
    <3>3. CASE d[u][j] = <<first, b>>
      BY <2>1, <3>1, <3>3
    <3>. QED
      BY <1>7, <3>2, <3>3
  <2>4. \A u, v \in Thread : u # v =>
           \A i \in 1 .. Len(d[u]), j \in 1 .. Len(d[v]) :
             d[u][i][2] <= d[v][j][1] \/ d[v][j][2] <= d[u][i][1]
    <3>. SUFFICES ASSUME NEW u \in Thread, NEW v \in Thread, u # v,
                         NEW i \in 1 .. Len(d[u]), NEW j \in 1 .. Len(d[v])
                  PROVE  d[u][i][2] <= d[v][j][1] \/ d[v][j][2] <= d[u][i][1]
      OBVIOUS
    <3>1. CASE u # t /\ v # t
      BY <1>3, <3>1 DEF DealRight
    <3>2. CASE u = t
      <4>1. j \in 1 .. Len(deal[v]) /\ d[v][j] = deal[v][j]
        BY <1>3, <3>2
      <4>2. CASE i \in 1 .. Len(deal[u]) /\ d[u][i] = deal[u][i]
        BY <4>1, <4>2 DEF DealRight
      <4>3. CASE d[u][i] = <<first, b>>
        BY <2>1, <4>1, <4>3
      <4>. QED
        BY <1>7, <4>2, <4>3
    <3>3. CASE v = t
      <4>1. i \in 1 .. Len(deal[u]) /\ d[u][i] = deal[u][i]
        BY <1>3, <3>3
      <4>2. CASE j \in 1 .. Len(deal[v]) /\ d[v][j] = deal[v][j]
        BY <4>1, <4>2 DEF DealRight
      <4>3. CASE d[v][j] = <<first, b>>
        BY <2>1, <4>1, <4>3
      <4>. QED
        BY <1>7, <4>2, <4>3
    <3>. QED
      BY <3>1, <3>2, <3>3
  <2>5. ASSUME NEW l \in 1 .. b
        PROVE  \E u \in Thread : \E j \in 1 .. Len(d[u]) : d[u][j][1] < l /\ l <= d[u][j][2]
    <3>1. CASE l <= first
      <4>1. l \in 1 .. first
        BY <1>0, <3>1
      <4>2. PICK u \in Thread : \E j \in 1 .. Len(deal[u]) : deal[u][j][1] < l /\ l <= deal[u][j][2]
        BY <4>1 DEF DealRight
      <4>3. PICK j \in 1 .. Len(deal[u]) : deal[u][j][1] < l /\ l <= deal[u][j][2]
        BY <4>2
      <4>4. j \in 1 .. Len(d[u]) /\ d[u][j] = deal[u][j]
        <5>1. CASE u = t
          BY <1>4, <1>5, <5>1
        <5>2. CASE u # t
          BY <1>3, <5>2
        <5>. QED
          BY <5>1, <5>2
      <4>. QED
        BY <4>3, <4>4
    <3>2. CASE l > first
      <4>1. Len(deal[t]) + 1 \in 1 .. Len(d[t])
        BY <1>4, <1>5
      <4>2. d[t][Len(deal[t]) + 1][1] < l /\ l <= d[t][Len(deal[t]) + 1][2]
        BY <1>0, <1>4, <3>2
      <4>. QED
        BY <4>1, <4>2
    <3>. QED
      BY <1>0, <3>1, <3>2
  <2>. QED
    BY <1>2, <2>2, <2>3, <2>4, <2>5 DEF DealRight
<1>9. /\ \A u \in Thread : \A k \in 0 .. InRing(u) - 1 :
            slots'[u][Wrap(rings[u].head + k)] = SlotAt(u, k)
      /\ slots'[t][rings[t].tail] = buf
      /\ rings[t].tail = Wrap(rings[t].head + InRing(t))
  BY WriteBehind
<1>10. /\ \A u \in Thread : rings'[u].head = rings[u].head
       /\ InRing(t)' = InRing(t) + 1
       /\ \A u \in Thread : u # t => InRing(u)' = InRing(u)
  BY PushRing
<1>11. \A u \in Thread : ~(u < sentinels) /\ ~(u < sentinels')
  BY HostAssumption DEF Thread
<1>12. /\ \A u \in Thread : WithLines(u) = InRing(u) /\ WithLines(u)' = InRing(u)'
       /\ WithLines(t)' = WithLines(t) + 1
       /\ \A u \in Thread : u # t => WithLines(u)' = WithLines(u)
  BY <1>10, <1>11 DEF WithLines
<1>13. \A u \in Thread : \A k \in 0 .. WithLines(u) - 1 : SlotAt(u, k)' = SlotAt(u, k)
  BY <1>9, <1>10, <1>12 DEF SlotAt
<1>14. slots'[t][Wrap(rings'[t].head + WithLines(t))] = buf
  BY <1>9, <1>10, <1>12
<1>15. \A u \in Thread : WithLines(u) \in Nat /\ WithLines(u) <= Len(deal[u])
                         /\ Held(u) <= WithLines(u) /\ Held(u) \in {0, 1}
  BY WithLinesType
<1>16. ASSUME NEW u \in Thread
       PROVE  RingOfRight(d, u)'
  <2>1. RingOfRight(deal, u)
    BY DEF RingRight, RingOfRight
  <2>2. CASE u # t
    <3>1. d[u] = deal[u] /\ WithLines(u)' = WithLines(u)
      BY <1>3, <1>12, <2>2
    <3>2. \A k \in 0 .. WithLines(u)' - 1 :
             LET e == d[u][Len(d[u]) - WithLines(u)' + 1 + k]
             IN  Carries(SlotAt(u, k)', e[1], e[2])
      BY <1>13, <2>1, <3>1 DEF RingOfRight
    <3>. QED
      BY <1>11, <2>1, <3>1, <3>2 DEF RingOfRight
  <2>3. CASE u = t
    <3>1. WithLines(t)' = WithLines(t) + 1 /\ WithLines(t) \in Nat
          /\ WithLines(t) <= Len(deal[t]) /\ Len(deal[t]) \in Nat
      BY <1>5, <1>12, <1>15
    <3>2. Len(d[t]) - WithLines(t)' = Len(deal[t]) - WithLines(t)
      BY <1>4, <3>1
    <3>3. ASSUME NEW k \in 0 .. WithLines(t)' - 1
          PROVE  LET e == d[t][Len(d[t]) - WithLines(t)' + 1 + k]
                 IN  Carries(SlotAt(t, k)', e[1], e[2])
      <4>1. CASE k < WithLines(t)
        <5>1. k \in 0 .. WithLines(t) - 1
              /\ Len(deal[t]) - WithLines(t) + 1 + k \in 1 .. Len(deal[t])
          <6> DEFINE n == WithLines(t)
                     m == Len(deal[t])
          <6>1. n \in Nat /\ m \in Nat /\ n <= m /\ k \in Nat /\ k < n
            BY <3>1, <4>1
          <6>. HIDE DEF n, m
          <6>2. k \in 0 .. n - 1 /\ m - n + 1 + k \in 1 .. m
            BY <6>1
          <6>. QED
            BY <6>2 DEF n, m
        <5>2. d[t][Len(d[t]) - WithLines(t)' + 1 + k] = deal[t][Len(deal[t]) - WithLines(t) + 1 + k]
          BY <1>6, <3>2, <5>1
        <5>. QED
          BY <1>13, <2>1, <2>3, <5>1, <5>2 DEF RingOfRight
      <4>2. CASE k = WithLines(t)
        <5>1. Len(d[t]) - WithLines(t)' + 1 + k = Len(deal[t]) + 1
          BY <3>1, <3>2, <4>2
        <5>2. SlotAt(t, k)' = buf
          BY <1>14, <4>2 DEF SlotAt
        <5>3. d[t][Len(d[t]) - WithLines(t)' + 1 + k] = <<first, b>>
          BY <1>4, <5>1
        <5>. QED
          BY <5>2, <5>3
      <4>. QED
        BY <3>1, <4>1, <4>2
    <3>4. WithLines(t)' \in 0 .. Len(d[t])
      BY <1>4, <3>1
    <3>5. wpc'[t] = "pop" => WithLines(t)' > 0
      BY <3>1
    <3>6. wpc'[t] # "exited"
      BY <1>11, <2>1, <2>3 DEF RingOfRight
    <3>. QED
      BY <1>11, <2>3, <3>3, <3>4, <3>5, <3>6 DEF RingOfRight
  <2>. QED
    BY <2>2, <2>3
<1>17. RingRight(d)'
  BY <1>16 DEF RingRight, RingOfRight
<1>18. \A u \in Thread : Seen(d, u)' = Seen(deal, u) /\ Seen(deal, u) <= Len(deal[u])
                         /\ Seen(deal, u) \in Nat
  <2>. SUFFICES ASSUME NEW u \in Thread
                PROVE  Seen(d, u)' = Seen(deal, u) /\ Seen(deal, u) <= Len(deal[u])
                       /\ Seen(deal, u) \in Nat
    OBVIOUS
  <2>1. Len(d[u]) - WithLines(u)' = Len(deal[u]) - WithLines(u)
    <3>1. CASE u # t
      BY <1>3, <1>12, <3>1
    <3>2. CASE u = t
      <4>1. Len(deal[t]) \in Nat /\ WithLines(t) \in Nat
        BY <1>5, <1>15
      <4>. QED
        BY <1>4, <1>12, <3>2, <4>1, SMTT(30)
    <3>. QED
      BY <3>1, <3>2
  <2>2. Held(u)' = Held(u)
    BY DEF Held
  <2>3. Seen(d, u)' = Seen(deal, u)
    BY <2>1, <2>2 DEF Seen
  <2>4. Seen(deal, u) <= Len(deal[u]) /\ Seen(deal, u) \in Nat
    BY <1>5, <1>15 DEF Seen
  <2>. QED
    BY <2>3, <2>4
<1>19. \A u \in Thread : \A j \in 1 .. Seen(deal, u) : d[u][j] = deal[u][j]
  BY <1>5, <1>6, <1>18
<1>20. ScanRight(d)'
  <2>. SUFFICES ASSUME NEW u \in Thread
                PROVE  /\ \A i, j \in 1 .. Len(scanned[u]) :
                            i < j => scanned[u][i].index < scanned[u][j].index
                       /\ \A i \in 1 .. Len(scanned[u]) : \E j \in 1 .. Seen(deal, u) :
                            d[u][j][1] <= scanned[u][i].index /\ scanned[u][i].index < d[u][j][2]
                       /\ \A j \in 1 .. Seen(deal, u) : \A l \in d[u][j][1] + 1 .. d[u][j][2] :
                            \E i \in 1 .. Len(scanned[u]) : scanned[u][i].index = l - 1
    BY <1>18 DEF ScanRight
  <2>1. /\ \A i, j \in 1 .. Len(scanned[u]) :
              i < j => scanned[u][i].index < scanned[u][j].index
        /\ \A i \in 1 .. Len(scanned[u]) : \E j \in 1 .. Seen(deal, u) :
              deal[u][j][1] <= scanned[u][i].index /\ scanned[u][i].index < deal[u][j][2]
        /\ \A j \in 1 .. Seen(deal, u) : \A l \in deal[u][j][1] + 1 .. deal[u][j][2] :
              \E i \in 1 .. Len(scanned[u]) : scanned[u][i].index = l - 1
    BY DEF ScanRight
  <2>2. \A j \in 1 .. Seen(deal, u) : d[u][j] = deal[u][j]
    BY <1>19
  <2>. HIDE DEF Seen
  <2>. QED
    BY <2>1, <2>2
<1>. QED
  BY <1>8, <1>17, <1>20

-----------------------------------------------------------------------------
(***************************************************************************)
(* Places in the stream and in a buffer.                                   *)
(***************************************************************************)
\* A word of the stream is a word of a line.
LEMMA WordAt ==
  ASSUME NEW i \in 1 .. Len(Stream)
  PROVE  \E l \in Line : \E p \in 1 .. LineLength(l) : i = Behind[l - 1] + p
<1>0. Len(LinePacks) \in Nat /\ Line = 1 .. Len(LinePacks)
  BY HostAssumption DEF Line
<1>1. \A l \in 0 .. Len(LinePacks) : Behind[l] \in Nat
  BY BehindIs
<1>2. i \in Nat /\ 0 < i /\ i <= Behind[Len(LinePacks)]
  BY <1>0, <1>1, StreamIs
<1> DEFINE S == {l \in 0 .. Len(LinePacks) : i <= Behind[l]}
<1>3. S \in SUBSET Nat /\ Len(LinePacks) \in S
  BY <1>0, <1>2
<1>4. PICK l \in S : \A m \in S : l <= m
  BY <1>3, Least
<1>5. l # 0
  BY <1>2, BehindIs
<1>6. l \in Line /\ l - 1 \in 0 .. Len(LinePacks) /\ l - 1 \notin S
  BY <1>0, <1>4, <1>5
<1>7. ~(i <= Behind[l - 1]) /\ i <= Behind[l] /\ Behind[l - 1] \in Nat
  BY <1>1, <1>6
<1>8. Behind[l] = Behind[l - 1] + LineLength(l) /\ LineLength(l) \in Nat
  BY <1>6, BehindIs, LengthType
<1>9. i - Behind[l - 1] \in 1 .. LineLength(l) /\ i = Behind[l - 1] + (i - Behind[l - 1])
  BY <1>2, <1>7, <1>8
<1>. QED
  BY <1>6, <1>9

\* The last word of a line is the one that IsEndOfLine knows.
LEMMA EndOfLineIs ==
  ASSUME NEW l \in Line, NEW p \in 1 .. LineLength(l)
  PROVE  /\ WordsOf(l)[p] = [kind |-> "data", line |-> l, at |-> p]
         /\ IsEndOfLine(WordsOf(l)[p]) <=> p = LineLength(l)
BY DEF WordsOf, IsEndOfLine, Junk

\* A place inside a line is behind the ends of the lines before and in front of
\* its own end.
LEMMA InsideLine ==
  ASSUME NEW e \in 0 .. Len(LinePacks), NEW l \in 0 .. Len(LinePacks), NEW q \in Nat,
         q > 0 => e < Len(LinePacks) /\ q < LineLength(e + 1)
  PROVE  /\ Behind[e] \in Nat /\ Behind[l] \in Nat
         /\ Behind[l] <= Behind[e] + q => Behind[l] <= Behind[e]
         /\ Behind[e] + q < Behind[l] => e < l /\ e + 1 \in Line
                                         /\ Behind[e] + LineLength(e + 1) <= Behind[l]
<1>0. Len(LinePacks) \in Nat
  BY HostAssumption
<1>1. Behind[e] \in Nat /\ Behind[l] \in Nat
  BY BehindIs
<1>2. CASE l < e
  <2>1. Behind[l] < Behind[e]
    BY <1>2, BehindGrows
  <2>. QED
    BY <1>1, <2>1
<1>3. CASE l = e
  BY <1>1, <1>3
<1>4. CASE l > e
  <2>1. e < Len(LinePacks) /\ e + 1 \in Line /\ Behind[e] + LineLength(e + 1) <= Behind[l]
        /\ LineLength(e + 1) \in Nat \ {0}
    BY <1>0, <1>4, BehindGrows, LengthType
  <2>2. q < LineLength(e + 1)
    BY <2>1
  <2>. QED
    BY <1>1, <1>4, <2>1, <2>2
<1>. QED
  BY <1>2, <1>3, <1>4

\* A buffer that is pushed: its lines, and a zero behind them if it has room.
LEMMA Ended ==
  ASSUME NEW buf \in Buffer, NEW a \in 0 .. Len(LinePacks), NEW b \in a + 1 .. Len(LinePacks),
         HoldsLines(buf, a, b), NEW s, s = PlaceOf(a, b + 1), s <= BufferSize,
         NEW end, end = IF s < BufferSize THEN [buf EXCEPT ![s] = Zero] ELSE buf
  PROVE  end \in Buffer /\ Carries(end, a, b)
<1>0. Len(LinePacks) \in Nat /\ a \in Nat /\ b \in Nat /\ BufferSize \in Nat
  BY HostAssumption
<1>1. s \in Nat /\ \A l \in a + 1 .. b :
        /\ l \in Line /\ LineLength(l) \in Nat \ {0}
        /\ PlaceOf(a, l) \in Nat /\ PlaceOf(a, l) + LineLength(l) < s
  <2>1. /\ LineLength(b) \in Nat /\ PlaceOf(a, b) \in Nat
        /\ s = PlaceOf(a, b) + LineLength(b) + 1
    BY <1>0, PlaceIs
  <2>2. ASSUME NEW l \in a + 1 .. b
        PROVE  /\ l \in Line /\ LineLength(l) \in Nat \ {0}
               /\ PlaceOf(a, l) \in Nat /\ PlaceOf(a, l) + LineLength(l) < s
    <3>1. l \in Line /\ LineLength(l) \in Nat \ {0} /\ PlaceOf(a, l) \in Nat
      BY <1>0, PlaceIs
    <3>2. l < b => PlaceOf(a, l) + LineLength(l) < PlaceOf(a, b)
      BY <1>0, PlaceIs
    <3>. QED
      BY <1>0, <2>1, <3>1, <3>2
  <2>. QED
    BY <2>1, <2>2
<1>2. end \in Buffer
  <2>1. Zero \in Cell
    BY <1>0 DEF Zero, Cell
  <2>. QED
    BY <1>1, <2>1 DEF Buffer
<1>3. \A i \in 0 .. s - 1 : end[i] = buf[i]
  BY <1>0, <1>1 DEF Buffer
<1>4. HoldsLines(end, a, b)
  <2>. SUFFICES ASSUME NEW l \in a + 1 .. b
                PROVE  HoldsLine(end, PlaceOf(a, l), l)
    BY DEF HoldsLines
  <2> DEFINE i == PlaceOf(a, l)
  <2>1. HoldsLine(buf, i, l)
    BY DEF HoldsLines
  <2>2. LineLength(l) \in Nat /\ i \in Nat /\ i + LineLength(l) < s
    BY <1>1
  <2>. HIDE DEF i
  <2>3. end[i] = buf[i] /\ \A p \in 1 .. LineLength(l) : end[i + p] = buf[i + p]
    <3>1. s \in Nat
      BY <1>1
    <3>2. i \in 0 .. s - 1
      BY <2>2, <3>1
    <3>3. ASSUME NEW p \in 1 .. LineLength(l)
          PROVE  i + p \in 0 .. s - 1
      BY <2>2, <3>1
    <3>. QED
      BY <1>3, <3>2, <3>3
  <2>. QED
    BY <2>1, <2>3 DEF HoldsLine, i
<1>5. s < BufferSize => end[s] = Zero
  BY <1>0, <1>1 DEF Buffer
<1>6. EventsOf(end) = Events(a, b)
  <2>1. b \in a .. Len(LinePacks) /\ PlaceOf(a, b + 1) <= BufferSize
        /\ (PlaceOf(a, b + 1) < BufferSize => end[PlaceOf(a, b + 1)] = Zero)
    BY <1>0, <1>5
  <2>. HIDE DEF Buffer
  <2>. QED
    BY <1>2, <1>4, <2>1, EventsFound
<1>7. end[0] # Zero
  <2>1. a + 1 \in a + 1 .. b /\ PlaceOf(a, a + 1) = 0
    BY <1>0, PlaceIs
  <2>2. end[0] = Metadata((a + 1) - 1, LineLength(a + 1))
    BY <1>4, <2>1 DEF HoldsLines, HoldsLine
  <2>. QED
    BY <2>2 DEF Metadata, Zero
<1>. QED
  BY <1>2, <1>6, <1>7 DEF Carries

-----------------------------------------------------------------------------
(***************************************************************************)
(* The steps of the producer.                                              *)
(***************************************************************************)
\* Steps that change neither the rings and their slots nor the workers.
LEMMA RestKept ==
  ASSUME Shape, NEW deal, NEW first, DealRight(deal, first), RingRight(deal), ScanRight(deal),
         UNCHANGED <<sentinels, rings, slots, wpc, scanned>>
  PROVE  DealRight(deal, first)' /\ RingRight(deal)' /\ ScanRight(deal)'
<1>1. DealRight(deal, first)'
  BY DEF DealRight
<1>2. \A u \in Thread : \A k \in 0 .. InRing(u) - 1 :
         slots'[u][Wrap(rings[u].head + k)] = SlotAt(u, k)
  BY DEF SlotAt
<1>3. RingRight(deal)'
  BY <1>2, RingKept
<1>4. ScanRight(deal)'
  BY ScanKept
<1>. QED
  BY <1>1, <1>3, <1>4

LEMMA ReadChunkRight ==
  ASSUME Shape, NEW first, ProducerRight(first),
         NEW n \in ChunkSizes, NEW last \in BOOLEAN, ReadChunk(n, last)
  PROVE  ProducerRight(first)'
<1>0. Len(LinePacks) \in Nat /\ PackWidth \in Nat /\ Len(LinePacks) \in 0 .. Len(LinePacks)
  BY HostAssumption
<1>1. /\ pc = "chunk" /\ pc' = "loop" /\ base' = base + chunk /\ chunk' = n /\ done' = last
      /\ payloadIndex' = PackWidth
      /\ UNCHANGED <<producer, sentinels, rings, slots, wpc, scanned>>
      /\ n > 0 \/ last
      /\ last => base + chunk + n = Len(Stream)
  BY DEF ReadChunk
<1>2. /\ sentinels = 0 /\ first <= eventIndex /\ InputRight /\ BufferRight(first)
      /\ first \in 0 .. Len(LinePacks) /\ PushRight(first)
  BY <1>1 DEF ProducerRight
<1>3. n \in Nat
  <2>1. PICK k \in 0 .. MaxChunk : n = PackWidth * k
    BY DEF ChunkSizes
  <2>2. \A a, b \in Nat : a * b \in Nat
    OBVIOUS
  <2>. QED
    BY <1>0, <2>1, <2>2, HostAssumption
<1>4. base + chunk + n <= Len(Stream)
  <2>1. n <= Len(Stream) - (base + chunk)
    BY DEF ChunkSizes
  <2>2. Len(Stream) \in Nat /\ base \in Nat /\ chunk \in Nat
    BY <1>0, <1>2, StreamIs, BehindIs DEF InputRight
  <2>. QED
    BY <1>3, <2>1, <2>2
<1>5. /\ base \in Nat /\ chunk \in Nat /\ payloadIndex \in Int
      /\ eventIndex \in 0 .. Len(LinePacks) /\ lineLength \in Nat
      /\ base + payloadIndex - PackWidth = Behind[eventIndex] + lineLength
      /\ lineLength > 0 => eventIndex < Len(LinePacks) /\ lineLength < LineLength(eventIndex + 1)
      /\ ~done /\ payloadIndex = PackWidth + chunk
  BY <1>1, <1>2 DEF InputRight
<1>7. Len(Stream) = Behind[Len(LinePacks)] /\ Len(Stream) \in Nat
  BY <1>0, StreamIs, BehindIs
<1>8. InputRight'
  <2>1. /\ base' \in Nat /\ chunk' \in Nat /\ done' \in BOOLEAN /\ payloadIndex' \in Int
        /\ eventIndex' = eventIndex /\ lineLength' = lineLength
    BY <1>0, <1>1, <1>3, <1>5 DEF producer
  <2>2. base' + chunk' <= Behind[Len(LinePacks)]
    BY <1>1, <1>4, <1>7
  <2>4. payloadIndex' \in PackWidth .. PackWidth + chunk'
    BY <1>0, <1>1, <1>3
  <2>5. base' + payloadIndex' - PackWidth = Behind[eventIndex] + lineLength
    BY <1>0, <1>1, <1>5
  <2>6. done' => base' + chunk' = Behind[Len(LinePacks)]
    BY <1>1, <1>7
  <2>. QED
    BY <1>1, <1>5, <2>1, <2>2, <2>4, <2>5, <2>6 DEF InputRight
<1>9. BufferRight(first)'
  BY <1>1, <1>2 DEF BufferRight, producer, Current, FrontSlot
<1>10. PushRight(first)'
  <2>1. chunk' > 0 => payloadIndex' >= PackWidth /\ payloadIndex' - PackWidth < chunk'
    BY <1>0, <1>1, <1>3
  <2>. QED
    BY <1>1, <2>1 DEF PushRight, InChunk
<1>. QED
  BY <1>1, <1>2, <1>8, <1>9, <1>10 DEF ProducerRight, producer

LEMMA PeekFrontRight ==
  ASSUME Shape, NEW first, ProducerRight(first), PeekFront
  PROVE  ProducerRight(first)'
<1>1. /\ pc = "peek" /\ pc' = "copy" /\ ~rings[bufIdx].full
      /\ UNCHANGED <<producer, input, payloadIndex, sentinels, rings, slots, wpc, scanned>>
  BY DEF PeekFront
<1>2. /\ sentinels = 0 /\ first <= eventIndex /\ InputRight /\ BufferRight(first)
      /\ first \in 0 .. Len(LinePacks) /\ PushRight(first)
  BY <1>1 DEF ProducerRight
<1>3. InputRight'
  BY <1>1, <1>2 DEF InputRight, InChunk, producer, input
<1>4. eventIndex = first /\ lineLength = 0
  BY <1>1, <1>2 DEF BufferRight
<1>5. HoldsLines(Current, first, eventIndex)'
  BY <1>1, <1>2, <1>4, HostAssumption DEF HoldsLines, producer
<1>6. BufferRight(first)'
  BY <1>1, <1>2, <1>4, <1>5, HostAssumption DEF BufferRight, producer
<1>7. PushRight(first)'
  BY <1>1, <1>2 DEF PushRight, InChunk, input
<1>. QED
  BY <1>1, <1>2, <1>3, <1>6, <1>7 DEF ProducerRight, producer

\* Behind the last chunk the producer is behind the last line.
LEMMA AllCopied ==
  ASSUME InputRight, done, chunk = 0
  PROVE  eventIndex = Len(LinePacks)
<1>0. Len(LinePacks) \in Nat /\ PackWidth \in Nat /\ Len(LinePacks) \in 0 .. Len(LinePacks)
  BY HostAssumption
<1>1. /\ base \in Nat /\ chunk \in Nat /\ payloadIndex \in PackWidth .. PackWidth + chunk
      /\ eventIndex \in 0 .. Len(LinePacks) /\ lineLength \in Nat
      /\ base + payloadIndex - PackWidth = Behind[eventIndex] + lineLength
      /\ lineLength > 0 => eventIndex < Len(LinePacks) /\ lineLength < LineLength(eventIndex + 1)
      /\ base + chunk = Behind[Len(LinePacks)]
  BY DEF InputRight
<1>2. /\ Behind[eventIndex] \in Nat /\ Behind[Len(LinePacks)] \in Nat
      /\ Behind[Len(LinePacks)] <= Behind[eventIndex] + lineLength
           => Behind[Len(LinePacks)] <= Behind[eventIndex]
  BY <1>0, <1>1, InsideLine
<1>3. Behind[Len(LinePacks)] = Behind[eventIndex] + lineLength
  BY <1>0, <1>1, <1>2
<1>4. ~(eventIndex < Len(LinePacks))
  BY <1>0, <1>1, <1>2, <1>3, BehindGrows
<1>. QED
  BY <1>0, <1>1, <1>4

LEMMA EndOfChunkRight ==
  ASSUME Shape, NEW first, ProducerRight(first), EndOfChunk
  PROVE  ProducerRight(first)'
<1>1. /\ pc = "loop" /\ pc' = (IF done THEN "sentinel" ELSE "chunk") /\ ~InChunk(payloadIndex)
      /\ UNCHANGED <<producer, input, payloadIndex, sentinels, rings, slots, wpc, scanned>>
  BY DEF EndOfChunk
<1>2. /\ sentinels = 0 /\ first <= eventIndex /\ InputRight /\ BufferRight(first)
      /\ first \in 0 .. Len(LinePacks) /\ PushRight(first)
  BY <1>1 DEF ProducerRight
<1>3. CASE done
  <2>1. pc' = "sentinel"
    BY <1>1, <1>3
  <2>2. chunk = 0 /\ chunk' = chunk
    BY <1>1, <1>2, <1>3 DEF PushRight, InputRight, input
  <2>3. TailSize(first) <= BufferSize
    <3>1. eventIndex = Len(LinePacks)
      BY <1>1, <1>2, <1>3, <2>2, AllCopied
    <3>2. (eventIndex + 1) - 1 = eventIndex
      BY <1>2 DEF InputRight
    <3>. QED
      BY <1>2, <3>1, <3>2 DEF BufferRight, PlaceOf, TailSize
  <2>4. PushRight(first)'
    BY <2>1, <2>2, <2>3 DEF PushRight
  <2>. QED
    BY <1>2, <2>1, <2>4 DEF ProducerRight
<1>4. CASE ~done
  <2>1. pc' = "chunk"
    BY <1>1, <1>4
  <2>2. payloadIndex = PackWidth + chunk
    BY <1>1, <1>2, HostAssumption DEF InputRight, InChunk
  <2>3. InputRight'
    BY <1>1, <1>2, <1>4, <2>1, <2>2 DEF InputRight, producer, input
  <2>4. BufferRight(first)'
    BY <1>1, <1>2, <2>1 DEF BufferRight, producer, Current, FrontSlot
  <2>5. PushRight(first)'
    BY <1>1, <1>2, <2>1 DEF PushRight, InChunk, input
  <2>. QED
    BY <1>1, <1>2, <2>1, <2>3, <2>4, <2>5 DEF ProducerRight, producer
<1>. QED
  BY <1>2, <1>3, <1>4 DEF InputRight

\* The producer's place, in numbers, while there are words to copy.
LEMMA PlaceInLine ==
  ASSUME Shape, NEW first, ProducerRight(first), pc \in {"loop", "copy"},
         InChunk(payloadIndex)
  PROVE  /\ eventIndex \in 0 .. Len(LinePacks) - 1 /\ eventIndex + 1 \in Line
         /\ lineLength \in 0 .. LineLength(eventIndex + 1) - 1
         /\ LineLength(eventIndex + 1) \in Nat \ {0}
         /\ base + payloadIndex - PackWidth = Behind[eventIndex] + lineLength
         /\ base + chunk <= Behind[Len(LinePacks)]
         /\ Behind[eventIndex] + LineLength(eventIndex + 1) <= Behind[Len(LinePacks)]
         /\ Behind[eventIndex] \in Nat /\ base \in Nat /\ chunk \in Nat
         /\ payloadIndex \in PackWidth .. PackWidth + chunk - 1
         /\ first \in 0 .. eventIndex
         /\ startIndex \in 0 .. BufferSize
<1>0. Len(LinePacks) \in Nat /\ PackWidth \in Nat /\ BufferSize \in Nat
      /\ Len(LinePacks) \in 0 .. Len(LinePacks)
  BY HostAssumption
<1>1. first \in 0 .. Len(LinePacks) /\ first <= eventIndex /\ InputRight /\ BufferRight(first)
  BY DEF ProducerRight
<1>2. /\ base \in Nat /\ chunk \in Nat
      /\ eventIndex \in 0 .. Len(LinePacks) /\ lineLength \in Nat
      /\ payloadIndex \in PackWidth .. PackWidth + chunk
      /\ base + payloadIndex - PackWidth = Behind[eventIndex] + lineLength
      /\ lineLength > 0 => eventIndex < Len(LinePacks) /\ lineLength < LineLength(eventIndex + 1)
      /\ base + chunk <= Behind[Len(LinePacks)]
  BY <1>1 DEF InputRight
<1>5. /\ payloadIndex \in Nat /\ payloadIndex - PackWidth \in 0 .. chunk - 1
  BY <1>0, <1>2 DEF InChunk
<1>6. Behind[eventIndex] \in Nat /\ Behind[Len(LinePacks)] \in Nat
  BY <1>0, <1>2, BehindIs
<1>7. Behind[eventIndex] + lineLength < Behind[Len(LinePacks)]
        => eventIndex < Len(LinePacks) /\ eventIndex + 1 \in Line
           /\ Behind[eventIndex] + LineLength(eventIndex + 1) <= Behind[Len(LinePacks)]
  BY <1>0, <1>2, InsideLine
<1>8. Behind[eventIndex] + lineLength < Behind[Len(LinePacks)]
  BY <1>0, <1>2, <1>5, <1>6
<1>9. /\ eventIndex < Len(LinePacks) /\ eventIndex + 1 \in Line
      /\ Behind[eventIndex] + LineLength(eventIndex + 1) <= Behind[Len(LinePacks)]
  BY <1>7, <1>8
<1>10. LineLength(eventIndex + 1) \in Nat \ {0}
  BY <1>9, LengthType
<1>11. /\ eventIndex \in 0 .. Len(LinePacks) - 1
       /\ lineLength \in 0 .. LineLength(eventIndex + 1) - 1
       /\ payloadIndex \in PackWidth .. PackWidth + chunk - 1
       /\ first \in 0 .. eventIndex
  BY <1>0, <1>1, <1>2, <1>5, <1>9, <1>10
<1>12. startIndex \in 0 .. BufferSize
  <2>1. PlaceOf(first, eventIndex + 1) \in Nat
    <3>1. eventIndex + 1 \in first + 1 .. Len(LinePacks)
      BY <1>0, <1>11
    <3>. QED
      BY <1>1, <3>1, PlaceIs
  <2>. QED
    BY <1>0, <1>1, <2>1 DEF BufferRight
<1>. QED
  BY <1>2, <1>6, <1>9, <1>10, <1>11, <1>12

\* (i + 1) % NumThreads is a thread.
LEMMA NextThread == \A t \in Thread : (t + 1) % NumThreads \in Thread
BY HostAssumption DEF Thread

\* A full buffer is pushed with the lines it holds, if it holds some and the
\* line that did not fit began in this chunk.
LEMMA NextBufferRight ==
  ASSUME Shape, NEW deal, NEW first, Right(deal, first), NextBuffer, ~spoilt'
  PROVE  Shape' /\ \E d, f : Right(d, f)'
<1>0. Len(LinePacks) \in Nat /\ PackWidth \in Nat /\ BufferSize \in Nat
  BY HostAssumption
<1>1. /\ pc = "loop" /\ InChunk(payloadIndex) /\ BufferFull
      /\ slots' = [slots EXCEPT ![bufIdx][FrontSlot] = Terminated(@)]
      /\ rings' = [rings EXCEPT ![bufIdx] = PushFront(@)]
      /\ bufIdx' = (bufIdx + 1) % NumThreads
      /\ payloadIndex' = payloadIndex - lineLength
      /\ lineLength' = 0 /\ startIndex' = 0 /\ currentIndex' = 1
      /\ pc' = "peek"
      /\ eventIndex' = eventIndex /\ base' = base /\ chunk' = chunk /\ done' = done
      /\ sentinels' = sentinels /\ wpc' = wpc /\ scanned' = scanned
      /\ startIndex # 0 /\ ~(payloadIndex - lineLength < PackWidth)
  BY DEF NextBuffer, input
<1>2. /\ ProducerRight(first) /\ DealRight(deal, first) /\ RingRight(deal) /\ ScanRight(deal)
  BY DEF Right
<1>3. /\ sentinels = 0 /\ InputRight /\ BufferRight(first) /\ PushRight(first)
  BY <1>1, <1>2 DEF ProducerRight
<1>4. PICK e \in 0 .. Len(LinePacks) : e = eventIndex
  BY <1>3 DEF InputRight
<1>5. PICK t \in Thread : t = bufIdx
  BY DEF Shape
<1>6. PICK buf : buf = Terminated(Current)
  OBVIOUS
<1>7. /\ e \in 0 .. Len(LinePacks) - 1 /\ e + 1 \in Line
      /\ lineLength \in 0 .. LineLength(e + 1) - 1
      /\ LineLength(e + 1) \in Nat \ {0}
      /\ base + payloadIndex - PackWidth = Behind[e] + lineLength
      /\ Behind[e] \in Nat /\ base \in Nat /\ chunk \in Nat
      /\ payloadIndex \in PackWidth .. PackWidth + chunk - 1
      /\ first \in 0 .. e
      /\ startIndex \in 0 .. BufferSize
  BY <1>1, <1>2, <1>4, PlaceInLine
<1>8. /\ startIndex = PlaceOf(first, e + 1) /\ startIndex <= BufferSize
      /\ currentIndex = startIndex + 1 + lineLength
      /\ ~rings[t].full /\ HoldsLines(Current, first, e)
  BY <1>1, <1>3, <1>4, <1>5 DEF BufferRight
<1>9. first < e
  <2>1. CASE first = e
    <3>1. startIndex = 0
      BY <1>4, <1>8, <2>1, PlaceIs
    <3>. QED
      BY <1>1, <3>1
  <2>. QED
    BY <1>7, <2>1
<1>10. Current \in Buffer /\ Current = slots[t][rings[t].tail] /\ rings[t].tail \in Index
  BY <1>5, Types DEF Current, FrontSlot
<1>11. first \in 0 .. Len(LinePacks) /\ first \in Nat /\ e \in first + 1 .. Len(LinePacks)
  BY <1>0, <1>7, <1>9
<1>12. buf \in Buffer /\ Carries(buf, first, e)
  <2>1. buf = IF startIndex < BufferSize THEN [Current EXCEPT ![startIndex] = Zero] ELSE Current
    BY <1>6 DEF Terminated
  <2>. QED
    BY <1>8, <1>10, <1>11, <2>1, Ended
<1>13. slots' = [slots EXCEPT ![t][rings[t].tail] = buf]
  <2>1. slots \in [Thread -> [Index -> Buffer]]
    BY DEF Shape
  <2>. HIDE DEF Buffer
  <2>. QED
    BY <1>1, <1>5, <1>6, <1>10, <2>1 DEF FrontSlot
<1>14. rings' = [rings EXCEPT ![t] = PushFront(@)]
  BY <1>1, <1>5
<1>15. PICK d : DealRight(d, e) /\ RingRight(d)' /\ ScanRight(d)'
  BY <1>1, <1>2, <1>3, <1>8, <1>11, <1>12, <1>13, <1>14, PushLines
<1>16. Shape'
  <2>1. bufIdx' \in Thread
    BY <1>1, <1>5, NextThread
  <2>2. /\ rings' \in [Thread -> Ring]
        /\ \A u \in Thread : InRing(u)' \in 0 .. Capacity /\ Tells(rings'[u], InRing(u)')
    BY <1>8, <1>14, PushRing
  <2>3. slots' \in [Thread -> [Index -> Buffer]]
    BY <1>10, <1>12, <1>13 DEF Shape
  <2>. QED
    BY <1>1, <2>1, <2>2, <2>3 DEF Shape
<1>17. /\ payloadIndex' \in PackWidth .. PackWidth + chunk - 1
       /\ base + payloadIndex' - PackWidth = Behind[e]
  <2>1. lineLength \in Nat /\ payloadIndex \in Nat /\ payloadIndex - PackWidth < chunk
    BY <1>0, <1>7
  <2>2. \A i, q, w, c \in Nat : i - w < c /\ ~(i - q < w) => i - q \in w .. w + c - 1
    OBVIOUS
  <2>3. \A i, q, w, b, m \in Nat : b + i - w = m + q => b + (i - q) - w = m
    OBVIOUS
  <2>4. payloadIndex - lineLength \in PackWidth .. PackWidth + chunk - 1
    BY <1>0, <1>1, <1>7, <2>1, <2>2
  <2>5. base + (payloadIndex - lineLength) - PackWidth = Behind[e]
    BY <1>0, <1>7, <2>1, <2>3
  <2>. QED
    BY <1>1, <2>4, <2>5
<1>18. InChunk(payloadIndex)'
  <2>1. chunk' = chunk /\ chunk \in Nat
    BY <1>1, <1>7
  <2>2. \A c, w \in Nat : \A i \in w .. w + c - 1 : i \in Nat /\ i >= w /\ i - w < c
    OBVIOUS
  <2>3. payloadIndex' \in Nat /\ payloadIndex' >= PackWidth /\ payloadIndex' - PackWidth < chunk
    BY <1>0, <1>17, <2>1, <2>2
  <2>. QED
    BY <2>1, <2>3 DEF InChunk
<1>19. InputRight'
  <2>1. /\ payloadIndex' \in Int /\ payloadIndex' \in PackWidth .. PackWidth + chunk'
        /\ base' + payloadIndex' - PackWidth = Behind[eventIndex'] + lineLength'
    <3>1. /\ chunk' = chunk /\ base' = base /\ eventIndex' = e /\ lineLength' = 0
          /\ chunk \in Nat /\ Behind[e] \in Nat
      BY <1>1, <1>4, <1>7
    <3>. QED
      BY <1>0, <1>17, <3>1
  <2>. QED
    BY <1>1, <1>3, <1>18, <2>1 DEF InputRight
<1>20. BufferRight(e)'
  BY <1>0, <1>1, <1>4, PlaceIs DEF BufferRight
<1>21. PushRight(e)'
  BY <1>1, <1>3, <1>18 DEF PushRight
<1>22. ProducerRight(e)'
  BY <1>0, <1>1, <1>3, <1>4, <1>19, <1>20, <1>21 DEF ProducerRight
<1>. QED
  BY <1>15, <1>16, <1>22 DEF Right, DealRight

\* The places of a buffer of n words around place s + 1 + q, which is written.
Apart(s, q, n) ==
  /\ s \in 0 .. n - 1 /\ s + 1 + q \in 0 .. n - 1 /\ s + 1 + q = s + (q + 1)
  /\ \A i \in 0 .. s - 1 : i \in 0 .. n - 1 /\ i # s /\ i # s + 1 + q
  /\ \A p \in 1 .. q + 1 : /\ s + p \in 0 .. n - 1 /\ s + p # s
                           /\ p = q + 1 \/ (p \in 1 .. q /\ s + p # s + 1 + q)
  /\ \A i, l \in Nat : i + l < s => i \in 0 .. s - 1 /\ \A p \in 1 .. l : i + p \in 0 .. s - 1

LEMMA Places == \A s, q, n \in Nat : s + 1 + q < n => Apart(s, q, n)
<1>. SUFFICES ASSUME NEW s \in Nat, NEW q \in Nat, NEW n \in Nat, s + 1 + q < n
              PROVE  Apart(s, q, n)
  OBVIOUS
<1>1. /\ s \in 0 .. n - 1 /\ s + 1 + q \in 0 .. n - 1 /\ s + 1 + q = s + (q + 1)
      /\ \A i \in 0 .. s - 1 : i \in 0 .. n - 1 /\ i # s /\ i # s + 1 + q
  OBVIOUS
<1>2. \A p \in 1 .. q + 1 : /\ s + p \in 0 .. n - 1 /\ s + p # s
                            /\ p = q + 1 \/ (p \in 1 .. q /\ s + p # s + 1 + q)
  OBVIOUS
<1>3. \A i, l \in Nat : i + l < s => i \in 0 .. s - 1 /\ \A p \in 1 .. l : i + p \in 0 .. s - 1
  OBVIOUS
<1>. QED
  BY <1>1, <1>2, <1>3 DEF Apart

\* A buffer with the lines behind a up to e, and q words of the next one.
HoldsPart(buf, a, e, q) ==
  /\ HoldsLines(buf, a, e)
  /\ \A p \in 1 .. q : buf[PlaceOf(a, e + 1) + p] = WordsOf(e + 1)[p]

\* The next word is copied into it, and the line's metadata with the last one.
CopyInto(buf, s, e, q) ==
  LET copied == [buf EXCEPT ![s + 1 + q] = WordsOf(e + 1)[q + 1]]
  IN  IF q + 1 = LineLength(e + 1) THEN [copied EXCEPT ![s] = Metadata(e, q + 1)] ELSE copied

LEMMA Copied ==
  ASSUME NEW buf \in Buffer, NEW a \in 0 .. Len(LinePacks) - 1,
         NEW e \in a .. Len(LinePacks) - 1,
         NEW q \in 0 .. LineLength(e + 1) - 1, NEW s, s = PlaceOf(a, e + 1),
         s + 1 + q < BufferSize, HoldsPart(buf, a, e, q)
  PROVE  /\ CopyInto(buf, s, e, q) \in Buffer
         /\ q + 1 = LineLength(e + 1) =>
              HoldsLines(CopyInto(buf, s, e, q), a, e + 1) /\ PlaceOf(a, e + 2) = s + q + 2
         /\ q + 1 # LineLength(e + 1) => HoldsPart(CopyInto(buf, s, e, q), a, e, q + 1)
<1>. PICK word : word = WordsOf(e + 1)[q + 1]
  OBVIOUS
<1>. PICK copied : copied = [buf EXCEPT ![s + 1 + q] = word]
  OBVIOUS
<1>. PICK full : full = CopyInto(buf, s, e, q)
  OBVIOUS
<1>12. full = IF q + 1 = LineLength(e + 1)
              THEN [copied EXCEPT ![s] = Metadata(e, q + 1)] ELSE copied
  BY DEF CopyInto
<1>0. /\ Len(LinePacks) \in Nat /\ BufferSize \in Nat /\ a \in Nat /\ e \in Nat
      /\ a \in 0 .. Len(LinePacks) /\ e + 1 \in a + 1 .. Len(LinePacks)
  BY HostAssumption
<1>1. /\ e + 1 \in Line /\ LineLength(e + 1) \in Nat \ {0}
      /\ s \in Nat /\ PlaceOf(a, (e + 1) + 1) = s + LineLength(e + 1) + 1
      /\ \A k \in a + 1 .. (e + 1) - 1 : PlaceOf(a, k) + LineLength(k) < s
  BY <1>0, PlaceIs
<1>2. \A k \in a + 1 .. e : /\ PlaceOf(a, k) \in Nat /\ LineLength(k) \in Nat
                            /\ PlaceOf(a, k) + LineLength(k) < s
  <2>. SUFFICES ASSUME NEW k \in a + 1 .. e
                PROVE  /\ PlaceOf(a, k) \in Nat /\ LineLength(k) \in Nat
                       /\ PlaceOf(a, k) + LineLength(k) < s
    OBVIOUS
  <2>1. k \in a + 1 .. (e + 1) - 1 /\ k \in a + 1 .. Len(LinePacks)
    BY <1>0
  <2>. QED
    BY <1>0, <1>1, <2>1, PlaceIs
<1>3. /\ q \in Nat /\ q + 1 \in 1 .. LineLength(e + 1)
      /\ Apart(s, q, BufferSize)
      /\ s \in 0 .. BufferSize - 1 /\ s + 1 + q \in 0 .. BufferSize - 1
      /\ s + 1 + q = s + (q + 1)
  <2>1. q \in Nat /\ q + 1 \in 1 .. LineLength(e + 1)
    BY <1>1
  <2>2. Apart(s, q, BufferSize)
    BY <1>0, <1>1, <2>1, Places
  <2>. QED
    BY <2>1, <2>2 DEF Apart
<1>4. word \in Cell /\ Metadata(e, q + 1) \in Cell
  <2>1. word = [kind |-> "data", line |-> e + 1, at |-> q + 1]
    BY <1>3, <1>1, EndOfLineIs
  <2>2. q + 1 \in 0 .. BufferSize /\ e + 1 \in Nat
    BY <1>0, <1>3
  <2>. QED
    BY <1>0, <2>1, <2>2 DEF Metadata, Cell
<1>5. DOMAIN buf = 0 .. BufferSize - 1 /\ buf \in [0 .. BufferSize - 1 -> Cell]
  BY DEF Buffer
<1>6. copied \in [0 .. BufferSize - 1 -> Cell] /\ full \in [0 .. BufferSize - 1 -> Cell]
  <2>. HIDE DEF Cell
  <2>. QED
    BY <1>3, <1>4, <1>5, <1>12
<1>7. \A i \in 0 .. s - 1 : full[i] = buf[i]
  <2>. SUFFICES ASSUME NEW i \in 0 .. s - 1
                PROVE  full[i] = buf[i]
    OBVIOUS
  <2>1. i \in 0 .. BufferSize - 1 /\ i # s /\ i # s + 1 + q
    BY <1>3 DEF Apart
  <2>2. copied[i] = buf[i]
    BY <1>5, <2>1
  <2>3. full[i] = copied[i]
    BY <1>6, <1>12, <2>1
  <2>. QED
    BY <2>2, <2>3
<1>8. HoldsLines(full, a, e)
  <2>. SUFFICES ASSUME NEW k \in a + 1 .. e
                PROVE  HoldsLine(full, PlaceOf(a, k), k)
    BY DEF HoldsLines
  <2> DEFINE i == PlaceOf(a, k)
  <2>1. HoldsLine(buf, i, k)
    BY DEF HoldsPart, HoldsLines
  <2>2. i \in Nat /\ LineLength(k) \in Nat /\ i + LineLength(k) < s
    BY <1>2
  <2>. HIDE DEF i
  <2>3. i \in 0 .. s - 1 /\ \A p \in 1 .. LineLength(k) : i + p \in 0 .. s - 1
    BY <1>3, <2>2 DEF Apart
  <2>4. full[i] = buf[i] /\ \A p \in 1 .. LineLength(k) : full[i + p] = buf[i + p]
    BY <1>7, <2>3
  <2>. QED
    BY <2>1, <2>4 DEF HoldsLine, i
<1>9. \A p \in 1 .. q + 1 : full[s + p] = WordsOf(e + 1)[p]
  <2>. SUFFICES ASSUME NEW p \in 1 .. q + 1
                PROVE  full[s + p] = WordsOf(e + 1)[p]
    OBVIOUS
  <2>1. /\ s + p \in 0 .. BufferSize - 1 /\ s + p # s
        /\ p = q + 1 \/ (p \in 1 .. q /\ s + p # s + 1 + q)
    BY <1>3 DEF Apart
  <2>2. full[s + p] = copied[s + p]
    BY <1>6, <1>12, <2>1
  <2>3. CASE p = q + 1
    BY <1>3, <1>5, <2>2, <2>3
  <2>4. CASE p \in 1 .. q /\ s + p # s + 1 + q
    <3>1. copied[s + p] = buf[s + p]
      BY <1>5, <2>1, <2>4
    <3>. QED
      BY <2>2, <2>4, <3>1 DEF HoldsPart
  <2>. QED
    BY <2>1, <2>3, <2>4
<1>10. ASSUME q + 1 = LineLength(e + 1)
       PROVE  HoldsLines(full, a, e + 1) /\ PlaceOf(a, e + 2) = s + q + 2
  <2>1. (e + 1) + 1 = e + 2 /\ (e + 1) - 1 = e
    BY <1>0
  <2>2. PlaceOf(a, e + 2) = s + q + 2
    BY <1>1, <1>3, <1>10, <2>1
  <2>3. full[s] = Metadata(e, LineLength(e + 1))
    BY <1>3, <1>6, <1>10, <1>12
  <2>4. HoldsLine(full, PlaceOf(a, e + 1), e + 1)
    BY <1>9, <1>10, <2>1, <2>3 DEF HoldsLine
  <2>5. \A k \in a + 1 .. e + 1 : k = e + 1 \/ k \in a + 1 .. e
    BY <1>0
  <2>6. HoldsLines(full, a, e + 1)
    BY <1>8, <2>4, <2>5 DEF HoldsLines
  <2>. QED
    BY <2>2, <2>6
<1>. QED
  BY <1>6, <1>8, <1>9, <1>10 DEF Buffer, HoldsPart

\* What the step writes: a word of the chunk, and with the last one of a line
\* the metadata.
Copy(word) == [Current EXCEPT ![currentIndex] = word]
FullCopy(word) == IF IsEndOfLine(word)
                  THEN [Copy(word) EXCEPT ![startIndex] = Metadata(eventIndex, lineLength + 1)]
                  ELSE Copy(word)
NextStart(word) == IF IsEndOfLine(word) THEN currentIndex + 1 ELSE startIndex
Written(word) == IF AtEnd(payloadIndex + 1) /\ NextStart(word) < BufferSize
                 THEN [FullCopy(word) EXCEPT ![NextStart(word)] = Zero] ELSE FullCopy(word)

LEMMA CopyWordIs ==
  ASSUME CopyWord
  PROVE  /\ pc \in {"loop", "copy"}
         /\ pc = "loop" => InChunk(payloadIndex) /\ ~BufferFull
         /\ payloadIndex' = payloadIndex + 1
         /\ AtEnd(payloadIndex + 1) => rings' = [rings EXCEPT ![bufIdx] = PushFront(@)]
                                       /\ pc' = "sentinel"
         /\ ~AtEnd(payloadIndex + 1) => rings' = rings /\ pc' = "loop"
         /\ bufIdx' = bufIdx /\ base' = base /\ chunk' = chunk /\ done' = done
         /\ sentinels' = sentinels /\ wpc' = wpc /\ scanned' = scanned /\ spoilt' = spoilt
         /\ \E word \in SourceWords(payloadIndex) :
              /\ lineLength' = IF IsEndOfLine(word) THEN 0 ELSE lineLength + 1
              /\ startIndex' = NextStart(word)
              /\ currentIndex' = currentIndex + (IF IsEndOfLine(word) THEN 2 ELSE 1)
              /\ eventIndex' = eventIndex + (IF IsEndOfLine(word) THEN 1 ELSE 0)
              /\ slots' = [slots EXCEPT ![bufIdx][FrontSlot] = Written(word)]
BY DEF CopyWord, Copy, FullCopy, NextStart, Written, Current, input

\* One word further.
LEMMA OneOn ==
  ASSUME NEW b \in Nat, NEW i \in Nat, NEW w \in Nat, NEW n \in Nat, NEW m \in Nat,
         b + i - w = n + m
  PROVE  b + i - w + 1 = n + (m + 1) /\ b + (i + 1) - w = n + (m + 1)
OBVIOUS

LEMMA CopyWordRight ==
  ASSUME Shape, NEW deal, NEW first, Right(deal, first), CopyWord
  PROVE  Shape' /\ \E d, f : Right(d, f)'
<1>0. Len(LinePacks) \in Nat /\ PackWidth \in Nat /\ BufferSize \in Nat
      /\ Len(LinePacks) \in 0 .. Len(LinePacks) /\ BufferSize > 1
  BY HostAssumption
<1>1. /\ pc \in {"loop", "copy"}
      /\ pc = "loop" => InChunk(payloadIndex) /\ ~BufferFull
      /\ payloadIndex' = payloadIndex + 1
      /\ bufIdx' = bufIdx /\ base' = base /\ chunk' = chunk /\ done' = done
      /\ sentinels' = sentinels /\ wpc' = wpc /\ scanned' = scanned
  BY CopyWordIs
<1>30. PICK source \in SourceWords(payloadIndex) :
         /\ lineLength' = IF IsEndOfLine(source) THEN 0 ELSE lineLength + 1
         /\ startIndex' = NextStart(source)
         /\ currentIndex' = currentIndex + (IF IsEndOfLine(source) THEN 2 ELSE 1)
         /\ eventIndex' = eventIndex + (IF IsEndOfLine(source) THEN 1 ELSE 0)
         /\ slots' = [slots EXCEPT ![bufIdx][FrontSlot] = Written(source)]
  BY CopyWordIs
<1>2. /\ AtEnd(payloadIndex + 1) => rings' = [rings EXCEPT ![bufIdx] = PushFront(@)]
                                    /\ pc' = "sentinel"
      /\ ~AtEnd(payloadIndex + 1) => rings' = rings /\ pc' = "loop"
  BY CopyWordIs
<1>3. /\ ProducerRight(first) /\ DealRight(deal, first) /\ RingRight(deal) /\ ScanRight(deal)
  BY DEF Right
<1>4. /\ sentinels = 0 /\ InputRight /\ BufferRight(first) /\ PushRight(first)
  BY <1>1, <1>3 DEF ProducerRight
<1>5. InChunk(payloadIndex)
  BY <1>1, <1>4 DEF InputRight
<1>6. PICK e \in 0 .. Len(LinePacks) : e = eventIndex
  BY <1>4 DEF InputRight
<1>7. PICK t \in Thread : t = bufIdx
  BY DEF Shape
<1>8. PICK q : q = lineLength
  OBVIOUS
<1>9. PICK s : s = startIndex
  OBVIOUS
<1>10. /\ e \in 0 .. Len(LinePacks) - 1 /\ e + 1 \in Line
       /\ q \in 0 .. LineLength(e + 1) - 1
       /\ LineLength(e + 1) \in Nat \ {0}
       /\ base + payloadIndex - PackWidth = Behind[e] + q
       /\ Behind[e] + LineLength(e + 1) <= Behind[Len(LinePacks)]
       /\ Behind[e] \in Nat /\ base \in Nat /\ chunk \in Nat
       /\ payloadIndex \in PackWidth .. PackWidth + chunk - 1
       /\ first \in 0 .. e
       /\ s \in 0 .. BufferSize
  BY <1>1, <1>3, <1>5, <1>6, <1>8, <1>9, PlaceInLine
<1>11. q \in Nat /\ q + 1 \in 1 .. LineLength(e + 1) /\ payloadIndex \in Nat /\ s \in Nat
       /\ payloadIndex - PackWidth < chunk /\ LineLength(e + 1) \in Nat
  BY <1>0, <1>10
<1>12. /\ s = PlaceOf(first, e + 1)
       /\ currentIndex = s + 1 + q
       /\ pc = "copy" => e = first /\ q = 0
       /\ ~rings[t].full /\ HoldsLines(Current, first, e)
       /\ \A p \in 1 .. q : Current[s + p] = WordsOf(e + 1)[p]
  BY <1>1, <1>4, <1>6, <1>7, <1>8, <1>9 DEF BufferRight
<1>13. s + 1 + q < BufferSize
  <2>1. CASE pc = "loop"
    BY <1>0, <1>1, <1>11, <1>12, <2>1 DEF BufferFull
  <2>2. CASE pc = "copy"
    <3>1. s = 0 /\ q = 0
      BY <1>6, <1>10, <1>12, <2>2, PlaceIs
    <3>. QED
      BY <1>0, <1>10, <3>1
  <2>. QED
    BY <1>1, <2>1, <2>2
<1>14. Current \in Buffer /\ Current = slots[t][rings[t].tail] /\ rings[t].tail \in Index
  BY <1>7, Types DEF Current, FrontSlot
<1>29. /\ base \in Nat /\ payloadIndex \in Nat /\ PackWidth \in Nat
       /\ Behind[e] \in Nat /\ q \in Nat
       /\ base + payloadIndex - PackWidth = Behind[e] + q
  BY <1>0, <1>10, <1>11
<1>15. source = WordsOf(e + 1)[q + 1]
  <2>1. source = Stream[base + payloadIndex - PackWidth + 1]
    BY <1>10, <1>30 DEF SourceWords
  <2>2. base + payloadIndex - PackWidth + 1 = Behind[e] + (q + 1)
    BY <1>29, OneOn
  <2>3. (e + 1) - 1 = e
    BY <1>0
  <2>4. Stream[Behind[(e + 1) - 1] + (q + 1)] = WordsOf(e + 1)[q + 1]
    BY <1>10, <1>11, StreamIs
  <2>. QED
    BY <2>1, <2>2, <2>3, <2>4
<1>16. IsEndOfLine(source) <=> q + 1 = LineLength(e + 1)
  BY <1>10, <1>11, <1>15, EndOfLineIs
<1>17. PICK full : full = FullCopy(source)
  OBVIOUS
<1>18. /\ full \in Buffer
       /\ q + 1 = LineLength(e + 1) =>
            HoldsLines(full, first, e + 1) /\ PlaceOf(first, e + 2) = s + q + 2
       /\ q + 1 # LineLength(e + 1) => HoldsPart(full, first, e, q + 1)
  <2>1. PICK buf : buf = Current
    OBVIOUS
  <2>2. full = CopyInto(buf, s, e, q)
    BY <1>6, <1>8, <1>9, <1>12, <1>15, <1>16, <1>17, <2>1 DEF FullCopy, Copy, CopyInto
  <2>3. first \in 0 .. Len(LinePacks) - 1 /\ e \in first .. Len(LinePacks) - 1
    BY <1>0, <1>10
  <2>4. buf \in Buffer /\ HoldsPart(buf, first, e, q)
    BY <1>12, <1>14, <2>1 DEF HoldsPart
  <2>. HIDE DEF Buffer, Line
  <2>5. s = PlaceOf(first, e + 1) /\ q \in 0 .. LineLength(e + 1) - 1
    BY <1>10, <1>12
  <2>6. /\ CopyInto(buf, s, e, q) \in Buffer
        /\ q + 1 = LineLength(e + 1) =>
             HoldsLines(CopyInto(buf, s, e, q), first, e + 1) /\ PlaceOf(first, e + 2) = s + q + 2
        /\ q + 1 # LineLength(e + 1) => HoldsPart(CopyInto(buf, s, e, q), first, e, q + 1)
    BY <1>13, <2>3, <2>4, <2>5, Copied
  <2>. QED
    BY <2>2, <2>6
<1>19. first \in 0 .. Len(LinePacks) /\ first \in Nat /\ e + 1 \in first + 1 .. Len(LinePacks)
       /\ e \in Nat /\ e + 1 \in 0 .. Len(LinePacks) /\ first <= e + 1
  BY <1>0, <1>10
<1>20. Written(source) = IF AtEnd(payloadIndex + 1) /\ NextStart(source) < BufferSize
                         THEN [full EXCEPT ![NextStart(source)] = Zero] ELSE full
  BY <1>17 DEF Written
<1>21. PICK buf : buf = Written(source)
  OBVIOUS
<1>22. slots' = [slots EXCEPT ![t][rings[t].tail] = buf]
  BY <1>7, <1>21, <1>30 DEF FrontSlot
<1>23. slots \in [Thread -> [Index -> Buffer]] /\ rings \in [Thread -> Ring]
  BY DEF Shape
<1>24. slots'[t][rings[t].tail] = buf
       /\ \A u \in Thread : \A k \in 0 .. InRing(u) - 1 :
             slots'[u][Wrap(rings[u].head + k)] = SlotAt(u, k)
  BY <1>12, <1>22, WriteBehind
<1>25. ASSUME buf \in Buffer
       PROVE  slots' \in [Thread -> [Index -> Buffer]]
  BY <1>14, <1>22, <1>23, <1>25
<1>26. CASE ~AtEnd(payloadIndex + 1)
  <2>1. buf = full /\ rings' = rings /\ pc' = "loop"
    BY <1>2, <1>20, <1>21, <1>26
  <2>2. Shape'
    <3>1. slots' \in [Thread -> [Index -> Buffer]]
      BY <1>18, <1>25, <2>1
    <3>2. \A u \in Thread : InRing(u)' = InRing(u)
      BY <2>1 DEF InRing
    <3>. QED
      BY <1>1, <2>1, <3>1, <3>2 DEF Shape
  <2>3. RingRight(deal)'
    BY <1>1, <1>3, <1>24, <2>1, RingKept
  <2>4. ScanRight(deal)'
    BY <1>1, <1>3, <2>1, ScanKept
  <2>5. PushRight(first)'
    <3>1. done' => InChunk(payloadIndex)'
      BY <1>1, <1>26 DEF AtEnd, InChunk
    <3>. QED
      BY <2>1, <3>1 DEF PushRight
  <2>6. payloadIndex' \in PackWidth .. PackWidth + chunk /\ payloadIndex' \in Int
    <3>1. \A w, c \in Nat : \A i \in w .. w + c - 1 : i + 1 \in w .. w + c /\ i + 1 \in Int
      OBVIOUS
    <3>. QED
      BY <1>0, <1>1, <1>10, <3>1
  <2>7. base + payloadIndex' - PackWidth = Behind[e] + (q + 1)
    <3>1. base + (payloadIndex + 1) - PackWidth = Behind[e] + (q + 1)
      BY <1>29, OneOn
    <3>. QED
      BY <1>1, <3>1
  <2>8. Current' = full
    BY <1>1, <1>7, <1>24, <2>1 DEF Current, FrontSlot
  <2>9. CASE q + 1 # LineLength(e + 1)
    <3>1. /\ lineLength' = q + 1 /\ startIndex' = s /\ currentIndex' = s + 1 + (q + 1)
          /\ eventIndex' = e
      <4>1. /\ lineLength' = lineLength + 1 /\ startIndex' = startIndex
            /\ currentIndex' = currentIndex + 1 /\ eventIndex' = eventIndex + 0
        BY <1>16, <1>30, <2>9 DEF NextStart
      <4>2. s \in Nat /\ q \in Nat /\ e \in Nat /\ currentIndex = s + 1 + q
        BY <1>11, <1>12, <1>19
      <4>. QED
        BY <1>6, <1>8, <1>9, <4>1, <4>2
    <3>2. lineLength' < LineLength(eventIndex' + 1) /\ lineLength' \in Nat
          /\ eventIndex' < Len(LinePacks)
      BY <1>0, <1>10, <1>11, <2>9, <3>1
    <3>3. InputRight'
      BY <1>1, <1>4, <1>6, <2>1, <2>6, <2>7, <3>1, <3>2 DEF InputRight
    <3>4. BufferRight(first)'
      <4>1. HoldsLines(full, first, e)
            /\ \A p \in 1 .. q + 1 : full[s + p] = WordsOf(e + 1)[p]
        BY <1>12, <1>18, <2>9 DEF HoldsPart
      <4>2. /\ pc' = "loop" /\ rings' = rings /\ bufIdx' = t /\ ~rings[t].full
            /\ s <= BufferSize /\ s = PlaceOf(first, e + 1)
        BY <1>1, <1>7, <1>10, <1>12, <2>1
      <4>. QED
        BY <2>8, <3>1, <4>1, <4>2 DEF BufferRight
    <3>5. ProducerRight(first)'
      BY <1>1, <1>4, <1>10, <1>19, <2>5, <3>1, <3>3, <3>4 DEF ProducerRight
    <3>. QED
      BY <1>3, <2>2, <2>3, <2>4, <3>5 DEF Right, DealRight
  <2>10. CASE q + 1 = LineLength(e + 1)
    <3>1. /\ lineLength' = 0 /\ startIndex' = s + q + 2 /\ currentIndex' = startIndex' + 1 + 0
          /\ eventIndex' = e + 1
      <4>1. /\ lineLength' = 0 /\ startIndex' = currentIndex + 1
            /\ currentIndex' = currentIndex + 2 /\ eventIndex' = e + 1
        BY <1>1, <1>6, <1>16, <1>30, <2>10 DEF NextStart
      <4>2. s \in Nat /\ q \in Nat /\ currentIndex = s + 1 + q
        BY <1>11, <1>12
      <4>. QED
        BY <4>1, <4>2
    <3>2. Behind[e + 1] = Behind[e] + (q + 1)
      <4>1. (e + 1) - 1 = e
        BY <1>19
      <4>2. Behind[e + 1] = Behind[(e + 1) - 1] + LineLength(e + 1)
        BY <1>10, BehindIs
      <4>. QED
        BY <2>10, <4>1, <4>2
    <3>3. base' + payloadIndex' - PackWidth = Behind[e + 1] + 0
      <4>1. Behind[e + 1] \in Nat
        BY <1>19, BehindIs
      <4>. QED
        BY <1>1, <2>7, <3>2, <4>1
    <3>4. InputRight'
      <4>1. /\ pc' = "loop" /\ base' = base /\ chunk' = chunk /\ done' = done
            /\ lineLength' = 0 /\ eventIndex' = e + 1 /\ eventIndex' \in 0 .. Len(LinePacks)
            /\ base' + payloadIndex' - PackWidth = Behind[eventIndex'] + lineLength'
        BY <1>1, <1>19, <2>1, <3>1, <3>3
      <4>. QED
        BY <1>4, <2>6, <4>1 DEF InputRight
    <3>5. startIndex' <= BufferSize
      BY <1>0, <1>11, <1>13, <3>1
    <3>6. startIndex' = PlaceOf(first, (e + 1) + 1)
      <4>1. (e + 1) + 1 = e + 2
        BY <1>19
      <4>. QED
        BY <1>18, <2>10, <3>1, <4>1
    <3>7. BufferRight(first)'
      BY <1>1, <1>7, <1>12, <1>18, <2>1, <2>8, <2>10, <3>1, <3>5, <3>6 DEF BufferRight
    <3>8. ProducerRight(first)'
      BY <1>1, <1>4, <1>19, <2>5, <3>1, <3>4, <3>7 DEF ProducerRight
    <3>. QED
      BY <1>3, <2>2, <2>3, <2>4, <3>8 DEF Right, DealRight
  <2>. QED
    BY <2>9, <2>10
<1>27. CASE AtEnd(payloadIndex + 1)
  <2>1. rings' = [rings EXCEPT ![t] = PushFront(@)] /\ pc' = "sentinel" /\ done
    BY <1>2, <1>7, <1>27 DEF AtEnd
  <2>2. base + chunk = Behind[Len(LinePacks)]
    BY <1>4, <2>1 DEF InputRight
  <2>3. payloadIndex + 1 - PackWidth = chunk
    BY <1>0, <1>10, <1>11, <1>27 DEF AtEnd, InChunk
  <2>4. Behind[e] + (q + 1) = base + chunk
    <3>1. chunk \in Nat
      BY <1>10
    <3>2. base + (payloadIndex + 1) - PackWidth = Behind[e] + (q + 1)
      BY <1>29, OneOn
    <3>. QED
      BY <1>29, <2>3, <3>1, <3>2
  <2>5. q + 1 = LineLength(e + 1)
    <3>1. LineLength(e + 1) \in Nat /\ q + 1 <= LineLength(e + 1)
      BY <1>11
    <3>2. Behind[e] + LineLength(e + 1) <= base + chunk
      BY <1>10, <2>2
    <3>. QED
      BY <1>29, <2>4, <3>1, <3>2
  <2>6. e + 1 = Len(LinePacks)
    <3>1. Behind[e + 1] = Behind[Len(LinePacks)] /\ Behind[e + 1] \in Nat
      <4>1. (e + 1) - 1 = e
        BY <1>19
      <4>2. Behind[e + 1] = Behind[(e + 1) - 1] + LineLength(e + 1) /\ Behind[e + 1] \in Nat
        BY <1>10, <1>19, BehindIs
      <4>. QED
        BY <2>2, <2>4, <2>5, <4>1, <4>2
    <3>2. ~(e + 1 < Len(LinePacks))
      BY <1>0, <1>19, <3>1, BehindGrows
    <3>. QED
      BY <1>0, <1>10, <3>2
  <2>7. NextStart(source) = s + q + 2
    BY <1>11, <1>12, <1>16, <2>5 DEF NextStart
  <2>8. buf \in Buffer /\ Carries(buf, first, e + 1)
    <3>1. buf = IF s + q + 2 < BufferSize THEN [full EXCEPT ![s + q + 2] = Zero] ELSE full
      BY <1>20, <1>21, <1>27, <2>7
    <3>2. s + q + 2 = PlaceOf(first, (e + 1) + 1) /\ s + q + 2 <= BufferSize
      <4>1. (e + 1) + 1 = e + 2
        BY <1>19
      <4>. QED
        BY <1>0, <1>11, <1>13, <1>18, <2>5, <4>1
    <3>3. full \in Buffer /\ HoldsLines(full, first, e + 1)
      BY <1>18, <2>5
    <3>4. PICK r : r = s + q + 2
      OBVIOUS
    <3>. QED
      BY <1>19, <3>1, <3>2, <3>3, <3>4, Ended
  <2>9. PICK d : DealRight(d, e + 1) /\ RingRight(d)' /\ ScanRight(d)'
    BY <1>1, <1>3, <1>4, <1>12, <1>19, <1>22, <2>1, <2>8, PushLines
  <2>10. Shape'
    <3>1. slots' \in [Thread -> [Index -> Buffer]]
      BY <1>25, <2>8
    <3>2. /\ rings' \in [Thread -> Ring]
          /\ \A u \in Thread : InRing(u)' \in 0 .. Capacity /\ Tells(rings'[u], InRing(u)')
      BY <1>12, <2>1, PushRing
    <3>. QED
      BY <1>1, <2>1, <3>1, <3>2 DEF Shape
  <2>11. ProducerRight(e + 1)'
    <3>1. TailSize(Len(LinePacks)) = 0
      BY <1>0, BehindIs DEF TailSize
    <3>. QED
      BY <1>0, <1>19, <2>1, <2>6, <3>1 DEF ProducerRight, PushRight
  <2>. QED
    BY <2>9, <2>10, <2>11 DEF Right, DealRight
<1>. QED
  BY <1>26, <1>27

-----------------------------------------------------------------------------
(***************************************************************************)
(* The sentinels and the steps of a worker.                                *)
(***************************************************************************)
\* What ScanRight says of one worker.
ScanOfRight(deal, t) ==
  /\ \A i, j \in 1 .. Len(scanned[t]) :
       i < j => scanned[t][i].index < scanned[t][j].index
  /\ \A i \in 1 .. Len(scanned[t]) : \E j \in 1 .. Seen(deal, t) :
       deal[t][j][1] <= scanned[t][i].index /\ scanned[t][i].index < deal[t][j][2]
  /\ \A j \in 1 .. Seen(deal, t) : \A l \in deal[t][j][1] + 1 .. deal[t][j][2] :
       \E i \in 1 .. Len(scanned[t]) : scanned[t][i].index = l - 1

\* A ring and a worker that a step of another one leaves alone.
LEMMA OneKept ==
  ASSUME Shape, NEW deal, RingRight(deal), ScanRight(deal), NEW u \in Thread,
         rings'[u].head = rings[u].head, InRing(u)' = InRing(u),
         u < sentinels' <=> u < sentinels, wpc'[u] = wpc[u], scanned'[u] = scanned[u],
         \A k \in 0 .. InRing(u) - 1 : slots'[u][Wrap(rings[u].head + k)] = SlotAt(u, k)
  PROVE  RingOfRight(deal, u)' /\ ScanOfRight(deal, u)'
<1>1. RingOfRight(deal, u) /\ ScanOfRight(deal, u)
  BY DEF RingRight, RingOfRight, ScanRight, ScanOfRight
<1>2. WithLines(u)' = WithLines(u) /\ Held(u)' = Held(u)
  BY DEF WithLines, Held
<1>3. Seen(deal, u)' = Seen(deal, u)
  BY <1>2 DEF Seen
<1>4. \A k \in 0 .. WithLines(u) - 1 : SlotAt(u, k)' = SlotAt(u, k)
  <2>1. \A k \in 0 .. WithLines(u) - 1 : k \in 0 .. InRing(u) - 1
    BY WithLinesType
  <2>. QED
    BY <2>1 DEF SlotAt
<1>5. u < sentinels =>
        slots'[u][Wrap(rings[u].head + WithLines(u))] = SlotAt(u, WithLines(u))
  <2>1. u < sentinels => WithLines(u) \in 0 .. InRing(u) - 1
    BY WithLinesType
  <2>. QED
    BY <2>1
<1>6. \A k \in 0 .. WithLines(u)' - 1 :
        LET d == deal[u][Len(deal[u]) - WithLines(u)' + 1 + k]
        IN  Carries(SlotAt(u, k)', d[1], d[2])
  BY <1>1, <1>2, <1>4 DEF RingOfRight
<1>7. u < sentinels' => slots'[u][Wrap(rings'[u].head + WithLines(u)')][0] = Zero
  BY <1>1, <1>2, <1>5 DEF RingOfRight, SlotAt
<1>8. /\ WithLines(u)' \in 0 .. Len(deal[u])
      /\ wpc'[u] = "pop" => WithLines(u)' > 0
      /\ wpc'[u] = "exited" => u < sentinels' /\ WithLines(u)' = 0
  BY <1>1, <1>2 DEF RingOfRight
<1>9. RingOfRight(deal, u)'
  BY <1>6, <1>7, <1>8 DEF RingOfRight, SlotAt
<1>10. ScanOfRight(deal, u)'
  BY <1>1, <1>3 DEF ScanOfRight
<1>. QED
  BY <1>9, <1>10

\* A zero behind the buffers in a ring.
LEMMA SendSentinelRight ==
  ASSUME Shape, NEW deal, NEW first, Right(deal, first), SendSentinel
  PROVE  Shape' /\ Right(deal, first)'
<1>0. NumThreads \in Nat /\ BufferSize \in Nat \ {0} /\ Thread = 0 .. NumThreads - 1
  BY HostAssumption DEF Thread
<1>1. /\ pc = "sentinel" /\ sentinels < NumThreads /\ ~rings[sentinels].full
      /\ slots' = [slots EXCEPT ![sentinels][rings[sentinels].tail][0] = Zero]
      /\ rings' = [rings EXCEPT ![sentinels] = PushFront(@)]
      /\ sentinels' = sentinels + 1
      /\ pc' \in {"done", "sentinel"}
      /\ UNCHANGED <<producer, input, payloadIndex, wpc, scanned>>
  BY DEF SendSentinel
<1>2. PICK t \in Thread : t = sentinels
  BY <1>0, <1>1 DEF Shape
<1>3. slots \in [Thread -> [Index -> Buffer]] /\ rings[t].tail \in Index
  BY Types DEF Shape
<1>4. PICK buf : buf = [slots[t][rings[t].tail] EXCEPT ![0] = Zero]
  OBVIOUS
<1>5. buf \in Buffer /\ buf[0] = Zero
  <2>1. slots[t][rings[t].tail] \in Buffer /\ 0 \in 0 .. BufferSize - 1
    BY <1>0, <1>3
  <2>2. Zero \in Cell
    BY <1>0 DEF Zero, Cell
  <2>. HIDE DEF Cell
  <2>. QED
    BY <1>4, <2>1, <2>2 DEF Buffer
<1>6. slots' = [slots EXCEPT ![t][rings[t].tail] = buf]
  BY <1>1, <1>2, <1>4
<1>7. rings' = [rings EXCEPT ![t] = PushFront(@)] /\ ~rings[t].full
  BY <1>1, <1>2
<1>8. /\ \A u \in Thread : \A k \in 0 .. InRing(u) - 1 :
            slots'[u][Wrap(rings[u].head + k)] = SlotAt(u, k)
      /\ slots'[t][rings[t].tail] = buf
      /\ rings[t].tail = Wrap(rings[t].head + InRing(t))
  BY <1>6, <1>7, WriteBehind
<1>9. /\ rings' \in [Thread -> Ring]
      /\ \A u \in Thread : /\ Tells(rings'[u], InRing(u)')
                           /\ rings'[u].head = rings[u].head
                           /\ InRing(u)' \in 0 .. Capacity
      /\ InRing(t)' = InRing(t) + 1
      /\ \A u \in Thread : u # t => InRing(u)' = InRing(u)
  BY <1>7, PushRing
<1>10. Shape'
  <2>1. slots' \in [Thread -> [Index -> Buffer]]
    BY <1>3, <1>5, <1>6
  <2>2. sentinels' \in 0 .. NumThreads
    BY <1>0, <1>1 DEF Shape
  <2>. QED
    BY <1>1, <1>9, <2>1, <2>2 DEF Shape, producer
<1>11. ProducerRight(first) /\ DealRight(deal, first) /\ RingRight(deal) /\ ScanRight(deal)
  BY DEF Right
<1>12. ProducerRight(first)'
  <2>1. chunk' = chunk
    BY <1>1 DEF input
  <2>. QED
    BY <1>1, <1>11, <2>1 DEF ProducerRight, PushRight
<1>13. ASSUME NEW u \in Thread, u # t
       PROVE  RingOfRight(deal, u)' /\ ScanOfRight(deal, u)'
  <2>1. u < sentinels' <=> u < sentinels
    BY <1>0, <1>1, <1>2, <1>13
  <2>. QED
    BY <1>1, <1>8, <1>9, <1>11, <1>13, <2>1, OneKept
<1>14. RingOfRight(deal, t)' /\ ScanOfRight(deal, t)'
  <2>1. RingOfRight(deal, t) /\ ScanOfRight(deal, t)
    BY <1>11 DEF RingRight, RingOfRight, ScanRight, ScanOfRight
  <2>2. ~(t < sentinels) /\ t < sentinels'
    BY <1>0, <1>1, <1>2
  <2>3. WithLines(t) = InRing(t) /\ WithLines(t)' = InRing(t) /\ InRing(t) \in Nat
    <3>1. InRing(t) \in Nat
      BY <1>11, WithLinesType
    <3>. QED
      BY <1>9, <2>2, <3>1 DEF WithLines
  <2>4. \A k \in 0 .. WithLines(t) - 1 : SlotAt(t, k)' = SlotAt(t, k)
    BY <1>8, <1>9, <2>3 DEF SlotAt
  <2>5. slots'[t][Wrap(rings'[t].head + WithLines(t)')][0] = Zero
    BY <1>5, <1>8, <1>9, <2>3
  <2>6. Held(t)' = Held(t) /\ Seen(deal, t)' = Seen(deal, t)
    BY <1>1, <2>3 DEF Held, Seen
  <2>7. \A k \in 0 .. WithLines(t)' - 1 :
           LET d == deal[t][Len(deal[t]) - WithLines(t)' + 1 + k]
           IN  Carries(SlotAt(t, k)', d[1], d[2])
    BY <2>1, <2>3, <2>4 DEF RingOfRight
  <2>8. RingOfRight(deal, t)'
    BY <1>1, <2>1, <2>2, <2>3, <2>5, <2>7 DEF RingOfRight, SlotAt
  <2>9. ScanOfRight(deal, t)'
    BY <1>1, <2>1, <2>6 DEF ScanOfRight
  <2>. QED
    BY <2>8, <2>9
<1>15. RingRight(deal)'
  BY <1>13, <1>14 DEF RingRight, RingOfRight
<1>16. ScanRight(deal)'
  BY <1>13, <1>14 DEF ScanRight, ScanOfRight
<1>. QED
  BY <1>10, <1>11, <1>12, <1>15, <1>16 DEF Right, DealRight

\* The slot that peek_back returns is the first one of the ring.
LEMMA FirstSlot ==
  ASSUME Shape, NEW t \in Thread, ~rings[t].empty
  PROVE  slots[t][ScannedSlot(t)] = SlotAt(t, 0) /\ InRing(t) > 0
<1>1. N \in Nat /\ rings[t].head \in 0 .. N - 1 /\ InRing(t) \in Nat /\ InRing(t) # 0
  BY Types DEF Index
<1>. QED
  BY <1>1 DEF SlotAt, ScannedSlot, Wrap

\* Steps of a worker that leave the producer and the rings alone.
LEMMA ProducerKept ==
  ASSUME NEW first, ProducerRight(first),
         UNCHANGED <<pc, producer, input, payloadIndex, sentinels, rings, slots>>
  PROVE  ProducerRight(first)'
BY DEF ProducerRight, InputRight, BufferRight, PushRight, InChunk, Current, FrontSlot,
       producer, input

LEMMA ExitRight ==
  ASSUME Shape, NEW deal, NEW first, Right(deal, first), NEW t \in Thread, Exit(t)
  PROVE  Shape' /\ Right(deal, first)'
<1>1. /\ wpc[t] = "peek" /\ ~rings[t].empty /\ slots[t][ScannedSlot(t)][0] = Zero
      /\ wpc' = [wpc EXCEPT ![t] = "exited"]
      /\ UNCHANGED <<pc, producer, input, payloadIndex, sentinels, rings, slots, scanned>>
  BY DEF Exit
<1>2. ProducerRight(first) /\ DealRight(deal, first) /\ RingRight(deal) /\ ScanRight(deal)
  BY DEF Right
<1>3. SlotAt(t, 0)[0] = Zero /\ InRing(t) > 0
  BY <1>1, FirstSlot
<1>4. RingOfRight(deal, t) /\ ScanOfRight(deal, t)
  BY <1>2 DEF RingRight, RingOfRight, ScanRight, ScanOfRight
<1>5. WithLines(t) = 0
  <2>1. WithLines(t) \in Nat
    BY <1>2, WithLinesType
  <2>2. 0 \notin 0 .. WithLines(t) - 1
    BY <1>3, <1>4 DEF RingOfRight, Carries
  <2>. QED
    BY <2>1, <2>2
<1>6. t < sentinels
  BY <1>2, <1>3, <1>5, WithLinesType
<1>7. wpc'[t] = "exited" /\ \A u \in Thread : u # t => wpc'[u] = wpc[u]
  BY <1>1 DEF Shape
<1>8. wpc' \in [Thread -> {"peek", "pop", "exited"}]
  BY <1>1 DEF Shape
<1>9. \A u \in Thread : InRing(u)' = InRing(u) /\ WithLines(u)' = WithLines(u)
  BY <1>1 DEF InRing, WithLines
<1>10. Shape'
  BY <1>1, <1>8, <1>9 DEF Shape, producer
<1>11. ASSUME NEW u \in Thread, u # t
       PROVE  RingOfRight(deal, u)' /\ ScanOfRight(deal, u)'
  <2>1. \A k \in 0 .. InRing(u) - 1 : slots'[u][Wrap(rings[u].head + k)] = SlotAt(u, k)
    BY <1>1 DEF SlotAt
  <2>. QED
    BY <1>1, <1>2, <1>7, <1>9, <1>11, <2>1, OneKept
<1>12. RingOfRight(deal, t)'
  BY <1>1, <1>4, <1>5, <1>6, <1>7, <1>9 DEF RingOfRight, SlotAt
<1>13. ScanOfRight(deal, t)'
  <2>1. Held(t)' = Held(t)
    BY <1>1, <1>7 DEF Held
  <2>2. Seen(deal, t)' = Seen(deal, t)
    BY <1>9, <2>1 DEF Seen
  <2>. QED
    BY <1>1, <1>4, <2>2 DEF ScanOfRight
<1>14. RingRight(deal)'
  BY <1>11, <1>12 DEF RingRight, RingOfRight
<1>15. ScanRight(deal)'
  BY <1>11, <1>13 DEF ScanRight, ScanOfRight
<1>16. ProducerRight(first)'
  BY <1>1, <1>2, ProducerKept
<1>. QED
  BY <1>2, <1>10, <1>14, <1>15, <1>16 DEF Right, DealRight

\* The first buffer, which has been scanned, is given back.
LEMMA PopRight ==
  ASSUME Shape, NEW deal, NEW first, Right(deal, first), NEW t \in Thread, Pop(t)
  PROVE  Shape' /\ Right(deal, first)'
<1>1. /\ wpc[t] = "pop"
      /\ rings' = [rings EXCEPT ![t] = PopBack(@)]
      /\ wpc' = [wpc EXCEPT ![t] = "peek"]
      /\ UNCHANGED <<pc, producer, input, payloadIndex, sentinels, slots, scanned>>
  BY DEF Pop
<1>2. ProducerRight(first) /\ DealRight(deal, first) /\ RingRight(deal) /\ ScanRight(deal)
  BY DEF Right
<1>3. RingOfRight(deal, t) /\ ScanOfRight(deal, t)
  BY <1>2 DEF RingRight, RingOfRight, ScanRight, ScanOfRight
<1>4. /\ WithLines(t) \in Nat \ {0} /\ WithLines(t) <= InRing(t) /\ InRing(t) \in Nat
      /\ WithLines(t) <= Len(deal[t])
      /\ t < sentinels => WithLines(t) = InRing(t) - 1
      /\ ~(t < sentinels) => WithLines(t) = InRing(t)
  <2>1. WithLines(t) > 0
    BY <1>1, <1>3 DEF RingOfRight
  <2>. QED
    BY <1>2, <2>1, WithLinesType
<1>5. InRing(t) > 0
  BY <1>4
<1>6. /\ rings' \in [Thread -> Ring]
      /\ \A u \in Thread : Tells(rings'[u], InRing(u)') /\ InRing(u)' \in 0 .. Capacity
      /\ InRing(t)' = InRing(t) - 1
      /\ \A u \in Thread : u # t => InRing(u)' = InRing(u) /\ rings'[u] = rings[u]
      /\ \A k \in 0 .. Capacity - 1 : Wrap(rings'[t].head + k) = Wrap(rings[t].head + (k + 1))
      /\ rings'[t].tail = rings[t].tail
      /\ ~rings'[t].full
  BY <1>1, <1>5, PopRing
<1>7. wpc'[t] = "peek" /\ \A u \in Thread : u # t => wpc'[u] = wpc[u]
  BY <1>1 DEF Shape
<1>8. wpc' \in [Thread -> {"peek", "pop", "exited"}]
  BY <1>1 DEF Shape
<1>9. Shape'
  BY <1>1, <1>6, <1>8 DEF Shape, producer
<1>10. ASSUME NEW u \in Thread, u # t
       PROVE  RingOfRight(deal, u)' /\ ScanOfRight(deal, u)'
  <2>1. \A k \in 0 .. InRing(u) - 1 : slots'[u][Wrap(rings[u].head + k)] = SlotAt(u, k)
    BY <1>1 DEF SlotAt
  <2>. QED
    BY <1>1, <1>2, <1>6, <1>7, <1>10, <2>1, OneKept
<1>11. WithLines(t)' = WithLines(t) - 1
  <2>1. sentinels' = sentinels
    BY <1>1
  <2>. QED
    BY <1>4, <1>6, <2>1 DEF WithLines
<1>12. Len(deal[t]) \in Nat
  BY <1>2, LenProperties DEF DealRight
<1>13. \A k \in 0 .. WithLines(t)' : SlotAt(t, k)' = SlotAt(t, k + 1)
  <2>1. InRing(t) \in 0 .. Capacity /\ Capacity \in Nat
    BY Types
  <2>2. \A k \in 0 .. WithLines(t)' : k \in 0 .. Capacity - 1
    BY <1>4, <1>11, <2>1
  <2>. QED
    BY <1>1, <1>6, <2>2 DEF SlotAt
<1>14. \A k \in 0 .. WithLines(t)' - 1 :
          LET d == deal[t][Len(deal[t]) - WithLines(t)' + 1 + k]
          IN  Carries(SlotAt(t, k)', d[1], d[2])
  <2>. SUFFICES ASSUME NEW k \in 0 .. WithLines(t)' - 1
                PROVE  LET d == deal[t][Len(deal[t]) - WithLines(t)' + 1 + k]
                       IN  Carries(SlotAt(t, k)', d[1], d[2])
    OBVIOUS
  <2> DEFINE n == WithLines(t)
             m == Len(deal[t])
  <2>1. n \in Nat \ {0} /\ m \in Nat /\ k \in 0 .. (n - 1) - 1 /\ WithLines(t)' = n - 1
    BY <1>4, <1>11, <1>12
  <2>2. SlotAt(t, k)' = SlotAt(t, k + 1)
    <3>1. k \in 0 .. WithLines(t)'
      BY <1>4, <1>11
    <3>. QED
      BY <1>13, <3>1
  <2>3. \A i \in 0 .. n - 1 :
           Carries(SlotAt(t, i), deal[t][m - n + 1 + i][1], deal[t][m - n + 1 + i][2])
    BY <1>3 DEF RingOfRight
  <2>. HIDE DEF n, m
  <2>4. k + 1 \in 0 .. n - 1 /\ m - n + 1 + (k + 1) = m - (n - 1) + 1 + k
    BY <2>1
  <2>5. Carries(SlotAt(t, k + 1), deal[t][m - (n - 1) + 1 + k][1], deal[t][m - (n - 1) + 1 + k][2])
    BY <2>3, <2>4
  <2>. QED
    BY <2>1, <2>2, <2>5 DEF m
<1>15. t < sentinels' => slots'[t][Wrap(rings'[t].head + WithLines(t)')][0] = Zero
  <2>. SUFFICES ASSUME t < sentinels'
                PROVE  slots'[t][Wrap(rings'[t].head + WithLines(t)')][0] = Zero
    OBVIOUS
  <2>1. SlotAt(t, WithLines(t))[0] = Zero
    BY <1>1, <1>3 DEF RingOfRight
  <2>2. InRing(t) \in 0 .. Capacity /\ Capacity \in Nat
    BY Types
  <2>3. WithLines(t)' \in 0 .. Capacity - 1 /\ WithLines(t)' + 1 = WithLines(t)
    BY <1>4, <1>11, <2>2
  <2>4. Wrap(rings'[t].head + WithLines(t)') = Wrap(rings[t].head + WithLines(t))
    BY <1>6, <2>3
  <2>. QED
    BY <1>1, <2>1, <2>4 DEF SlotAt
<1>16. RingOfRight(deal, t)'
  <2>1. WithLines(t)' \in 0 .. Len(deal[t])
    BY <1>4, <1>11, <1>12
  <2>. QED
    BY <1>7, <1>14, <1>15, <2>1 DEF RingOfRight, SlotAt
<1>17. ScanOfRight(deal, t)'
  <2>1. Held(t) = 1 /\ Held(t)' = 0
    BY <1>1, <1>7 DEF Held
  <2>2. Seen(deal, t)' = Seen(deal, t)
    BY <1>4, <1>11, <1>12, <2>1 DEF Seen
  <2>. QED
    BY <1>1, <1>3, <2>2 DEF ScanOfRight
<1>18. RingRight(deal)'
  BY <1>10, <1>16 DEF RingRight, RingOfRight
<1>19. ScanRight(deal)'
  BY <1>10, <1>17 DEF ScanRight, ScanOfRight
<1>20. ProducerRight(first)'
  <2>1. \A u \in Thread : rings'[u].tail = rings[u].tail /\ (~rings[u].full => ~rings'[u].full)
    BY <1>6
  <2>2. rings'[bufIdx].tail = rings[bufIdx].tail /\ (~rings[bufIdx].full => ~rings'[bufIdx].full)
    BY <2>1 DEF Shape
  <2>3. Current' = Current
    BY <1>1, <2>2 DEF Current, FrontSlot, producer
  <2>4. InputRight => InputRight'
    BY <1>1 DEF InputRight, InChunk, producer, input
  <2>5. BufferRight(first) => BufferRight(first)'
    BY <1>1, <2>2, <2>3 DEF BufferRight, producer
  <2>6. PushRight(first)'
    BY <1>1, <1>2 DEF ProducerRight, PushRight, InChunk, producer, input
  <2>. QED
    BY <1>1, <1>2, <2>4, <2>5, <2>6 DEF ProducerRight, producer
<1>. QED
  BY <1>2, <1>9, <1>18, <1>19, <1>20 DEF Right, DealRight

\* The events of some lines, as a sequence.
LEMMA EventsType ==
  ASSUME NEW a \in 0 .. Len(LinePacks), NEW b \in a .. Len(LinePacks)
  PROVE  /\ Events(a, b) \in Seq({EventOf(l) : l \in Line})
         /\ Len(Events(a, b)) = b - a
         /\ \A i \in 1 .. b - a : Events(a, b)[i] = EventOf(a + i)
<1> DEFINE E == {EventOf(l) : l \in Line}
<1>0. /\ Len(LinePacks) \in Nat /\ Line = 1 .. Len(LinePacks)
      /\ a \in Nat /\ b \in Nat /\ b - a \in Nat
  BY HostAssumption DEF Line
<1>1. \A i \in 1 .. b - a : EventOf(a + i) \in E
  <2>1. \A i \in 1 .. b - a : a + i \in Line
    BY <1>0
  <2>. QED
    BY <2>1
<1>. HIDE DEF E
<1>2. [i \in 1 .. b - a |-> EventOf(a + i)] \in Seq(E)
  BY <1>0, <1>1, IsASeq
<1>3. Events(a, b) \in Seq(E)
  BY <1>2 DEF Events
<1>4. DOMAIN Events(a, b) = 1 .. b - a /\ \A i \in 1 .. b - a : Events(a, b)[i] = EventOf(a + i)
  BY DEF Events
<1>5. Len(Events(a, b)) = b - a
  <2>1. Len(Events(a, b)) \in Nat /\ 1 .. Len(Events(a, b)) = 1 .. b - a
    BY <1>3, <1>4, LenProperties
  <2>2. \A m, n \in Nat : 1 .. m = 1 .. n => m = n
    OBVIOUS
  <2>. QED
    BY <1>0, <2>1, <2>2
<1>. QED
  BY <1>3, <1>4, <1>5 DEF E

\* The indices of events, in their order, and all of lines up to line a.
Rises(events) ==
  \A i, j \in 1 .. Len(events) : i < j => events[i].index < events[j].index
Below(events, a) == \A i \in 1 .. Len(events) : events[i].index < a
LineEvents == Seq({EventOf(l) : l \in Line})

\* The events of the lines behind a up to b have been added to others.
Added(old, all, a, b) ==
  /\ all \in LineEvents
  /\ Len(all) = Len(old) + (b - a) /\ Len(old) \in Nat
  /\ \A i \in 1 .. Len(old) : all[i] = old[i]
  /\ \A i \in 1 .. b - a : all[Len(old) + i].index = a + i - 1

\* Events behind others, all of lines before them.
LEMMA EventsAdded ==
  ASSUME NEW a \in 0 .. Len(LinePacks), NEW b \in a .. Len(LinePacks),
         NEW old \in LineEvents, Below(old, a), Rises(old)
  PROVE  /\ Added(old, old \o Events(a, b), a, b)
         /\ Rises(old \o Events(a, b))
<1>. PICK all : all = old \o Events(a, b)
  OBVIOUS
<1> DEFINE E == {EventOf(l) : l \in Line}
           n == Len(old)
           new == Events(a, b)
<1>0. /\ Len(LinePacks) \in Nat /\ Line = 1 .. Len(LinePacks)
      /\ a \in Nat /\ b \in Nat /\ b - a \in Nat
  BY HostAssumption DEF Line
<1>1. new \in Seq(E) /\ Len(new) = b - a /\ \A i \in 1 .. b - a : new[i] = EventOf(a + i)
  BY EventsType
<1>2. \A i \in 1 .. n : old[i].index \in Nat
  <2>. SUFFICES ASSUME NEW i \in 1 .. n
                PROVE  old[i].index \in Nat
    OBVIOUS
  <2>1. old \in Seq(E) /\ \A e \in E : e.index \in Nat
    BY <1>0 DEF EventOf, LineEvents
  <2>. HIDE DEF E
  <2>2. old[i] \in E
    BY <2>1, ElementOfSeq
  <2>. QED
    BY <2>1, <2>2
<1>3. /\ old \in Seq(E)
      /\ \A i \in 1 .. n : old[i].index < a
      /\ \A i, j \in 1 .. n : i < j => old[i].index < old[j].index
  BY DEF LineEvents, Rises, Below
<1>. HIDE DEF E, new
<1>4. n \in Nat
  BY <1>3, LenProperties
<1>5. /\ all \in Seq(E) /\ Len(all) = n + (b - a)
      /\ \A i \in 1 .. n + (b - a) : all[i] = IF i <= n THEN old[i] ELSE new[i - n]
  <2>1. PICK w : w = new
    OBVIOUS
  <2>2. all = old \o w /\ w \in Seq(E) /\ Len(w) = b - a
    BY <1>1, <2>1 DEF new
  <2>3. old \in Seq(E)
    BY <1>3
  <2>4. /\ old \o w \in Seq(E) /\ Len(old \o w) = Len(old) + Len(w)
        /\ \A i \in 1 .. Len(old) + Len(w) :
             (old \o w)[i] = IF i <= Len(old) THEN old[i] ELSE w[i - Len(old)]
    BY <2>2, <2>3, ConcatProperties, Zenon
  <2>5. all \in Seq(E) /\ Len(all) = n + Len(w)
        /\ \A i \in 1 .. n + Len(w) : all[i] = IF i <= n THEN old[i] ELSE w[i - n]
    BY <2>2, <2>4, Zenon
  <2>6. n + Len(w) = n + (b - a)
    BY <2>2, Zenon
  <2>. QED
    BY <2>1, <2>5, <2>6, Zenon
<1>. HIDE DEF n
<1>6. \A i \in 1 .. n : all[i] = old[i]
  BY <1>0, <1>4, <1>5
<1>7. ASSUME NEW i \in 1 .. b - a
      PROVE  all[n + i].index = a + i - 1
  <2>1. n + i \in 1 .. n + (b - a) /\ ~(n + i <= n) /\ (n + i) - n = i
    BY <1>0, <1>4
  <2>2. all[n + i] = new[i]
    BY <1>5, <2>1
  <2>3. new[i] = EventOf(a + i)
    BY <1>1
  <2>4. EventOf(a + i).index = a + i - 1
    BY DEF EventOf
  <2>. QED
    BY <2>2, <2>3, <2>4
<1>8. ASSUME NEW i \in 1 .. Len(all), NEW j \in 1 .. Len(all), i < j
      PROVE  all[i].index < all[j].index
  <2>1. CASE j <= n
    <3>1. i \in 1 .. n /\ j \in 1 .. n
      BY <1>4, <1>5, <1>8, <2>1
    <3>. QED
      BY <1>3, <1>6, <1>8, <3>1
  <2>2. CASE j > n
    <3>1. j - n \in 1 .. b - a /\ n + (j - n) = j
      BY <1>0, <1>4, <1>5, <2>2
    <3>2. all[j].index = a + (j - n) - 1
      BY <1>7, <3>1
    <3>3. CASE i <= n
      <4>1. i \in 1 .. n
        BY <1>4, <1>5, <3>3
      <4>2. all[i].index \in Nat /\ all[i].index < a
        BY <1>2, <1>3, <1>6, <4>1
      <4>3. j - n \in Nat /\ j - n > 0
        BY <1>0, <3>1
      <4>. QED
        BY <1>0, <3>2, <4>2, <4>3, SMTT(30)
    <3>4. CASE i > n
      <4>1. i - n \in 1 .. b - a /\ n + (i - n) = i
        BY <1>0, <1>4, <1>5, <3>4
      <4>2. all[i].index = a + (i - n) - 1
        BY <1>7, <4>1
      <4>. QED
        BY <1>0, <1>4, <1>8, <3>1, <3>2, <4>1, <4>2
    <3>5. i \in Nat
      BY <1>0, <1>4, <1>5
    <3>. QED
      BY <1>4, <3>3, <3>4, <3>5
  <2>3. j \in Nat
    BY <1>4, <1>5
  <2>. QED
    BY <1>4, <2>1, <2>2, <2>3
<1>. QED
  BY <1>4, <1>5, <1>6, <1>7, <1>8 DEF E, n, Added, LineEvents, Rises

\* The worker scans the first buffer of its ring, the next one it was dealt.
LEMMA ScanStepRight ==
  ASSUME Shape, NEW deal, NEW first, Right(deal, first), NEW t \in Thread, Scan(t)
  PROVE  Shape' /\ Right(deal, first)'
<1> DEFINE E == {EventOf(l) : l \in Line}
<1>0. Len(LinePacks) \in Nat
  BY HostAssumption
<1>1. /\ wpc[t] = "peek" /\ ~rings[t].empty /\ slots[t][ScannedSlot(t)][0] # Zero
      /\ scanned' = [scanned EXCEPT ![t] = @ \o EventsOf(slots[t][ScannedSlot(t)])]
      /\ wpc' = [wpc EXCEPT ![t] = "pop"]
      /\ UNCHANGED <<pc, producer, input, payloadIndex, sentinels, rings, slots>>
  BY DEF Scan
<1>2. ProducerRight(first) /\ DealRight(deal, first) /\ RingRight(deal) /\ ScanRight(deal)
  BY DEF Right
<1>3. RingOfRight(deal, t) /\ ScanOfRight(deal, t)
  BY <1>2 DEF RingRight, RingOfRight, ScanRight, ScanOfRight
<1>4. slots[t][ScannedSlot(t)] = SlotAt(t, 0) /\ InRing(t) > 0
  BY <1>1, FirstSlot
<1>5. /\ WithLines(t) \in Nat /\ WithLines(t) <= Len(deal[t])
  BY <1>2, WithLinesType
<1>6. WithLines(t) > 0
  <2>1. CASE WithLines(t) = 0
    <3>1. t < sentinels
      BY <1>2, <1>4, <2>1, WithLinesType
    <3>2. SlotAt(t, 0)[0] = Zero
      BY <1>3, <2>1, <3>1 DEF RingOfRight
    <3>. QED
      BY <1>1, <1>4, <3>2
  <2>. QED
    BY <1>5, <2>1
<1>7. Len(deal[t]) \in Nat /\ deal[t] \in Seq((0 .. Len(LinePacks)) \X (0 .. Len(LinePacks)))
  BY <1>2, LenProperties DEF DealRight
<1>8. Seen(deal, t) = Len(deal[t]) - WithLines(t)
  BY <1>1, <1>5, <1>7 DEF Seen, Held
<1>9. PICK n : n = Seen(deal, t)
  OBVIOUS
<1>10. n \in Nat /\ n + 1 \in 1 .. Len(deal[t]) /\ Len(deal[t]) - WithLines(t) + 1 + 0 = n + 1
  <2> DEFINE w == WithLines(t)
             m == Len(deal[t])
  <2>1. w \in Nat /\ m \in Nat /\ w <= m /\ w > 0 /\ n = m - w
    BY <1>5, <1>6, <1>7, <1>8, <1>9
  <2>. HIDE DEF w, m
  <2>2. n \in Nat /\ n + 1 \in 1 .. m /\ m - w + 1 + 0 = n + 1
    BY <2>1
  <2>. QED
    BY <2>2 DEF w, m
<1>11. wpc'[t] = "pop" /\ \A u \in Thread : u # t => wpc'[u] = wpc[u] /\ scanned'[u] = scanned[u]
  BY <1>1 DEF Shape
<1>12. wpc' \in [Thread -> {"peek", "pop", "exited"}]
  BY <1>1 DEF Shape
<1>13. \A u \in Thread : InRing(u)' = InRing(u) /\ WithLines(u)' = WithLines(u)
  BY <1>1 DEF InRing, WithLines
<1>14. Seen(deal, t)' = n + 1
  <2>1. Held(t)' = 1 /\ WithLines(t)' = WithLines(t)
    BY <1>11, <1>13 DEF Held
  <2>. QED
    BY <1>5, <1>7, <1>8, <1>9, <2>1 DEF Seen
<1>15. PICK a \in 0 .. Len(LinePacks), b \in 0 .. Len(LinePacks) : deal[t][n + 1] = <<a, b>>
  <2>1. deal[t][n + 1] \in (0 .. Len(LinePacks)) \X (0 .. Len(LinePacks))
    BY <1>7, <1>10, ElementOfSeq
  <2>. QED
    BY <2>1
<1>16. a < b /\ b \in a .. Len(LinePacks) /\ a \in Nat /\ b \in Nat
  BY <1>0, <1>2, <1>10, <1>15 DEF DealRight
<1>17. EventsOf(slots[t][ScannedSlot(t)]) = Events(a, b)
  <2>1. 0 \in 0 .. WithLines(t) - 1
    BY <1>5, <1>6
  <2>2. Carries(SlotAt(t, 0), a, b)
    <3>1. \A k \in 0 .. WithLines(t) - 1 :
             LET d == deal[t][Len(deal[t]) - WithLines(t) + 1 + k]
             IN  Carries(SlotAt(t, k), d[1], d[2])
      BY <1>3 DEF RingOfRight
    <3>2. LET d == deal[t][Len(deal[t]) - WithLines(t) + 1 + 0]
          IN  Carries(SlotAt(t, 0), d[1], d[2])
      BY <2>1, <3>1
    <3>. QED
      BY <1>10, <1>15, <3>2
  <2>. QED
    BY <1>4, <2>2 DEF Carries
<1>18. PICK old : old = scanned[t]
  OBVIOUS
<1>19. PICK all : all = old \o Events(a, b)
  OBVIOUS
<1>20. old \in LineEvents /\ old \in Seq(E) /\ scanned \in [Thread -> Seq(E)]
  BY <1>18 DEF Shape, LineEvents
<1>21. scanned' = [scanned EXCEPT ![t] = all]
  BY <1>1, <1>17, <1>18, <1>19
<1>22. scanned'[t] = all
  BY <1>20, <1>21
<1>23. /\ \A i, j \in 1 .. Len(old) : i < j => old[i].index < old[j].index
       /\ \A i \in 1 .. Len(old) : \E j \in 1 .. n :
            deal[t][j][1] <= old[i].index /\ old[i].index < deal[t][j][2]
       /\ \A j \in 1 .. n : \A l \in deal[t][j][1] + 1 .. deal[t][j][2] :
            \E i \in 1 .. Len(old) : old[i].index = l - 1
  BY <1>3, <1>9, <1>18 DEF ScanOfRight
<1>24. ASSUME NEW i \in 1 .. Len(old)
       PROVE  old[i].index < a
  <2>1. PICK j \in 1 .. n : deal[t][j][1] <= old[i].index /\ old[i].index < deal[t][j][2]
    BY <1>23
  <2>2. j \in 1 .. Len(deal[t]) /\ j < n + 1
    BY <1>7, <1>10
  <2>3. deal[t][j][2] <= a /\ deal[t][j][2] \in Nat
    <3>1. deal[t][j][2] <= deal[t][n + 1][1]
      BY <1>2, <1>10, <2>2 DEF DealRight
    <3>2. deal[t][j] \in (0 .. Len(LinePacks)) \X (0 .. Len(LinePacks))
      BY <1>7, <2>2, ElementOfSeq
    <3>. QED
      BY <1>0, <1>15, <3>1, <3>2
  <2>4. old[i].index \in Nat
    <3>1. \A e \in E : e.index \in Nat
      BY <1>0 DEF EventOf, Line
    <3>. HIDE DEF E
    <3>2. old[i] \in E
      BY <1>20, ElementOfSeq
    <3>. QED
      BY <3>1, <3>2
  <2>. QED
    BY <1>16, <2>1, <2>3, <2>4
<1>25. /\ all \in Seq(E)
       /\ Len(all) = Len(old) + (b - a) /\ Len(old) \in Nat
       /\ \A i \in 1 .. Len(old) : all[i] = old[i]
       /\ \A i \in 1 .. b - a : all[Len(old) + i].index = a + i - 1
       /\ \A i, j \in 1 .. Len(all) : i < j => all[i].index < all[j].index
  <2>1. Below(old, a) /\ Rises(old)
    BY <1>23, <1>24 DEF Below, Rises
  <2>2. Added(old, all, a, b) /\ Rises(all)
    BY <1>16, <1>19, <1>20, <2>1, EventsAdded
  <2>. QED
    BY <2>2 DEF Added, LineEvents, Rises
<1>. HIDE DEF E
<1>26. ASSUME NEW i \in 1 .. Len(all)
       PROVE  \E j \in 1 .. n + 1 :
                deal[t][j][1] <= all[i].index /\ all[i].index < deal[t][j][2]
  <2>1. CASE i \in 1 .. Len(old)
    <3>1. PICK j \in 1 .. n : deal[t][j][1] <= old[i].index /\ old[i].index < deal[t][j][2]
      BY <1>23, <2>1
    <3>2. j \in 1 .. n + 1 /\ all[i] = old[i]
      BY <1>10, <1>25, <2>1
    <3>. QED
      BY <3>1, <3>2
  <2>2. CASE i \notin 1 .. Len(old)
    <3>1. i - Len(old) \in 1 .. b - a /\ Len(old) + (i - Len(old)) = i
      <4> DEFINE k == Len(old)
      <4>1. k \in Nat /\ i \in 1 .. k + (b - a) /\ i \notin 1 .. k
        BY <1>25, <2>2
      <4>. HIDE DEF k
      <4>2. i - k \in 1 .. b - a /\ k + (i - k) = i
        BY <1>16, <4>1
      <4>. QED
        BY <4>2 DEF k
    <3>2. all[i].index = a + (i - Len(old)) - 1
      BY <1>25, <3>1
    <3>3. n + 1 \in 1 .. n + 1
      BY <1>10
    <3>4. a <= all[i].index /\ all[i].index < b
      BY <1>16, <3>1, <3>2
    <3>. QED
      BY <1>15, <3>3, <3>4
  <2>. QED
    BY <2>1, <2>2
<1>27. ASSUME NEW j \in 1 .. n + 1, NEW l \in deal[t][j][1] + 1 .. deal[t][j][2]
       PROVE  \E i \in 1 .. Len(all) : all[i].index = l - 1
  <2>1. CASE j \in 1 .. n
    <3>1. PICK i \in 1 .. Len(old) : old[i].index = l - 1
      BY <1>23, <2>1
    <3>2. i \in 1 .. Len(all) /\ all[i] = old[i]
      BY <1>16, <1>25
    <3>. QED
      BY <3>1, <3>2
  <2>2. CASE j = n + 1
    <3>1. l \in a + 1 .. b
      BY <1>15, <2>2
    <3>2. l - a \in 1 .. b - a /\ a + (l - a) - 1 = l - 1
      BY <1>16, <3>1
    <3>3. Len(old) + (l - a) \in 1 .. Len(all)
      BY <1>16, <1>25, <3>2
    <3>. QED
      BY <1>25, <3>2, <3>3
  <2>. QED
    BY <1>10, <2>1, <2>2
<1>28. Shape'
  <2>1. scanned' \in [Thread -> Seq(E)]
    BY <1>20, <1>21, <1>25
  <2>. QED
    BY <1>1, <1>12, <1>13, <2>1 DEF Shape, producer, E
<1>29. ASSUME NEW u \in Thread, u # t
       PROVE  RingOfRight(deal, u)' /\ ScanOfRight(deal, u)'
  <2>1. \A k \in 0 .. InRing(u) - 1 : slots'[u][Wrap(rings[u].head + k)] = SlotAt(u, k)
    BY <1>1 DEF SlotAt
  <2>. QED
    BY <1>1, <1>2, <1>11, <1>13, <1>29, <2>1, OneKept
<1>30. RingOfRight(deal, t)'
  BY <1>1, <1>3, <1>6, <1>11, <1>13 DEF RingOfRight, SlotAt
<1>31. ScanOfRight(deal, t)'
  BY <1>14, <1>22, <1>25, <1>26, <1>27 DEF ScanOfRight
<1>32. RingRight(deal)'
  BY <1>29, <1>30 DEF RingRight, RingOfRight
<1>33. ScanRight(deal)'
  BY <1>29, <1>31 DEF ScanRight, ScanOfRight
<1>34. ProducerRight(first)'
  BY <1>1, <1>2, ProducerKept
<1>. QED
  BY <1>2, <1>28, <1>32, <1>33, <1>34 DEF Right, DealRight

-----------------------------------------------------------------------------
(***************************************************************************)
(* The invariant.                                                          *)
(***************************************************************************)
LEMMA InitRight ==
  ASSUME Init
  PROVE  IInv
<1> DEFINE deal == [t \in Thread |-> << >>]
<1>0. /\ Len(LinePacks) \in Nat /\ PackWidth \in Nat \ {0} /\ BufferSize \in Nat \ {0}
      /\ NumThreads \in Nat \ {0} /\ N \in Nat /\ N > 2 /\ Capacity = N - 1
      /\ 0 \in 0 .. Len(LinePacks) /\ 0 \in Thread
  BY HostAssumption, NAssumption DEF Capacity, Thread
<1>1. /\ pc = "chunk" /\ bufIdx = 0 /\ lineLength = 0 /\ startIndex = 0 /\ currentIndex = 1
      /\ eventIndex = 0 /\ base = 0 /\ chunk = 0 /\ done = FALSE /\ payloadIndex = PackWidth
      /\ sentinels = 0
      /\ rings = [t \in Thread |-> NewRing]
      /\ slots = [t \in Thread |-> [i \in Index |-> [j \in 0 .. BufferSize - 1 |-> Zero]]]
      /\ wpc = [t \in Thread |-> "peek"]
      /\ scanned = [t \in Thread |-> << >>]
  BY DEF Init
<1>2. \A t \in Thread : rings[t] = NewRing
  BY <1>1
<1>3. NewRing \in Ring /\ InRingOf(NewRing) = 0 /\ Tells(NewRing, 0) /\ ~NewRing.full
  <2>1. NewRing \in Ring
    BY <1>0 DEF NewRing, Ring, Index
  <2>2. /\ NewRing.head = 0 /\ NewRing.tail = 0 /\ NewRing.full = FALSE /\ NewRing.empty = TRUE
    BY DEF NewRing
  <2>3. 0 # Capacity /\ Wrap(0 + 0) = 0
    BY <1>0 DEF Wrap
  <2>. QED
    BY <2>1, <2>2, <2>3 DEF InRingOf, Tells
<1>4. \A t \in Thread : InRing(t) = 0 /\ WithLines(t) = 0 /\ Held(t) = 0
  <2>1. \A t \in Thread : ~(t < sentinels)
    BY <1>1, <1>0 DEF Thread
  <2>. QED
    BY <1>1, <1>2, <1>3, <2>1 DEF InRing, WithLines, Held
<1>5. Shape
  <2>1. Zero \in Cell
    BY <1>0 DEF Zero, Cell
  <2>2. slots \in [Thread -> [Index -> Buffer]]
    <3>. HIDE DEF Cell
    <3>. QED
      BY <1>1, <2>1 DEF Buffer
  <2>3. rings \in [Thread -> Ring] /\ 0 \in 0 .. Capacity
    BY <1>0, <1>1, <1>3
  <2>4. \A t \in Thread : InRing(t) \in 0 .. Capacity /\ Tells(rings[t], InRing(t))
    BY <1>2, <1>3, <1>4, <2>3
  <2>5. wpc \in [Thread -> {"peek", "pop", "exited"}]
    BY <1>1
  <2>6. scanned \in [Thread -> Seq({EventOf(l) : l \in Line})]
    <3>1. << >> \in Seq({EventOf(l) : l \in Line})
      OBVIOUS
    <3>. QED
      BY <1>1, <3>1
  <2>7. /\ pc \in {"chunk", "loop", "peek", "copy", "sentinel", "done"}
        /\ bufIdx \in Thread /\ sentinels \in 0 .. NumThreads
    BY <1>0, <1>1
  <2>. QED
    BY <2>2, <2>3, <2>4, <2>5, <2>6, <2>7 DEF Shape
<1>6. \A t \in Thread : deal[t] = << >> /\ Len(deal[t]) = 0
  OBVIOUS
<1>7. DealRight(deal, 0)
  <2>1. deal \in [Thread -> Seq((0 .. Len(LinePacks)) \X (0 .. Len(LinePacks)))]
    OBVIOUS
  <2>. HIDE DEF deal
  <2>2. 1 .. 0 = {}
    OBVIOUS
  <2>. QED
    BY <1>6, <2>1, <2>2 DEF DealRight
<1>. HIDE DEF deal
<1>8. RingRight(deal)
  <2>1. \A t \in Thread : wpc[t] = "peek" /\ ~(t < sentinels)
    BY <1>0, <1>1 DEF Thread
  <2>2. 0 .. 0 - 1 = {} /\ 0 \in 0 .. 0
    OBVIOUS
  <2>. QED
    BY <1>4, <1>6, <2>1, <2>2 DEF RingRight
<1>9. ScanRight(deal)
  <2>1. \A t \in Thread : Seen(deal, t) = 0 /\ Len(scanned[t]) = 0
    BY <1>1, <1>4, <1>6 DEF Seen
  <2>2. 1 .. 0 = {}
    OBVIOUS
  <2>. QED
    BY <2>1, <2>2 DEF ScanRight
<1>10. InputRight
  <2>1. Behind[0] = 0
    BY BehindIs
  <2>2. /\ base + payloadIndex - PackWidth = Behind[eventIndex] + lineLength
        /\ base + chunk <= Behind[Len(LinePacks)]
    <3>1. Behind[Len(LinePacks)] \in Nat
      BY <1>0, BehindIs
    <3>. QED
      BY <1>0, <1>1, <2>1, <3>1
  <2>3. /\ base \in Nat /\ chunk \in Nat /\ done \in BOOLEAN /\ payloadIndex \in Int
        /\ eventIndex \in 0 .. Len(LinePacks) /\ lineLength \in Nat /\ ~(lineLength > 0)
        /\ payloadIndex \in PackWidth .. PackWidth + chunk
        /\ payloadIndex = PackWidth + chunk /\ ~done /\ pc = "chunk"
    <3>1. /\ PackWidth \in Nat /\ PackWidth \in Int /\ 0 \in Nat /\ PackWidth = PackWidth + 0
          /\ PackWidth \in PackWidth .. PackWidth + 0 /\ ~(0 > 0)
      BY <1>0
    <3>2. /\ pc = "chunk" /\ base = 0 /\ chunk = 0 /\ ~done /\ done \in BOOLEAN
          /\ eventIndex = 0 /\ lineLength = 0 /\ payloadIndex = PackWidth
      BY <1>1
    <3>. QED
      BY <1>0, <3>1, <3>2
  <2>. QED
    BY <1>0, <2>2, <2>3 DEF InputRight
<1>11. BufferRight(0)
  <2>1. PlaceOf(0, 0 + 1) = 0
    BY <1>0, PlaceIs
  <2>2. HoldsLines(Current, 0, 0)
    BY DEF HoldsLines
  <2>3. ~rings[bufIdx].full
    BY <1>0, <1>1, <1>2, <1>3
  <2>. QED
    BY <1>0, <1>1, <2>1, <2>2, <2>3 DEF BufferRight
<1>12. PushRight(0)
  BY <1>1 DEF PushRight
<1>13. ProducerRight(0)
  BY <1>0, <1>1, <1>10, <1>11, <1>12 DEF ProducerRight
<1>. QED
  BY <1>5, <1>7, <1>8, <1>9, <1>13 DEF IInv, Right

LEMMA NextRight ==
  ASSUME SInv, [Next]_vars
  PROVE  SInv'
<1>. SUFFICES ASSUME ~spoilt'
              PROVE  IInv'
  BY DEF SInv
<1>0. IInv
  <2>1. ~spoilt
    BY DEF Next, Produce, ReadChunk, NextBuffer, PeekFront, CopyWord, EndOfChunk, SendSentinel,
           Work, Scan, Exit, Pop, ProducerGone, vars
  <2>. QED
    BY <2>1 DEF SInv
<1>1. Shape
  BY <1>0 DEF IInv
<1>2. PICK deal, first : Right(deal, first)
  BY <1>0 DEF IInv
<1>3. ProducerRight(first) /\ DealRight(deal, first) /\ RingRight(deal) /\ ScanRight(deal)
  BY <1>2 DEF Right
<1>4. ASSUME UNCHANGED <<bufIdx, sentinels, rings, slots, wpc, scanned>>,
             pc' \in {"chunk", "loop", "peek", "copy", "sentinel", "done"},
             ProducerRight(first)'
      PROVE  IInv'
  <2>1. Shape'
    BY <1>1, <1>4 DEF Shape, InRing
  <2>2. DealRight(deal, first)' /\ RingRight(deal)' /\ ScanRight(deal)'
    BY <1>1, <1>3, <1>4, RestKept
  <2>. QED
    BY <1>4, <2>1, <2>2 DEF IInv, Right
<1>5. ASSUME NEW n \in ChunkSizes, NEW last \in BOOLEAN, ReadChunk(n, last)
      PROVE  IInv'
  <2>1. ProducerRight(first)'
    BY <1>1, <1>3, <1>5, ReadChunkRight
  <2>2. /\ UNCHANGED <<bufIdx, sentinels, rings, slots, wpc, scanned>>
        /\ pc' \in {"chunk", "loop", "peek", "copy", "sentinel", "done"}
    BY <1>5 DEF ReadChunk, producer
  <2>. QED
    BY <1>4, <2>1, <2>2
<1>6. CASE NextBuffer
  BY <1>1, <1>2, <1>6, NextBufferRight DEF IInv
<1>7. CASE PeekFront
  <2>1. ProducerRight(first)'
    BY <1>1, <1>3, <1>7, PeekFrontRight
  <2>2. /\ UNCHANGED <<bufIdx, sentinels, rings, slots, wpc, scanned>>
        /\ pc' \in {"chunk", "loop", "peek", "copy", "sentinel", "done"}
    BY <1>7 DEF PeekFront, producer
  <2>. QED
    BY <1>4, <2>1, <2>2
<1>8. CASE CopyWord
  BY <1>1, <1>2, <1>8, CopyWordRight DEF IInv
<1>9. CASE EndOfChunk
  <2>1. ProducerRight(first)'
    BY <1>1, <1>3, <1>9, EndOfChunkRight
  <2>2. /\ UNCHANGED <<bufIdx, sentinels, rings, slots, wpc, scanned>>
        /\ pc' \in {"chunk", "loop", "peek", "copy", "sentinel", "done"}
    BY <1>9 DEF EndOfChunk, producer
  <2>. QED
    BY <1>4, <2>1, <2>2
<1>10. CASE SendSentinel
  BY <1>1, <1>2, <1>10, SendSentinelRight DEF IInv
<1>11. ASSUME NEW t \in Thread, Work(t)
       PROVE  IInv'
  <2>1. CASE Scan(t)
    BY <1>1, <1>2, <2>1, ScanStepRight DEF IInv
  <2>2. CASE Exit(t)
    BY <1>1, <1>2, <2>2, ExitRight DEF IInv
  <2>3. CASE Pop(t)
    BY <1>1, <1>2, <2>3, PopRight DEF IInv
  <2>. QED
    BY <1>11, <2>1, <2>2, <2>3 DEF Work
<1>12. CASE UNCHANGED vars
  <2>1. /\ UNCHANGED <<bufIdx, sentinels, rings, slots, wpc, scanned>>
        /\ UNCHANGED <<pc, producer, input, payloadIndex>>
    BY <1>12 DEF vars, producer
  <2>2. ProducerRight(first)'
    BY <1>3, <2>1, ProducerKept
  <2>3. pc' \in {"chunk", "loop", "peek", "copy", "sentinel", "done"}
    BY <1>1, <2>1 DEF Shape
  <2>. QED
    BY <1>4, <2>1, <2>2, <2>3
<1>. QED
  BY <1>5, <1>6, <1>7, <1>8, <1>9, <1>10, <1>11, <1>12 DEF Next, Produce, ProducerGone

LEMMA Invariant == Spec => []SInv
<1>1. Init => SInv
  BY InitRight DEF SInv
<1>2. SInv /\ [Next]_vars => SInv'
  BY NextRight
<1>. QED
  BY <1>1, <1>2, PTL DEF Spec

-----------------------------------------------------------------------------
(***************************************************************************)
(* The producer's indices.                                                 *)
(***************************************************************************)
Indices ==
  /\ eventIndex \in Nat /\ lineLength \in Nat /\ startIndex \in Nat
  /\ currentIndex = startIndex + 1 + lineLength
  /\ startIndex <= BufferSize /\ currentIndex <= BufferSize + 1
  /\ pc \in {"peek", "copy"} => currentIndex = 1
  /\ base \in 0 .. Len(Stream) /\ chunk \in 0 .. Len(Stream) - base
  /\ done \in BOOLEAN /\ payloadIndex \in Int

\* A word that is copied has room, as the buffer is not full or is new.
LEMMA CopyWordIndices ==
  ASSUME Indices, CopyWord
  PROVE  Indices'
<1>0. BufferSize \in Nat /\ BufferSize > 1
  BY HostAssumption
<1>1. /\ pc \in {"loop", "copy"}
      /\ pc = "loop" => InChunk(payloadIndex) /\ ~BufferFull
      /\ payloadIndex' = payloadIndex + 1
      /\ pc' \in {"loop", "sentinel"}
      /\ base' = base /\ chunk' = chunk /\ done' = done
  BY CopyWordIs
<1>2. PICK word :
        /\ lineLength' = IF IsEndOfLine(word) THEN 0 ELSE lineLength + 1
        /\ startIndex' = NextStart(word)
        /\ currentIndex' = currentIndex + (IF IsEndOfLine(word) THEN 2 ELSE 1)
        /\ eventIndex' = eventIndex + (IF IsEndOfLine(word) THEN 1 ELSE 0)
  BY CopyWordIs
<1>3. currentIndex + 1 <= BufferSize
  BY <1>0, <1>1 DEF BufferFull, Indices
<1>4. CASE IsEndOfLine(word)
  <2>1. /\ lineLength' = 0 /\ startIndex' = currentIndex + 1
        /\ currentIndex' = currentIndex + 2 /\ eventIndex' = eventIndex + 1
    BY <1>2, <1>4 DEF NextStart
  <2>. QED
    BY <1>0, <1>1, <1>3, <2>1 DEF Indices
<1>5. CASE ~IsEndOfLine(word)
  <2>1. /\ lineLength' = lineLength + 1 /\ startIndex' = startIndex
        /\ currentIndex' = currentIndex + 1 /\ eventIndex' = eventIndex + 0
    BY <1>2, <1>5 DEF NextStart
  <2>. QED
    BY <1>0, <1>1, <1>3, <2>1 DEF Indices
<1>. QED
  BY <1>4, <1>5

LEMMA ReadChunkIndices ==
  ASSUME Indices, NEW n \in ChunkSizes, NEW last \in BOOLEAN, ReadChunk(n, last)
  PROVE  Indices'
<1>1. /\ base' = base + chunk /\ chunk' = n /\ done' = last /\ payloadIndex' = PackWidth
      /\ UNCHANGED producer /\ pc' = "loop"
  BY DEF ReadChunk
<1>2. n \in Nat /\ n <= Len(Stream) - (base + chunk)
  <2>1. PICK k \in 0 .. MaxChunk : n = PackWidth * k
    BY DEF ChunkSizes
  <2>2. PackWidth \in Nat /\ k \in Nat
    BY <2>1, HostAssumption
  <2>3. \A i, j \in Nat : i * j \in Nat
    OBVIOUS
  <2>. QED
    BY <2>1, <2>2, <2>3 DEF ChunkSizes
<1>3. Len(Stream) \in Nat
  BY StreamIs, BehindIs, HostAssumption
<1>4. base' \in 0 .. Len(Stream) /\ chunk' \in 0 .. Len(Stream) - base'
  BY <1>1, <1>2, <1>3 DEF Indices
<1>5. payloadIndex' \in Int
  BY <1>1, HostAssumption
<1>. QED
  BY <1>1, <1>4, <1>5 DEF Indices, producer

LEMMA IndicesKept == Spec => []Indices
<1>1. Init => Indices
  <2>. SUFFICES ASSUME Init
                PROVE  Indices
    OBVIOUS
  <2>1. Len(Stream) \in Nat /\ BufferSize \in Nat /\ PackWidth \in Nat
    BY StreamIs, BehindIs, HostAssumption
  <2>2. /\ eventIndex = 0 /\ lineLength = 0 /\ startIndex = 0 /\ currentIndex = 1
        /\ base = 0 /\ chunk = 0 /\ done = FALSE /\ payloadIndex = PackWidth
    BY DEF Init
  <2>3. 0 \in 0 .. Len(Stream) /\ 0 \in 0 .. Len(Stream) - 0 /\ 0 <= BufferSize
    BY <2>1
  <2>4. 1 <= BufferSize + 1 /\ PackWidth \in Int
    BY <2>1
  <2>5. /\ eventIndex \in Nat /\ lineLength \in Nat /\ startIndex \in Nat
        /\ currentIndex = startIndex + 1 + lineLength
    BY <2>2
  <2>6. startIndex <= BufferSize /\ currentIndex <= BufferSize + 1
    BY <2>2, <2>3, <2>4
  <2>7. done \in BOOLEAN
    BY <2>2
  <2>8. base \in 0 .. Len(Stream) /\ chunk \in 0 .. Len(Stream) - base /\ payloadIndex \in Int
    BY <2>2, <2>3, <2>4
  <2>. QED
    BY <2>2, <2>5, <2>6, <2>7, <2>8 DEF Indices
<1>2. Indices /\ [Next]_vars => Indices'
  <2>. SUFFICES ASSUME Indices, [Next]_vars
                PROVE  Indices'
    OBVIOUS
  <2>1. ASSUME UNCHANGED <<producer, input, payloadIndex>>,
               pc' \in {"peek", "copy"} => pc \in {"peek", "copy"}
        PROVE  Indices'
    BY <2>1 DEF Indices, producer, input
  <2>2. ASSUME NEW n \in ChunkSizes, NEW last \in BOOLEAN, ReadChunk(n, last)
        PROVE  Indices'
    BY <2>2, ReadChunkIndices
  <2>3. CASE NextBuffer
    <3>1. /\ lineLength' = 0 /\ startIndex' = 0 /\ currentIndex' = 1
          /\ payloadIndex' = payloadIndex - lineLength
          /\ UNCHANGED <<eventIndex, base, chunk, done>>
      BY <2>3 DEF NextBuffer, input
    <3>2. BufferSize \in Nat
      BY HostAssumption
    <3>. QED
      BY <3>1, <3>2 DEF Indices
  <2>4. CASE CopyWord
    BY <2>4, CopyWordIndices
  <2>5. CASE PeekFront \/ EndOfChunk \/ SendSentinel \/ UNCHANGED vars
    BY <2>1, <2>5 DEF PeekFront, EndOfChunk, SendSentinel, vars
  <2>6. ASSUME NEW t \in Thread, Work(t)
        PROVE  Indices'
    BY <2>1, <2>6 DEF Work, Scan, Exit, Pop
  <2>. QED
    BY <2>2, <2>3, <2>4, <2>5, <2>6 DEF Next, Produce, ProducerGone
<1>. QED
  BY <1>1, <1>2, PTL DEF Spec

\* The form of the rings and of their slots.
SlotForm(s) ==
  /\ DOMAIN s = Thread
  /\ \A t \in Thread : /\ DOMAIN s[t] = Index
                        /\ \A i \in Index : DOMAIN s[t][i] = 0 .. BufferSize - 1

Form ==
  /\ pc \in {"chunk", "loop", "peek", "copy", "sentinel", "done"}
  /\ bufIdx \in Thread /\ sentinels \in 0 .. NumThreads /\ spoilt \in BOOLEAN
  /\ rings \in [Thread -> Ring] /\ SlotForm(slots)
  /\ wpc \in [Thread -> {"peek", "pop", "exited"}]

LEMMA RingForm ==
  /\ NewRing \in Ring
  /\ \A r \in Ring : PushFront(r) \in Ring /\ PopBack(r) \in Ring /\ r.tail \in Index
<1>1. 0 \in Index /\ \A i \in Index : Next1(i) \in Index
  BY NextIsWrap, HostAssumption, NAssumption DEF Index
<1>. QED
  BY <1>1 DEF NewRing, Ring, PushFront, PopBack

LEMMA SlotWritten ==
  ASSUME NEW s, SlotForm(s), NEW t \in Thread, NEW i \in Index,
         NEW buf, DOMAIN buf = 0 .. BufferSize - 1
  PROVE  SlotForm([s EXCEPT ![t][i] = buf])
BY DEF SlotForm

\* The producer stays within a buffer, also when a line ends with the buffer's
\* last words (start_index is then BUFFER_SIZE, and current_index one more), and
\* the chunk within the stream; the rings' flags and the slots keep their form.
THEOREM TypeCorrect == Spec => []TypeOK
<1>1. Init => Form
  <2>. SUFFICES ASSUME Init
                PROVE  Form
    OBVIOUS
  <2>1. 0 \in Thread /\ 0 \in 0 .. NumThreads
    BY HostAssumption DEF Thread
  <2>. QED
    BY <2>1, RingForm DEF Init, Form, SlotForm
<1>2. Form /\ [Next]_vars => Form'
  <2>. SUFFICES ASSUME Form, [Next]_vars
                PROVE  Form'
    OBVIOUS
  <2>1. CASE \/ \E n \in ChunkSizes, last \in BOOLEAN : ReadChunk(n, last)
             \/ PeekFront \/ EndOfChunk \/ UNCHANGED vars
    BY <2>1 DEF Form, ReadChunk, PeekFront, EndOfChunk, vars, producer
  <2>2. rings[bufIdx] \in Ring /\ rings[bufIdx].tail \in Index /\ bufIdx \in Thread
        /\ DOMAIN slots[bufIdx][FrontSlot] = 0 .. BufferSize - 1
    BY RingForm DEF Form, SlotForm, FrontSlot
  <2>3. CASE NextBuffer
    <3>1. DOMAIN Terminated(slots[bufIdx][FrontSlot]) = 0 .. BufferSize - 1
      BY <2>2 DEF Terminated
    <3>2. SlotForm(slots')
      BY <2>2, <2>3, <3>1, SlotWritten DEF NextBuffer, FrontSlot, Form
    <3>3. rings' \in [Thread -> Ring]
      BY <2>2, <2>3, RingForm DEF NextBuffer, Form
    <3>4. bufIdx' \in Thread
      BY <2>2, <2>3, NextThread DEF NextBuffer
    <3>. QED
      BY <2>3, <3>2, <3>3, <3>4 DEF NextBuffer, Form
  <2>4. CASE CopyWord
    <3>1. PICK word : slots' = [slots EXCEPT ![bufIdx][FrontSlot] = Written(word)]
      BY <2>4, CopyWordIs
    <3>2. DOMAIN Written(word) = 0 .. BufferSize - 1
      BY <2>2 DEF Written, FullCopy, Copy, Current
    <3>3. SlotForm(slots')
      BY <2>2, <3>1, <3>2, SlotWritten DEF FrontSlot, Form
    <3>4. rings' \in [Thread -> Ring]
      BY <2>2, <2>4, RingForm, CopyWordIs DEF Form
    <3>. QED
      BY <2>4, <3>3, <3>4, CopyWordIs DEF Form
  <2>5. CASE SendSentinel
    <3>1. sentinels \in Thread /\ sentinels + 1 \in 0 .. NumThreads
      BY <2>5, HostAssumption DEF SendSentinel, Form, Thread
    <3>2. rings[sentinels] \in Ring /\ rings[sentinels].tail \in Index
      BY <3>1, RingForm DEF Form
    <3> DEFINE buf == [slots[sentinels][rings[sentinels].tail] EXCEPT ![0] = Zero]
    <3>3. DOMAIN buf = 0 .. BufferSize - 1
      BY <3>1, <3>2 DEF Form, SlotForm
    <3>4. slots' = [slots EXCEPT ![sentinels][rings[sentinels].tail] = buf]
      BY <2>5 DEF SendSentinel
    <3>5. SlotForm(slots')
      <4>. HIDE DEF buf
      <4>. QED
        BY <3>1, <3>2, <3>3, <3>4, SlotWritten DEF Form
    <3>6. rings' \in [Thread -> Ring]
      BY <2>5, <3>1, <3>2, RingForm DEF SendSentinel, Form
    <3>. QED
      BY <2>5, <3>1, <3>5, <3>6 DEF SendSentinel, Form, producer
  <2>6. ASSUME NEW t \in Thread, Work(t)
        PROVE  Form'
    <3>1. wpc' \in [Thread -> {"peek", "pop", "exited"}]
      BY <2>6 DEF Work, Scan, Exit, Pop, Form
    <3>2. rings' \in [Thread -> Ring]
      BY <2>6, RingForm DEF Work, Scan, Exit, Pop, Form
    <3>. QED
      BY <2>6, <3>1, <3>2 DEF Work, Scan, Exit, Pop, Form, producer
  <2>. QED
    BY <2>1, <2>3, <2>4, <2>5, <2>6 DEF Next, Produce, ProducerGone
<1>3. Form /\ Indices => TypeOK
  <2>. SUFFICES ASSUME Form, Indices
                PROVE  TypeOK
    OBVIOUS
  <2>1. BufferSize \in Nat
    BY HostAssumption
  <2>2. /\ lineLength \in 0 .. BufferSize /\ startIndex \in 0 .. BufferSize
        /\ currentIndex \in 1 .. BufferSize + 1
    BY <2>1 DEF Indices
  <2>. QED
    BY <2>2 DEF TypeOK, Form, SlotForm, Indices
<1>. QED
  BY <1>1, <1>2, <1>3, IndicesKept, PTL DEF Spec

-----------------------------------------------------------------------------
(***************************************************************************)
(* What the invariant says of the lines.                                   *)
(***************************************************************************)
\* The parts of an element of a square.
LEMMA PairIs ==
  ASSUME NEW S, NEW p \in S \X S
  PROVE  \E a, b \in S : p = <<a, b>>
OBVIOUS

-----------------------------------------------------------------------------
(***************************************************************************)
(* The theorems, for any lines and any chunks.                             *)
(***************************************************************************)
\* Facts about what has been scanned.
LEMMA ScannedType ==
  ASSUME Shape, NEW t \in Thread
  PROVE  /\ Len(scanned[t]) \in Nat /\ DOMAIN scanned[t] = 1 .. Len(scanned[t])
         /\ \A i \in 1 .. Len(scanned[t]) :
              \E l \in Line : scanned[t][i] = EventOf(l) /\ scanned[t][i].index = l - 1
         /\ \A e \in Range(scanned[t]) : \E i \in 1 .. Len(scanned[t]) : e = scanned[t][i]
         /\ \A i \in 1 .. Len(scanned[t]) : scanned[t][i] \in Range(scanned[t])
<1> DEFINE E == {EventOf(l) : l \in Line}
<1>1. scanned[t] \in Seq(E)
  BY DEF Shape
<1>2. \A e \in E : \E l \in Line : e = EventOf(l) /\ e.index = l - 1
  BY DEF EventOf
<1>. HIDE DEF E
<1>3. Len(scanned[t]) \in Nat /\ DOMAIN scanned[t] = 1 .. Len(scanned[t])
  BY <1>1, LenProperties
<1>4. \A i \in 1 .. Len(scanned[t]) : scanned[t][i] \in E
  BY <1>1, ElementOfSeq
<1>. QED
  BY <1>2, <1>3, <1>4 DEF Range

\* Every event that a worker hands to the regular expressions is one whole line
\* of the flagged ones, under its own index: wherever chunks and buffers cut
\* the lines, and whatever is left in a slot of its last use, no line is torn or
\* gets foreign words, until the producer goes back beyond a chunk's front or
\* meets a line that does not fit.
THEOREM LinesAreWhole == Spec => []EventsWhole
<1>1. SInv => EventsWhole
  <2>. SUFFICES ASSUME IInv, NEW t \in Thread, NEW e \in Range(scanned[t])
                PROVE  e.index + 1 \in Line /\ e.words = WordsOf(e.index + 1)
    BY DEF SInv, EventsWhole, IsWhole
  <2>1. PICK l \in Line : e = EventOf(l)
    BY ScannedType DEF IInv
  <2>2. l \in Nat
    BY HostAssumption DEF Line
  <2>3. e.index = l - 1 /\ e.words = WordsOf(l)
    BY <2>1 DEF EventOf
  <2>4. e.index + 1 = l
    BY <2>2, <2>3
  <2>. QED
    BY <2>3, <2>4
<1>. QED
  BY <1>1, Invariant, PTL

\* No line is scanned twice, by one worker or by two, and a worker scans its
\* lines in the order of their indices, until then.
THEOREM LinesOnceInOrder == Spec => [](~spoilt => OnceInOrder)
<1>1. SInv => (~spoilt => OnceInOrder)
  <2>. SUFFICES ASSUME IInv
                PROVE  OnceInOrder
    BY DEF SInv
  <2>1. Shape
    BY DEF IInv
  <2>2. PICK deal, first : Right(deal, first)
    BY DEF IInv
  <2>3. DealRight(deal, first) /\ RingRight(deal) /\ ScanRight(deal)
    BY <2>2 DEF Right
  <2>4. \A t \in Thread : \A i, j \in DOMAIN scanned[t] :
           i < j => scanned[t][i].index < scanned[t][j].index
    BY <2>1, <2>3, ScannedType DEF ScanRight
  <2>5. ASSUME NEW t \in Thread, NEW u \in Thread, t # u,
               NEW e \in Range(scanned[t]), NEW f \in Range(scanned[u])
        PROVE  e.index # f.index
    <3>1. PICK i \in 1 .. Len(scanned[t]) : e = scanned[t][i]
      BY <2>1, ScannedType
    <3>2. PICK k \in 1 .. Len(scanned[u]) : f = scanned[u][k]
      BY <2>1, ScannedType
    <3>3. PICK j \in 1 .. Seen(deal, t) : deal[t][j][1] <= e.index /\ e.index < deal[t][j][2]
      BY <2>3, <3>1 DEF ScanRight
    <3>4. PICK m \in 1 .. Seen(deal, u) : deal[u][m][1] <= f.index /\ f.index < deal[u][m][2]
      BY <2>3, <3>2 DEF ScanRight
    <3>5. \A v \in Thread : Seen(deal, v) <= Len(deal[v]) /\ Seen(deal, v) \in Nat
                            /\ Len(deal[v]) \in Nat
      <4>. SUFFICES ASSUME NEW v \in Thread
                    PROVE  Seen(deal, v) <= Len(deal[v]) /\ Seen(deal, v) \in Nat
                           /\ Len(deal[v]) \in Nat
        OBVIOUS
      <4>1. Len(deal[v]) \in Nat
        BY <2>3, LenProperties DEF DealRight
      <4>2. WithLines(v) \in Nat /\ WithLines(v) <= Len(deal[v]) /\ Held(v) <= WithLines(v)
            /\ Held(v) \in {0, 1}
        BY <2>1, <2>3, WithLinesType
      <4>. QED
        BY <4>1, <4>2 DEF Seen
    <3>6. j \in 1 .. Len(deal[t]) /\ m \in 1 .. Len(deal[u])
      BY <3>5
    <3>7. deal[t][j][2] <= deal[u][m][1] \/ deal[u][m][2] <= deal[t][j][1]
      BY <2>3, <2>5, <3>6 DEF DealRight
    <3>8. /\ deal[t][j] \in (0 .. Len(LinePacks)) \X (0 .. Len(LinePacks))
          /\ deal[u][m] \in (0 .. Len(LinePacks)) \X (0 .. Len(LinePacks))
      <4>1. deal[t] \in Seq((0 .. Len(LinePacks)) \X (0 .. Len(LinePacks)))
            /\ deal[u] \in Seq((0 .. Len(LinePacks)) \X (0 .. Len(LinePacks)))
        BY <2>3 DEF DealRight
      <4>. QED
        BY <3>6, <4>1, ElementOfSeq
    <3>9. e.index \in Int /\ f.index \in Int
      <4>1. \A v \in Thread : \A n \in 1 .. Len(scanned[v]) : scanned[v][n].index \in Int
        <5>1. \A l \in Line : l - 1 \in Int
          BY HostAssumption DEF Line
        <5>. QED
          BY <2>1, <5>1, ScannedType
      <4>. QED
        BY <3>1, <3>2, <4>1
    <3>. HIDE DEF Seen
    <3>11. PICK a, b \in 0 .. Len(LinePacks) : deal[t][j] = <<a, b>>
      <4>1. deal[t][j] \in (0 .. Len(LinePacks)) \X (0 .. Len(LinePacks))
        BY <3>8
      <4>. QED
        BY <4>1, PairIs
    <3>12. PICK c, d \in 0 .. Len(LinePacks) : deal[u][m] = <<c, d>>
      <4>1. deal[u][m] \in (0 .. Len(LinePacks)) \X (0 .. Len(LinePacks))
        BY <3>8
      <4>. QED
        BY <4>1, PairIs
    <3>13. a \in Int /\ b \in Int /\ c \in Int /\ d \in Int
      BY HostAssumption
    <3>14. a <= e.index /\ e.index < b /\ c <= f.index /\ f.index < d /\ (b <= c \/ d <= a)
      BY <3>3, <3>4, <3>7, <3>11, <3>12
    <3>. QED
      BY <3>9, <3>13, <3>14
  <2>. QED
    BY <2>4, <2>5 DEF OnceInOrder
<1>. QED
  BY <1>1, Invariant, PTL

\* When the producer and the workers have ended, what has been scanned is all
\* that was pushed.
LEMMA PushedIsScanned ==
  ASSUME Shape, NEW deal, NEW first, Right(deal, first), Finished
  PROVE  ScannedLines = 1 .. first
<1>1. ProducerRight(first) /\ DealRight(deal, first) /\ RingRight(deal) /\ ScanRight(deal)
  BY DEF Right
<1>2. \A t \in Thread : wpc[t] = "exited"
  BY DEF Finished
<1>3. first \in 0 .. Len(LinePacks) /\ first \in Nat
  BY <1>1, HostAssumption DEF ProducerRight
<1>4. \A t \in Thread : Len(deal[t]) \in Nat
  BY <1>1, LenProperties DEF DealRight
<1>5. \A t \in Thread : Seen(deal, t) = Len(deal[t])
  <2>. SUFFICES ASSUME NEW t \in Thread
                PROVE  Seen(deal, t) = Len(deal[t])
    OBVIOUS
  <2>1. WithLines(t) = 0 /\ Held(t) = 0
    BY <1>1, <1>2 DEF RingRight, Held
  <2>. QED
    BY <1>4, <2>1 DEF Seen
<1>6. ASSUME NEW t \in Thread, NEW j \in 1 .. Len(deal[t])
      PROVE  deal[t][j][1] \in Nat /\ deal[t][j][2] \in Nat /\ deal[t][j][2] <= first
  <2>1. deal[t] \in Seq((0 .. Len(LinePacks)) \X (0 .. Len(LinePacks)))
    BY <1>1 DEF DealRight
  <2>2. deal[t][j] \in (0 .. Len(LinePacks)) \X (0 .. Len(LinePacks))
    BY <2>1, ElementOfSeq
  <2>. QED
    BY <1>1, <2>2, HostAssumption DEF DealRight
<1>7. ASSUME NEW l \in 1 .. first
      PROVE  \E t \in Thread : \E e \in Range(scanned[t]) : l = e.index + 1
  <2>0. l \in Nat
    BY <1>3
  <2>1. PICK t \in Thread : \E j \in 1 .. Len(deal[t]) : deal[t][j][1] < l /\ l <= deal[t][j][2]
    BY <1>1 DEF DealRight
  <2>2. PICK j \in 1 .. Len(deal[t]) : deal[t][j][1] < l /\ l <= deal[t][j][2]
    BY <2>1
  <2>3. l \in deal[t][j][1] + 1 .. deal[t][j][2]
    BY <1>6, <2>0, <2>2
  <2>4. PICK i \in 1 .. Len(scanned[t]) : scanned[t][i].index = l - 1
    BY <1>1, <1>5, <2>3 DEF ScanRight
  <2>5. scanned[t][i] \in Range(scanned[t])
    BY ScannedType
  <2>6. l = scanned[t][i].index + 1
    BY <2>0, <2>4
  <2>. QED
    BY <2>5, <2>6
<1>8. ASSUME NEW t \in Thread, NEW e \in Range(scanned[t])
      PROVE  e.index + 1 \in 1 .. first
  <2>1. PICK l \in Line : e.index = l - 1
    BY ScannedType
  <2>2. PICK i \in 1 .. Len(scanned[t]) : e = scanned[t][i]
    BY ScannedType
  <2>3. PICK j \in 1 .. Len(deal[t]) : e.index < deal[t][j][2]
    BY <1>1, <1>5, <2>2 DEF ScanRight
  <2>4. l \in Nat \ {0}
    BY HostAssumption DEF Line
  <2>5. l - 1 < deal[t][j][2] /\ deal[t][j][2] \in Nat /\ deal[t][j][2] <= first
    BY <1>6, <2>1, <2>3
  <2>6. l \in 1 .. first
    BY <1>3, <2>4, <2>5
  <2>. QED
    BY <2>1, <2>4, <2>6
<1>. QED
  BY <1>7, <1>8 DEF ScannedLines

\* When the producer and the workers have ended, and nothing was spoilt, the
\* lines scanned are those up to some line: all of them if the done flit came
\* with data, and else all but the ones in the buffer at hand.
THEOREM LostLinesAreTheLast == Spec => []OnlyATailIsLost
<1>1. SInv => OnlyATailIsLost
  <2>. SUFFICES ASSUME IInv, Finished
                PROVE  \E k \in 0 .. Len(LinePacks) :
                         /\ ScannedLines = 1 .. k
                         /\ chunk > 0 => k = Len(LinePacks)
                         /\ TailSize(k) <= BufferSize
    BY DEF SInv, OnlyATailIsLost
  <2>1. PICK deal, first : Shape /\ Right(deal, first)
    BY DEF IInv
  <2>2. ProducerRight(first) /\ pc = "done"
    BY <2>1 DEF Right, Finished
  <2>3. /\ first \in 0 .. Len(LinePacks)
        /\ chunk > 0 => first = Len(LinePacks)
        /\ TailSize(first) <= BufferSize
    BY <2>2 DEF ProducerRight, PushRight
  <2>4. ScannedLines = 1 .. first
    BY <2>1, PushedIsScanned
  <2>. QED
    BY <2>3, <2>4
<1>. QED
  BY <1>1, Invariant, PTL

\* A worker ends at its end sentinel, never at the zero of a buffer it was to
\* scan, and leaves no buffer with lines behind in its ring, as long as nothing
\* is spoilt.
THEOREM NoneAfterTheEnd == Spec => [](~spoilt => ExitAtSentinel /\ NothingAfterExit)
<1>1. SInv => (~spoilt => ExitAtSentinel /\ NothingAfterExit)
  <2>. SUFFICES ASSUME IInv, NEW t \in Thread, wpc[t] = "exited"
                PROVE  t < sentinels /\ \A i \in Pending(t) : slots[t][i][0] = Zero
    BY DEF SInv, ExitAtSentinel, NothingAfterExit
  <2>1. Shape
    BY DEF IInv
  <2>2. PICK deal, first : Right(deal, first)
    BY DEF IInv
  <2>3. RingRight(deal)
    BY <2>2 DEF Right
  <2>4. t < sentinels /\ WithLines(t) = 0 /\ SlotAt(t, WithLines(t))[0] = Zero
    BY <2>3 DEF RingRight
  <2>5. InRing(t) = 1
    BY <2>1, <2>3, <2>4, WithLinesType
  <2>6. rings[t].tail = Wrap(rings[t].head + 1)
    BY <2>1, <2>5, Types
  <2>7. ASSUME NEW i \in Pending(t)
        PROVE  slots[t][i][0] = Zero
    <3>1. PICK k \in 0 .. N - 1 :
             /\ i = Wrap(rings[t].head + k)
             /\ \A j \in 0 .. k : ~rings[t].empty
                                  /\ (j > 0 => Wrap(rings[t].head + j) # rings[t].tail)
      BY DEF Pending
    <3>2. k = 0
      <4>1. 1 \notin 0 .. k
        BY <2>6, <3>1
      <4>2. N \in Nat
        BY <2>1, Types
      <4>. QED
        BY <4>1, <4>2
    <3>. QED
      BY <2>4, <3>1, <3>2 DEF SlotAt
  <2>. QED
    BY <2>4, <2>7
<1>. QED
  BY <1>1, Invariant, PTL

=============================================================================
