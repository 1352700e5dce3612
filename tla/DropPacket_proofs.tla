--------------------------- MODULE DropPacket_proofs ---------------------------
(***************************************************************************)
(* Proofs about DropPacket for every depth, threshold and number of        *)
(* packets.  The type invariant holds for packets of any length; credits   *)
(* are conserved, no flit is lost, packets stay whole and the counts agree *)
(* as long as packets are shorter than the threshold.                      *)
(***************************************************************************)
EXTENDS DropPacket, SequenceTheorems, FiniteSetTheorems, TLAPS

-----------------------------------------------------------------------------
(***************************************************************************)
(* How many elements of a sequence are in a set, as packet ends are.       *)
(***************************************************************************)
\* The places of sequence s whose elements are in S, and how many they are.
PlacesIn(s, S) == {i \in 1 .. Len(s) : s[i] \in S}
CountIn(s, S) == Cardinality(PlacesIn(s, S))

\* A sequence has no more elements in S than it has elements.
LEMMA CountType ==
  ASSUME NEW T, NEW s \in Seq(T), NEW S
  PROVE  /\ IsFiniteSet(PlacesIn(s, S))
         /\ CountIn(s, S) \in Nat
         /\ CountIn(s, S) <= Len(s)
<1>1. Len(s) \in Nat
  OBVIOUS
<1>2. IsFiniteSet(1 .. Len(s)) /\ Cardinality(1 .. Len(s)) = Len(s)
  <2>1. 1 \in Int /\ Len(s) \in Int
    BY <1>1
  <2>2. IsFiniteSet(1 .. Len(s))
    BY <2>1, FS_Interval
  <2>3. Cardinality(1 .. Len(s)) = IF 1 > Len(s) THEN 0 ELSE Len(s) - 1 + 1
    BY <2>1, FS_Interval
  <2>. QED
    BY <1>1, <2>2, <2>3
<1>3. PlacesIn(s, S) \subseteq 1 .. Len(s)
  BY DEF PlacesIn
<1>4. /\ IsFiniteSet(PlacesIn(s, S))
      /\ Cardinality(PlacesIn(s, S)) <= Cardinality(1 .. Len(s))
  BY <1>2, <1>3, FS_Subset
<1>5. Cardinality(PlacesIn(s, S)) \in Nat
  BY <1>4, FS_CardinalityType
<1>. QED
  BY <1>2, <1>4, <1>5 DEF CountIn

\* The empty sequence has none.
LEMMA CountEmpty ==
  ASSUME NEW S
  PROVE  CountIn(<< >>, S) = 0
<1>1. PlacesIn(<< >>, S) = {}
  BY DEF PlacesIn
<1>. QED
  BY <1>1, FS_EmptySet DEF CountIn

\* What an element at the end adds.
LEMMA CountAppend ==
  ASSUME NEW T, NEW s \in Seq(T), NEW x \in T, NEW S
  PROVE  CountIn(Append(s, x), S) = CountIn(s, S) + (IF x \in S THEN 1 ELSE 0)
<1> DEFINE n == Len(s) + 1
<1>1. /\ Len(s) \in Nat /\ Len(Append(s, x)) = n /\ Append(s, x)[n] = x
      /\ \A i \in 1 .. Len(s) : Append(s, x)[i] = s[i]
  OBVIOUS
<1>2. IsFiniteSet(PlacesIn(s, S)) /\ CountIn(s, S) \in Nat
  BY CountType
<1>3. n \notin PlacesIn(s, S)
  BY <1>1 DEF PlacesIn
<1>4. CASE x \in S
  <2>1. PlacesIn(Append(s, x), S) = PlacesIn(s, S) \cup {n}
    BY <1>1, <1>4 DEF PlacesIn
  <2>2. Cardinality(PlacesIn(s, S) \cup {n}) = Cardinality(PlacesIn(s, S)) + 1
    BY <1>2, <1>3, FS_AddElement
  <2>. QED
    BY <1>4, <2>1, <2>2 DEF CountIn
<1>5. CASE x \notin S
  <2>1. PlacesIn(Append(s, x), S) = PlacesIn(s, S)
    BY <1>1, <1>5 DEF PlacesIn
  <2>. QED
    BY <1>2, <1>5, <2>1 DEF CountIn
<1>. QED
  BY <1>4, <1>5

\* The count of two sequences, one behind the other.
LEMMA CountConcat ==
  ASSUME NEW T, NEW s \in Seq(T), NEW t \in Seq(T), NEW S
  PROVE  CountIn(s \o t, S) = CountIn(s, S) + CountIn(t, S)
<1> DEFINE Moved == {Len(s) + i : i \in PlacesIn(t, S)}
           move  == [i \in PlacesIn(t, S) |-> Len(s) + i]
<1>1. /\ Len(s) \in Nat /\ Len(t) \in Nat /\ Len(s \o t) = Len(s) + Len(t)
      /\ \A i \in 1 .. Len(s) : (s \o t)[i] = s[i]
      /\ \A i \in 1 .. Len(t) : (s \o t)[Len(s) + i] = t[i]
  OBVIOUS
<1>2. /\ IsFiniteSet(PlacesIn(s, S)) /\ IsFiniteSet(PlacesIn(t, S))
      /\ CountIn(s, S) \in Nat /\ CountIn(t, S) \in Nat
  BY CountType
<1>3. PlacesIn(s \o t, S) = PlacesIn(s, S) \cup Moved
  <2>1. ASSUME NEW i \in PlacesIn(s \o t, S)
        PROVE  i \in PlacesIn(s, S) \cup Moved
    <3>1. i \in 1 .. Len(s) + Len(t) /\ (s \o t)[i] \in S
      BY <1>1 DEF PlacesIn
    <3>2. CASE i <= Len(s)
      BY <1>1, <3>1, <3>2 DEF PlacesIn
    <3>3. CASE i > Len(s)
      <4>1. i - Len(s) \in 1 .. Len(t) /\ i = Len(s) + (i - Len(s))
        BY <1>1, <3>1, <3>3
      <4>2. t[i - Len(s)] \in S
        BY <1>1, <3>1, <4>1
      <4>. QED
        BY <4>1, <4>2 DEF PlacesIn
    <3>. QED
      BY <1>1, <3>1, <3>2, <3>3
  <2>2. PlacesIn(s, S) \subseteq PlacesIn(s \o t, S)
    BY <1>1 DEF PlacesIn
  <2>3. Moved \subseteq PlacesIn(s \o t, S)
    BY <1>1 DEF PlacesIn
  <2>. QED
    BY <2>1, <2>2, <2>3
<1>4. PlacesIn(s, S) \cap Moved = {}
  BY <1>1 DEF PlacesIn
<1>5. move \in Bijection(PlacesIn(t, S), Moved)
  <2>1. \A i, j \in PlacesIn(t, S) : move[i] = move[j] => i = j
    BY <1>1 DEF PlacesIn
  <2>2. move \in [PlacesIn(t, S) -> Moved]
    OBVIOUS
  <2>3. \A y \in Moved : \E i \in PlacesIn(t, S) : move[i] = y
    OBVIOUS
  <2>. QED
    BY <2>1, <2>2, <2>3 DEF Bijection, Injection, Surjection, IsInjective
<1>6. IsFiniteSet(Moved) /\ Cardinality(Moved) = Cardinality(PlacesIn(t, S))
  BY <1>2, <1>5, FS_Bijection DEF ExistsBijection
<1>7. Cardinality(PlacesIn(s, S) \cup Moved)
        = Cardinality(PlacesIn(s, S)) + Cardinality(Moved) - Cardinality({})
  BY <1>2, <1>4, <1>6, FS_Union
<1>8. Cardinality({}) = 0
  BY FS_EmptySet
<1>. QED
  BY <1>2, <1>3, <1>6, <1>7, <1>8 DEF CountIn

\* What the first element adds.
LEMMA CountTail ==
  ASSUME NEW T, NEW s \in Seq(T), s # << >>, NEW S
  PROVE  CountIn(s, S) = (IF Head(s) \in S THEN 1 ELSE 0) + CountIn(Tail(s), S)
<1> DEFINE h == Head(s)
           t == Tail(s)
<1>1. h \in T /\ t \in Seq(T) /\ s = <<h>> \o t
  BY HeadTailProperties
<1>. HIDE DEF h, t
<1>2. << >> \in Seq(T) /\ <<h>> = Append(<< >>, h) /\ <<h>> \in Seq(T)
  BY <1>1
<1>3. CountIn(Append(<< >>, h), S) = CountIn(<< >>, S) + (IF h \in S THEN 1 ELSE 0)
  BY <1>1, <1>2, CountAppend
<1>4. CountIn(<<h>>, S) = IF h \in S THEN 1 ELSE 0
  BY <1>2, <1>3, CountEmpty
<1>5. CountIn(<<h>> \o t, S) = CountIn(<<h>>, S) + CountIn(t, S)
  BY <1>1, <1>2, CountConcat, Zenon
<1>6. CountIn(s, S) = CountIn(<<h>>, S) + CountIn(t, S)
  BY <1>1, <1>5, Zenon
<1>7. CountIn(s, S) = (IF h \in S THEN 1 ELSE 0) + CountIn(t, S)
  BY <1>4, <1>6, Zenon
<1>. QED
  BY <1>7 DEF h, t

-----------------------------------------------------------------------------
LEMMA InitTypeOK == Init => TypeOK
<1>. SUFFICES ASSUME Init PROVE TypeOK
  OBVIOUS
<1>1. NoFlit \in Flit
  BY DropAssumption DEF NoFlit, Flit
<1>2. << >> \in Seq(Flit) /\ Len(<< >>) = 0
  BY EmptySeq
<1>3. /\ buffer \in Seq(Flit) /\ Len(buffer) <= Capacity
      /\ overflow \in Seq(Flit) /\ Len(overflow) <= OverflowCapacity
  BY <1>2, DropAssumption DEF Init
<1>4. /\ credits \in 0 .. CreditModulus - 1 /\ creditPipe \in 0 .. CreditDepth
      /\ totalCount \in 0 .. Packets /\ droppedCount \in 0 .. totalCount
      /\ arrived \in 0 .. MaxFlits - 1
  BY DropAssumption DEF Init
<1>5. /\ forwarded \in Nat /\ bypassed \in Nat
      /\ lostFlits \in Nat /\ lostOverflow \in Nat
      /\ held \in Flit /\ lastOut \in Flit
      /\ stage \in {"read", "write", "credit"}
      /\ drop \in BOOLEAN /\ nextDrop \in BOOLEAN /\ newPacket \in BOOLEAN
  BY <1>1 DEF Init
<1>. QED
  BY <1>3, <1>4, <1>5 DEF TypeOK

\* What a non-blocking write makes of a stream within its depth.
LEMMA WriteNbStream ==
  ASSUME NEW s \in Seq(Flit), NEW d \in Nat, Len(s) <= d, NEW f \in Flit
  PROVE  /\ WriteNb(s, d, f) \in Seq(Flit)
         /\ Len(WriteNb(s, d, f)) <= d
         /\ Len(WriteNb(s, d, f)) = IF Len(s) < d THEN Len(s) + 1 ELSE Len(s)
BY DEF WriteNb

\* What a read makes of a stream that is not empty.
LEMMA ReadStream ==
  ASSUME NEW s \in Seq(Flit), s # << >>
  PROVE  /\ Head(s) \in Flit
         /\ Tail(s) \in Seq(Flit)
         /\ Len(Tail(s)) = Len(s) - 1 /\ Len(s) > 0
BY HeadTailProperties

LEMMA ArrivingFlitType ==
  ASSUME TypeOK, totalCount < Packets, NEW eop \in BOOLEAN
  PROVE  ArrivingFlit(eop) \in Flit
BY DropAssumption DEF TypeOK, ArrivingFlit, Flit

LEMMA UpdateCreditsType ==
  ASSUME TypeOK, NEW w \in {0, 1}, UpdateCredits(w)
  PROVE  /\ nextDrop' \in BOOLEAN
         /\ creditPipe' \in 0 .. CreditDepth
         /\ credits' \in 0 .. CreditModulus - 1
<1>1. CreditModulus \in Nat \ {0}
  BY DropAssumption
<1>2. \A x \in Int : x % CreditModulus \in 0 .. CreditModulus - 1
  BY <1>1
<1>3. credits' \in 0 .. CreditModulus - 1
  <2>1. credits - w + (IF creditPipe > 0 THEN 1 ELSE 0) \in Int
    BY DEF TypeOK
  <2>. QED
    BY <1>2, <2>1 DEF UpdateCredits
<1>4. nextDrop' \in BOOLEAN /\ creditPipe' \in 0 .. CreditDepth
  BY DropAssumption DEF TypeOK, UpdateCredits
<1>. QED
  BY <1>3, <1>4

LEMMA EndOfFlitType ==
  ASSUME TypeOK, totalCount < Packets, NEW eop \in BOOLEAN, NEW d \in BOOLEAN,
         arrived + 1 = MaxFlits => eop, EndOfFlit(eop, d)
  PROVE  /\ newPacket' \in BOOLEAN
         /\ arrived' \in 0 .. MaxFlits - 1
         /\ totalCount' \in 0 .. Packets
         /\ droppedCount' \in 0 .. totalCount'
BY DropAssumption DEF TypeOK, EndOfFlit

LEMMA NextTypeOK == TypeOK /\ [Next]_vars => TypeOK'
<1>. SUFFICES ASSUME TypeOK, [Next]_vars PROVE TypeOK'
  OBVIOUS
<1>. USE DropAssumption
<1>1. ASSUME NEW eop \in BOOLEAN, CycleWithFlit(eop) PROVE TypeOK'
  <2>0. totalCount < Packets /\ (arrived + 1 = MaxFlits => eop)
    BY <1>1 DEF CycleWithFlit
  <2>1. ArrivingFlit(eop) \in Flit
    BY <2>0, ArrivingFlitType
  <2>2. CASE Admit(eop)
    <3>1. UpdateCredits(1) /\ EndOfFlit(eop, FALSE)
      BY <2>2 DEF Admit
    <3>2. /\ buffer' \in Seq(Flit) /\ Len(buffer') <= Capacity
          /\ lostFlits' \in Nat
      BY <2>1, <2>2, WriteNbStream DEF Admit, TypeOK
    <3>3. drop' \in BOOLEAN /\ UNCHANGED <<overflow, lostOverflow>>
      BY <2>2 DEF Admit
    <3>4. /\ nextDrop' \in BOOLEAN
          /\ creditPipe' \in 0 .. CreditDepth
          /\ credits' \in 0 .. CreditModulus - 1
      BY <3>1, UpdateCreditsType
    <3>5. /\ newPacket' \in BOOLEAN
          /\ arrived' \in 0 .. MaxFlits - 1
          /\ totalCount' \in 0 .. Packets
          /\ droppedCount' \in 0 .. totalCount'
      BY <2>0, <3>1, EndOfFlitType
    <3>6. UNCHANGED <<stage, held, lastOut, forwarded, bypassed>>
      BY <1>1 DEF CycleWithFlit
    <3>. QED
      BY <3>2, <3>3, <3>4, <3>5, <3>6 DEF TypeOK
  <2>3. CASE Divert(eop)
    <3>1. UpdateCredits(0) /\ EndOfFlit(eop, TRUE)
      BY <2>3 DEF Divert
    <3>2. /\ overflow' \in Seq(Flit) /\ Len(overflow') <= OverflowCapacity
          /\ lostOverflow' \in Nat
      BY <2>1, <2>3, WriteNbStream DEF Divert, TypeOK
    <3>3. drop' \in BOOLEAN /\ UNCHANGED <<buffer, lostFlits>>
      BY <2>3 DEF Divert
    <3>4. /\ nextDrop' \in BOOLEAN
          /\ creditPipe' \in 0 .. CreditDepth
          /\ credits' \in 0 .. CreditModulus - 1
      BY <3>1, UpdateCreditsType
    <3>5. /\ newPacket' \in BOOLEAN
          /\ arrived' \in 0 .. MaxFlits - 1
          /\ totalCount' \in 0 .. Packets
          /\ droppedCount' \in 0 .. totalCount'
      BY <2>0, <3>1, EndOfFlitType
    <3>6. UNCHANGED <<stage, held, lastOut, forwarded, bypassed>>
      BY <1>1 DEF CycleWithFlit
    <3>. QED
      BY <3>2, <3>3, <3>4, <3>5, <3>6 DEF TypeOK
  <2>. QED
    BY <1>1, <2>2, <2>3 DEF CycleWithFlit
<1>2. CASE IdleCycle
  BY <1>2, UpdateCreditsType DEF IdleCycle, TypeOK, history
<1>3. CASE ReadBuffer
  BY <1>3, ReadStream DEF ReadBuffer, TypeOK, kernel, history
<1>4. CASE WriteOut
  BY <1>4 DEF WriteOut, TypeOK, kernel
<1>5. CASE ReturnCredit
  BY <1>5 DEF ReturnCredit, TypeOK, kernel, history
<1>6. CASE DrainOverflow
  BY <1>6, ReadStream DEF DrainOverflow, TypeOK, kernel
<1>7. CASE UNCHANGED vars
  BY <1>7 DEF vars, kernel, history, TypeOK
<1>. QED
  BY <1>1, <1>2, <1>3, <1>4, <1>5, <1>6, <1>7 DEF Next, DropKernel, Passthrough

\* Every variable keeps its type, whatever the length of the packets.
THEOREM TypeCorrect == Spec => []TypeOK
BY InitTypeOK, NextTypeOK, PTL DEF Spec

(***************************************************************************)
(* The inductive invariant.  next_drop is one cycle old when a packet      *)
(* starts, so Threshold - 1 credits are certain then; every flit let in    *)
(* since has taken at most one of them.                                    *)
(***************************************************************************)
Reserve ==
  /\ newPacket <=> arrived = 0
  /\ newPacket /\ ~nextDrop => credits >= Threshold - 1
  /\ ~newPacket /\ ~drop => credits >= Threshold - 1 - arrived

DInv == TypeOK /\ CreditsConserved /\ NoFlitLost /\ Reserve

\* The arithmetic of the credits wraps nowhere: what a cycle leaves is what it
\* found, less the flit written, plus the credit read.
LEMMA CreditsExact ==
  ASSUME TypeOK, NEW w \in {0, 1}, w <= credits,
         credits + creditPipe <= Capacity + w, UpdateCredits(w)
  PROVE  /\ credits' = credits + creditPipe - w - creditPipe'
         /\ credits' >= credits - w
         /\ ~nextDrop' => credits >= Threshold
<1> DEFINE read == IF creditPipe > 0 THEN 1 ELSE 0
<1>1. /\ credits \in Nat /\ creditPipe \in Nat /\ read \in {0, 1}
      /\ read <= creditPipe
  BY DropAssumption DEF TypeOK
<1>2. credits - w + read \in 0 .. CreditModulus - 1
  BY <1>1, DropAssumption
<1>3. (credits - w + read) % CreditModulus = credits - w + read
  BY <1>2, DropAssumption
<1>4. credits' = credits - w + read /\ creditPipe' = creditPipe - read
  BY <1>3, Zenon DEF UpdateCredits
<1>5. nextDrop' = (credits < Threshold)
  BY Zenon DEF UpdateCredits
<1>6. ~nextDrop' => ~(credits < Threshold)
  BY <1>5, Zenon
<1>7. ~nextDrop' => credits >= Threshold
  BY <1>1, <1>6, DropAssumption
<1>8. /\ credits' = credits + creditPipe - w - creditPipe'
      /\ credits' >= credits - w
  <2>. HIDE DEF read
  <2>. QED
    BY <1>1, <1>4
<1>. QED
  BY <1>7, <1>8

LEMMA InitDInv == Init => DInv
<1>1. Init => CreditsConserved /\ NoFlitLost /\ Reserve
  BY DropAssumption
     DEF Init, CreditsConserved, InPassthrough, NoFlitLost, Reserve
<1>. QED
  BY <1>1, InitTypeOK DEF DInv

\* What the reader takes off the credits, n flits are more in the FIFO.
LEMMA Balance ==
  ASSUME NEW c \in Int, NEW d \in Int, NEW p \in Int, NEW q \in Int,
         NEW n \in Int, NEW l \in Int, NEW m \in Int, NEW sum,
         c + l + m + p = sum, d = c + p - n - q
  PROVE  d + (l + n) + m + q = sum
OBVIOUS

LEMMA NextDInv ==
  ASSUME MaxFlits < Threshold
  PROVE  DInv /\ [Next]_vars => DInv'
<1>. SUFFICES ASSUME DInv, [Next]_vars
              PROVE  CreditsConserved' /\ NoFlitLost' /\ Reserve'
  BY NextTypeOK DEF DInv
<1>. USE DropAssumption
<1>0. TypeOK /\ CreditsConserved /\ NoFlitLost /\ Reserve
  BY DEF DInv
<1>a. Len(buffer) \in Nat /\ credits \in Nat /\ creditPipe \in Nat
  BY <1>0, LenProperties DEF TypeOK
<1>1. ASSUME NEW eop \in BOOLEAN, CycleWithFlit(eop)
      PROVE  CreditsConserved' /\ NoFlitLost' /\ Reserve'
  <2>0. /\ totalCount < Packets /\ (arrived + 1 = MaxFlits => eop)
        /\ InPassthrough' = InPassthrough /\ InPassthrough \in Nat
    BY <1>1 DEF CycleWithFlit, InPassthrough
  <2>1. ArrivingFlit(eop) \in Flit
    BY <1>0, <2>0, ArrivingFlitType
  <2>b. InPassthrough \in Nat
    BY DEF InPassthrough
  <2>2. CASE Admit(eop)
    <3>1. UpdateCredits(1) /\ EndOfFlit(eop, FALSE) /\ ~Dropping /\ drop' = FALSE
      BY <2>2 DEF Admit
    <3>2. credits >= Threshold - 1 - arrived /\ arrived <= MaxFlits - 1
      BY <1>0, <3>1 DEF Reserve, Dropping, TypeOK
    <3>3. credits >= 1 /\ Len(buffer) < Capacity
      BY <1>0, <1>a, <2>0, <3>2 DEF CreditsConserved, TypeOK
    <3>4. Len(buffer') = Len(buffer) + 1 /\ lostFlits' = 0
      BY <1>0, <2>1, <2>2, <3>3, WriteNbStream DEF Admit, NoFlitLost, TypeOK
    <3>5. /\ credits' = credits + creditPipe - 1 - creditPipe'
          /\ credits' >= credits - 1
          /\ ~nextDrop' => credits >= Threshold
      BY <1>0, <1>a, <2>0, <3>1, <3>3, CreditsExact DEF CreditsConserved
    <3>6. credits' \in Nat /\ creditPipe' \in Nat
      BY <1>0, <3>1, UpdateCreditsType
    <3>7. CreditsConserved'
      <4>1. credits + Len(buffer) + InPassthrough + creditPipe = Capacity
        BY <1>0 DEF CreditsConserved
      <4>2. credits' + (Len(buffer) + 1) + InPassthrough + creditPipe' = Capacity
        <5>1. credits' = credits + creditPipe - 1 - creditPipe'
          BY <3>5
        <5>2. credits' \in Int /\ creditPipe' \in Int /\ Capacity \in Int
          BY <3>6, DropAssumption
        <5>. QED
          BY <1>a, <2>b, <4>1, <5>1, <5>2, Balance
      <4>. QED
        BY <2>0, <3>4, <4>2 DEF CreditsConserved
    <3>8. Reserve'
      <4>1. /\ newPacket' = eop /\ arrived' = IF eop THEN 0 ELSE arrived + 1
            /\ arrived \in Nat
        BY <1>0, <3>1 DEF EndOfFlit, TypeOK
      <4>2. CASE eop
        <5>1. newPacket' /\ arrived' = 0
          BY <4>1, <4>2
        <5>2. credits' >= credits - 1
          BY <3>5
        <5>3. credits >= Threshold => credits' >= Threshold - 1
          BY <1>a, <3>6, <5>2
        <5>4. ~nextDrop' => credits >= Threshold
          BY <3>5
        <5>. QED
          BY <5>1, <5>3, <5>4, Zenon DEF Reserve
      <4>3. CASE ~eop
        <5>1. ~newPacket' /\ arrived' = arrived + 1 /\ arrived' # 0
          BY <4>1, <4>3
        <5>2. credits' >= credits - 1
          BY <3>5
        <5>3. credits' >= Threshold - 1 - arrived'
          BY <1>a, <3>2, <3>6, <4>1, <5>1, <5>2
        <5>. QED
          BY <5>1, <5>3, Zenon DEF Reserve
      <4>. QED
        BY <4>2, <4>3
    <3>. QED
      BY <3>4, <3>7, <3>8 DEF NoFlitLost
  <2>3. CASE Divert(eop)
    <3>1. /\ UpdateCredits(0) /\ EndOfFlit(eop, TRUE) /\ drop' = TRUE
          /\ UNCHANGED <<buffer, lostFlits>>
      BY <2>3 DEF Divert
    <3>2. /\ credits' = credits + creditPipe - creditPipe'
          /\ credits' >= credits
          /\ ~nextDrop' => credits >= Threshold
      BY <1>0, <1>a, <2>0, <3>1, CreditsExact DEF CreditsConserved
    <3>3. credits' \in Nat /\ creditPipe' \in Nat
      BY <1>0, <3>1, UpdateCreditsType
    <3>4. CreditsConserved' /\ NoFlitLost'
      <4>1. credits + Len(buffer) + InPassthrough + creditPipe = Capacity
        BY <1>0 DEF CreditsConserved
      <4>2. credits' + Len(buffer) + InPassthrough + creditPipe' = Capacity
        <5>1. credits' = credits + creditPipe - creditPipe'
          BY <3>2
        <5>. QED
          BY <1>a, <2>b, <3>3, <4>1, <5>1, DropAssumption
      <4>. QED
        BY <1>0, <2>0, <3>1, <4>2 DEF CreditsConserved, NoFlitLost
    <3>5. Reserve'
      <4>1. /\ newPacket' = eop /\ arrived' = IF eop THEN 0 ELSE arrived + 1
            /\ arrived \in Nat
        BY <1>0, <3>1 DEF EndOfFlit, TypeOK
      <4>2. credits' >= credits
        BY <3>2
      <4>3. credits >= Threshold => credits' >= Threshold - 1
        BY <1>a, <3>3, <4>2
      <4>4. ~nextDrop' => credits >= Threshold
        BY <3>2
      <4>5. newPacket' <=> arrived' = 0
        BY <4>1
      <4>. QED
        BY <3>1, <4>3, <4>4, <4>5, Zenon DEF Reserve
    <3>. QED
      BY <3>4, <3>5
  <2>. QED
    BY <1>1, <2>2, <2>3 DEF CycleWithFlit
<1>2. CASE IdleCycle
  <2>1. UpdateCredits(0) /\ InPassthrough' = InPassthrough /\ InPassthrough \in Nat
    BY <1>2 DEF IdleCycle, InPassthrough
  <2>2. /\ credits' = credits + creditPipe - creditPipe'
        /\ credits' >= credits
        /\ ~nextDrop' => credits >= Threshold
    BY <1>0, <1>a, <2>1, CreditsExact DEF CreditsConserved
  <2>3. credits' \in Nat /\ creditPipe' \in Nat
    BY <1>0, <2>1, UpdateCreditsType
  <2>4. UNCHANGED <<drop, newPacket, arrived, buffer, lostFlits>>
    BY <1>2 DEF IdleCycle, history
  <2>5. Reserve'
    <3>1. credits' >= credits
      BY <2>2
    <3>2. credits >= Threshold => credits' >= Threshold - 1
      BY <1>a, <2>3, <3>1
    <3>3. ~nextDrop' => credits >= Threshold
      BY <2>2
    <3>4. /\ newPacket <=> arrived = 0
          /\ ~newPacket /\ ~drop => credits >= Threshold - 1 - arrived
      BY <1>0 DEF Reserve
    <3>5. credits >= Threshold - 1 - arrived => credits' >= Threshold - 1 - arrived
      BY <1>0, <1>a, <2>3, <3>1 DEF TypeOK
    <3>6. newPacket' = newPacket /\ arrived' = arrived /\ drop' = drop
      BY <2>4
    <3>. QED
      BY <3>2, <3>3, <3>4, <3>5, <3>6, Zenon DEF Reserve
  <2>6. CreditsConserved'
    <3>1. credits + Len(buffer) + InPassthrough + creditPipe = Capacity
      BY <1>0 DEF CreditsConserved
    <3>2. credits' + Len(buffer) + InPassthrough + creditPipe' = Capacity
      <4>1. credits' = credits + creditPipe - creditPipe'
        BY <2>2
      <4>2. InPassthrough \in Nat
        BY DEF InPassthrough
      <4>. QED
        BY <1>a, <2>3, <3>1, <4>1, <4>2, SMTT(30)
    <3>. QED
      BY <2>1, <2>4, <3>2 DEF CreditsConserved
  <2>. QED
    BY <1>0, <2>4, <2>5, <2>6 DEF NoFlitLost
<1>3. CASE ReadBuffer
  <2>1. Len(buffer') = Len(buffer) - 1 /\ InPassthrough = 0 /\ InPassthrough' = 1
    BY <1>0, <1>3, ReadStream DEF ReadBuffer, TypeOK, InPassthrough
  <2>. QED
    BY <1>0, <1>a, <1>3, <2>1
       DEF ReadBuffer, CreditsConserved, NoFlitLost, Reserve, kernel, history
<1>4. CASE WriteOut
  BY <1>0, <1>4 DEF WriteOut, CreditsConserved, InPassthrough, NoFlitLost, Reserve, kernel
<1>5. CASE ReturnCredit
  <2>1. InPassthrough = 1 /\ InPassthrough' = 0 /\ creditPipe' = creditPipe + 1
    BY <1>5 DEF ReturnCredit, InPassthrough
  <2>. QED
    BY <1>0, <1>a, <1>5, <2>1
       DEF ReturnCredit, CreditsConserved, NoFlitLost, Reserve, kernel, history
<1>6. CASE DrainOverflow
  BY <1>0, <1>6 DEF DrainOverflow, CreditsConserved, InPassthrough, NoFlitLost, Reserve, kernel
<1>7. CASE UNCHANGED vars
  BY <1>0, <1>7 DEF vars, kernel, history, CreditsConserved, InPassthrough, NoFlitLost, Reserve
<1>. QED
  BY <1>1, <1>2, <1>3, <1>4, <1>5, <1>6, <1>7 DEF Next, DropKernel, Passthrough

\* While packets are shorter than the threshold, every credit is in exactly
\* one place.
THEOREM CreditConservation ==
  ASSUME MaxFlits < Threshold
  PROVE  Spec => []CreditsConserved
<1>1. DInv => CreditsConserved
  BY DEF DInv
<1>. QED
  BY <1>1, InitDInv, NextDInv, PTL DEF Spec

\* While packets are shorter than the threshold, a packet that is let in fits.
THEOREM AdmittedPacketsFit ==
  ASSUME MaxFlits < Threshold
  PROVE  Spec => []NoFlitLost
<1>1. DInv => NoFlitLost
  BY DEF DInv
<1>. QED
  BY <1>1, InitDInv, NextDInv, PTL DEF Spec

(***************************************************************************)
(* Whole packets: the flit that came last to the FIFO is the one before    *)
(* the flit to come, or the end of a packet that came before.              *)
(***************************************************************************)
\* What the last flit on the stream says of the flits to come.
TailFits ==
  LET f == Downstream[Len(Downstream)]
  IN  IF newPacket \/ drop THEN f.eop /\ f.pkt <= totalCount
                           ELSE ~f.eop /\ f.pkt = totalCount + 1 /\ f.idx = arrived

WInv == DInv /\ WholePackets /\ TailFits

\* The stream is never empty: it begins with the last flit passed on.
LEMMA DownstreamType ==
  ASSUME TypeOK
  PROVE  Downstream \in Seq(Flit) /\ Len(Downstream) \in Nat \ {0}
BY DEF TypeOK, Downstream

\* A chain of flits stays one when a flit that follows its last is appended,
\* and when its first is taken off.
Chain(s) == \A i \in 1 .. Len(s) - 1 : Follows(s[i], s[i + 1])

LEMMA ChainAppend ==
  ASSUME NEW s \in Seq(Flit), s # << >>, NEW f \in Flit, Chain(s), Follows(s[Len(s)], f)
  PROVE  Chain(Append(s, f))
<1>1. /\ Len(s) \in Nat \ {0} /\ Len(Append(s, f)) = Len(s) + 1
      /\ Append(s, f)[Len(s) + 1] = f
      /\ \A i \in 1 .. Len(s) : Append(s, f)[i] = s[i]
  BY EmptySeq, LenProperties, AppendProperties
<1>2. ASSUME NEW i \in 1 .. Len(s) + 1 - 1
      PROVE  Follows(Append(s, f)[i], Append(s, f)[i + 1])
  <2>1. CASE i = Len(s)
    BY <1>1, <2>1
  <2>2. CASE i # Len(s)
    <3>1. i \in 1 .. Len(s) - 1 /\ i + 1 \in 1 .. Len(s)
      BY <1>1, <2>2
    <3>2. Append(s, f)[i] = s[i] /\ Append(s, f)[i + 1] = s[i + 1]
      BY <1>1, <3>1
    <3>. QED
      BY <3>1, <3>2 DEF Chain
  <2>. QED
    BY <2>1, <2>2
<1>. QED
  BY <1>1, <1>2 DEF Chain

LEMMA ChainTail ==
  ASSUME NEW s \in Seq(Flit), Len(s) > 1, Chain(s)
  PROVE  Chain(Tail(s)) /\ Tail(s)[Len(Tail(s))] = s[Len(s)]
<1>1. /\ Len(s) \in Nat /\ Len(Tail(s)) = Len(s) - 1
      /\ \A i \in 1 .. Len(s) - 1 : Tail(s)[i] = s[i + 1]
  BY HeadTailProperties, LenProperties
<1>2. ASSUME NEW i \in 1 .. Len(s) - 1 - 1
      PROVE  Follows(Tail(s)[i], Tail(s)[i + 1])
  <2>1. i \in 1 .. Len(s) - 1 /\ i + 1 \in 1 .. Len(s) - 1
    BY <1>1
  <2>2. Tail(s)[i] = s[i + 1] /\ Tail(s)[i + 1] = s[(i + 1) + 1]
    BY <1>1, <2>1
  <2>. QED
    BY <2>1, <2>2 DEF Chain
<1>. QED
  BY <1>1, <1>2 DEF Chain

\* A flit that is let in follows the last one, and its packet goes on from it.
LEMMA AdmitFollows ==
  ASSUME TypeOK, Reserve, TailFits, NEW eop \in BOOLEAN, totalCount < Packets,
         ~Dropping, EndOfFlit(eop, FALSE), drop' = FALSE,
         NEW f \in Flit, f = Downstream[Len(Downstream)]
  PROVE  /\ Follows(f, ArrivingFlit(eop))
         /\ LET g == ArrivingFlit(eop)
            IN  IF newPacket' \/ drop'
                THEN g.eop /\ g.pkt <= totalCount'
                ELSE ~g.eop /\ g.pkt = totalCount' + 1 /\ g.idx = arrived'
<1>1. /\ ArrivingFlit(eop).pkt = totalCount + 1 /\ ArrivingFlit(eop).idx = arrived + 1
      /\ ArrivingFlit(eop).eop = eop
  BY DEF ArrivingFlit
<1>2. /\ totalCount \in Nat /\ arrived \in Nat /\ f.pkt \in Nat /\ f.idx \in Nat
      /\ f.eop \in BOOLEAN /\ newPacket \in BOOLEAN /\ drop \in BOOLEAN
  <2>1. f.pkt \in Nat /\ f.idx \in Nat /\ f.eop \in BOOLEAN
    BY DropAssumption DEF Flit
  <2>2. totalCount \in Nat /\ arrived \in Nat
    BY DropAssumption DEF TypeOK
  <2>3. newPacket \in BOOLEAN /\ drop \in BOOLEAN
    BY DEF TypeOK
  <2>. QED
    BY <2>1, <2>2, <2>3
<1>3. IF newPacket \/ drop THEN f.eop /\ f.pkt <= totalCount
                           ELSE ~f.eop /\ f.pkt = totalCount + 1 /\ f.idx = arrived
  BY DEF TailFits
<1>4. newPacket <=> arrived = 0
  BY DEF Reserve
<1>5. Follows(f, ArrivingFlit(eop))
  <2>1. CASE newPacket
    BY <1>1, <1>2, <1>3, <1>4, <2>1 DEF Follows
  <2>2. CASE ~newPacket
    <3>1. ~drop
      BY <2>2 DEF Dropping
    <3>. QED
      BY <1>1, <1>2, <1>3, <2>2, <3>1 DEF Follows
  <2>. QED
    BY <2>1, <2>2
<1>6. /\ newPacket' = eop /\ arrived' = IF eop THEN 0 ELSE arrived + 1
      /\ totalCount' = IF eop THEN totalCount + 1 ELSE totalCount
  BY DEF EndOfFlit
<1>. QED
  BY <1>1, <1>2, <1>5, <1>6

LEMMA InitWInv == Init => WInv
<1>. SUFFICES ASSUME Init PROVE WInv
  OBVIOUS
<1>1. NoFlit \in Flit
  BY DropAssumption DEF NoFlit, Flit
<1>2. Downstream = <<NoFlit>>
  BY <1>1, ConcatEmptySeq DEF Init, Downstream
<1>3. Len(Downstream) = 1 /\ Downstream[1] = NoFlit
  BY <1>2
<1>4. WholePackets
  BY <1>3 DEF WholePackets
<1>5. TailFits
  BY <1>3 DEF TailFits, Init, NoFlit
<1>. QED
  BY <1>4, <1>5, InitDInv DEF WInv

\* The stream and what is known of its end stay as they are.
LEMMA SameStream ==
  ASSUME WInv, DInv', Downstream' = Downstream,
         totalCount' \in Nat, totalCount' >= totalCount,
         \/ UNCHANGED <<newPacket, drop, arrived, totalCount>>
         \/ (newPacket \/ drop) /\ drop'
  PROVE  WInv'
<1>1. WholePackets'
  BY DEF WInv, WholePackets
<1>2. TailFits'
  <2>1. Downstream[Len(Downstream)] \in Flit
    BY DownstreamType, ElementOfSeq DEF WInv, DInv
  <2>2. Downstream[Len(Downstream)].pkt \in Nat /\ totalCount \in Nat
    <3>1. \A f \in Flit : f.pkt \in Nat
      BY DropAssumption DEF Flit
    <3>2. totalCount \in Nat
      BY DropAssumption DEF WInv, DInv, TypeOK
    <3>. QED
      BY <2>1, <3>1, <3>2
  <2>3. CASE UNCHANGED <<newPacket, drop, arrived, totalCount>>
    BY <2>3 DEF WInv, TailFits
  <2>4. CASE (newPacket \/ drop) /\ drop'
    BY <2>2, <2>4 DEF WInv, TailFits
  <2>. QED
    BY <2>3, <2>4
<1>. QED
  BY <1>1, <1>2 DEF WInv

LEMMA NextWInv ==
  ASSUME MaxFlits < Threshold
  PROVE  WInv /\ [Next]_vars => WInv'
<1>. SUFFICES ASSUME WInv, [Next]_vars PROVE WInv'
  OBVIOUS
<1>1. DInv /\ TypeOK /\ Reserve /\ WholePackets /\ TailFits
  BY DEF WInv, DInv
<1>2. DInv' /\ TypeOK' /\ NoFlitLost'
  BY <1>1, NextDInv DEF DInv
<1>3. totalCount \in Nat /\ totalCount' \in Nat
  BY <1>1, <1>2, DropAssumption DEF TypeOK
<1>4. ASSUME NEW eop \in BOOLEAN, CycleWithFlit(eop) PROVE WInv'
  <2>1. /\ totalCount < Packets
        /\ UNCHANGED <<stage, held, lastOut>>
    BY <1>4 DEF CycleWithFlit
  <2>2. CASE Admit(eop)
    <3> DEFINE f == Downstream[Len(Downstream)]
               g == ArrivingFlit(eop)
    <3>1. /\ g \in Flit /\ f \in Flit
          /\ Downstream \in Seq(Flit) /\ Downstream # << >>
      BY <1>1, <2>1, ArrivingFlitType, DownstreamType, ElementOfSeq
    <3>2. buffer' = Append(buffer, g)
      <4>1. Len(buffer) < Capacity
        BY <1>1, <1>2, <2>2 DEF Admit, NoFlitLost, DInv
      <4>. QED
        BY <2>2, <4>1 DEF Admit, WriteNb
    <3>3. Downstream' = Append(Downstream, g)
      <4> DEFINE front == <<lastOut>> \o (IF stage = "write" THEN <<held>> ELSE << >>)
      <4>1. front \in Seq(Flit) /\ buffer \in Seq(Flit)
        BY <1>1 DEF TypeOK
      <4>2. front' = front /\ Downstream = front \o buffer /\ Downstream' = front' \o buffer'
        BY <2>1 DEF Downstream
      <4>. HIDE DEF front, g
      <4>3. front \o Append(buffer, g) = Append(front \o buffer, g)
        <5>1. Append(buffer, g) = buffer \o <<g>> /\ <<g>> \in Seq(Flit)
          BY <3>1, <4>1, AppendIsConcat
        <5>2. (front \o buffer) \o <<g>> = front \o (buffer \o <<g>>)
          BY <4>1, <5>1, ConcatAssociative
        <5>3. Append(front \o buffer, g) = (front \o buffer) \o <<g>>
          BY <3>1, <4>1, AppendIsConcat, ConcatProperties
        <5>. QED
          BY <5>1, <5>2, <5>3
      <4>. QED
        BY <3>2, <4>2, <4>3
    <3>4. /\ Follows(f, g)
          /\ IF newPacket' \/ drop'
             THEN g.eop /\ g.pkt <= totalCount'
             ELSE ~g.eop /\ g.pkt = totalCount' + 1 /\ g.idx = arrived'
      <4>1. ~Dropping /\ EndOfFlit(eop, FALSE) /\ drop' = FALSE
        BY <2>2 DEF Admit
      <4>. QED
        BY <1>1, <2>1, <3>1, <4>1, AdmitFollows
    <3>. HIDE DEF f, g
    <3>5. Chain(Downstream')
      <4>1. Chain(Downstream) /\ Follows(Downstream[Len(Downstream)], g)
        BY <1>1, <3>4 DEF Chain, WholePackets, f
      <4>. QED
        BY <3>1, <3>3, <4>1, ChainAppend
    <3>6. Downstream'[Len(Downstream')] = g
      BY <3>1, <3>3, AppendProperties
    <3>7. TailFits'
      BY <3>4, <3>6, Zenon DEF TailFits
    <3>. QED
      BY <1>2, <3>5, <3>7 DEF Chain, WholePackets, WInv
  <2>3. CASE Divert(eop)
    <3>1. Dropping /\ drop' /\ EndOfFlit(eop, TRUE) /\ UNCHANGED buffer
      BY <2>3 DEF Divert
    <3>2. newPacket \/ drop
      BY <3>1 DEF Dropping
    <3>3. totalCount' >= totalCount
      BY <1>3, <3>1 DEF EndOfFlit
    <3>4. Downstream' = Downstream
      BY <2>1, <3>1 DEF Downstream
    <3>. QED
      BY <1>2, <1>3, <3>1, <3>2, <3>3, <3>4, SameStream
  <2>. QED
    BY <1>4, <2>2, <2>3 DEF CycleWithFlit
<1>5. ASSUME Downstream' = Downstream,
             UNCHANGED <<newPacket, drop, arrived, totalCount>>
      PROVE  WInv'
  BY <1>2, <1>3, <1>5, SameStream
<1>6. CASE IdleCycle
  BY <1>5, <1>6 DEF IdleCycle, Downstream, history
<1>7. CASE ReadBuffer
  <2>1. Downstream' = Downstream
    <3>1. /\ stage = "read" /\ stage' = "write" /\ buffer # << >> /\ lastOut' = lastOut
          /\ held' = Head(buffer) /\ buffer' = Tail(buffer)
      BY <1>7 DEF ReadBuffer, history
    <3>2. buffer \in Seq(Flit) /\ lastOut \in Flit
      BY <1>1 DEF TypeOK
    <3>3. <<Head(buffer)>> \o Tail(buffer) = buffer
      BY <3>1, <3>2, HeadTailProperties
    <3>4. Downstream = <<lastOut>> \o buffer
      BY <3>1, <3>2 DEF Downstream
    <3>5. Downstream' = <<lastOut>> \o (<<Head(buffer)>> \o Tail(buffer))
      BY <3>1, <3>2, HeadTailProperties DEF Downstream
    <3>. QED
      BY <3>3, <3>4, <3>5
  <2>. QED
    BY <1>5, <1>7, <2>1 DEF ReadBuffer, kernel, history
<1>8. CASE WriteOut
  <2>1. /\ stage = "write" /\ stage' = "credit" /\ lastOut' = held
        /\ UNCHANGED <<kernel, buffer, arrived>>
    BY <1>8 DEF WriteOut
  <2>2. buffer \in Seq(Flit) /\ lastOut \in Flit /\ held \in Flit
    BY <1>1 DEF TypeOK
  <2>3. /\ Downstream' = <<held>> \o buffer
        /\ Downstream = <<lastOut>> \o <<held>> \o buffer
    BY <2>1, <2>2 DEF Downstream
  <2>4. Downstream' = Tail(Downstream) /\ Len(Downstream) > 1
    <3>1. /\ <<held>> \o buffer \in Seq(Flit)
          /\ Len(<<held>> \o buffer) = Len(buffer) + 1 /\ Len(buffer) \in Nat
      BY <2>2
    <3>2. Downstream = <<lastOut>> \o (<<held>> \o buffer)
      BY <2>2, <2>3
    <3>3. /\ Len(<<lastOut>> \o (<<held>> \o buffer)) = 1 + Len(<<held>> \o buffer)
          /\ Tail(<<lastOut>> \o (<<held>> \o buffer)) = <<held>> \o buffer
      <4> DEFINE rest == <<held>> \o buffer
      <4>1. rest \in Seq(Flit)
        BY <3>1
      <4>. HIDE DEF rest
      <4>2. Len(<<lastOut>> \o rest) = 1 + Len(rest) /\ Tail(<<lastOut>> \o rest) = rest
        BY <2>2, <4>1
      <4>. QED
        BY <4>2 DEF rest
    <3>. QED
      BY <2>3, <3>1, <3>2, <3>3
  <2>5. Chain(Downstream') /\ Downstream'[Len(Downstream')] = Downstream[Len(Downstream)]
    BY <1>1, <2>4, ChainTail, DownstreamType DEF Chain, WholePackets
  <2>6. TailFits'
    <3>1. UNCHANGED <<newPacket, drop, totalCount, arrived>>
      BY <2>1 DEF kernel
    <3>. QED
      BY <1>1, <2>5, <3>1 DEF TailFits
  <2>. QED
    BY <1>2, <2>5, <2>6 DEF Chain, WholePackets, WInv
<1>9. CASE ReturnCredit
  BY <1>5, <1>9 DEF ReturnCredit, Downstream, kernel, history
<1>10. CASE DrainOverflow
  BY <1>5, <1>10 DEF DrainOverflow, Downstream, kernel
<1>11. CASE UNCHANGED vars
  BY <1>5, <1>11 DEF vars, Downstream, kernel, history
<1>. QED
  BY <1>4, <1>6, <1>7, <1>8, <1>9, <1>10, <1>11 DEF Next, DropKernel, Passthrough

\* While packets are shorter than the threshold, what goes into the pipeline is
\* a sequence of whole packets, whatever is dropped between them.
THEOREM PacketsStayWhole ==
  ASSUME MaxFlits < Threshold
  PROVE  Spec => []WholePackets
<1>1. WInv => WholePackets
  BY DEF WInv
<1>. QED
  BY <1>1, InitWInv, NextWInv, PTL DEF Spec

(***************************************************************************)
(* The counts.                                                             *)
(***************************************************************************)
Ends == {f \in Flit : f.eop}

LEMMA EndsAreCounted ==
  ASSUME NEW s \in Seq(Flit)
  PROVE  EndsOfPackets(s) = CountIn(s, Ends)
<1>1. \A i \in 1 .. Len(s) : s[i] \in Flit
  OBVIOUS
<1>2. {i \in 1 .. Len(s) : s[i].eop} = PlacesIn(s, Ends)
  BY <1>1 DEF PlacesIn, Ends
<1>. QED
  BY <1>2 DEF EndsOfPackets, CountIn

LEMMA EndsAppend ==
  ASSUME NEW s \in Seq(Flit), NEW f \in Flit
  PROVE  EndsOfPackets(Append(s, f)) = EndsOfPackets(s) + (IF f.eop THEN 1 ELSE 0)
<1>1. Append(s, f) \in Seq(Flit) /\ (f \in Ends <=> f.eop)
  BY DEF Ends
<1>2. CountIn(Append(s, f), Ends) = CountIn(s, Ends) + (IF f \in Ends THEN 1 ELSE 0)
  BY CountAppend
<1>. QED
  BY <1>1, <1>2, EndsAreCounted

LEMMA EndsTail ==
  ASSUME NEW s \in Seq(Flit), s # << >>
  PROVE  EndsOfPackets(s) = (IF Head(s).eop THEN 1 ELSE 0) + EndsOfPackets(Tail(s))
<1>1. Head(s) \in Flit /\ Tail(s) \in Seq(Flit) /\ (Head(s) \in Ends <=> Head(s).eop)
  BY HeadTailProperties DEF Ends
<1>2. CountIn(s, Ends) = (IF Head(s) \in Ends THEN 1 ELSE 0) + CountIn(Tail(s), Ends)
  BY CountTail
<1>. QED
  BY <1>1, <1>2, EndsAreCounted

LEMMA EndsType ==
  ASSUME NEW s \in Seq(Flit)
  PROVE  EndsOfPackets(s) \in Nat
BY EndsAreCounted, CountType

CInv == DInv /\ CountsAgree

LEMMA InitCInv == Init => CInv
<1>. SUFFICES ASSUME Init PROVE CountsAgree
  BY InitDInv DEF CInv
<1>1. << >> \in Seq(Flit)
  OBVIOUS
<1>2. EndsOfPackets(<< >>) = 0
  BY <1>1, EndsAreCounted, CountEmpty
<1>. QED
  BY <1>2 DEF Init, CountsAgree

LEMMA NextCInv ==
  ASSUME MaxFlits < Threshold
  PROVE  CInv /\ [Next]_vars => CInv'
<1>. SUFFICES ASSUME CInv, [Next]_vars PROVE CountsAgree'
  BY NextDInv DEF CInv
<1> DEFINE ends == EndsOfPackets(buffer)
           out  == IF stage = "write" /\ held.eop THEN 1 ELSE 0
<1>1. DInv /\ TypeOK /\ totalCount - droppedCount = forwarded + ends + out
  BY DEF CInv, DInv, CountsAgree
<1>2. DInv' /\ NoFlitLost'
  BY <1>1, NextDInv DEF DInv
<1>3. /\ ends \in Nat /\ out \in {0, 1} /\ buffer \in Seq(Flit)
      /\ totalCount \in Nat /\ droppedCount \in Nat /\ forwarded \in Nat
  BY <1>1, EndsType, DropAssumption DEF TypeOK
<1>4. ASSUME NEW eop \in BOOLEAN, CycleWithFlit(eop) PROVE CountsAgree'
  <2>1. totalCount < Packets /\ UNCHANGED <<stage, held, forwarded>>
    BY <1>4 DEF CycleWithFlit
  <2>2. CASE Admit(eop)
    <3>1. ArrivingFlit(eop) \in Flit /\ ArrivingFlit(eop).eop = eop
      BY <1>1, <2>1, ArrivingFlitType DEF ArrivingFlit
    <3>2. buffer' = Append(buffer, ArrivingFlit(eop))
      <4>1. Len(buffer) < Capacity
        BY <1>1, <1>2, <2>2 DEF Admit, NoFlitLost, DInv
      <4>. QED
        BY <2>2, <4>1 DEF Admit, WriteNb
    <3>3. EndsOfPackets(buffer') = ends + (IF eop THEN 1 ELSE 0)
      BY <1>3, <3>1, <3>2, EndsAppend
    <3>4. /\ totalCount' = IF eop THEN totalCount + 1 ELSE totalCount
          /\ droppedCount' = droppedCount
      BY <2>2 DEF Admit, EndOfFlit
    <3>. HIDE DEF ends, out
    <3>5. totalCount' - droppedCount' = forwarded + (ends + (IF eop THEN 1 ELSE 0)) + out
      BY <1>1, <1>3, <3>4
    <3>. QED
      BY <2>1, <3>3, <3>5 DEF CountsAgree, out
  <2>3. CASE Divert(eop)
    <3>1. EndOfFlit(eop, TRUE) /\ UNCHANGED buffer
      BY <2>3 DEF Divert
    <3>2. totalCount' - droppedCount' = totalCount - droppedCount
      BY <1>3, <3>1 DEF EndOfFlit
    <3>. QED
      BY <1>1, <2>1, <3>1, <3>2 DEF CountsAgree
  <2>. QED
    BY <1>4, <2>2, <2>3 DEF CycleWithFlit
<1>5. CASE IdleCycle
  BY <1>1, <1>5 DEF IdleCycle, CountsAgree, history
<1>6. CASE ReadBuffer
  <2>1. /\ stage = "read" /\ stage' = "write" /\ buffer # << >>
        /\ held' = Head(buffer) /\ buffer' = Tail(buffer)
        /\ UNCHANGED <<totalCount, droppedCount, forwarded>>
    BY <1>6 DEF ReadBuffer, kernel, history
  <2>2. /\ ends = (IF held'.eop THEN 1 ELSE 0) + EndsOfPackets(buffer')
        /\ EndsOfPackets(buffer') \in Nat
    BY <1>3, <2>1, EndsTail, EndsType, HeadTailProperties
  <2>3. out = 0 /\ out' = IF held'.eop THEN 1 ELSE 0
    BY <2>1
  <2>4. totalCount' - droppedCount' = forwarded' + EndsOfPackets(buffer') + out'
    <3>. HIDE DEF ends, out
    <3>. QED
      BY <1>1, <1>3, <2>1, <2>2, <2>3
  <2>. QED
    BY <2>4 DEF CountsAgree
<1>7. CASE WriteOut
  <2>1. /\ stage = "write" /\ stage' = "credit"
        /\ forwarded' = IF held.eop THEN forwarded + 1 ELSE forwarded
        /\ UNCHANGED <<totalCount, droppedCount, buffer>>
    BY <1>7 DEF WriteOut, kernel
  <2>. QED
    BY <1>1, <1>3, <2>1 DEF CountsAgree
<1>8. CASE ReturnCredit
  BY <1>1, <1>8 DEF ReturnCredit, CountsAgree, kernel, history
<1>9. CASE DrainOverflow
  BY <1>1, <1>9 DEF DrainOverflow, CountsAgree, kernel
<1>10. CASE UNCHANGED vars
  BY <1>1, <1>10 DEF vars, CountsAgree, kernel, history
<1>. QED
  BY <1>4, <1>5, <1>6, <1>7, <1>8, <1>9, <1>10 DEF Next, DropKernel, Passthrough

\* While packets are shorter than the threshold, total less dropped is the
\* number of packets that went or will go into the pipeline.
THEOREM CountsAlwaysAgree ==
  ASSUME MaxFlits < Threshold
  PROVE  Spec => []CountsAgree
<1>1. CInv => CountsAgree
  BY DEF CInv
<1>. QED
  BY <1>1, InitCInv, NextCInv, PTL DEF Spec
=============================================================================
