--------------------------- MODULE Collection_proofs ---------------------------
(***************************************************************************)
(* Proofs about Collection, for every number and length of packets, every  *)
(* depth of the streams, both host programs, and buffers of any size.      *)
(*                                                                         *)
(* The invariants come in layers; each layer uses the ones before:         *)
(*   Shape     types                                                       *)
(*   HostView  what the host has read is at most what is there now         *)
(*   Accounts  every packet that has left is in exactly one place          *)
(*   Stops     what holds once a stop register is set                      *)
(*   Marks     the results' end mark is behind all results                 *)
(*   Drained   the payload's end mark is behind all packs, and the buffers *)
(*             are handed over with it                                     *)
(*   Flow      the flits between the sink and the host are distinct        *)
(*   Order     and in whole packets                                        *)
(***************************************************************************)
EXTENDS Collection, SequenceTheorems, FiniteSetTheorems, TLAPS

-----------------------------------------------------------------------------
(***************************************************************************)
(* How many elements of a sequence are in a set, as packet ends are.       *)
(***************************************************************************)
\* The places of sequence s whose elements are in S, and how many they are.
PlacesIn(s, S) == {i \in 1 .. Len(s) : s[i] \in S}
CountIn(s, S) == Cardinality(PlacesIn(s, S))

\* A sequence has no more elements in S than it has elements.
LEMMA CountType ==
  ASSUME NEW T, NEW s \in Seq(T), NEW S
  PROVE  /\ IsFiniteSet(PlacesIn(s, S))
         /\ CountIn(s, S) \in Nat
         /\ CountIn(s, S) <= Len(s)
<1>1. Len(s) \in Nat
  OBVIOUS
<1>2. IsFiniteSet(1 .. Len(s)) /\ Cardinality(1 .. Len(s)) = Len(s)
  <2>1. 1 \in Int /\ Len(s) \in Int
    BY <1>1
  <2>2. IsFiniteSet(1 .. Len(s))
    BY <2>1, FS_Interval
  <2>3. Cardinality(1 .. Len(s)) = IF 1 > Len(s) THEN 0 ELSE Len(s) - 1 + 1
    BY <2>1, FS_Interval
  <2>. QED
    BY <1>1, <2>2, <2>3
<1>3. PlacesIn(s, S) \subseteq 1 .. Len(s)
  BY DEF PlacesIn
<1>4. /\ IsFiniteSet(PlacesIn(s, S))
      /\ Cardinality(PlacesIn(s, S)) <= Cardinality(1 .. Len(s))
  BY <1>2, <1>3, FS_Subset
<1>5. Cardinality(PlacesIn(s, S)) \in Nat
  BY <1>4, FS_CardinalityType
<1>. QED
  BY <1>2, <1>4, <1>5 DEF CountIn

\* The empty sequence has none.
LEMMA CountEmpty ==
  ASSUME NEW S
  PROVE  CountIn(<< >>, S) = 0
<1>1. PlacesIn(<< >>, S) = {}
  BY DEF PlacesIn
<1>. QED
  BY <1>1, FS_EmptySet DEF CountIn

\* The count is zero just when no element is in S.
LEMMA CountZero ==
  ASSUME NEW T, NEW s \in Seq(T), NEW S
  PROVE  CountIn(s, S) = 0 <=> \A i \in 1 .. Len(s) : s[i] \notin S
<1>1. IsFiniteSet(PlacesIn(s, S))
  BY CountType
<1>2. Cardinality(PlacesIn(s, S)) = 0 <=> PlacesIn(s, S) = {}
  BY <1>1, FS_EmptySet
<1>. QED
  BY <1>2 DEF CountIn, PlacesIn

\* What an element at the end adds.
LEMMA CountAppend ==
  ASSUME NEW T, NEW s \in Seq(T), NEW x \in T, NEW S
  PROVE  CountIn(Append(s, x), S) = CountIn(s, S) + (IF x \in S THEN 1 ELSE 0)
<1> DEFINE n == Len(s) + 1
<1>1. /\ Len(s) \in Nat /\ Len(Append(s, x)) = n /\ Append(s, x)[n] = x
      /\ \A i \in 1 .. Len(s) : Append(s, x)[i] = s[i]
  OBVIOUS
<1>2. IsFiniteSet(PlacesIn(s, S)) /\ CountIn(s, S) \in Nat
  BY CountType
<1>3. n \notin PlacesIn(s, S)
  BY <1>1 DEF PlacesIn
<1>4. CASE x \in S
  <2>1. PlacesIn(Append(s, x), S) = PlacesIn(s, S) \cup {n}
    BY <1>1, <1>4 DEF PlacesIn
  <2>2. Cardinality(PlacesIn(s, S) \cup {n}) = Cardinality(PlacesIn(s, S)) + 1
    BY <1>2, <1>3, FS_AddElement
  <2>. QED
    BY <1>4, <2>1, <2>2 DEF CountIn
<1>5. CASE x \notin S
  <2>1. PlacesIn(Append(s, x), S) = PlacesIn(s, S)
    BY <1>1, <1>5 DEF PlacesIn
  <2>. QED
    BY <1>2, <1>5, <2>1 DEF CountIn
<1>. QED
  BY <1>4, <1>5

\* The count of two sequences, one behind the other.
LEMMA CountConcat ==
  ASSUME NEW T, NEW s \in Seq(T), NEW t \in Seq(T), NEW S
  PROVE  CountIn(s \o t, S) = CountIn(s, S) + CountIn(t, S)
<1> DEFINE Moved == {Len(s) + i : i \in PlacesIn(t, S)}
           move  == [i \in PlacesIn(t, S) |-> Len(s) + i]
<1>1. /\ Len(s) \in Nat /\ Len(t) \in Nat /\ Len(s \o t) = Len(s) + Len(t)
      /\ \A i \in 1 .. Len(s) : (s \o t)[i] = s[i]
      /\ \A i \in 1 .. Len(t) : (s \o t)[Len(s) + i] = t[i]
  OBVIOUS
<1>2. /\ IsFiniteSet(PlacesIn(s, S)) /\ IsFiniteSet(PlacesIn(t, S))
      /\ CountIn(s, S) \in Nat /\ CountIn(t, S) \in Nat
  BY CountType
<1>3. PlacesIn(s \o t, S) = PlacesIn(s, S) \cup Moved
  <2>1. ASSUME NEW i \in PlacesIn(s \o t, S)
        PROVE  i \in PlacesIn(s, S) \cup Moved
    <3>1. i \in 1 .. Len(s) + Len(t) /\ (s \o t)[i] \in S
      BY <1>1 DEF PlacesIn
    <3>2. CASE i <= Len(s)
      BY <1>1, <3>1, <3>2 DEF PlacesIn
    <3>3. CASE i > Len(s)
      <4>1. i - Len(s) \in 1 .. Len(t) /\ i = Len(s) + (i - Len(s))
        BY <1>1, <3>1, <3>3
      <4>2. t[i - Len(s)] \in S
        BY <1>1, <3>1, <4>1
      <4>. QED
        BY <4>1, <4>2 DEF PlacesIn
    <3>. QED
      BY <1>1, <3>1, <3>2, <3>3
  <2>2. PlacesIn(s, S) \subseteq PlacesIn(s \o t, S)
    BY <1>1 DEF PlacesIn
  <2>3. Moved \subseteq PlacesIn(s \o t, S)
    BY <1>1 DEF PlacesIn
  <2>. QED
    BY <2>1, <2>2, <2>3
<1>4. PlacesIn(s, S) \cap Moved = {}
  BY <1>1 DEF PlacesIn
<1>5. move \in Bijection(PlacesIn(t, S), Moved)
  <2>1. \A i, j \in PlacesIn(t, S) : move[i] = move[j] => i = j
    BY <1>1 DEF PlacesIn
  <2>2. move \in [PlacesIn(t, S) -> Moved]
    OBVIOUS
  <2>3. \A y \in Moved : \E i \in PlacesIn(t, S) : move[i] = y
    OBVIOUS
  <2>. QED
    BY <2>1, <2>2, <2>3 DEF Bijection, Injection, Surjection, IsInjective
<1>6. IsFiniteSet(Moved) /\ Cardinality(Moved) = Cardinality(PlacesIn(t, S))
  BY <1>2, <1>5, FS_Bijection DEF ExistsBijection
<1>7. Cardinality(PlacesIn(s, S) \cup Moved)
        = Cardinality(PlacesIn(s, S)) + Cardinality(Moved) - Cardinality({})
  BY <1>2, <1>4, <1>6, FS_Union
<1>8. Cardinality({}) = 0
  BY FS_EmptySet
<1>. QED
  BY <1>2, <1>3, <1>6, <1>7, <1>8 DEF CountIn

\* What the first element adds.
LEMMA CountTail ==
  ASSUME NEW T, NEW s \in Seq(T), s # << >>, NEW S
  PROVE  CountIn(s, S) = (IF Head(s) \in S THEN 1 ELSE 0) + CountIn(Tail(s), S)
<1> DEFINE h == Head(s)
           t == Tail(s)
<1>1. h \in T /\ t \in Seq(T) /\ s = <<h>> \o t
  BY HeadTailProperties
<1>. HIDE DEF h, t
<1>2. << >> \in Seq(T) /\ <<h>> = Append(<< >>, h) /\ <<h>> \in Seq(T)
  BY <1>1
<1>3. CountIn(Append(<< >>, h), S) = CountIn(<< >>, S) + (IF h \in S THEN 1 ELSE 0)
  BY <1>1, <1>2, CountAppend
<1>4. CountIn(<<h>>, S) = IF h \in S THEN 1 ELSE 0
  BY <1>2, <1>3, CountEmpty
<1>5. CountIn(<<h>> \o t, S) = CountIn(<<h>>, S) + CountIn(t, S)
  BY <1>1, <1>2, CountConcat, Zenon
<1>6. CountIn(s, S) = CountIn(<<h>>, S) + CountIn(t, S)
  BY <1>1, <1>5, Zenon
<1>7. CountIn(s, S) = (IF h \in S THEN 1 ELSE 0) + CountIn(t, S)
  BY <1>4, <1>6, Zenon
<1>. QED
  BY <1>7 DEF h, t

-----------------------------------------------------------------------------
N == Len(FlitsOf)
Ends == {f \in Flit : f.eop}

PipelineShape ==
  /\ sent \in 0 .. N /\ sourceIdle \in BOOLEAN /\ left \in 0 .. sent
  /\ dropped \in Nat /\ smSafe \in Nat /\ nfSafe \in Nat
  /\ hostPipe \in Seq(Flit) /\ overflowPipe \in Seq(Flit) /\ resultPipe \in Seq(Packet)
  /\ mangled \subseteq {"lost", "endLost", "repeated"}

SinkShape ==
  /\ newPacket \in BOOLEAN /\ whichPipe \in BOOLEAN /\ payloadCount \in Nat
  /\ sinkDone \in BOOLEAN /\ sinkSeen \in BOOLEAN

WriterShape ==
  /\ packPipe \in Seq(Pack) /\ Len(packPipe) <= PipeDepth
  /\ writing \in BOOLEAN /\ overflow \in BOOLEAN /\ target \in {0, 1}
  /\ memory \in [{0, 1} -> Seq(Flit)]
  /\ header \in [{0, 1} -> [done : BOOLEAN, overflow : BOOLEAN]]

ResultShape ==
  /\ resultCount \in Nat /\ resultSeen \in BOOLEAN
  /\ tracePipe \in Seq(ResultWrite) /\ Len(tracePipe) <= PipeDepth
  /\ tracing \in BOOLEAN /\ trace \in Seq({0} \union Packet)

HostShape ==
  /\ payloadStop \in BOOLEAN /\ resultStop \in BOOLEAN
  /\ program \in {"host_producer", "host"} /\ warned \in BOOLEAN
  /\ pc \in {"collect", "read", "poll", "stopPayload", "stopRules", "end"}
  /\ register \in 1 .. 9
  /\ payloadStopped \in BOOLEAN /\ rulesStopped \in BOOLEAN /\ done \in BOOLEAN
  /\ collected \in Seq(Flit)

Shape == PipelineShape /\ SinkShape /\ WriterShape /\ ResultShape /\ HostShape

(***************************************************************************)
(* Counts only grow, so what the host has read is no more than what is     *)
(* there.  The number of packets sent is read after the source was seen    *)
(* idle, and is then final.                                                *)
(***************************************************************************)
Counts == {"dropped", "sent", "smSafe", "nfSafe", "resultCount", "payloadCount"}

HostView ==
  /\ DOMAIN seen = {"source", "rules", "payload"} \cup Counts
  /\ \A r \in Counts : seen[r] \in Nat
  /\ seen["source"] \in BOOLEAN /\ seen["rules"] \in BOOLEAN
  /\ seen["sent"] <= sent /\ seen["dropped"] <= dropped
  /\ seen["smSafe"] <= smSafe /\ seen["nfSafe"] <= nfSafe
  /\ seen["resultCount"] <= resultCount /\ seen["payloadCount"] <= payloadCount
  /\ sourceIdle => sent = N
  /\ seen["source"] => sourceIdle
  /\ seen["source"] /\ (pc = "poll" => register > 5) => seen["sent"] = N
  /\ seen["rules"] => ~tracing /\ rulesStopped
  /\ pc = "end" => ~tracing /\ rulesStopped
  /\ program = "host" => pc \notin {"collect", "read"} /\ ~done

(***************************************************************************)
(* A packet that has left was dropped, is safe, or has its result on the   *)
(* way or counted.                                                         *)
(***************************************************************************)
Tallied == dropped + smSafe + nfSafe + resultCount + Len(resultPipe) = left

(***************************************************************************)
(* It is also safe, has been counted by the payload sink, or has its end   *)
(* on the way to it.  Where ends are lost this sum falls behind, and never *)
(* agrees again; where a fragment is repeated it may run ahead.            *)
(***************************************************************************)
Sum == smSafe + nfSafe + payloadCount + CountIn(hostPipe, Ends) + CountIn(overflowPipe, Ends)

EndsInEop(s) == s # << >> => s[Len(s)].eop

Accounts ==
  /\ Sum <= left
  /\ EndsInEop(hostPipe)
  /\ Sum = left => EndsInEop(overflowPipe)
  /\ ~newPacket /\ ~whichPipe => hostPipe # << >>
  /\ ~newPacket /\ whichPipe /\ Sum = left => overflowPipe # << >>

AllPacked ==
  /\ sourceIdle /\ left = N /\ sent = N
  /\ smSafe + nfSafe + payloadCount = N
  /\ hostPipe = << >> /\ overflowPipe = << >> /\ newPacket

AllRuled == sourceIdle /\ left = N /\ sent = N /\ resultPipe = << >>

Stops ==
  /\ payloadStopped = payloadStop /\ rulesStopped = resultStop
  /\ payloadStop /\ ~Repeated => AllPacked
  /\ resultStop => AllRuled
  /\ program = "host" /\ payloadStop => AllRuled

(***************************************************************************)
(* Results.                                                                *)
(***************************************************************************)
Results == {w \in ResultWrite : w.pkt # 0}

Marks ==
  /\ ~SkipResults => CountIn(trace, Packet) + CountIn(tracePipe, Results) = resultCount
  /\ resultSeen => resultStop
  /\ \A i \in 1 .. Len(tracePipe) :
       tracePipe[i].terminate => i = Len(tracePipe) /\ resultSeen
  /\ ~tracing => tracePipe = << >> /\ resultSeen

(***************************************************************************)
(* The payload's end mark.  A header that has it, or one with an overflow  *)
(* bit that the host has not read, is the one of the buffer that the host  *)
(* reads next.                                                             *)
(***************************************************************************)
EndMark == [data |-> Nothing, done |-> TRUE]

Unreported(b) == header[b].overflow /\ ~warned

Final == payloadStop /\ sinkSeen /\ packPipe = << >>

EndMarkLast ==
  /\ sinkDone => payloadStop
  /\ sinkSeen => payloadStop
  /\ \A i \in 1 .. Len(packPipe) :
       packPipe[i].done \/ packPipe[i].data = Nothing =>
         packPipe[i] = EndMark /\ i = Len(packPipe) /\ sinkSeen

NothingAfter(b) ==
  memory[b] = << >> /\ ~overflow /\ ~Unreported(b)

EndHandedOver ==
  /\ \A b \in {0, 1} : header[b].done /\ ~SkipWrite =>
       /\ Final
       /\ b = target => ~writing
       /\ b # target => (pc = "read" \/ done) /\ NothingAfter(target)
  /\ done => /\ Final /\ pc \notin {"collect", "read"}
             /\ NothingAfter(target) /\ ~Unreported(1 - target)

FullHandedOver ==
  /\ \A b \in {0, 1} : Unreported(b) => IF b = target THEN ~writing ELSE pc = "read"
  /\ overflow /\ ~writing => header[target].overflow

\* A buffer that the host has read is empty.
BufferRead == pc # "read" => memory[1 - target] = << >>

Drained == EndMarkLast /\ EndHandedOver /\ FullHandedOver /\ BufferRead

(***************************************************************************)
(* No flit is twice in what is packed and in the streams to the sink, and  *)
(* what has been packed has as many ends as the sink has counted.          *)
(***************************************************************************)
Apart(s, t) == \A i \in 1 .. Len(s), j \in 1 .. Len(t) : s[i] # t[j]
NotBeyond(s, p) == \A i \in 1 .. Len(s) : s[i].pkt <= p

Separate(p, h, o, l) ==
  /\ IsInjective(p) /\ IsInjective(h) /\ IsInjective(o)
  /\ Apart(p, h) /\ Apart(p, o) /\ Apart(h, o)
  /\ NotBeyond(p, l) /\ NotBeyond(h, l) /\ NotBeyond(o, l)

Flow ==
  SkipWrite \/ Overflowed \/
    (CountIn(Packed, Ends) = payloadCount /\ Separate(Packed, hostPipe, overflowPipe, left))

(***************************************************************************)
(* Each stream is a chain of whole packets, and the sink's output goes on  *)
(* in the stream it is in.                                                 *)
(***************************************************************************)
Next1(f, g) == IF f.eop THEN g.idx = 1 ELSE g.pkt = f.pkt /\ g.idx = f.idx + 1
Chain(s) == \A i \in 1 .. Len(s) - 1 : Next1(s[i], s[i + 1])

StartsPacket(s) == s # << >> => s[1].idx = 1

OrderIn ==
  /\ Chain(hostPipe) /\ Chain(overflowPipe)
  /\ EndsInEop(overflowPipe)
  /\ newPacket \/ whichPipe => StartsPacket(hostPipe)
  /\ newPacket \/ ~whichPipe => StartsPacket(overflowPipe)
  /\ ~newPacket /\ whichPipe => overflowPipe # << >>

OrderOut ==
  /\ Chain(Packed) /\ StartsPacket(Packed)
  /\ newPacket => EndsInEop(Packed)
  /\ ~newPacket =>
       /\ Packed # << >>
       /\ Next1(Packed[Len(Packed)], IF whichPipe THEN overflowPipe[1] ELSE hostPipe[1])

Order == OrderIn /\ (SkipWrite \/ Overflowed \/ OrderOut)

-----------------------------------------------------------------------------
(***************************************************************************)
(* The flits of a packet.                                                  *)
(***************************************************************************)
LEMMA LengthsType == N \in Nat /\ Packet = 1 .. N /\ \A p \in Packet : FlitsOf[p] \in Nat \ {0}
BY CollectionAssumption DEF N, Packet

LEMMA PacketFlits ==
  ASSUME NEW p \in Packet
  PROVE  /\ FlitsOfPacket(p) \in Seq(Flit)
         /\ Len(FlitsOfPacket(p)) = FlitsOf[p]
         /\ \A i \in 1 .. FlitsOf[p] :
              FlitsOfPacket(p)[i] = [pkt |-> p, idx |-> i, eop |-> i = FlitsOf[p]]
<1>1. FlitsOf[p] \in Nat \ {0}
  BY LengthsType
<1>2. ASSUME NEW i \in 1 .. FlitsOf[p]
      PROVE  [pkt |-> p, idx |-> i, eop |-> i = FlitsOf[p]] \in Flit
  <2> DEFINE e == (i = FlitsOf[p])
  <2>1. e \in BOOLEAN /\ i \in Nat \ {0} /\ i <= FlitsOf[p]
    BY <1>1
  <2>2. e <=> i = FlitsOf[p]
    OBVIOUS
  <2>. HIDE DEF e
  <2>3. [pkt |-> p, idx |-> i, eop |-> e] \in [pkt : Packet, idx : Nat \ {0}, eop : BOOLEAN]
    BY <2>1
  <2>4. [pkt |-> p, idx |-> i, eop |-> e] \in Flit
    BY <2>1, <2>2, <2>3 DEF Flit
  <2>. QED
    BY <2>4 DEF e
<1>. QED
  BY <1>1, <1>2 DEF FlitsOfPacket

\* What may arrive of them once each.
Arrivals(p) == {FlitsOfPacket(p)} \cup Losses(FlitsOfPacket(p))

LEMMA ArrivedFlits ==
  ASSUME NEW p \in Packet, NEW t \in Arrivals(p)
  PROVE  /\ t \in Seq(Flit)
         /\ \A i \in 1 .. Len(t) : t[i].pkt = p
         /\ \A i, j \in 1 .. Len(t) : i < j => t[i].idx < t[j].idx
<1> DEFINE s == FlitsOfPacket(p)
<1>1. /\ FlitsOf[p] \in Nat \ {0} /\ Len(s) = FlitsOf[p] /\ s \in Seq(Flit)
      /\ \A i \in 1 .. Len(s) : s[i] = [pkt |-> p, idx |-> i, eop |-> i = FlitsOf[p]]
  BY LengthsType, PacketFlits
<1>2. \A i \in 1 .. Len(s) : s[i] \in Flit /\ s[i].pkt = p /\ s[i].idx = i
  <2>1. TAKE i \in 1 .. Len(s)
  <2> DEFINE e == (i = FlitsOf[p])
  <2>2. s[i] = [pkt |-> p, idx |-> i, eop |-> e]
    BY <1>1
  <2>3. s[i] \in Flit
    BY <1>1
  <2>. HIDE DEF e, s
  <2>. QED
    BY <2>2, <2>3
<1>3. CASE t = s
  <2>1. \A i, j \in 1 .. Len(s) : i < j => s[i].idx < s[j].idx
    BY <1>2
  <2>. HIDE DEF s
  <2>. QED
    BY <1>1, <1>2, <1>3, <2>1
<1>4. CASE t \in Losses(s)
  <2>1. /\ t \in SeqOf(Range(s), Len(s))
        /\ \A i, j \in DOMAIN t : i < j => t[i].idx < t[j].idx
    BY <1>4 DEF Losses
  <2>. HIDE DEF s
  <2>2. PICK m \in 0 .. Len(s) : t \in [1 .. m -> Range(s)]
    BY <2>1 DEF SeqOf
  <2>3. Len(s) \in Nat /\ m \in Nat /\ DOMAIN s = 1 .. Len(s)
    BY <1>1
  <2>4. ASSUME NEW i \in 1 .. m
        PROVE  t[i] \in Flit /\ t[i].pkt = p
    <3>1. t[i] \in Range(s)
      BY <2>2
    <3>2. PICK k \in 1 .. Len(s) : t[i] = s[k]
      BY <2>3, <3>1 DEF Range
    <3>. QED
      BY <1>2, <3>2
  <2>5. t \in Seq(Flit) /\ Len(t) = m /\ DOMAIN t = 1 .. m
    BY <2>2, <2>3, <2>4
  <2>. QED
    BY <2>1, <2>4, <2>5
<1>. QED
  BY <1>3, <1>4 DEF Arrivals

\* The last of them is the packet's end, if that has arrived.
EndArrived(t) == t # << >> /\ Last(t).eop

LEMMA ArrivedEnds ==
  ASSUME NEW p \in Packet, NEW t \in Arrivals(p)
  PROVE  CountIn(t, Ends) = IF EndArrived(t) THEN 1 ELSE 0
<1>1. /\ t \in Seq(Flit) /\ Len(t) \in Nat
      /\ \A i \in 1 .. Len(t) : t[i].pkt = p /\ t[i] \in Flit
      /\ \A i, j \in 1 .. Len(t) : i < j => t[i].idx < t[j].idx
  BY ArrivedFlits
<1>2. \A i \in 1 .. Len(t) : /\ t[i].idx \in Nat /\ t[i].idx <= FlitsOf[p]
                             /\ t[i].eop <=> t[i].idx = FlitsOf[p]
  BY <1>1 DEF Flit
<1>3. ASSUME NEW i \in 1 .. Len(t), t[i].eop
      PROVE  i = Len(t)
  <2>1. Len(t) \in 1 .. Len(t) /\ FlitsOf[p] \in Nat
    BY <1>1, LengthsType
  <2>2. t[i].idx = FlitsOf[p] /\ t[Len(t)].idx <= FlitsOf[p] /\ t[Len(t)].idx \in Nat
    BY <1>2, <1>3, <2>1
  <2>3. ~(t[i].idx < t[Len(t)].idx)
    BY <2>1, <2>2
  <2>. QED
    BY <1>1, <2>1, <2>3
<1>4. t # << >> => Len(t) \in 1 .. Len(t) /\ Last(t) = t[Len(t)]
  BY <1>1 DEF Last
<1>5. CASE EndArrived(t)
  <2>1. PlacesIn(t, Ends) = {Len(t)}
    BY <1>1, <1>3, <1>4, <1>5 DEF PlacesIn, EndArrived, Ends
  <2>. QED
    BY <1>5, <2>1, FS_Singleton DEF CountIn
<1>6. CASE ~EndArrived(t)
  <2>1. \A i \in 1 .. Len(t) : t[i] \notin Ends
    <3>1. SUFFICES ASSUME NEW i \in 1 .. Len(t), t[i].eop PROVE FALSE
      BY DEF Ends
    <3>2. i = Len(t) /\ t # << >>
      BY <1>3, <3>1
    <3>. QED
      BY <1>4, <1>6, <3>1, <3>2 DEF EndArrived
  <2>. QED
    BY <1>1, <1>6, <2>1, CountZero
<1>. QED
  BY <1>5, <1>6

LEMMA PacketArrives ==
  ASSUME NEW p \in Packet
  PROVE  FlitsOfPacket(p) \in Arrivals(p) /\ EndArrived(FlitsOfPacket(p))
<1> DEFINE t == FlitsOfPacket(p)
           e == (FlitsOf[p] = FlitsOf[p])
<1>1. /\ FlitsOf[p] \in Nat \ {0} /\ t \in Seq(Flit) /\ Len(t) = FlitsOf[p]
      /\ t[FlitsOf[p]] = [pkt |-> p, idx |-> FlitsOf[p], eop |-> e]
  BY LengthsType, PacketFlits
<1>2. e
  OBVIOUS
<1>. HIDE DEF t, e
<1>3. t # << >> /\ t[Len(t)].eop
  BY <1>1, <1>2
<1>. QED
  BY <1>3 DEF t, Arrivals, EndArrived, Last

\* A dropped packet's flits arrive, some of them or all, or some come twice.
LEMMA Dropping ==
  ASSUME Drop, ~Repeated'
  PROVE  \E t \in Arrivals(left + 1) :
           /\ overflowPipe' = overflowPipe \o t
           /\ mangled' = {} => t = FlitsOfPacket(left + 1)
<1> DEFINE s == FlitsOfPacket(left + 1)
<1>1. CASE overflowPipe' = overflowPipe \o s
  BY <1>1 DEF Arrivals
<1>2. CASE \E kept \in Losses(s) :
             /\ overflowPipe' = overflowPipe \o kept
             /\ mangled' = mangled \union (IF kept # << >> /\ Last(kept).eop
                                           THEN {"lost"} ELSE {"lost", "endLost"})
  <2>1. mangled' # {}
    BY <1>2
  <2>2. PICK kept \in Losses(s) : overflowPipe' = overflowPipe \o kept
    BY <1>2
  <2>. QED
    BY <2>1, <2>2 DEF Arrivals
<1>3. CASE \E again \in Repeats(s) :
             /\ overflowPipe' = overflowPipe \o again
             /\ mangled' = mangled \union {"repeated"}
  BY <1>3 DEF Repeated
<1>. QED
  BY <1>1, <1>2, <1>3, Zenon DEF Drop

LEMMA RepeatsType ==
  ASSUME NEW p \in Packet, NEW t \in Repeats(FlitsOfPacket(p))
  PROVE  t \in Seq(Flit)
<1> DEFINE s == FlitsOfPacket(p)
<1>1. s \in Seq(Flit) /\ Len(s) \in Nat /\ DOMAIN s = 1 .. Len(s)
  BY PacketFlits
<1>. HIDE DEF s
<1>2. PICK j \in 1 .. Len(s), i \in 1 .. Len(s) : t = SubSeq(s, 1, j) \o SubSeq(s, i, Len(s))
  <2>1. t \in UNION {{SubSeq(s, 1, j) \o SubSeq(s, i, Len(s)) : i \in 1 .. j} : j \in 1 .. Len(s)}
    BY <1>1 DEF Repeats, s
  <2>2. PICK j \in 1 .. Len(s) : t \in {SubSeq(s, 1, j) \o SubSeq(s, i, Len(s)) : i \in 1 .. j}
    BY <2>1
  <2>3. PICK i \in 1 .. j : t = SubSeq(s, 1, j) \o SubSeq(s, i, Len(s))
    BY <2>2
  <2>4. i \in 1 .. Len(s)
    BY <1>1
  <2>. QED
    BY <2>3, <2>4
<1>3. \A k \in 1 .. Len(s) : s[k] \in Flit
  BY <1>1
<1>4. SubSeq(s, 1, j) \in Seq(Flit) /\ SubSeq(s, i, Len(s)) \in Seq(Flit)
  BY <1>1, <1>3
<1>. QED
  BY <1>2, <1>4, ConcatProperties

LEMMA NothingIsNoFlit == Nothing \notin Flit
BY LengthsType DEF Nothing, Flit

LEMMA FlitFields ==
  ASSUME NEW f \in Flit
  PROVE  f.pkt \in Packet /\ f.idx \in Nat \ {0} /\ f.eop \in BOOLEAN
BY DEF Flit

LEMMA PackFields ==
  ASSUME NEW w \in Pack
  PROVE  /\ w.done \in BOOLEAN /\ w = [data |-> w.data, done |-> w.done]
         /\ w.data \in Flit \/ (w.data = Nothing /\ w.done)
         /\ ~w.done => w.data \in Flit
BY DEF Pack

-----------------------------------------------------------------------------
(***************************************************************************)
(* Types.                                                                  *)
(***************************************************************************)
LEMMA InitShape == Init => Shape
<1>. SUFFICES ASSUME Init PROVE Shape
  OBVIOUS
<1>0. /\ << >> \in Seq(Flit) /\ << >> \in Seq(Packet) /\ << >> \in Seq(Pack)
      /\ << >> \in Seq(ResultWrite) /\ << >> \in Seq({0} \cup Packet)
      /\ Len(<< >>) <= PipeDepth /\ N \in Nat
  BY LengthsType, CollectionAssumption
<1>1. PipelineShape
  BY <1>0 DEF Init, PipelineShape
<1>2. SinkShape
  BY DEF Init, SinkShape
<1>3. WriterShape
  <2>1. memory \in [{0, 1} -> Seq(Flit)]
    BY <1>0 DEF Init
  <2>2. header \in [{0, 1} -> [done : BOOLEAN, overflow : BOOLEAN]]
    BY DEF Init
  <2>3. packPipe = << >> /\ writing = TRUE /\ overflow = FALSE /\ target = 0
    BY DEF Init
  <2>. QED
    BY <1>0, <2>1, <2>2, <2>3 DEF WriterShape
<1>4. ResultShape
  <2>1. /\ resultCount = 0 /\ resultSeen = FALSE /\ tracePipe = << >>
        /\ tracing = TRUE /\ trace = << >>
    BY DEF Init
  <2>. QED
    BY <1>0, <2>1 DEF ResultShape
<1>5. HostShape
  <2>1. /\ payloadStop = FALSE /\ resultStop = FALSE /\ warned = FALSE
        /\ program \in {"host_producer", "host"} /\ register = 1
        /\ payloadStopped = FALSE /\ rulesStopped = FALSE /\ done = FALSE
        /\ collected = << >>
    BY DEF Init
  <2>2. pc \in {"collect", "read", "poll", "stopPayload", "stopRules", "end"}
    BY DEF Init
  <2>3. register \in 1 .. 9
    BY <2>1
  <2>4. collected \in Seq(Flit)
    BY <1>0, <2>1, Zenon
  <2>5. /\ warned \in BOOLEAN /\ payloadStop \in BOOLEAN /\ resultStop \in BOOLEAN
        /\ payloadStopped \in BOOLEAN /\ rulesStopped \in BOOLEAN /\ done \in BOOLEAN
    BY <2>1
  <2>. QED
    BY <2>1, <2>2, <2>3, <2>4, <2>5, Zenon DEF HostShape
<1>. QED
  BY <1>1, <1>2, <1>3, <1>4, <1>5 DEF Shape

\* A part whose variables stay keeps its types.
LEMMA PipelineKept == PipelineShape /\ UNCHANGED <<pipeline, streams>> => PipelineShape'
BY DEF PipelineShape, pipeline, streams
LEMMA SinkKept == SinkShape /\ UNCHANGED payloadSink => SinkShape'
BY DEF SinkShape, payloadSink
LEMMA WriterKept == WriterShape /\ UNCHANGED <<packPipe, writer>> => WriterShape'
BY DEF WriterShape, writer
LEMMA ResultKept == ResultShape /\ UNCHANGED <<resultSink, tracePipe, tracer>> => ResultShape'
BY DEF ResultShape, resultSink, tracer
LEMMA HostKept == HostShape /\ UNCHANGED <<stops, host>> => HostShape'
BY DEF HostShape, stops, host

LEMMA ArriveShape == Shape /\ Arrive => Shape'
<1>. SUFFICES ASSUME Shape, Arrive PROVE Shape'
  OBVIOUS
<1>1. PipelineShape'
  <2>1. UNCHANGED <<left, dropped, smSafe, nfSafe, mangled, hostPipe, overflowPipe,
                    resultPipe>>
    BY DEF Arrive, Send, SourceEnds, streams
  <2>2. sent' \in 0 .. N /\ sent' >= sent /\ sourceIdle' \in BOOLEAN
    <3>1. CASE Send
      BY <3>1, LengthsType DEF Send, Shape, PipelineShape, N
    <3>2. CASE SourceEnds
      BY <3>2, LengthsType DEF SourceEnds, Shape, PipelineShape
    <3>. QED
      BY <3>1, <3>2 DEF Arrive
  <2>3. left' \in 0 .. sent'
    BY <2>1, <2>2, LengthsType DEF Shape, PipelineShape
  <2>. QED
    BY <2>1, <2>2, <2>3 DEF Shape, PipelineShape
<1>2. SinkShape' /\ WriterShape'
  <2>1. UNCHANGED <<payloadSink, packPipe, writer>>
    BY DEF Arrive, Send, SourceEnds
  <2>. QED
    BY <2>1, SinkKept, WriterKept DEF Shape
<1>3. ResultShape' /\ HostShape'
  <2>1. UNCHANGED <<resultSink, tracePipe, tracer, stops, host>>
    BY DEF Arrive, Send, SourceEnds
  <2>. QED
    BY <2>1, ResultKept, HostKept DEF Shape
<1>. QED
  BY <1>1, <1>2, <1>3 DEF Shape

LEMMA LeaveShape == Shape /\ Leave => Shape'
<1>. SUFFICES ASSUME Shape, Leave PROVE Shape'
  OBVIOUS
<1>0. /\ left + 1 \in Packet /\ left' \in 0 .. sent' /\ UNCHANGED <<sent, sourceIdle>>
  BY LengthsType DEF Leave, Shape, PipelineShape
<1>1. FlitsOfPacket(left + 1) \in Seq(Flit)
  BY <1>0, PacketFlits
<1>2. /\ dropped' \in Nat /\ smSafe' \in Nat /\ nfSafe' \in Nat
      /\ hostPipe' \in Seq(Flit) /\ overflowPipe' \in Seq(Flit)
      /\ resultPipe' \in Seq(Packet)
  <2>1. CASE Drop
    <3>1. \E t \in Arrivals(left + 1) \cup Repeats(FlitsOfPacket(left + 1)) :
            overflowPipe' = overflowPipe \o t
      BY <2>1, Zenon DEF Drop, Arrivals
    <3>2. PICK t \in Seq(Flit) : overflowPipe' = overflowPipe \o t
      BY <1>0, <3>1, ArrivedFlits, RepeatsType
    <3>3. overflowPipe \in Seq(Flit)
      BY DEF Shape, PipelineShape
    <3>4. overflowPipe' \in Seq(Flit)
      BY <3>2, <3>3, ConcatProperties
    <3>. QED
      BY <2>1, <3>4 DEF Drop, Shape, PipelineShape
  <2>2. CASE Safe
    BY <2>2 DEF Safe, Shape, PipelineShape, streams
  <2>3. CASE Hit
    BY <1>0, <1>1, <2>3 DEF Hit, Shape, PipelineShape
  <2>. QED
    BY <2>1, <2>2, <2>3 DEF Leave
<1>3. PipelineShape'
  <2>1. mangled' \subseteq {"lost", "endLost", "repeated"}
    BY Zenon DEF Leave, Drop, Safe, Hit, Shape, PipelineShape
  <2>. QED
    BY <1>0, <1>2, <2>1 DEF Shape, PipelineShape
<1>4. SinkShape' /\ WriterShape'
  <2>1. UNCHANGED <<payloadSink, packPipe, writer>>
    BY DEF Leave
  <2>. QED
    BY <2>1, SinkKept, WriterKept DEF Shape
<1>5. ResultShape' /\ HostShape'
  <2>1. UNCHANGED <<resultSink, tracePipe, tracer, stops, host>>
    BY DEF Leave
  <2>. QED
    BY <2>1, ResultKept, HostKept DEF Shape
<1>. QED
  BY <1>3, <1>4, <1>5 DEF Shape

LEMMA SinkShapeKept == Shape /\ PayloadSink => Shape'
<1>. SUFFICES ASSUME Shape, PayloadSink PROVE Shape'
  OBVIOUS
<1>1. ASSUME NEW f \in Flit, SinkPacks(f), whichPipe' \in BOOLEAN
      PROVE  SinkShape' /\ WriterShape'
  <2>1. [data |-> f, done |-> sinkDone] \in Pack
    BY DEF Shape, SinkShape, Pack
  <2>2. packPipe' \in Seq(Pack) /\ Len(packPipe') <= PipeDepth
    BY <1>1, <2>1, CollectionAssumption DEF SinkPacks, Shape, WriterShape
  <2>3. WriterShape'
    BY <1>1, <2>2 DEF SinkPacks, writer, Shape, WriterShape
  <2>4. SinkShape'
    BY <1>1, FlitFields
       DEF SinkPacks, SinkEnds, CountsEnd, stops, Shape, SinkShape, HostShape
  <2>. QED
    BY <2>3, <2>4
<1>2. /\ hostPipe # << >> => Head(hostPipe) \in Flit /\ Tail(hostPipe) \in Seq(Flit)
      /\ overflowPipe # << >> => Head(overflowPipe) \in Flit /\ Tail(overflowPipe) \in Seq(Flit)
  BY DEF Shape, PipelineShape
<1>3. PipelineShape'
  BY <1>2 DEF PayloadSink, SinkTakesHit, SinkTakesDropped, SinkTakesNothing, SinkPacks,
              Shape, PipelineShape, pipeline, streams
<1>4. ResultShape' /\ HostShape'
  <2>1. UNCHANGED <<resultSink, tracePipe, tracer, stops, host>>
    BY DEF PayloadSink, SinkTakesHit, SinkTakesDropped, SinkTakesNothing, SinkPacks
  <2>. QED
    BY <2>1, ResultKept, HostKept DEF Shape
<1>5. CASE SinkTakesHit
  BY <1>1, <1>2, <1>3, <1>4, <1>5 DEF SinkTakesHit, Shape
<1>6. CASE SinkTakesDropped
  BY <1>1, <1>2, <1>3, <1>4, <1>6 DEF SinkTakesDropped, Shape
<1>7. CASE SinkTakesNothing
  <2>1. [data |-> Nothing, done |-> TRUE] \in Pack
    BY DEF Pack
  <2>2. packPipe' \in Seq(Pack) /\ Len(packPipe') <= PipeDepth
    BY <1>7, <2>1, CollectionAssumption DEF SinkTakesNothing, Shape, WriterShape
  <2>3. WriterShape'
    BY <1>7, <2>2 DEF SinkTakesNothing, writer, Shape, WriterShape
  <2>4. SinkShape'
    BY <1>7 DEF SinkTakesNothing, SinkEnds, Shape, SinkShape, HostShape
  <2>. QED
    BY <1>3, <1>4, <2>3, <2>4 DEF Shape
<1>. QED
  BY <1>5, <1>6, <1>7 DEF PayloadSink

LEMMA WindowEndsShape ==
  ASSUME Shape, NEW d \in BOOLEAN, NEW o \in BOOLEAN, WindowEnds(d, o)
  PROVE  /\ writing' \in BOOLEAN
         /\ header' \in [{0, 1} -> [done : BOOLEAN, overflow : BOOLEAN]]
BY DEF WindowEnds, Shape, WriterShape

LEMMA WriterShapeKept == Shape /\ (WritePack \/ CyclesOver) => Shape'
<1>. SUFFICES ASSUME Shape, WritePack \/ CyclesOver PROVE Shape'
  OBVIOUS
<1>1. Full \in BOOLEAN /\ target \in {0, 1}
  BY DEF Full, Shape, WriterShape
<1>2. PipelineShape' /\ SinkShape'
  <2>1. UNCHANGED <<pipeline, streams, payloadSink>>
    BY DEF WritePack, CyclesOver
  <2>. QED
    BY <2>1, PipelineKept, SinkKept DEF Shape
<1>3. ResultShape' /\ HostShape'
  <2>1. UNCHANGED <<resultSink, tracePipe, tracer, stops, host>>
    BY DEF WritePack, CyclesOver
  <2>. QED
    BY <2>1, ResultKept, HostKept DEF Shape
<1>4. overflow' \in BOOLEAN /\ target' = target
  BY <1>1 DEF WritePack, CyclesOver, Shape, WriterShape
<1>5. CASE WritePack
  <2>1. /\ Head(packPipe) \in Pack /\ Tail(packPipe) \in Seq(Pack)
        /\ Len(Tail(packPipe)) = Len(packPipe) - 1 /\ Len(packPipe) \in Nat
    BY <1>5 DEF WritePack, Shape, WriterShape
  <2>2. packPipe' \in Seq(Pack) /\ Len(packPipe') <= PipeDepth
    BY <1>5, <2>1, CollectionAssumption DEF WritePack, Shape, WriterShape
  <2>3. CASE Head(packPipe).done /\ WindowEnds(TRUE, overflow') /\ UNCHANGED memory
    BY <1>2, <1>3, <1>4, <2>2, <2>3, WindowEndsShape DEF Shape, WriterShape
  <2>4. CASE /\ ~Head(packPipe).done
             /\ memory' = IF Thrown THEN memory
                          ELSE [memory EXCEPT ![target] = Append(@, Head(packPipe).data)]
             /\ UNCHANGED <<writing, header>>
    <3>1. Head(packPipe).data \in Flit
      BY <2>1, <2>4, PackFields
    <3>2. memory' \in [{0, 1} -> Seq(Flit)]
      BY <1>1, <2>4, <3>1 DEF Shape, WriterShape
    <3>. QED
      BY <1>2, <1>3, <1>4, <2>2, <2>4, <3>2 DEF Shape, WriterShape
  <2>. QED
    BY <1>5, <2>3, <2>4 DEF WritePack
<1>6. CASE CyclesOver
  BY <1>2, <1>3, <1>4, <1>6, WindowEndsShape DEF CyclesOver, Shape, WriterShape
<1>. QED
  BY <1>5, <1>6

LEMMA ResultShapeKept == Shape /\ (ResultSink \/ WriteResult) => Shape'
<1>. SUFFICES ASSUME Shape, ResultSink \/ WriteResult PROVE Shape'
  OBVIOUS
<1>1. SinkShape' /\ WriterShape'
  <2>1. UNCHANGED <<payloadSink, packPipe, writer>>
    BY DEF ResultSink, SinkResult, SinkResultEnd, WriteResult
  <2>. QED
    BY <2>1, SinkKept, WriterKept DEF Shape
<1>2. HostShape'
  <2>1. UNCHANGED <<stops, host>>
    BY DEF ResultSink, SinkResult, SinkResultEnd, WriteResult
  <2>. QED
    BY <2>1, HostKept DEF Shape
<1>3. resultPipe # << >> => Head(resultPipe) \in Packet /\ Tail(resultPipe) \in Seq(Packet)
  BY DEF Shape, PipelineShape
<1>4. PipelineShape'
  BY <1>3 DEF ResultSink, SinkResult, SinkResultEnd, WriteResult, pipeline, streams,
              Shape, PipelineShape
<1>5. CASE SinkResult
  <2>1. [pkt |-> Head(resultPipe), terminate |-> resultStop] \in ResultWrite
    BY <1>3, <1>5 DEF SinkResult, ResultWrite, Shape, HostShape
  <2>2. tracePipe' \in Seq(ResultWrite) /\ Len(tracePipe') <= PipeDepth
    BY <1>5, <2>1, CollectionAssumption DEF SinkResult, Shape, ResultShape
  <2>3. ResultShape'
    BY <1>5, <2>2 DEF SinkResult, tracer, Shape, ResultShape, HostShape
  <2>. QED
    BY <1>1, <1>2, <1>4, <2>3 DEF Shape
<1>6. CASE SinkResultEnd
  <2>1. [pkt |-> 0, terminate |-> TRUE] \in ResultWrite
    BY DEF ResultWrite
  <2>2. tracePipe' \in Seq(ResultWrite) /\ Len(tracePipe') <= PipeDepth
    BY <1>6, <2>1, CollectionAssumption DEF SinkResultEnd, Shape, ResultShape
  <2>3. ResultShape'
    BY <1>6, <2>2 DEF SinkResultEnd, tracer, Shape, ResultShape
  <2>. QED
    BY <1>1, <1>2, <1>4, <2>3 DEF Shape
<1>7. CASE WriteResult
  <2>1. /\ Head(tracePipe) \in ResultWrite /\ Tail(tracePipe) \in Seq(ResultWrite)
        /\ Len(Tail(tracePipe)) = Len(tracePipe) - 1 /\ Len(tracePipe) \in Nat
    BY <1>7 DEF WriteResult, Shape, ResultShape
  <2>2. /\ Head(tracePipe).pkt \in {0} \cup Packet /\ Head(tracePipe).terminate \in BOOLEAN
    BY <2>1 DEF ResultWrite
  <2>3. ResultShape'
    BY <1>7, <2>1, <2>2, CollectionAssumption
       DEF WriteResult, resultSink, Shape, ResultShape
  <2>. QED
    BY <1>1, <1>2, <1>4, <2>3 DEF Shape
<1>. QED
  BY <1>5, <1>6, <1>7 DEF ResultSink

\* The least of a set of registers is one of them.
LEMMA RegisterMin ==
  ASSUME NEW S \in SUBSET (1 .. 9), S # {}
  PROVE  Min(S) \in S /\ \A k \in S : Min(S) <= k
<1>1. ASSUME NEW m \in 1 .. 9, m \in S, \A k \in 1 .. 9 : k < m => k \notin S
      PROVE  \E x \in S : \A y \in S : x <= y
  BY <1>1
<1>2. \E x \in S : \A y \in S : x <= y
  <2>1. \/ 1 \in S \/ 2 \in S \/ 3 \in S \/ 4 \in S \/ 5 \in S
        \/ 6 \in S \/ 7 \in S \/ 8 \in S \/ 9 \in S
    <3>1. PICK x \in S : TRUE
      OBVIOUS
    <3>2. x \in 1 .. 9
      OBVIOUS
    <3>. QED
      BY <3>2
  <2>2. 1 \in S => \E x \in S : \A y \in S : x <= y
    BY <1>1
  <2>3. 1 \notin S /\ 2 \in S => \E x \in S : \A y \in S : x <= y
    BY <1>1
  <2>4. 1 \notin S /\ 2 \notin S /\ 3 \in S => \E x \in S : \A y \in S : x <= y
    BY <1>1
  <2>5. (\A k \in 1 .. 3 : k \notin S) /\ 4 \in S => \E x \in S : \A y \in S : x <= y
    BY <1>1
  <2>6. (\A k \in 1 .. 4 : k \notin S) /\ 5 \in S => \E x \in S : \A y \in S : x <= y
    BY <1>1
  <2>7. (\A k \in 1 .. 5 : k \notin S) /\ 6 \in S => \E x \in S : \A y \in S : x <= y
    BY <1>1
  <2>8. (\A k \in 1 .. 6 : k \notin S) /\ 7 \in S => \E x \in S : \A y \in S : x <= y
    BY <1>1
  <2>9. (\A k \in 1 .. 7 : k \notin S) /\ 8 \in S => \E x \in S : \A y \in S : x <= y
    BY <1>1
  <2>10. (\A k \in 1 .. 8 : k \notin S) /\ 9 \in S => \E x \in S : \A y \in S : x <= y
    BY <1>1
  <2>. QED
    BY <2>1, <2>2, <2>3, <2>4, <2>5, <2>6, <2>7, <2>8, <2>9, <2>10
<1>. QED
  BY <1>2 DEF Min

LEMMA HostShapeKept == Shape /\ Host => Shape'
<1>. SUFFICES ASSUME Shape, Host PROVE Shape'
  OBVIOUS
<1>1. PipelineShape' /\ SinkShape'
  <2>1. UNCHANGED <<pipeline, streams, payloadSink>>
    BY DEF Host, StartWindow, ReadBuffer, ReadRegister, StopPayload, StopRules
  <2>. QED
    BY <2>1, PipelineKept, SinkKept DEF Shape
<1>2. ResultShape'
  <2>1. UNCHANGED <<resultSink, tracePipe, tracer>>
    BY DEF Host, StartWindow, ReadBuffer, ReadRegister, StopPayload, StopRules
  <2>. QED
    BY <2>1, ResultKept DEF Shape
<1>3. target \in {0, 1} /\ OtherBuffer \in {0, 1} /\ 1 - target \in {0, 1}
  BY DEF Shape, WriterShape, OtherBuffer
<1>4. WriterShape'
  <2>1. CASE StartWindow
    BY <1>3, <2>1 DEF StartWindow, Shape, WriterShape
  <2>2. CASE ReadBuffer
    <3>1. memory' \in [{0, 1} -> Seq(Flit)]
      BY <1>3, <2>2 DEF ReadBuffer, Shape, WriterShape
    <3>. QED
      BY <2>2, <3>1 DEF ReadBuffer, Shape, WriterShape
  <2>3. CASE UNCHANGED <<packPipe, writer>>
    BY <2>3, WriterKept DEF Shape
  <2>. QED
    BY <2>1, <2>2, <2>3 DEF Host, ReadRegister, StopPayload, StopRules
<1>5. HostShape'
  <2>1. CASE StartWindow
    BY <2>1 DEF StartWindow, stops, Shape, HostShape
  <2>2. CASE ReadBuffer
    BY <1>3, <2>2 DEF ReadBuffer, stops, Shape, HostShape, WriterShape
  <2>3. CASE ReadRegister
    <3> DEFINE later == {k \in register + 1 .. Len(Registers) :
                  Matters(Registers[k], seen["source"] \/
                            (Registers[register] = "source" /\ sourceIdle))}
    <3>1. later \in SUBSET (1 .. 9)
      BY DEF Registers, Shape, HostShape
    <3>2. register' \in 1 .. 9 /\ pc' \in {pc, "stopPayload"}
      <4>1. IF later # {} THEN register' = Min(later) /\ UNCHANGED pc
                          ELSE register' = 1 /\ pc' = "stopPayload"
        BY <2>3, Zenon DEF ReadRegister
      <4>. HIDE DEF later
      <4>2. later # {} => Min(later) \in 1 .. 9
        BY <3>1, RegisterMin
      <4>. QED
        BY <4>1, <4>2
    <3>. QED
      BY <2>3, <3>2 DEF ReadRegister, stops, Shape, HostShape
  <2>4. CASE StopPayload
    BY <2>4 DEF StopPayload, Shape, HostShape
  <2>5. CASE StopRules
    BY <2>5 DEF StopRules, Shape, HostShape
  <2>. QED
    BY <2>1, <2>2, <2>3, <2>4, <2>5 DEF Host
<1>. QED
  BY <1>1, <1>2, <1>4, <1>5 DEF Shape

LEMMA NextShape == Shape /\ [Next]_vars => Shape'
<1>. SUFFICES ASSUME Shape, [Next]_vars PROVE Shape'
  OBVIOUS
<1>1. CASE UNCHANGED vars
  BY <1>1, PipelineKept, SinkKept, WriterKept, ResultKept, HostKept DEF vars, Shape
<1>. QED
  BY <1>1, ArriveShape, LeaveShape, SinkShapeKept, WriterShapeKept, ResultShapeKept,
     HostShapeKept DEF Next

-----------------------------------------------------------------------------
(***************************************************************************)
(* What the host has read.                                                 *)
(***************************************************************************)
\* Counts never fall, the source stays idle, and the run of the result write
\* kernel is never started again.
LEMMA Grows ==
  ASSUME Shape, [Next]_vars
  PROVE  /\ sent <= sent' /\ dropped <= dropped' /\ smSafe <= smSafe' /\ nfSafe <= nfSafe'
         /\ resultCount <= resultCount' /\ payloadCount <= payloadCount'
         /\ sourceIdle => sourceIdle'
         /\ ~tracing => ~tracing'
<1>1. CASE UNCHANGED vars
  BY <1>1 DEF vars, pipeline, payloadSink, resultSink, tracer, Shape, PipelineShape,
              SinkShape, ResultShape
<1>2. CASE Arrive
  BY <1>2 DEF Arrive, Send, SourceEnds, payloadSink, resultSink, tracer,
              Shape, PipelineShape, SinkShape, ResultShape
<1>3. CASE Leave
  <2>1. dropped <= dropped' /\ smSafe <= smSafe' /\ nfSafe <= nfSafe'
    BY <1>3 DEF Leave, Drop, Safe, Hit, Shape, PipelineShape
  <2>2. UNCHANGED <<sent, sourceIdle, payloadSink, resultSink, tracer>>
    BY <1>3 DEF Leave
  <2>. QED
    BY <2>1, <2>2 DEF payloadSink, resultSink, tracer, Shape, PipelineShape, SinkShape,
                      ResultShape
<1>4. CASE PayloadSink
  <2>1. payloadCount <= payloadCount'
    BY <1>4 DEF PayloadSink, SinkTakesHit, SinkTakesDropped, SinkTakesNothing, SinkPacks,
                SinkEnds, CountsEnd, Shape, SinkShape
  <2>2. UNCHANGED <<pipeline, resultSink, tracer>>
    BY <1>4 DEF PayloadSink, SinkTakesHit, SinkTakesDropped, SinkTakesNothing, SinkPacks
  <2>. QED
    BY <2>1, <2>2 DEF pipeline, resultSink, tracer, Shape, PipelineShape, ResultShape
<1>5. CASE ResultSink \/ WriteResult
  <2>1. resultCount <= resultCount' /\ (~tracing => ~tracing')
    BY <1>5 DEF ResultSink, SinkResult, SinkResultEnd, WriteResult, resultSink, tracer,
                Shape, ResultShape
  <2>2. UNCHANGED <<pipeline, payloadSink>>
    BY <1>5 DEF ResultSink, SinkResult, SinkResultEnd, WriteResult
  <2>. QED
    BY <2>1, <2>2 DEF pipeline, payloadSink, Shape, PipelineShape, SinkShape
<1>6. CASE WritePack \/ CyclesOver \/ Host
  <2>1. UNCHANGED <<pipeline, payloadSink, resultSink, tracer>>
    BY <1>6 DEF WritePack, CyclesOver, Host, StartWindow, ReadBuffer, ReadRegister,
                StopPayload, StopRules
  <2>. QED
    BY <2>1 DEF pipeline, payloadSink, resultSink, tracer, Shape, PipelineShape, SinkShape,
                ResultShape
<1>. QED
  BY <1>1, <1>2, <1>3, <1>4, <1>5, <1>6 DEF Next

LEMMA UnreadFields ==
  /\ DOMAIN Unread = {"source", "rules", "payload"} \cup Counts
  /\ \A r \in {"source", "rules", "payload"} : Unread[r] = FALSE
  /\ \A r \in Counts : Unread[r] = 0
<1>1. Range(Registers) = {"source", "rules", "payload"} \cup Counts
  <2>1. DOMAIN Registers = 1 .. 9
    BY DEF Registers
  <2>2. /\ Registers[1] = "source" /\ Registers[2] = "rules" /\ Registers[3] = "payload"
        /\ Registers[4] = "dropped" /\ Registers[5] = "sent" /\ Registers[6] = "smSafe"
        /\ Registers[7] = "nfSafe" /\ Registers[8] = "resultCount"
        /\ Registers[9] = "payloadCount"
    BY DEF Registers
  <2>. HIDE DEF Registers
  <2>3. \A i \in 1 .. 9 : Registers[i] \in {"source", "rules", "payload"} \cup Counts
    BY <2>2 DEF Counts
  <2>4. \A r \in {"source", "rules", "payload"} \cup Counts : \E i \in 1 .. 9 : Registers[i] = r
    BY <2>2 DEF Counts
  <2>5. Range(Registers) = {Registers[x] : x \in 1 .. 9}
    BY <2>1 DEF Range
  <2>. QED
    BY <2>3, <2>4, <2>5
<1>. QED
  BY <1>1 DEF Unread, Counts

\* A host that has seen nothing yet.
FirstView ==
  /\ seen = Unread
  /\ sourceIdle => sent = N
  /\ pc = "end" => ~tracing /\ rulesStopped
  /\ program = "host" => pc \notin {"collect", "read"} /\ ~done
  /\ sent \in Nat /\ dropped \in Nat /\ smSafe \in Nat /\ nfSafe \in Nat
  /\ resultCount \in Nat /\ payloadCount \in Nat

LEMMA NothingSeen == FirstView => HostView
<1>. SUFFICES ASSUME FirstView PROVE HostView
  OBVIOUS
<1>1. /\ DOMAIN seen = {"source", "rules", "payload"} \cup Counts
      /\ seen["source"] = FALSE /\ seen["rules"] = FALSE
      /\ \A r \in Counts : seen[r] = 0
  BY UnreadFields DEF FirstView
<1>2. \A r \in Counts : seen[r] \in Nat
  BY <1>1
<1>3. /\ seen["sent"] <= sent /\ seen["dropped"] <= dropped
      /\ seen["smSafe"] <= smSafe /\ seen["nfSafe"] <= nfSafe
      /\ seen["resultCount"] <= resultCount /\ seen["payloadCount"] <= payloadCount
  <2>1. /\ seen["sent"] = 0 /\ seen["dropped"] = 0 /\ seen["smSafe"] = 0 /\ seen["nfSafe"] = 0
        /\ seen["resultCount"] = 0 /\ seen["payloadCount"] = 0
    BY <1>1 DEF Counts
  <2>. QED
    BY <2>1 DEF FirstView
<1>. QED
  BY <1>1, <1>2, <1>3, Zenon DEF HostView, FirstView

LEMMA InitView == Init => HostView
<1>. SUFFICES ASSUME Init PROVE HostView
  OBVIOUS
<1>1. /\ seen = Unread /\ ~sourceIdle /\ ~done /\ pc # "end"
      /\ program = "host" => pc = "poll"
      /\ sent = 0 /\ dropped = 0 /\ smSafe = 0 /\ nfSafe = 0
      /\ resultCount = 0 /\ payloadCount = 0
  BY DEF Init
<1>2. 0 \in Nat
  OBVIOUS
<1>. QED
  BY <1>1, <1>2, NothingSeen DEF FirstView

\* A step that is not the host's.
LEMMA ViewKept ==
  ASSUME Shape, HostView, [Next]_vars, UNCHANGED host
  PROVE  HostView'
<1>1. UNCHANGED <<program, pc, register, seen, rulesStopped, done>>
  BY DEF host
<1>2. sourceIdle' => sent' = N
  <2>1. CASE Arrive
    <3>1. CASE Send
      <4>1. ~sourceIdle'
        BY <3>1, LengthsType DEF Send, HostView, N
      <4>. QED
        BY <4>1
    <3>2. CASE SourceEnds
      BY <3>2 DEF SourceEnds, N
    <3>. QED
      BY <2>1, <3>1, <3>2 DEF Arrive
  <2>2. CASE UNCHANGED <<sent, sourceIdle>>
    BY <2>2 DEF HostView
  <2>3. ASSUME Leave \/ PayloadSink \/ WritePack \/ CyclesOver \/ ResultSink \/ WriteResult
                 \/ Host \/ UNCHANGED vars
        PROVE  UNCHANGED <<sent, sourceIdle>>
    BY <2>3
       DEF vars, pipeline, Leave, PayloadSink, SinkTakesHit, SinkTakesDropped,
           SinkTakesNothing, SinkPacks, ResultSink, SinkResult, SinkResultEnd, WriteResult,
           WritePack, CyclesOver, Host, StartWindow, ReadBuffer, ReadRegister, StopPayload,
           StopRules
  <2>. QED
    BY <2>1, <2>2, <2>3 DEF Next
<1>3. \A r \in Counts : seen[r] \in Nat
  BY DEF HostView
<1>4. /\ seen["sent"] <= sent' /\ seen["dropped"] <= dropped'
      /\ seen["smSafe"] <= smSafe' /\ seen["nfSafe"] <= nfSafe'
      /\ seen["resultCount"] <= resultCount' /\ seen["payloadCount"] <= payloadCount'
  <2>1. /\ sent \in Nat /\ dropped \in Nat /\ smSafe \in Nat /\ nfSafe \in Nat
        /\ resultCount \in Nat /\ payloadCount \in Nat
    BY LengthsType DEF Shape, PipelineShape, ResultShape, SinkShape
  <2>2. /\ sent' \in Nat /\ dropped' \in Nat /\ smSafe' \in Nat /\ nfSafe' \in Nat
        /\ resultCount' \in Nat /\ payloadCount' \in Nat
    BY LengthsType, NextShape DEF Shape, PipelineShape, ResultShape, SinkShape
  <2>3. /\ seen["sent"] \in Nat /\ seen["dropped"] \in Nat /\ seen["smSafe"] \in Nat
        /\ seen["nfSafe"] \in Nat /\ seen["resultCount"] \in Nat
        /\ seen["payloadCount"] \in Nat
    BY <1>3 DEF Counts
  <2>4. /\ seen["sent"] <= sent /\ seen["dropped"] <= dropped
        /\ seen["smSafe"] <= smSafe /\ seen["nfSafe"] <= nfSafe
        /\ seen["resultCount"] <= resultCount /\ seen["payloadCount"] <= payloadCount
    BY DEF HostView
  <2>5. /\ sent <= sent' /\ dropped <= dropped' /\ smSafe <= smSafe' /\ nfSafe <= nfSafe'
        /\ resultCount <= resultCount' /\ payloadCount <= payloadCount'
    BY Grows
  <2>. QED
    BY <2>1, <2>2, <2>3, <2>4, <2>5
<1>. QED
  BY Grows, <1>1, <1>2, <1>4 DEF HostView

\* The host reads a register: what it knew of the others stays.
LEMMA ReadsOne ==
  ASSUME Shape, HostView, ReadRegister
  PROVE  LET r == Registers[register]
         IN  /\ r \in {"source", "rules", "payload"} \cup Counts
             /\ DOMAIN seen' = DOMAIN seen
             /\ \A x \in DOMAIN seen : x # r => seen'[x] = seen[x]
             /\ seen'[r] = IF Matters(r, TRUE) THEN RegisterValue(r) ELSE seen[r]
<1> DEFINE r == Registers[register]
<1>1. r \in {"source", "rules", "payload"} \cup Counts
  BY DEF Registers, Counts, Shape, HostShape
<1>2. r \in DOMAIN seen
  BY <1>1 DEF HostView
<1>3. seen' = IF Matters(r, TRUE) THEN [seen EXCEPT ![r] = RegisterValue(r)] ELSE seen
  BY Zenon DEF ReadRegister
<1>. HIDE DEF r
<1>4. CASE Matters(r, TRUE)
  <2>1. seen' = [seen EXCEPT ![r] = RegisterValue(r)]
    BY <1>3, <1>4
  <2>. DEFINE v == RegisterValue(r)
  <2>. HIDE DEF v
  <2>2. seen' = [seen EXCEPT ![r] = v]
    BY <2>1 DEF v
  <2>3. /\ DOMAIN seen' = DOMAIN seen /\ seen'[r] = v
        /\ \A x \in DOMAIN seen : x # r => seen'[x] = seen[x]
    BY <1>2, <2>2
  <2>. QED
    BY <1>1, <1>4, <2>3 DEF r, v
<1>5. CASE ~Matters(r, TRUE)
  BY <1>1, <1>3, <1>5 DEF r
<1>. QED
  BY <1>4, <1>5

\* It comes by the register of the packets sent when the source is idle.
LEMMA ReadsSent ==
  ASSUME Shape, ReadRegister, register < 5,
         seen["source"] \/ (Registers[register] = "source" /\ sourceIdle)
  PROVE  pc' = "poll" /\ register' <= 5
<1> DEFINE later == {k \in register + 1 .. Len(Registers) :
              Matters(Registers[k], seen["source"] \/
                        (Registers[register] = "source" /\ sourceIdle))}
<1>1. later \in SUBSET (1 .. 9)
  BY DEF Registers, Shape, HostShape
<1>2. Matters("sent", TRUE)
  BY DEF Matters
<1>3. 5 \in later
  <2>1. 5 \in register + 1 .. Len(Registers) /\ Registers[5] = "sent"
    BY DEF Registers, Shape, HostShape
  <2>. QED
    BY <1>2, <2>1
<1>4. IF later # {} THEN register' = Min(later) /\ UNCHANGED pc
                    ELSE register' = 1 /\ pc' = "stopPayload"
  BY Zenon DEF ReadRegister
<1>5. pc = "poll"
  BY DEF ReadRegister
<1>. HIDE DEF later
<1>. QED
  BY <1>1, <1>3, <1>4, <1>5, RegisterMin

\* What the host has seen is bounded after it reads a register.
LEMMA ReadView == Shape /\ HostView /\ ReadRegister => HostView'
<1>. SUFFICES ASSUME Shape, HostView, ReadRegister PROVE HostView'
  OBVIOUS
<1> DEFINE r == Registers[register]
<1>1. /\ UNCHANGED <<pipeline, payloadSink, resultSink, tracer, program, rulesStopped, done>>
      /\ pc = "poll" /\ pc' \in {"poll", "stopPayload"}
  BY DEF ReadRegister
<1>2. /\ UNCHANGED <<sent, sourceIdle, dropped, smSafe, nfSafe, payloadCount, resultCount,
                     tracing>>
  BY <1>1 DEF pipeline, payloadSink, resultSink, tracer
<1>3. /\ r \in {"source", "rules", "payload"} \cup Counts
      /\ DOMAIN seen' = DOMAIN seen
      /\ \A x \in DOMAIN seen : x # r => seen'[x] = seen[x]
      /\ seen'[r] = IF Matters(r, TRUE) THEN RegisterValue(r) ELSE seen[r]
  BY ReadsOne
<1>. HIDE DEF r
<1>4. ASSUME NEW c \in Counts, NEW v \in Nat, c = r => RegisterValue(r) = v, seen[c] <= v
      PROVE  seen'[c] \in Nat /\ seen'[c] <= v
  <2>1. c \in DOMAIN seen /\ seen[c] \in Nat
    BY DEF HostView
  <2>2. CASE c # r
    BY <1>3, <1>4, <2>1, <2>2
  <2>3. CASE c = r /\ Matters(r, TRUE)
    BY <1>3, <1>4, <2>1, <2>3
  <2>4. CASE c = r /\ ~Matters(r, TRUE)
    BY <1>3, <1>4, <2>1, <2>4
  <2>. QED
    BY <2>2, <2>3, <2>4
<1>5. /\ seen'["sent"] \in Nat /\ seen'["sent"] <= sent
      /\ seen'["dropped"] \in Nat /\ seen'["dropped"] <= dropped
      /\ seen'["smSafe"] \in Nat /\ seen'["smSafe"] <= smSafe
      /\ seen'["nfSafe"] \in Nat /\ seen'["nfSafe"] <= nfSafe
      /\ seen'["resultCount"] \in Nat /\ seen'["resultCount"] <= resultCount
      /\ seen'["payloadCount"] \in Nat /\ seen'["payloadCount"] <= payloadCount
  <2>1. /\ sent \in Nat /\ dropped \in Nat /\ smSafe \in Nat /\ nfSafe \in Nat
        /\ resultCount \in Nat /\ payloadCount \in Nat
    BY LengthsType DEF Shape, PipelineShape, ResultShape, SinkShape
  <2>2. /\ RegisterValue("sent") = sent /\ RegisterValue("dropped") = dropped
        /\ RegisterValue("smSafe") = smSafe /\ RegisterValue("nfSafe") = nfSafe
        /\ RegisterValue("resultCount") = resultCount
        /\ RegisterValue("payloadCount") = payloadCount
    BY DEF RegisterValue
  <2>. QED
    BY <1>4, <2>1, <2>2 DEF HostView, Counts
<1>6. seen'["source"] \in BOOLEAN /\ (seen'["source"] => sourceIdle)
  BY <1>3 DEF HostView, RegisterValue, Counts, Shape, PipelineShape
<1>7. seen'["rules"] \in BOOLEAN /\ (seen'["rules"] => ~tracing /\ rulesStopped)
  BY <1>3 DEF HostView, RegisterValue, Matters, Counts, Shape, ResultShape
<1>8. seen'["source"] /\ (pc' = "poll" => register' > 5) => seen'["sent"] = N
  <2>. SUFFICES ASSUME seen'["source"], pc' = "poll" => register' > 5
                PROVE  seen'["sent"] = N
    OBVIOUS
  <2>1. seen["source"] \/ (r = "source" /\ sourceIdle)
    BY <1>3, <1>6 DEF HostView
  <2>2. register \in 1 .. 9 /\ register' \in 1 .. 9
    BY HostShapeKept DEF Host, Shape, HostShape
  <2>3. register >= 5
    BY <2>1, <2>2, ReadsSent DEF r
  <2>4. CASE register = 5
    <3>1. r = "sent" /\ Matters("sent", TRUE) /\ RegisterValue("sent") = sent
      BY <2>4 DEF r, Registers, Matters, RegisterValue
    <3>. QED
      BY <1>3, <1>6, <3>1 DEF HostView
  <2>5. CASE register > 5
    <3>1. r # "sent" /\ r # "source"
      BY <2>2, <2>5 DEF r, Registers
    <3>2. seen["sent"] = N
      BY <2>1, <2>5, <3>1 DEF HostView
    <3>3. "sent" \in DOMAIN seen
      BY DEF HostView, Counts
    <3>. QED
      BY <1>3, <3>1, <3>2, <3>3
  <2>. QED
    BY <2>2, <2>3, <2>4, <2>5
<1>. QED
  BY <1>1, <1>2, <1>3, <1>5, <1>6, <1>7, <1>8 DEF HostView, Counts

LEMMA NextView == Shape /\ HostView /\ [Next]_vars => HostView'
<1>. SUFFICES ASSUME Shape, HostView, [Next]_vars PROVE HostView'
  OBVIOUS
<1>1. CASE UNCHANGED host
  BY <1>1, ViewKept
<1>2. CASE ReadRegister
  BY <1>2, ReadView
<1>3. CASE StartWindow \/ ReadBuffer \/ StopPayload
  <2>1. UNCHANGED <<pipeline, payloadSink, resultSink, tracer, program, seen, register,
                    rulesStopped>>
    BY <1>3 DEF StartWindow, ReadBuffer, StopPayload
  <2>2. /\ UNCHANGED <<sent, sourceIdle, dropped, smSafe, nfSafe, payloadCount, resultCount,
                       tracing>>
    BY <2>1 DEF pipeline, payloadSink, resultSink, tracer
  <2>3. /\ pc # "poll" /\ pc' # "end"
        /\ program = "host" => pc' \notin {"collect", "read"} /\ ~done'
    BY <1>3 DEF StartWindow, ReadBuffer, StopPayload, HostView
  <2>. QED
    BY <2>1, <2>2, <2>3 DEF HostView
<1>4. CASE StopRules
  <2>1. UNCHANGED <<pipeline, payloadSink, resultSink, tracer, program, done>>
    BY <1>4 DEF StopRules
  <2>2. UNCHANGED <<sent, sourceIdle, dropped, smSafe, nfSafe, payloadCount, resultCount,
                    tracing>>
    BY <2>1 DEF pipeline, payloadSink, resultSink, tracer
  <2>3. /\ pc' = "end" => seen["rules"] /\ rulesStopped'
        /\ program = "host" => pc' \notin {"collect", "read"}
        /\ seen' = Unread
    BY <1>4 DEF StopRules, LoopCondition
  <2>4. /\ sent \in Nat /\ dropped \in Nat /\ smSafe \in Nat /\ nfSafe \in Nat
        /\ resultCount \in Nat /\ payloadCount \in Nat
    BY LengthsType DEF Shape, PipelineShape, ResultShape, SinkShape
  <2>5. FirstView'
    BY <2>1, <2>2, <2>3, <2>4 DEF HostView, FirstView, Unread
  <2>6. (FirstView => HostView)'
    BY NothingSeen, PTL
  <2>. QED
    BY <2>5, <2>6
<1>. QED
  <2>1. ASSUME Arrive \/ Leave \/ PayloadSink \/ WritePack \/ CyclesOver \/ ResultSink
                 \/ WriteResult \/ UNCHANGED vars
        PROVE  UNCHANGED host
    BY <2>1 DEF vars, Arrive, Send, SourceEnds, Leave, PayloadSink, SinkTakesHit,
         SinkTakesDropped, SinkTakesNothing, SinkPacks, ResultSink, SinkResult,
         SinkResultEnd, WriteResult, WritePack, CyclesOver
  <2>. QED
    BY <1>1, <1>2, <1>3, <1>4, <2>1 DEF Next, Host

-----------------------------------------------------------------------------
(***************************************************************************)
(* Where the packets are.                                                  *)
(***************************************************************************)
LEMMA HeadTail ==
  ASSUME NEW s \in Seq(Flit), s # << >>
  PROVE  /\ Head(s) \in Flit /\ Head(s) = s[1] /\ Tail(s) \in Seq(Flit)
         /\ Len(s) \in Nat \ {0} /\ Len(Tail(s)) = Len(s) - 1
         /\ \A i \in 1 .. Len(s) - 1 : Tail(s)[i] = s[i + 1]
OBVIOUS

\* What taking its head changes in a stream of flits.
LEMMA TakeHead ==
  ASSUME NEW s \in Seq(Flit), s # << >>
  PROVE  /\ CountIn(s, Ends) = CountIn(Tail(s), Ends) + CountsEnd(Head(s))
         /\ EndsInEop(s) => EndsInEop(Tail(s)) /\ (~Head(s).eop => Tail(s) # << >>)
<1>1. /\ Head(s) \in Flit /\ Head(s) = s[1] /\ Tail(s) \in Seq(Flit)
      /\ Len(s) \in Nat \ {0} /\ Len(Tail(s)) = Len(s) - 1
      /\ \A i \in 1 .. Len(s) - 1 : Tail(s)[i] = s[i + 1]
  BY HeadTail
<1>2. CountIn(Tail(s), Ends) \in Nat /\ CountIn(s, Ends) \in Nat
  BY <1>1, CountType
<1>3. CountsEnd(Head(s)) = IF Head(s) \in Ends THEN 1 ELSE 0
  BY <1>1 DEF CountsEnd, Ends
<1>4. CountIn(s, Ends) = (IF Head(s) \in Ends THEN 1 ELSE 0) + CountIn(Tail(s), Ends)
  BY CountTail
<1>5. CountIn(s, Ends) = CountIn(Tail(s), Ends) + CountsEnd(Head(s))
  BY <1>2, <1>3, <1>4
<1>6. ASSUME EndsInEop(s), Tail(s) # << >>
      PROVE  Tail(s)[Len(Tail(s))].eop
  <2>1. Len(Tail(s)) >= 1
    BY <1>1, <1>6
  <2>. QED
    BY <1>1, <1>6, <2>1 DEF EndsInEop
<1>7. ASSUME EndsInEop(s), ~Head(s).eop
      PROVE  Tail(s) # << >>
  <2>1. Len(s) # 1
    BY <1>1, <1>7 DEF EndsInEop
  <2>2. Len(Tail(s)) # 0
    BY <1>1, <2>1
  <2>. DEFINE t == Tail(s)
  <2>3. Len(t) # 0 /\ Len(<< >>) = 0
    BY <2>2
  <2>. HIDE DEF t
  <2>4. t # << >>
    BY <2>3
  <2>. QED
    BY <2>4 DEF t
<1>. QED
  BY <1>5, <1>6, <1>7 DEF EndsInEop

\* What a packet's arrival changes in a stream, with its end or without.
LEMMA AddPacket ==
  ASSUME NEW s \in Seq(Flit), NEW p \in Packet, NEW t \in Arrivals(p)
  PROVE  /\ EndArrived(t) => /\ CountIn(s \o t, Ends) = CountIn(s, Ends) + 1
                             /\ EndsInEop(s \o t) /\ s \o t # << >>
         /\ ~EndArrived(t) => CountIn(s \o t, Ends) = CountIn(s, Ends)
<1>1. t \in Seq(Flit) /\ CountIn(t, Ends) = IF EndArrived(t) THEN 1 ELSE 0
  BY ArrivedFlits, ArrivedEnds
<1>2. CountIn(s, Ends) \in Nat
  BY CountType
<1>3. CountIn(s \o t, Ends) = CountIn(s, Ends) + CountIn(t, Ends)
  BY <1>1, CountConcat
<1>4. ASSUME EndArrived(t)
      PROVE  EndsInEop(s \o t) /\ s \o t # << >>
  <2>1. t # << >> /\ t[Len(t)].eop
    BY <1>4 DEF EndArrived, Last
  <2>2. (s \o t)[Len(s \o t)] = t[Len(t)] /\ Len(s \o t) # 0
    BY <1>1, <2>1
  <2>3. s \o t # << >>
    BY <2>2
  <2>. QED
    BY <2>1, <2>2, <2>3 DEF EndsInEop
<1>. QED
  BY <1>1, <1>2, <1>3, <1>4

LEMMA SumType ==
  ASSUME Shape
  PROVE  /\ CountIn(hostPipe, Ends) \in Nat /\ CountIn(overflowPipe, Ends) \in Nat
         /\ Sum \in Nat
<1>1. CountIn(hostPipe, Ends) \in Nat /\ CountIn(overflowPipe, Ends) \in Nat
  BY CountType DEF Shape, PipelineShape
<1>. QED
  BY <1>1 DEF Sum, Shape, PipelineShape, SinkShape

LEMMA InitAccounts == Init => Tallied /\ Accounts
<1>. SUFFICES ASSUME Init PROVE Tallied /\ Accounts
  OBVIOUS
<1>1. /\ dropped = 0 /\ smSafe = 0 /\ nfSafe = 0 /\ resultCount = 0 /\ left = 0
      /\ payloadCount = 0 /\ newPacket
      /\ resultPipe = << >> /\ hostPipe = << >> /\ overflowPipe = << >>
  BY DEF Init
<1>2. CountIn(hostPipe, Ends) = 0 /\ CountIn(overflowPipe, Ends) = 0
  BY <1>1, CountEmpty
<1>3. Len(resultPipe) = 0
  BY <1>1
<1>. QED
  BY <1>1, <1>2, <1>3 DEF Tallied, Accounts, Sum, EndsInEop

\* The history only grows.
LEMMA MangledGrows == [Next]_vars => mangled \subseteq mangled'
BY Zenon DEF Next, vars, pipeline, Arrive, Send, SourceEnds, Leave, Drop, Safe, Hit, PayloadSink,
   SinkTakesHit, SinkTakesDropped, SinkTakesNothing, SinkPacks, ResultSink, SinkResult,
   SinkResultEnd, WriteResult, WritePack, CyclesOver, Host, StartWindow, ReadBuffer,
   ReadRegister, StopPayload, StopRules

LEMMA LeaveTallied == Shape /\ Tallied /\ Leave => Tallied'
<1>. SUFFICES ASSUME Shape, Tallied, Leave PROVE Tallied'
  OBVIOUS
<1>1. left' = left + 1 /\ UNCHANGED resultCount
  BY DEF Leave, resultSink
<1>2. /\ dropped \in Nat /\ smSafe \in Nat /\ nfSafe \in Nat /\ left \in Nat
      /\ resultCount \in Nat /\ Len(resultPipe) \in Nat
  BY LengthsType DEF Shape, PipelineShape, ResultShape
<1>3. dropped + smSafe + nfSafe + resultCount + Len(resultPipe) = left
  BY DEF Tallied
<1>4. CASE Drop
  <2>1. dropped' = dropped + 1 /\ UNCHANGED <<smSafe, nfSafe, resultPipe>>
    BY <1>4 DEF Drop
  <2>. QED
    BY <1>1, <1>2, <1>3, <2>1 DEF Tallied
<1>5. CASE Safe
  <2>1. UNCHANGED <<dropped, resultPipe>>
    BY <1>5 DEF Safe, streams
  <2>. QED
    BY <1>1, <1>2, <1>3, <1>5, <2>1 DEF Safe, Tallied
<1>6. CASE Hit
  <2>1. UNCHANGED <<dropped, smSafe, nfSafe>> /\ Len(resultPipe') = Len(resultPipe) + 1
    BY <1>6 DEF Hit, Shape, PipelineShape
  <2>. QED
    BY <1>1, <1>2, <1>3, <2>1 DEF Tallied
<1>. QED
  BY <1>4, <1>5, <1>6 DEF Leave

LEMMA NextTallied == Shape /\ Tallied /\ [Next]_vars => Tallied'
<1>. SUFFICES ASSUME Shape, Tallied, [Next]_vars PROVE Tallied'
  OBVIOUS
<1>1. CASE SinkResult
  <2>1. UNCHANGED <<left, dropped, smSafe, nfSafe>>
    BY <1>1 DEF SinkResult, pipeline
  <2>2. resultCount' + Len(resultPipe') = resultCount + Len(resultPipe)
    BY <1>1 DEF SinkResult, Shape, PipelineShape, ResultShape
  <2>3. resultPipe' \in Seq(Packet) /\ resultCount' \in Nat
    BY <1>1, ResultShapeKept DEF ResultSink, Shape, PipelineShape, ResultShape
  <2>4. Len(resultPipe') \in Nat /\ Len(resultPipe) \in Nat
    BY <2>3 DEF Shape, PipelineShape
  <2>5. /\ dropped \in Nat /\ smSafe \in Nat /\ nfSafe \in Nat /\ resultCount \in Nat
    BY DEF Shape, PipelineShape, ResultShape
  <2>6. dropped + smSafe + nfSafe + resultCount' + Len(resultPipe')
          = (dropped + smSafe + nfSafe) + (resultCount' + Len(resultPipe'))
    BY <2>3, <2>4, <2>5
  <2>7. dropped + smSafe + nfSafe + resultCount + Len(resultPipe)
          = (dropped + smSafe + nfSafe) + (resultCount + Len(resultPipe))
    BY <2>4, <2>5
  <2>. QED
    BY <2>1, <2>2, <2>6, <2>7 DEF Tallied
<1>2. CASE UNCHANGED <<left, dropped, smSafe, nfSafe, resultPipe, resultCount>>
  BY <1>2 DEF Tallied
<1>3. ASSUME Arrive \/ PayloadSink \/ WritePack \/ CyclesOver \/ SinkResultEnd \/ WriteResult
               \/ Host \/ UNCHANGED vars
      PROVE  UNCHANGED <<left, dropped, smSafe, nfSafe, resultPipe, resultCount>>
  BY <1>3 DEF vars, pipeline, streams, resultSink, Arrive, Send, SourceEnds, PayloadSink,
       SinkTakesHit, SinkTakesDropped, SinkTakesNothing, SinkPacks, SinkResultEnd,
       WriteResult, WritePack, CyclesOver, Host, StartWindow, ReadBuffer, ReadRegister,
       StopPayload, StopRules
<1>. QED
  BY <1>1, <1>2, <1>3, LeaveTallied DEF Next, ResultSink

LEMMA LeaveAccounts == Shape /\ Accounts /\ Leave /\ ~Repeated' => Accounts'
<1>. SUFFICES ASSUME Shape, Accounts, Leave, ~Repeated' PROVE Accounts'
  OBVIOUS
<1>0. /\ left + 1 \in Packet /\ left' = left + 1 /\ left \in Nat
      /\ UNCHANGED payloadSink
  BY LengthsType DEF Leave, Shape, PipelineShape
<1>1. UNCHANGED <<newPacket, whichPipe, payloadCount>>
  BY <1>0 DEF payloadSink
<1>2. /\ hostPipe \in Seq(Flit) /\ overflowPipe \in Seq(Flit)
      /\ smSafe \in Nat /\ nfSafe \in Nat /\ payloadCount \in Nat
  BY DEF Shape, PipelineShape, SinkShape
<1>3. /\ CountIn(hostPipe, Ends) \in Nat /\ CountIn(overflowPipe, Ends) \in Nat
      /\ Sum \in Nat /\ Sum <= left
  BY SumType DEF Accounts
<1>4. CASE Drop
  <2>1. UNCHANGED <<smSafe, nfSafe, hostPipe>>
    BY <1>4 DEF Drop
  <2>2. PICK t \in Arrivals(left + 1) : overflowPipe' = overflowPipe \o t
    BY <1>4, Dropping
  <2>3. CASE ~EndArrived(t)
    <3>1. CountIn(overflowPipe', Ends) = CountIn(overflowPipe, Ends)
      BY <1>0, <1>2, <2>2, <2>3, AddPacket
    <3>2. Sum' = Sum
      BY <1>1, <2>1, <3>1 DEF Sum
    <3>3. Sum' <= left' /\ Sum' # left'
      BY <1>0, <1>3, <3>2
    <3>. QED
      BY <1>0, <1>1, <2>1, <3>3 DEF Accounts, EndsInEop
  <2>4. CASE EndArrived(t)
    <3>1. /\ CountIn(overflowPipe', Ends) = CountIn(overflowPipe, Ends) + 1
          /\ EndsInEop(overflowPipe') /\ overflowPipe' # << >>
      BY <1>0, <1>2, <2>2, <2>4, AddPacket
    <3>2. Sum' = Sum + 1
      BY <1>1, <1>2, <1>3, <2>1, <3>1 DEF Sum
    <3>. QED
      BY <1>0, <1>1, <1>3, <2>1, <3>1, <3>2 DEF Accounts, EndsInEop
  <2>. QED
    BY <2>3, <2>4
<1>5. CASE Safe
  <2>1. UNCHANGED <<hostPipe, overflowPipe>>
    BY <1>5 DEF Safe, streams
  <2>2. Sum' = Sum + 1
    BY <1>1, <1>2, <1>3, <1>5, <2>1 DEF Safe, Sum
  <2>. QED
    BY <1>0, <1>1, <1>3, <2>1, <2>2 DEF Accounts, EndsInEop
<1>6. CASE Hit
  <2>1. UNCHANGED <<smSafe, nfSafe, overflowPipe>>
    BY <1>6 DEF Hit
  <2>2. /\ CountIn(hostPipe', Ends) = CountIn(hostPipe, Ends) + 1
        /\ EndsInEop(hostPipe') /\ hostPipe' # << >>
    <3> DEFINE t == FlitsOfPacket(left + 1)
    <3>1. t \in Arrivals(left + 1) /\ EndArrived(t) /\ hostPipe' = hostPipe \o t
      BY <1>0, <1>6, PacketArrives DEF Hit
    <3>. HIDE DEF t
    <3>. QED
      BY <1>0, <1>2, <3>1, AddPacket
  <2>3. Sum' = Sum + 1
    BY <1>1, <1>2, <1>3, <2>1, <2>2 DEF Sum
  <2>. QED
    BY <1>0, <1>1, <1>3, <2>1, <2>2, <2>3 DEF Accounts, EndsInEop
<1>. QED
  BY <1>4, <1>5, <1>6 DEF Leave

\* What three parts of a sum exchange leaves the sum.
LEMMA SumsShift ==
  ASSUME NEW a \in Nat, NEW b \in Nat, NEW c \in Nat, NEW d \in Nat, NEW e \in Nat,
         NEW u \in Nat, NEW v \in Nat, NEW w \in Nat, u + v + w = c + d + e
  PROVE  a + b + u + v + w = a + b + c + d + e
OBVIOUS

LEMMA SinkAccounts == Shape /\ Accounts /\ PayloadSink => Accounts'
<1>. SUFFICES ASSUME Shape, Accounts, PayloadSink PROVE Accounts'
  OBVIOUS
<1>1. UNCHANGED <<left, dropped, smSafe, nfSafe, resultPipe, resultCount>>
  BY DEF PayloadSink, SinkTakesHit, SinkTakesDropped, SinkTakesNothing, SinkPacks, pipeline,
         streams, resultSink
<1>2. /\ hostPipe \in Seq(Flit) /\ overflowPipe \in Seq(Flit)
      /\ smSafe \in Nat /\ nfSafe \in Nat /\ payloadCount \in Nat
      /\ CountIn(hostPipe, Ends) \in Nat /\ CountIn(overflowPipe, Ends) \in Nat
  BY SumType DEF Shape, PipelineShape, SinkShape
<1>3. CASE SinkTakesHit
  <2>1. /\ hostPipe # << >> /\ hostPipe' = Tail(hostPipe) /\ whichPipe' = FALSE
        /\ newPacket' = Head(hostPipe).eop
        /\ payloadCount' = payloadCount + CountsEnd(Head(hostPipe))
        /\ UNCHANGED overflowPipe
    BY <1>3 DEF SinkTakesHit, SinkPacks, SinkEnds
  <2>2. /\ CountIn(hostPipe, Ends) = CountIn(hostPipe', Ends) + CountsEnd(Head(hostPipe))
        /\ EndsInEop(hostPipe') /\ (~Head(hostPipe).eop => hostPipe' # << >>)
    BY <1>2, <2>1, TakeHead DEF Accounts
  <2>3. CountIn(hostPipe', Ends) \in Nat /\ CountsEnd(Head(hostPipe)) \in Nat
    BY <1>2, <2>1, CountType, HeadTail DEF CountsEnd
  <2>4. Sum' = Sum
    <3>1. payloadCount' \in Nat
      BY <1>2, <2>1, <2>3
    <3>2. payloadCount' + CountIn(hostPipe', Ends) + CountIn(overflowPipe', Ends)
            = payloadCount + CountIn(hostPipe, Ends) + CountIn(overflowPipe, Ends)
      BY <1>2, <2>1, <2>2, <2>3
    <3>3. Sum' = smSafe + nfSafe + payloadCount' + CountIn(hostPipe', Ends)
                                                     + CountIn(overflowPipe', Ends)
      BY <1>1 DEF Sum
    <3>4. CountIn(overflowPipe', Ends) \in Nat /\ CountIn(hostPipe', Ends) \in Nat
      BY <1>2, <2>1, <2>3
    <3> DEFINE c == CountIn(hostPipe, Ends)
               d == CountIn(overflowPipe, Ends)
               u == payloadCount'
               v == CountIn(hostPipe', Ends)
               w == CountIn(overflowPipe', Ends)
    <3>5. c \in Nat /\ d \in Nat /\ u \in Nat /\ v \in Nat /\ w \in Nat
      BY <1>2, <3>1, <3>4
    <3>6. Sum' = smSafe + nfSafe + u + v + w /\ Sum = smSafe + nfSafe + payloadCount + c + d
      BY <3>3 DEF Sum
    <3>7. u + v + w = payloadCount + c + d
      BY <3>2
    <3>. HIDE DEF c, d, u, v, w
    <3>8. smSafe + nfSafe + u + v + w = smSafe + nfSafe + payloadCount + c + d
      BY <1>2, <3>5, <3>7, SumsShift
    <3>. QED
      BY <3>6, <3>8
  <2>. QED
    BY <1>1, <2>1, <2>2, <2>4 DEF Accounts, EndsInEop
<1>4. CASE SinkTakesDropped
  <2>1. /\ overflowPipe # << >> /\ overflowPipe' = Tail(overflowPipe) /\ whichPipe' = TRUE
        /\ newPacket' = Head(overflowPipe).eop
        /\ payloadCount' = payloadCount + CountsEnd(Head(overflowPipe))
        /\ UNCHANGED hostPipe
    BY <1>4 DEF SinkTakesDropped, SinkPacks, SinkEnds
  <2>2. /\ CountIn(overflowPipe, Ends)
             = CountIn(overflowPipe', Ends) + CountsEnd(Head(overflowPipe))
        /\ EndsInEop(overflowPipe) =>
             EndsInEop(overflowPipe') /\ (~Head(overflowPipe).eop => overflowPipe' # << >>)
    BY <1>2, <2>1, TakeHead
  <2>3. CountIn(overflowPipe', Ends) \in Nat /\ CountsEnd(Head(overflowPipe)) \in Nat
    BY <1>2, <2>1, CountType, HeadTail DEF CountsEnd
  <2>4. Sum' = Sum
    <3>1. payloadCount' \in Nat
      BY <1>2, <2>1, <2>3
    <3>2. payloadCount' + CountIn(hostPipe', Ends) + CountIn(overflowPipe', Ends)
            = payloadCount + CountIn(hostPipe, Ends) + CountIn(overflowPipe, Ends)
      BY <1>2, <2>1, <2>2, <2>3
    <3>3. Sum' = smSafe + nfSafe + payloadCount' + CountIn(hostPipe', Ends)
                                                     + CountIn(overflowPipe', Ends)
      BY <1>1 DEF Sum
    <3>4. CountIn(overflowPipe', Ends) \in Nat /\ CountIn(hostPipe', Ends) \in Nat
      BY <1>2, <2>1, <2>3
    <3> DEFINE c == CountIn(hostPipe, Ends)
               d == CountIn(overflowPipe, Ends)
               u == payloadCount'
               v == CountIn(hostPipe', Ends)
               w == CountIn(overflowPipe', Ends)
    <3>5. c \in Nat /\ d \in Nat /\ u \in Nat /\ v \in Nat /\ w \in Nat
      BY <1>2, <3>1, <3>4
    <3>6. Sum' = smSafe + nfSafe + u + v + w /\ Sum = smSafe + nfSafe + payloadCount + c + d
      BY <3>3 DEF Sum
    <3>7. u + v + w = payloadCount + c + d
      BY <3>2
    <3>. HIDE DEF c, d, u, v, w
    <3>8. smSafe + nfSafe + u + v + w = smSafe + nfSafe + payloadCount + c + d
      BY <1>2, <3>5, <3>7, SumsShift
    <3>. QED
      BY <3>6, <3>8
  <2>. QED
    BY <1>1, <2>1, <2>2, <2>4 DEF Accounts, EndsInEop
<1>5. CASE SinkTakesNothing
  <2>1. /\ UNCHANGED <<newPacket, payloadCount, hostPipe, overflowPipe>>
        /\ whichPipe' = (whichPipe /\ ~newPacket)
    BY <1>5 DEF SinkTakesNothing, SinkEnds, streams
  <2>2. Sum' = Sum
    BY <1>1, <2>1 DEF Sum
  <2>. QED
    BY <1>1, <2>1, <2>2 DEF Accounts, EndsInEop
<1>. QED
  BY <1>3, <1>4, <1>5 DEF PayloadSink

LEMMA NextAccounts == Shape /\ Accounts /\ [Next]_vars /\ ~Repeated' => Accounts'
<1>. SUFFICES ASSUME Shape, Accounts, [Next]_vars, ~Repeated' PROVE Accounts'
  OBVIOUS
<1>1. CASE UNCHANGED <<left, smSafe, nfSafe, hostPipe, overflowPipe, payloadSink>>
  BY <1>1 DEF payloadSink, Accounts, Sum, EndsInEop
<1>2. ASSUME Arrive \/ WritePack \/ CyclesOver \/ ResultSink \/ WriteResult \/ Host
               \/ UNCHANGED vars
      PROVE  UNCHANGED <<left, smSafe, nfSafe, hostPipe, overflowPipe, payloadSink>>
  BY <1>2 DEF vars, pipeline, streams, Arrive, Send, SourceEnds, ResultSink, SinkResult,
       SinkResultEnd, WriteResult, WritePack, CyclesOver, Host, StartWindow, ReadBuffer,
       ReadRegister, StopPayload, StopRules
<1>. QED
  BY <1>1, <1>2, LeaveAccounts, SinkAccounts DEF Next

-----------------------------------------------------------------------------
(***************************************************************************)
(* The stop registers are set when nothing is under way.  The counts were  *)
(* read one by one, but each was no more than it is now, and together they *)
(* are already as many as the packets.                                     *)
(***************************************************************************)
LEMMA SeenSource ==
  ASSUME Shape, HostView, pc # "poll", seen["source"]
  PROVE  /\ sourceIdle /\ sent = N /\ seen["sent"] = N /\ N \in Nat
         /\ \A r \in Counts : seen[r] \in Nat
BY LengthsType DEF HostView

LEMMA NoEndsNoFlits ==
  ASSUME NEW s \in Seq(Flit), CountIn(s, Ends) = 0, EndsInEop(s)
  PROVE  s = << >>
<1>1. \A i \in 1 .. Len(s) : s[i] \notin Ends
  BY CountZero
<1>2. SUFFICES ASSUME s # << >> PROVE FALSE
  OBVIOUS
<1>3. Len(s) \in 1 .. Len(s) /\ s[Len(s)] \in Flit /\ s[Len(s)].eop
  BY <1>2 DEF EndsInEop
<1>. QED
  BY <1>1, <1>3 DEF Ends

LEMMA SumsAgree ==
  ASSUME NEW a \in Nat, NEW b \in Nat, NEW c \in Nat, NEW h \in Nat, NEW o \in Nat,
         NEW x \in Nat, NEW y \in Nat, NEW z \in Nat, NEW m \in Nat, NEW n \in Nat,
         x <= a, y <= b, z <= c, m <= n, n <= x + y + z, a + b + c + h + o <= m
  PROVE  m = n /\ a + b + c = n /\ h = 0 /\ o = 0 /\ a + b + c + h + o = m
OBVIOUS

\* The payload sink is stopped when its sum agrees.
LEMMA PayloadAgrees ==
  ASSUME Shape, HostView, Accounts, pc # "poll", PayloadAccounted
  PROVE  AllPacked
<1> DEFINE h == CountIn(hostPipe, Ends)
           o == CountIn(overflowPipe, Ends)
<1>1. /\ sourceIdle /\ sent = N /\ seen["sent"] = N /\ N \in Nat
      /\ \A r \in Counts : seen[r] \in Nat
  BY SeenSource DEF PayloadAccounted
<1>2. /\ seen["smSafe"] \in Nat /\ seen["nfSafe"] \in Nat /\ seen["payloadCount"] \in Nat
  BY <1>1 DEF Counts
<1>3. /\ smSafe \in Nat /\ nfSafe \in Nat /\ payloadCount \in Nat /\ h \in Nat /\ o \in Nat
      /\ left \in Nat /\ left <= N
  BY <1>1, SumType DEF Shape, PipelineShape, SinkShape
<1>4. /\ seen["smSafe"] <= smSafe /\ seen["nfSafe"] <= nfSafe
      /\ seen["payloadCount"] <= payloadCount
  BY DEF HostView
<1>5. N <= seen["smSafe"] + seen["nfSafe"] + seen["payloadCount"]
  BY <1>1 DEF PayloadAccounted
<1>6. smSafe + nfSafe + payloadCount + h + o = Sum
  BY DEF Sum
<1>7. Sum <= left
  BY DEF Accounts
<1>. HIDE DEF h, o
<1>8. /\ left = N /\ smSafe + nfSafe + payloadCount = N /\ h = 0 /\ o = 0 /\ Sum = left
  BY <1>1, <1>2, <1>3, <1>4, <1>5, <1>6, <1>7, SumsAgree
<1>9. EndsInEop(hostPipe) /\ EndsInEop(overflowPipe)
  BY <1>8 DEF Accounts
<1>10. hostPipe = << >> /\ overflowPipe = << >>
  BY <1>8, <1>9, NoEndsNoFlits DEF h, o, Shape, PipelineShape
<1>11. newPacket
  BY <1>8, <1>10 DEF Accounts
<1>. QED
  BY <1>1, <1>8, <1>10, <1>11 DEF AllPacked

\* The rules sink is stopped when the other sum agrees.
LEMMA ResultsAgree ==
  ASSUME Shape, HostView, Tallied, pc # "poll", ResultsAccounted
  PROVE  AllRuled
<1>1. /\ sourceIdle /\ sent = N /\ seen["sent"] = N /\ N \in Nat
      /\ \A r \in Counts : seen[r] \in Nat
  BY SeenSource DEF ResultsAccounted
<1>2. /\ seen["smSafe"] \in Nat /\ seen["nfSafe"] \in Nat /\ seen["resultCount"] \in Nat
      /\ seen["dropped"] \in Nat
  BY <1>1 DEF Counts
<1>3. /\ smSafe \in Nat /\ nfSafe \in Nat /\ resultCount \in Nat /\ dropped \in Nat
      /\ left \in Nat /\ left <= N /\ Len(resultPipe) \in Nat
  BY <1>1 DEF Shape, PipelineShape, ResultShape
<1>4. /\ seen["smSafe"] <= smSafe /\ seen["nfSafe"] <= nfSafe
      /\ seen["resultCount"] <= resultCount /\ seen["dropped"] <= dropped
  BY DEF HostView
<1>5. N - seen["dropped"] = seen["smSafe"] + seen["nfSafe"] + seen["resultCount"]
  BY <1>1 DEF ResultsAccounted
<1>6. dropped + smSafe + nfSafe + resultCount + Len(resultPipe) = left
  BY DEF Tallied
<1>7. left = N /\ Len(resultPipe) = 0
  <2> DEFINE d == seen["dropped"]
             a == seen["smSafe"]
             b == seen["nfSafe"]
             c == seen["resultCount"]
             l == Len(resultPipe)
  <2>1. d \in Nat /\ a \in Nat /\ b \in Nat /\ c \in Nat /\ l \in Nat
    BY <1>2, <1>3
  <2>2. d <= dropped /\ a <= smSafe /\ b <= nfSafe /\ c <= resultCount
    BY <1>4
  <2>3. N - d = a + b + c
    BY <1>5
  <2>4. dropped + smSafe + nfSafe + resultCount + l = left
    BY <1>6
  <2>. HIDE DEF d, a, b, c, l
  <2>5. d + a + b + c <= dropped + smSafe + nfSafe + resultCount
    BY <1>3, <2>1, <2>2
  <2>6. d + a + b + c = N
    BY <1>1, <2>1, <2>3
  <2>7. left = N /\ l = 0
    BY <1>1, <1>3, <2>1, <2>4, <2>5, <2>6
  <2>. QED
    BY <2>7 DEF l
<1>8. resultPipe = << >>
  BY <1>7 DEF Shape, PipelineShape
<1>. QED
  BY <1>1, <1>7, <1>8 DEF AllRuled

\* And nothing comes after that.
LEMMA NothingMoves ==
  ASSUME Shape, [Next]_vars, left = N, sent = N, sourceIdle
  PROVE  /\ UNCHANGED <<left, sent, sourceIdle, smSafe, nfSafe, dropped>>
         /\ hostPipe = << >> => hostPipe' = << >>
         /\ overflowPipe = << >> => overflowPipe' = << >>
         /\ hostPipe = << >> /\ overflowPipe = << >> =>
              UNCHANGED <<hostPipe, overflowPipe, newPacket, payloadCount>>
         /\ resultPipe = << >> => UNCHANGED <<resultPipe, resultCount>>
<1>1. ~Arrive /\ ~Leave
  <2>1. ~(sent < Len(FlitsOf)) /\ ~(left < sent)
    BY LengthsType DEF N
  <2>. QED
    BY <2>1 DEF Arrive, Send, SourceEnds, Leave
<1>2. CASE PayloadSink
  <2>1. UNCHANGED <<pipeline, resultPipe, resultCount>>
    BY <1>2 DEF PayloadSink, SinkTakesHit, SinkTakesDropped, SinkTakesNothing, SinkPacks,
                streams, resultSink
  <2>2. \/ hostPipe # << >> /\ UNCHANGED overflowPipe
        \/ overflowPipe # << >> /\ UNCHANGED hostPipe
        \/ UNCHANGED <<hostPipe, overflowPipe, newPacket, payloadCount>>
    BY <1>2 DEF PayloadSink, SinkTakesHit, SinkTakesDropped, SinkTakesNothing, SinkEnds,
                streams
  <2>. QED
    BY <2>1, <2>2 DEF pipeline
<1>3. CASE ResultSink
  BY <1>3 DEF ResultSink, SinkResult, SinkResultEnd, pipeline, payloadSink, streams
<1>4. CASE WritePack \/ CyclesOver \/ WriteResult \/ Host \/ UNCHANGED vars
  <2>1. UNCHANGED <<pipeline, streams, payloadSink, resultCount>>
    BY <1>4 DEF vars, resultSink, WriteResult, WritePack, CyclesOver, Host, StartWindow,
         ReadBuffer, ReadRegister, StopPayload, StopRules
  <2>. QED
    BY <2>1 DEF pipeline, streams, payloadSink
<1>. QED
  BY <1>1, <1>2, <1>3, <1>4 DEF Next

LEMMA StaysPacked == Shape /\ [Next]_vars /\ AllPacked => AllPacked'
BY NothingMoves DEF AllPacked
LEMMA StaysRuled == Shape /\ [Next]_vars /\ AllRuled => AllRuled'
BY NothingMoves DEF AllRuled

Counted == Tallied /\ (~Repeated => Accounts)

LEMMA NextStops == Shape /\ HostView /\ Counted /\ Stops /\ [Next]_vars => Stops'
<1>. SUFFICES ASSUME Shape, HostView, Counted, Stops, [Next]_vars PROVE Stops'
  OBVIOUS
<1>1. (AllPacked => AllPacked') /\ (AllRuled => AllRuled') /\ (Repeated => Repeated')
  BY StaysPacked, StaysRuled, MangledGrows DEF Repeated
<1>2. UNCHANGED program
  BY DEF Next, vars, host, Arrive, Send, SourceEnds, Leave, PayloadSink, SinkTakesHit,
         SinkTakesDropped, SinkTakesNothing, SinkPacks, ResultSink, SinkResult,
         SinkResultEnd, WriteResult, WritePack, CyclesOver, Host, StartWindow, ReadBuffer,
         ReadRegister, StopPayload, StopRules
<1>3. CASE StopPayload
  <2>1. UNCHANGED <<resultStop, rulesStopped>> /\ pc # "poll"
    BY <1>3 DEF StopPayload
  <2>2. CASE UNCHANGED <<payloadStop, payloadStopped>>
    BY <1>1, <1>2, <2>1, <2>2 DEF Stops
  <2>3. CASE StopsPayload /\ payloadStop' = TRUE /\ payloadStopped' = TRUE
    <3>1. ~Repeated => AllPacked
      BY <2>1, <2>3, PayloadAgrees DEF StopsPayload, Counted
    <3>2. program = "host" => AllRuled
      BY <2>1, <2>3, ResultsAgree DEF StopsPayload, Counted
    <3>. QED
      BY <1>1, <1>2, <2>1, <2>3, <3>1, <3>2 DEF Stops
  <2>. QED
    BY <1>3, <2>2, <2>3 DEF StopPayload
<1>4. CASE StopRules
  <2>1. UNCHANGED <<payloadStop, payloadStopped>> /\ pc # "poll"
    BY <1>4 DEF StopRules
  <2>2. CASE UNCHANGED <<resultStop, rulesStopped>>
    BY <1>1, <1>2, <2>1, <2>2 DEF Stops
  <2>3. CASE StopsRules /\ resultStop' = TRUE /\ rulesStopped' = TRUE
    <3>1. AllRuled
      BY <2>1, <2>3, ResultsAgree DEF StopsRules, Stops, Counted
    <3>. QED
      BY <1>1, <1>2, <2>1, <2>3, <3>1 DEF Stops
  <2>. QED
    BY <1>4, <2>2, <2>3 DEF StopRules
<1>5. CASE UNCHANGED <<payloadStop, payloadStopped, resultStop, rulesStopped>>
  BY <1>1, <1>2, <1>5 DEF Stops
<1>6. ASSUME ~StopPayload, ~StopRules
      PROVE  UNCHANGED <<payloadStop, payloadStopped, resultStop, rulesStopped>>
  BY <1>6 DEF Next, vars, stops, host, Arrive, Send, SourceEnds, Leave, PayloadSink,
       SinkTakesHit, SinkTakesDropped, SinkTakesNothing, SinkPacks, ResultSink, SinkResult,
       SinkResultEnd, WriteResult, WritePack, CyclesOver, Host, StartWindow, ReadBuffer,
       ReadRegister
<1>. QED
  BY <1>3, <1>4, <1>5, <1>6

\* What holds always, and what holds until a fragment is repeated.
Basis == Shape /\ HostView /\ Counted /\ Stops
Layers == Shape /\ HostView /\ Accounts /\ Stops /\ ~Repeated

LEMMA BasisLayers == Basis /\ ~Repeated => Layers
BY DEF Basis, Layers, Counted

LEMMA InitBasis == Init => Basis /\ ~Repeated
<1>1. Init => Stops /\ ~Repeated
  BY DEF Init, Stops, Repeated
<1>. QED
  BY <1>1, InitShape, InitView, InitAccounts DEF Basis, Counted

LEMMA NextBasis == Basis /\ [Next]_vars => Basis'
<1>. SUFFICES ASSUME Basis, [Next]_vars PROVE Basis'
  OBVIOUS
<1>1. Repeated => Repeated'
  BY MangledGrows DEF Repeated
<1>2. Tallied' /\ (~Repeated' => Accounts')
  BY <1>1, NextTallied, NextAccounts DEF Basis, Counted
<1>3. Counted'
  BY <1>2 DEF Counted
<1>. QED
  BY <1>3, NextShape, NextView, NextStops DEF Basis

LEMMA SpecBasis == Spec => []Basis
BY InitBasis, NextBasis, PTL DEF Spec

\* The variables have their types.
THEOREM TypeCorrect == Spec => []TypeOK
<1>1. Basis => TypeOK
  <2>. SUFFICES ASSUME Basis PROVE TypeOK
    OBVIOUS
  <2>1. /\ dropped \in 0 .. sent /\ smSafe \in 0 .. sent /\ nfSafe \in 0 .. sent
        /\ resultCount \in 0 .. sent
    <3>1. /\ smSafe \in Nat /\ nfSafe \in Nat /\ resultCount \in Nat /\ dropped \in Nat
          /\ left \in 0 .. sent /\ sent \in Nat /\ Len(resultPipe) \in Nat
      BY LengthsType DEF Basis, Shape, PipelineShape, SinkShape, ResultShape
    <3>2. dropped + smSafe + nfSafe + resultCount + Len(resultPipe) = left
      BY DEF Basis, Counted, Tallied
    <3>3. dropped <= left /\ smSafe <= left /\ nfSafe <= left /\ resultCount <= left
      BY <3>1, <3>2
    <3>. QED
      BY <3>1, <3>3
  <2>2. Range(Registers) = {"source", "rules", "payload"} \cup Counts
    BY UnreadFields DEF Unread
  <2>3. DOMAIN seen = Range(Registers) /\ register \in 1 .. Len(Registers)
    BY <2>2 DEF Basis, Shape, HostShape, HostView, Registers
  <2>. QED
    BY <2>1, <2>3
       DEF Basis, Shape, PipelineShape, SinkShape, WriterShape, ResultShape, HostShape,
           TypeOK, N
<1>. QED
  BY <1>1, SpecBasis, PTL

\* The sinks are told to stop only when no packet is under way any more; the
\* payload sink may be stopped before where a fragment was repeated.
THEOREM StopsAreLast == Spec => []StopsAreFinal
<1>1. Basis => StopsAreFinal
  BY DEF Basis, Stops, AllPacked, AllRuled, StopsAreFinal
<1>. QED
  BY <1>1, SpecBasis, PTL

-----------------------------------------------------------------------------
(***************************************************************************)
(* The results' end mark comes after all results.                          *)
(***************************************************************************)
LEMMA InitMarks == Init => Marks
<1>. SUFFICES ASSUME Init PROVE Marks
  OBVIOUS
<1>1. /\ trace = << >> /\ tracePipe = << >> /\ resultCount = 0 /\ resultSeen = FALSE
      /\ tracing = TRUE
  BY DEF Init
<1>2. CountIn(trace, Packet) = 0 /\ CountIn(tracePipe, Results) = 0 /\ Len(tracePipe) = 0
  BY <1>1, CountEmpty
<1>. QED
  BY <1>1, <1>2 DEF Marks

\* A result after the stop would carry a second end mark; there is none.
LEMMA SinkResultMarks == Basis /\ Marks /\ SinkResult => Marks'
<1>. SUFFICES ASSUME Basis, Marks, SinkResult PROVE Marks'
  OBVIOUS
<1>1. ~resultStop /\ ~resultSeen
  BY DEF SinkResult, Basis, Stops, AllRuled, Marks
<1> DEFINE w == [pkt |-> Head(resultPipe), terminate |-> resultStop]
<1>2. /\ Head(resultPipe) \in Packet /\ resultStop = FALSE
  BY <1>1 DEF SinkResult, Basis, Shape, PipelineShape, HostShape
<1>3. w \in ResultWrite /\ w \in Results /\ ~w.terminate
  <2>1. w = [pkt |-> Head(resultPipe), terminate |-> FALSE]
    BY <1>2, Zenon
  <2>3. Head(resultPipe) # 0
    BY <1>2, LengthsType
  <2>. HIDE DEF w
  <2>2. w \in ResultWrite /\ w.pkt # 0 /\ ~w.terminate
    BY <1>2, <2>1, <2>3 DEF ResultWrite
  <2>. QED
    BY <2>2 DEF Results
<1>4. /\ tracePipe' = Append(tracePipe, w) /\ resultCount' = resultCount + 1
      /\ resultSeen' = FALSE
      /\ UNCHANGED <<tracer, stops, program>>
  BY <1>1, Zenon DEF SinkResult, host
<1>. HIDE DEF w
<1>5. /\ tracePipe \in Seq(ResultWrite) /\ trace \in Seq({0} \cup Packet) /\ resultCount \in Nat
  BY DEF Basis, Shape, ResultShape
<1>6. CountIn(tracePipe', Results) = CountIn(tracePipe, Results) + 1
  <2>1. CountIn(tracePipe', Results)
          = CountIn(tracePipe, Results) + (IF w \in Results THEN 1 ELSE 0)
    BY <1>3, <1>4, <1>5, CountAppend
  <2>. QED
    BY <1>3, <2>1
<1>7. CountIn(trace, Packet) \in Nat /\ CountIn(tracePipe, Results) \in Nat
  BY <1>5, CountType
<1>8. \A i \in 1 .. Len(tracePipe') : ~tracePipe'[i].terminate
  <2>1. \A i \in 1 .. Len(tracePipe) : ~tracePipe[i].terminate
    BY <1>1 DEF Marks
  <2>2. /\ Len(tracePipe') = Len(tracePipe) + 1 /\ tracePipe'[Len(tracePipe) + 1] = w
        /\ \A i \in 1 .. Len(tracePipe) : tracePipe'[i] = tracePipe[i]
        /\ Len(tracePipe) \in Nat
    BY <1>3, <1>4, <1>5
  <2>. QED
    BY <1>3, <2>1, <2>2
<1>9. UNCHANGED <<trace, tracing, resultStop>> /\ tracing
  BY <1>1, <1>4 DEF tracer, stops, Marks
<1>. QED
  BY <1>4, <1>5, <1>6, <1>7, <1>8, <1>9 DEF Marks, SkipResults

LEMMA SinkEndMarks == Basis /\ Marks /\ SinkResultEnd => Marks'
<1>. SUFFICES ASSUME Basis, Marks, SinkResultEnd PROVE Marks'
  OBVIOUS
<1> DEFINE w == [pkt |-> 0, terminate |-> TRUE]
<1>1. /\ resultStop /\ ~resultSeen /\ tracePipe' = Append(tracePipe, w)
      /\ resultSeen' = TRUE
      /\ UNCHANGED <<resultCount, trace, tracing, resultStop, program>>
  BY Zenon DEF SinkResultEnd, tracer, stops, host
<1>2. tracing
  BY <1>1 DEF Marks
<1>3. w \in ResultWrite /\ w \notin Results
  BY DEF ResultWrite, Results
<1>. HIDE DEF w
<1>4. /\ tracePipe \in Seq(ResultWrite) /\ trace \in Seq({0} \cup Packet) /\ resultCount \in Nat
  BY DEF Basis, Shape, ResultShape
<1>5. CountIn(tracePipe', Results) = CountIn(tracePipe, Results)
  <2>1. CountIn(tracePipe', Results)
          = CountIn(tracePipe, Results) + (IF w \in Results THEN 1 ELSE 0)
    BY <1>1, <1>3, <1>4, CountAppend
  <2>2. CountIn(tracePipe, Results) \in Nat
    BY <1>4, CountType
  <2>. QED
    BY <1>3, <2>1, <2>2
<1>6. \A i \in 1 .. Len(tracePipe') : tracePipe'[i].terminate => i = Len(tracePipe')
  <2>1. \A i \in 1 .. Len(tracePipe) : ~tracePipe[i].terminate
    BY <1>1 DEF Marks
  <2>2. /\ Len(tracePipe') = Len(tracePipe) + 1
        /\ \A i \in 1 .. Len(tracePipe) : tracePipe'[i] = tracePipe[i]
        /\ Len(tracePipe) \in Nat
    BY <1>1, <1>3, <1>4
  <2>. QED
    BY <2>1, <2>2
<1>. QED
  BY <1>1, <1>2, <1>5, <1>6 DEF Marks, SkipResults

LEMMA WriteMarks == Basis /\ Marks /\ WriteResult => Marks'
<1>. SUFFICES ASSUME Basis, Marks, WriteResult PROVE Marks'
  OBVIOUS
<1> DEFINE w == Head(tracePipe)
<1>1. /\ tracePipe # << >> /\ tracePipe' = Tail(tracePipe)
      /\ trace' = (IF SkipResults THEN trace ELSE Append(trace, w.pkt))
      /\ tracing' = ~w.terminate
      /\ UNCHANGED <<resultCount, resultSeen, resultStop, program>>
  BY DEF WriteResult, resultSink, stops, host
<1>2. /\ tracePipe \in Seq(ResultWrite) /\ trace \in Seq({0} \cup Packet) /\ resultCount \in Nat
  BY DEF Basis, Shape, ResultShape
<1>3. /\ w \in ResultWrite /\ w = tracePipe[1] /\ Len(tracePipe) \in Nat \ {0}
      /\ tracePipe' \in Seq(ResultWrite) /\ Len(tracePipe') = Len(tracePipe) - 1
      /\ \A i \in 1 .. Len(tracePipe) - 1 : tracePipe'[i] = tracePipe[i + 1]
  BY <1>1, <1>2
<1>4. CountIn(tracePipe, Results) = (IF w \in Results THEN 1 ELSE 0) + CountIn(tracePipe', Results)
  BY <1>1, <1>2, CountTail
<1>. HIDE DEF w
<1>5. w.pkt \in {0} \cup Packet /\ (w \in Results <=> w.pkt \in Packet)
  BY <1>3, LengthsType DEF ResultWrite, Results
<1>6. ~SkipResults =>
        CountIn(trace', Packet) = CountIn(trace, Packet) + (IF w.pkt \in Packet THEN 1 ELSE 0)
  BY <1>1, <1>2, <1>5, CountAppend
<1>7. /\ CountIn(trace, Packet) \in Nat /\ CountIn(tracePipe, Results) \in Nat
      /\ CountIn(tracePipe', Results) \in Nat
  BY <1>2, <1>3, CountType
<1>8. ~SkipResults => CountIn(trace', Packet) + CountIn(tracePipe', Results) = resultCount
  <2>. SUFFICES ASSUME ~SkipResults
                PROVE  CountIn(trace', Packet) + CountIn(tracePipe', Results) = resultCount
    OBVIOUS
  <2>1. CountIn(trace, Packet) + CountIn(tracePipe, Results) = resultCount
    BY DEF Marks
  <2>2. CASE w \in Results
    BY <1>4, <1>5, <1>6, <1>7, <2>1, <2>2
  <2>3. CASE w \notin Results
    BY <1>4, <1>5, <1>6, <1>7, <2>1, <2>3
  <2>. QED
    BY <2>2, <2>3
<1>9. \A i \in 1 .. Len(tracePipe') :
        tracePipe'[i].terminate => i = Len(tracePipe') /\ resultSeen
  <2>1. ASSUME NEW i \in 1 .. Len(tracePipe'), tracePipe'[i].terminate
        PROVE  i = Len(tracePipe') /\ resultSeen
    <3>1. i + 1 \in 1 .. Len(tracePipe) /\ tracePipe[i + 1].terminate
      BY <1>3, <2>1
    <3>2. i + 1 = Len(tracePipe) /\ resultSeen
      BY <3>1 DEF Marks
    <3>. QED
      BY <1>3, <2>1, <3>2
  <2>. QED
    BY <2>1
<1>10. ~tracing' => tracePipe' = << >> /\ resultSeen
  <2>. SUFFICES ASSUME w.terminate PROVE tracePipe' = << >> /\ resultSeen
    BY <1>1
  <2>1. 1 = Len(tracePipe) /\ resultSeen
    BY <1>3 DEF Marks
  <2>2. Len(tracePipe') = Len(tracePipe) - 1
    BY <1>3
  <2>3. Len(tracePipe') = 0
    BY <2>1, <2>2
  <2>. QED
    BY <1>3, <2>1, <2>3
<1>. QED
  BY <1>1, <1>8, <1>9, <1>10 DEF Marks, SkipResults

LEMMA NextMarks == Basis /\ Marks /\ [Next]_vars => Marks'
<1>. SUFFICES ASSUME Basis, Marks, [Next]_vars PROVE Marks'
  OBVIOUS
<1>1. CASE UNCHANGED <<resultSink, tracePipe, tracer, program>> /\ (resultStop => resultStop')
  BY <1>1 DEF resultSink, tracer, Marks, SkipResults
<1>2. CASE StopPayload \/ StopRules
  BY <1>1, <1>2 DEF StopPayload, StopRules
<1>3. ASSUME Arrive \/ Leave \/ PayloadSink \/ WritePack \/ CyclesOver \/ StartWindow
               \/ ReadBuffer \/ ReadRegister \/ UNCHANGED vars
      PROVE  UNCHANGED <<resultSink, tracePipe, tracer, stops, program>>
  BY <1>3 DEF vars, host, Arrive, Send, SourceEnds, Leave, PayloadSink, SinkTakesHit,
       SinkTakesDropped, SinkTakesNothing, SinkPacks, WritePack, CyclesOver, StartWindow,
       ReadBuffer, ReadRegister
<1>. QED
  BY <1>1, <1>2, <1>3, SinkResultMarks, SinkEndMarks, WriteMarks
     DEF Next, ResultSink, Host, stops

\* When the host leaves its loop no result is left in the stream, and every one
\* has been written if the host has them written at all.
THEOREM ResultsComplete == Spec => []ResultsWritten
<1>1. Basis /\ Marks => ResultsWritten
  <2>. SUFFICES ASSUME Basis, Marks, pc = "end"
                PROVE  /\ tracePipe = << >>
                       /\ ~SkipResults =>
                            Cardinality({i \in 1 .. Len(trace) : trace[i] # 0})
                              + dropped + smSafe + nfSafe = Len(FlitsOf)
    BY DEF ResultsWritten
  <2>1. ~tracing /\ resultStop /\ AllRuled
    BY DEF Basis, HostView, Stops
  <2>2. tracePipe = << >> /\ resultPipe = << >> /\ left = N
    BY <2>1 DEF Marks, AllRuled
  <2>3. {i \in 1 .. Len(trace) : trace[i] # 0} = PlacesIn(trace, Packet)
    <3>1. \A i \in 1 .. Len(trace) : trace[i] \in {0} \cup Packet
      BY DEF Basis, Shape, ResultShape
    <3>2. 0 \notin Packet
      BY LengthsType
    <3>. QED
      BY <3>1, <3>2 DEF PlacesIn
  <2>4. CountIn(tracePipe, Results) = 0 /\ Len(resultPipe) = 0
    BY <2>2, CountEmpty
  <2>5. CountIn(trace, Packet) \in Nat
    BY CountType DEF Basis, Shape, ResultShape
  <2>6. ~SkipResults => CountIn(trace, Packet) = resultCount
    BY <2>4, <2>5 DEF Marks
  <2>7. dropped + smSafe + nfSafe + resultCount = N
    <3>1. dropped + smSafe + nfSafe + resultCount + 0 = N
      BY <2>2, <2>4 DEF Basis, Counted, Tallied
    <3>. QED
      BY <3>1 DEF Basis, Shape, PipelineShape, ResultShape
  <2>8. dropped \in Nat /\ smSafe \in Nat /\ nfSafe \in Nat /\ resultCount \in Nat
    BY DEF Basis, Shape, PipelineShape, ResultShape
  <2>9. resultCount + dropped + smSafe + nfSafe = N
    BY <2>7, <2>8
  <2>. QED
    BY <2>2, <2>3, <2>6, <2>9 DEF CountIn, N
<1>. QED
  BY <1>1, SpecBasis, InitMarks, NextMarks, PTL DEF Spec

-----------------------------------------------------------------------------
(***************************************************************************)
(* The payload's end mark comes after all packs, and the host comes by the *)
(* header that has it, and by every overflow bit.                          *)
(***************************************************************************)
LEMMA InitDrained == Init => Drained
<1>. SUFFICES ASSUME Init PROVE Drained
  OBVIOUS
<1>1. /\ ~sinkDone /\ ~sinkSeen /\ packPipe = << >> /\ ~overflow /\ ~done
      /\ \A b \in {0, 1} : ~header[b].done /\ ~header[b].overflow
      /\ memory[1 - target] = << >>
  BY DEF Init
<1>2. Len(packPipe) = 0
  BY <1>1
<1>. QED
  BY <1>1, <1>2
     DEF Drained, EndMarkLast, EndHandedOver, FullHandedOver, Unreported, BufferRead

\* The sink has nothing to pack once it has been told to stop.
LEMMA PacksBeforeStop ==
  ASSUME Layers, SinkTakesHit \/ SinkTakesDropped
  PROVE  ~payloadStop
BY DEF Layers, Stops, AllPacked, SinkTakesHit, SinkTakesDropped

LEMMA SinkPacksDrained ==
  ASSUME Layers, Drained, SinkTakesHit \/ SinkTakesDropped
  PROVE  Drained'
<1>0. ~payloadStop /\ ~sinkSeen /\ ~sinkDone
  BY PacksBeforeStop DEF Drained, EndMarkLast
<1>1. PICK f \in Flit : SinkPacks(f)
  BY HeadTail DEF SinkTakesHit, SinkTakesDropped, Layers, Shape, PipelineShape
<1> DEFINE w == [data |-> f, done |-> FALSE]
<1>2. /\ packPipe' = Append(packPipe, w) /\ ~sinkDone' /\ ~sinkSeen'
      /\ UNCHANGED <<writer, stops, host>>
  <2>1. sinkDone = FALSE
    BY <1>0 DEF Layers, Shape, SinkShape
  <2>2. packPipe' = Append(packPipe, [data |-> f, done |-> sinkDone])
    BY <1>1, Zenon DEF SinkPacks
  <2>3. /\ ~sinkDone' /\ ~sinkSeen' /\ UNCHANGED <<writer, stops, host>>
    BY <1>0, <1>1 DEF SinkPacks, SinkEnds
  <2>. QED
    BY <2>1, <2>2, <2>3
<1>3. w \in Pack /\ ~w.done /\ w.data # Nothing
  BY NothingIsNoFlit DEF Pack
<1>. HIDE DEF w
<1>4. EndMarkLast'
  <2>1. \A i \in 1 .. Len(packPipe') : ~packPipe'[i].done /\ packPipe'[i].data # Nothing
    <3>1. \A i \in 1 .. Len(packPipe) : ~packPipe[i].done /\ packPipe[i].data # Nothing
      BY <1>0 DEF Drained, EndMarkLast
    <3>2. /\ Len(packPipe') = Len(packPipe) + 1 /\ packPipe'[Len(packPipe) + 1] = w
          /\ \A i \in 1 .. Len(packPipe) : packPipe'[i] = packPipe[i]
          /\ Len(packPipe) \in Nat
      BY <1>2, <1>3 DEF Layers, Shape, WriterShape
    <3>. QED
      BY <1>3, <3>1, <3>2
  <2>. QED
    BY <1>2, <2>1 DEF EndMarkLast
<1>5. EndHandedOver'
  <2>1. ~Final
    BY <1>0 DEF Final
  <2>. QED
    BY <1>2, <2>1 DEF Drained, EndHandedOver, SkipWrite, writer, host
<1>6. FullHandedOver' /\ BufferRead'
  BY <1>2 DEF Drained, FullHandedOver, Unreported, BufferRead, writer, host
<1>. QED
  BY <1>4, <1>5, <1>6 DEF Drained

LEMMA SinkIdleDrained == Layers /\ Drained /\ SinkTakesNothing => Drained'
<1>. SUFFICES ASSUME Layers, Drained, SinkTakesNothing PROVE Drained'
  OBVIOUS
<1> DEFINE writes == sinkDone /\ ~sinkSeen
<1>1. /\ UNCHANGED <<writer, stops, host>> /\ sinkDone' = payloadStop
      /\ packPipe' = IF writes THEN Append(packPipe, EndMark) ELSE packPipe
      /\ sinkSeen' = (payloadStop /\ (IF writes THEN sinkDone ELSE sinkSeen))
  BY Zenon DEF SinkTakesNothing, SinkEnds, EndMark
<1>2. UNCHANGED <<writing, overflow, target, memory, header, payloadStop, program, pc, done,
                  warned>>
  BY <1>1 DEF writer, stops, host
<1>3. sinkDone \in BOOLEAN /\ sinkSeen \in BOOLEAN /\ payloadStop \in BOOLEAN
      /\ packPipe \in Seq(Pack) /\ EndMark \in Pack
  BY DEF Layers, Shape, SinkShape, HostShape, WriterShape, Pack, EndMark
<1>4. CASE ~writes
  <2>1. packPipe' = packPipe /\ (sinkSeen' <=> sinkSeen) /\ (sinkDone' => payloadStop)
    BY <1>1, <1>3, <1>4 DEF Drained, EndMarkLast
  <2>2. EndMarkLast'
    BY <1>2, <2>1 DEF Drained, EndMarkLast
  <2>3. Final => Final'
    BY <1>2, <2>1 DEF Final
  <2>. QED
    BY <1>2, <2>2, <2>3
       DEF Drained, EndHandedOver, FullHandedOver, NothingAfter, Unreported, SkipWrite,
           BufferRead
<1>5. CASE writes
  <2>1. packPipe' = Append(packPipe, EndMark) /\ sinkSeen' /\ payloadStop /\ ~sinkSeen
    BY <1>1, <1>5 DEF Drained, EndMarkLast
  <2>2. ~Final
    BY <2>1 DEF Final
  <2>3. EndMarkLast'
    <3>1. \A i \in 1 .. Len(packPipe) : ~packPipe[i].done /\ packPipe[i].data # Nothing
      BY <2>1 DEF Drained, EndMarkLast
    <3>2. /\ Len(packPipe') = Len(packPipe) + 1 /\ packPipe'[Len(packPipe) + 1] = EndMark
          /\ \A i \in 1 .. Len(packPipe) : packPipe'[i] = packPipe[i]
          /\ Len(packPipe) \in Nat
      BY <1>3, <2>1
    <3>. QED
      BY <1>2, <2>1, <3>1, <3>2 DEF EndMarkLast
  <2>. QED
    BY <1>2, <2>2, <2>3
       DEF Drained, EndHandedOver, FullHandedOver, Unreported, SkipWrite, BufferRead
<1>. QED
  BY <1>4, <1>5

LEMMA WriteDrained == Layers /\ Drained /\ WritePack => Drained'
<1>. SUFFICES ASSUME Layers, Drained, WritePack PROVE Drained'
  OBVIOUS
<1> DEFINE w == Head(packPipe)
<1>1. /\ writing /\ packPipe # << >> /\ packPipe' = Tail(packPipe)
      /\ UNCHANGED <<sinkDone, sinkSeen, target, payloadStop, program, pc, done, warned>>
  BY DEF WritePack, payloadSink, stops, host
<1>2. ~Final /\ ~done /\ \A b \in {0, 1} : ~SkipWrite => ~header[b].done
  BY <1>1 DEF Final, Drained, EndHandedOver
<1>3. /\ w = packPipe[1] /\ Len(packPipe) \in Nat \ {0}
      /\ packPipe' \in Seq(Pack) /\ Len(packPipe') = Len(packPipe) - 1
      /\ \A i \in 1 .. Len(packPipe) - 1 : packPipe'[i] = packPipe[i + 1]
  BY <1>1 DEF Layers, Shape, WriterShape
<1>4. EndMarkLast'
  <2>1. ASSUME NEW i \in 1 .. Len(packPipe'),
               packPipe'[i].done \/ packPipe'[i].data = Nothing
        PROVE  packPipe'[i] = EndMark /\ i = Len(packPipe') /\ sinkSeen
    <3>1. i + 1 \in 1 .. Len(packPipe) /\ packPipe'[i] = packPipe[i + 1]
      BY <1>3
    <3>2. packPipe[i + 1] = EndMark /\ i + 1 = Len(packPipe) /\ sinkSeen
      BY <2>1, <3>1 DEF Drained, EndMarkLast
    <3>. QED
      BY <1>3, <3>1, <3>2
  <2>. QED
    BY <1>1, <2>1 DEF Drained, EndMarkLast
<1>5. target \in {0, 1} /\ header \in [{0, 1} -> [done : BOOLEAN, overflow : BOOLEAN]]
      /\ overflow' \in BOOLEAN
  BY WriterShapeKept DEF Layers, Shape, WriterShape
<1>8. BufferRead'
  <2>2. /\ memory \in [{0, 1} -> Seq(Flit)] /\ 1 - target \in {0, 1} /\ 1 - target # target
    BY <1>5 DEF Layers, Shape, WriterShape
  <2>3. memory' = memory \/ memory' = [memory EXCEPT ![target] = Append(@, w.data)]
    BY Zenon DEF WritePack
  <2>1. memory'[1 - target] = memory[1 - target]
    BY <2>2, <2>3
  <2>. QED
    BY <1>1, <2>1 DEF Drained, BufferRead
<1>6. CASE w.done /\ WindowEnds(TRUE, overflow')
  <2>1. 1 = Len(packPipe) /\ sinkSeen /\ payloadStop
    BY <1>3, <1>6 DEF Drained, EndMarkLast
  <2>2. Len(packPipe') = Len(packPipe) - 1
    BY <1>3
  <2>3. packPipe' = << >>
    BY <1>3, <2>1, <2>2
  <2>4. Final'
    BY <1>1, <2>1, <2>3 DEF Final
  <2>5. /\ header'[target].done /\ header'[target].overflow = overflow' /\ ~writing'
        /\ \A b \in {0, 1} : b # target => header'[b] = header[b]
    BY <1>5, <1>6 DEF WindowEnds
  <2>6. EndHandedOver'
    BY <1>1, <1>2, <2>4, <2>5 DEF EndHandedOver, SkipWrite
  <2>7. FullHandedOver'
    BY <1>1, <2>5 DEF Drained, FullHandedOver, Unreported
  <2>. QED
    BY <1>4, <1>8, <2>6, <2>7 DEF Drained
<1>7. CASE UNCHANGED <<writing, header>>
  <2>1. EndHandedOver'
    BY <1>1, <1>2, <1>7 DEF EndHandedOver, SkipWrite
  <2>2. FullHandedOver'
    BY <1>1, <1>7 DEF Drained, FullHandedOver, Unreported
  <2>. QED
    BY <1>4, <1>8, <2>1, <2>2 DEF Drained
<1>. QED
  BY <1>6, <1>7 DEF WritePack

LEMMA CyclesDrained == Layers /\ Drained /\ CyclesOver => Drained'
<1>. SUFFICES ASSUME Layers, Drained, CyclesOver PROVE Drained'
  OBVIOUS
<1>1. /\ UNCHANGED <<packPipe, sinkDone, sinkSeen, target, memory, payloadStop, program, pc,
                     done, warned>>
      /\ ~writing'
  BY DEF CyclesOver, WindowEnds, payloadSink, stops, host
<1>2. target \in {0, 1} /\ header \in [{0, 1} -> [done : BOOLEAN, overflow : BOOLEAN]]
      /\ overflow' \in BOOLEAN
  BY WriterShapeKept DEF Layers, Shape, WriterShape
<1>3. /\ header'[target].done = FALSE /\ header'[target].overflow = overflow'
      /\ \A b \in {0, 1} : b # target => header'[b] = header[b]
  BY <1>2 DEF CyclesOver, WindowEnds
<1>4. NothingAfter(target) => NothingAfter(target)'
  <2>. SUFFICES ASSUME NothingAfter(target) PROVE NothingAfter(target)'
    OBVIOUS
  <2>1. memory[target] = << >> /\ ~overflow
    BY DEF NothingAfter
  <2>2. ~Full
    BY <2>1, CollectionAssumption DEF Full
  <2>3. ~overflow'
    BY <2>1, <2>2 DEF CyclesOver
  <2>. QED
    BY <1>1, <1>3, <2>1, <2>3 DEF NothingAfter, Unreported
<1>5. EndMarkLast' /\ (Final => Final')
  BY <1>1 DEF Drained, EndMarkLast, Final
<1>6. EndHandedOver'
  <2>1. ASSUME NEW b \in {0, 1}, header'[b].done, ~SkipWrite'
        PROVE  /\ b # target /\ Final /\ (pc = "read" \/ done) /\ NothingAfter(target)
    BY <1>1, <1>3, <2>1 DEF Drained, EndHandedOver, SkipWrite
  <2>2. ASSUME done
        PROVE  ~Unreported(1 - target)'
    BY <1>1, <1>2, <1>3, <2>2 DEF Drained, EndHandedOver, Unreported
  <2>. QED
    BY <1>1, <1>4, <1>5, <2>1, <2>2 DEF Drained, EndHandedOver, NothingAfter
<1>7. FullHandedOver' /\ BufferRead'
  BY <1>1, <1>3 DEF Drained, FullHandedOver, Unreported, BufferRead
<1>. QED
  BY <1>5, <1>6, <1>7 DEF Drained

LEMMA StartDrained == Layers /\ Drained /\ StartWindow => Drained'
<1>. SUFFICES ASSUME Layers, Drained, StartWindow PROVE Drained'
  OBVIOUS
<1>1. /\ pc = "collect" /\ ~writing /\ target' = 1 - target /\ overflow' = FALSE
      /\ memory' = memory /\ memory[1 - target] = << >> /\ pc' = "read"
      /\ UNCHANGED <<packPipe, sinkDone, sinkSeen, header, payloadStop, program, done, warned>>
  BY DEF StartWindow, OtherBuffer, payloadSink, stops, Drained, BufferRead
<1>2. target \in {0, 1} /\ memory \in [{0, 1} -> Seq(Flit)]
  BY DEF Layers, Shape, WriterShape
<1>3. ~done
  BY <1>1 DEF Drained, EndHandedOver
<1>4. EndMarkLast' /\ (Final => Final')
  BY <1>1 DEF Drained, EndMarkLast, Final
<1>5. ~Unreported(1 - target)
  BY <1>1, <1>2 DEF Drained, FullHandedOver
<1>6. NothingAfter(target)'
  BY <1>1, <1>2, <1>5 DEF NothingAfter, Unreported
<1>7. EndHandedOver'
  <2>1. ASSUME NEW b \in {0, 1}, header[b].done, ~SkipWrite
        PROVE  b = target /\ Final
    BY <1>1, <1>3, <2>1 DEF Drained, EndHandedOver
  <2>2. ASSUME NEW b \in {0, 1}, header'[b].done, ~SkipWrite'
        PROVE  /\ Final' /\ b # target' /\ pc' = "read" /\ NothingAfter(target)'
    <3>1. b = target /\ Final
      BY <1>1, <2>1, <2>2 DEF SkipWrite
    <3>. QED
      BY <1>1, <1>2, <1>4, <1>6, <3>1
  <2>. QED
    BY <1>1, <1>3, <2>2 DEF EndHandedOver
<1>8. FullHandedOver' /\ BufferRead'
  BY <1>1, <1>2, <1>5 DEF FullHandedOver, Unreported, BufferRead
<1>. QED
  BY <1>4, <1>7, <1>8 DEF Drained

LEMMA ReadDrained == Layers /\ Drained /\ ReadBuffer => Drained'
<1>. SUFFICES ASSUME Layers, Drained, ReadBuffer PROVE Drained'
  OBVIOUS
<1> DEFINE last == 1 - target
<1>1. /\ pc = "read" /\ done' = header[last].done /\ pc' = "poll"
      /\ warned' = (warned \/ header[last].overflow)
      /\ UNCHANGED <<packPipe, sinkDone, sinkSeen, writing, overflow, target, header,
                     payloadStop, program>>
  BY DEF ReadBuffer, payloadSink, stops
<1>2. /\ target \in {0, 1} /\ last \in {0, 1} /\ last # target
      /\ memory'[last] = << >> /\ memory'[target] = memory[target]
  BY DEF ReadBuffer, Layers, Shape, WriterShape
<1>3. ~SkipWrite
  BY <1>1 DEF Layers, HostView, SkipWrite
<1>4. EndMarkLast' /\ (Final => Final')
  BY <1>1 DEF Drained, EndMarkLast, Final
<1>5. \A b \in {0, 1} : /\ Unreported(b)' => Unreported(b)
                        /\ b # target => ~Unreported(b)'
  BY <1>1, <1>2 DEF Unreported
<1>6. NothingAfter(target) => NothingAfter(target)'
  BY <1>1, <1>2, <1>5 DEF NothingAfter, Unreported
<1>. HIDE DEF last
<1>7. done' => Final /\ NothingAfter(target)
  BY <1>1, <1>2, <1>3 DEF Drained, EndHandedOver
<1>8. EndHandedOver'
  <2>1. ASSUME NEW b \in {0, 1}, header'[b].done, ~SkipWrite'
        PROVE  /\ Final' /\ (b = target' => ~writing')
               /\ b # target' => done' /\ NothingAfter(target)'
    <3>1. /\ Final /\ (b = target => ~writing)
          /\ b # target => NothingAfter(target)
      BY <1>1, <1>3, <2>1 DEF Drained, EndHandedOver
    <3>2. b # target => b = last
      BY <1>2
    <3>. QED
      BY <1>1, <1>4, <1>6, <2>1, <3>1, <3>2
  <2>2. done' => /\ Final' /\ NothingAfter(target)' /\ ~Unreported(1 - target)'
    <3>1. ~Unreported(1 - target)'
      BY <1>1 DEF last, Unreported
    <3>. QED
      BY <1>4, <1>6, <1>7, <3>1
  <2>. QED
    BY <1>1, <2>1, <2>2 DEF EndHandedOver
<1>9. FullHandedOver'
  <2>1. ASSUME NEW b \in {0, 1}, Unreported(b)'
        PROVE  b = target /\ ~writing
    BY <1>1, <1>2, <1>5, <2>1 DEF Drained, FullHandedOver
  <2>. QED
    BY <1>1, <2>1 DEF Drained, FullHandedOver
<1>10. BufferRead'
  BY <1>1, <1>2 DEF last, BufferRead
<1>. QED
  BY <1>4, <1>8, <1>9, <1>10 DEF Drained

\* A step that leaves the sink, the write kernel and its buffers alone.
LEMMA OtherDrained ==
  ASSUME Layers, Drained,
         UNCHANGED <<packPipe, sinkDone, sinkSeen, writer, program, done, warned>>,
         payloadStop => payloadStop',
         pc' = pc \/ (pc # "read" /\ pc' # "read" /\ (done => pc' # "collect"))
  PROVE  Drained'
<1>1. UNCHANGED <<writing, overflow, target, memory, header>>
  BY DEF writer
<1>2. EndMarkLast' /\ (Final => Final')
  BY DEF Drained, EndMarkLast, Final
<1>3. \A b \in {0, 1} : /\ Unreported(b)' = Unreported(b)
                        /\ NothingAfter(b)' = NothingAfter(b)
  BY <1>1 DEF Unreported, NothingAfter
<1>4. NothingAfter(target)' = NothingAfter(target) /\ Unreported(1 - target)' = Unreported(1 - target)
  BY <1>1 DEF Unreported, NothingAfter
<1>5. EndHandedOver'
  BY <1>1, <1>2, <1>3, <1>4 DEF Drained, EndHandedOver, SkipWrite
<1>6. FullHandedOver' /\ BufferRead'
  BY <1>1, <1>3 DEF Drained, FullHandedOver, BufferRead
<1>. QED
  BY <1>2, <1>5, <1>6 DEF Drained

LEMMA NextDrained == Layers /\ Drained /\ [Next]_vars => Drained'
<1>. SUFFICES ASSUME Layers, Drained, [Next]_vars PROVE Drained'
  OBVIOUS
<1>1. CASE Arrive \/ Leave \/ ResultSink \/ WriteResult \/ UNCHANGED vars
  <2>1. UNCHANGED <<payloadSink, packPipe, writer, stops, host>>
    BY <1>1 DEF vars, Arrive, Send, SourceEnds, Leave, ResultSink, SinkResult, SinkResultEnd,
         WriteResult
  <2>. QED
    BY <2>1, OtherDrained DEF payloadSink, stops, host
<1>2. CASE ReadRegister \/ StopPayload \/ StopRules
  <2>1. UNCHANGED <<packPipe, payloadSink, writer, program, done, warned>>
    BY <1>2 DEF ReadRegister, StopPayload, StopRules
  <2>2. payloadStop => payloadStop'
    BY <1>2 DEF ReadRegister, StopPayload, StopRules, stops
  <2>3. pc # "read" /\ pc' # "read" /\ (done => pc' # "collect")
    BY <1>2 DEF ReadRegister, StopPayload, StopRules
  <2>. QED
    BY <2>1, <2>2, <2>3, OtherDrained DEF payloadSink
<1>. QED
  BY <1>1, <1>2, SinkPacksDrained, SinkIdleDrained, WriteDrained, CyclesDrained, StartDrained,
     ReadDrained DEF Next, PayloadSink, Host

-----------------------------------------------------------------------------
(***************************************************************************)
(* What the sink has packed, and how a step changes it.                    *)
(***************************************************************************)
Marked == packPipe # << >> /\ packPipe[Len(packPipe)].data = Nothing

LEMMA InPackFlits ==
  ASSUME Shape, Drained
  PROVE  /\ Len(InPackPipe) = (IF Marked THEN Len(packPipe) - 1 ELSE Len(packPipe))
         /\ InPackPipe \in Seq(Flit)
         /\ \A i \in 1 .. Len(InPackPipe) : InPackPipe[i] = packPipe[i].data
<1> DEFINE n == IF Marked THEN Len(packPipe) - 1 ELSE Len(packPipe)
<1>1. packPipe \in Seq(Pack) /\ Len(packPipe) \in Nat
  BY DEF Shape, WriterShape
<1>2. Marked => Len(packPipe) # 0
  BY <1>1 DEF Marked
<1>3. n \in Nat /\ n <= Len(packPipe)
  BY <1>1, <1>2
<1>4. ASSUME NEW i \in 1 .. n
      PROVE  packPipe[i].data \in Flit
  <2>1. i \in 1 .. Len(packPipe) /\ packPipe[i] \in Pack
    BY <1>1, <1>3
  <2>2. packPipe[i].data # Nothing
    <3>1. SUFFICES ASSUME packPipe[i].data = Nothing PROVE FALSE
      OBVIOUS
    <3>2. i = Len(packPipe)
      BY <2>1, <3>1 DEF Drained, EndMarkLast
    <3>3. Marked
      BY <1>1, <2>1, <3>1, <3>2 DEF Marked
    <3>. QED
      BY <1>1, <3>2, <3>3
  <2>. QED
    BY <2>1, <2>2, PackFields
<1>5. InPackPipe = [i \in 1 .. n |-> packPipe[i].data]
  BY Zenon DEF InPackPipe, Marked, Last
<1>. HIDE DEF n
<1>6. InPackPipe \in Seq(Flit) /\ Len(InPackPipe) = n
  BY <1>3, <1>4, <1>5
<1>. QED
  BY <1>5, <1>6 DEF n

LEMMA InPack ==
  ASSUME Layers, Drained
  PROVE  /\ Len(InPackPipe) = (IF Marked THEN Len(packPipe) - 1 ELSE Len(packPipe))
         /\ InPackPipe \in Seq(Flit)
         /\ \A i \in 1 .. Len(InPackPipe) : InPackPipe[i] = packPipe[i].data
BY InPackFlits DEF Layers

LEMMA InPackNext ==
  ASSUME Layers, Drained, [Next]_vars
  PROVE  /\ Len(InPackPipe') = (IF Marked' THEN Len(packPipe') - 1 ELSE Len(packPipe'))
         /\ InPackPipe' \in Seq(Flit)
         /\ \A i \in 1 .. Len(InPackPipe') : InPackPipe'[i] = packPipe'[i].data
<1>1. Shape' /\ Drained'
  BY NextShape, NextDrained DEF Layers
<1>2. (Shape /\ Drained =>
        /\ Len(InPackPipe) = (IF Marked THEN Len(packPipe) - 1 ELSE Len(packPipe))
        /\ InPackPipe \in Seq(Flit)
        /\ \A i \in 1 .. Len(InPackPipe) : InPackPipe[i] = packPipe[i].data)'
  BY InPackFlits, PTL
<1>. QED
  BY <1>1, <1>2

\* The buffer that the host is about to read.
InRead == IF pc = "read" THEN memory[1 - target] ELSE << >>

LEMMA PackedParts ==
  /\ Packed = collected \o InRead \o memory[target] \o InPackPipe
  /\ Layers /\ Drained => /\ collected \in Seq(Flit) /\ InRead \in Seq(Flit)
                          /\ memory[target] \in Seq(Flit) /\ InPackPipe \in Seq(Flit)
                          /\ Packed \in Seq(Flit)
<1>1. Packed = collected \o InRead \o memory[target] \o InPackPipe
  BY Zenon DEF Packed, InRead
<1>2. ASSUME Layers, Drained
      PROVE  /\ collected \in Seq(Flit) /\ InRead \in Seq(Flit)
             /\ memory[target] \in Seq(Flit) /\ InPackPipe \in Seq(Flit)
  <2>1. collected \in Seq(Flit) /\ target \in {0, 1} /\ memory \in [{0, 1} -> Seq(Flit)]
    BY <1>2 DEF Layers, Shape, HostShape, WriterShape
  <2>2. memory[target] \in Seq(Flit) /\ memory[1 - target] \in Seq(Flit)
    BY <2>1
  <2>3. InRead \in Seq(Flit)
    BY <2>2 DEF InRead
  <2>. QED
    BY <1>2, <2>1, <2>2, <2>3, InPack
<1>3. ASSUME Layers, Drained
      PROVE  Packed \in Seq(Flit)
  <2>1. collected \o InRead \in Seq(Flit)
    BY <1>2, <1>3, ConcatProperties
  <2>2. collected \o InRead \o memory[target] \in Seq(Flit)
    BY <1>2, <1>3, <2>1, ConcatProperties
  <2>. QED
    BY <1>1, <1>2, <1>3, <2>2, ConcatProperties
<1>. QED
  BY <1>1, <1>2, <1>3

\* Concatenation, as the steps below need it.
LEMMA Regroup ==
  ASSUME NEW a \in Seq(Flit), NEW b \in Seq(Flit), NEW c \in Seq(Flit), NEW d \in Seq(Flit)
  PROVE  /\ a \o b \o << >> \o d = a \o << >> \o b \o d
         /\ (a \o b) \o << >> \o c \o d = a \o b \o c \o d
<1>1. a \o b \in Seq(Flit) /\ a \o << >> = a /\ (a \o b) \o << >> = a \o b
  BY ConcatProperties, ConcatEmptySeq
<1>. QED
  BY <1>1

LEMMA MoveFlit ==
  ASSUME NEW a \in Seq(Flit), NEW m \in Seq(Flit), NEW f \in Flit, NEW t \in Seq(Flit)
  PROVE  a \o Append(m, f) \o t = a \o m \o (<<f>> \o t)
<1>1. <<f>> \in Seq(Flit) /\ Append(m, f) = m \o <<f>>
  BY AppendIsConcat
<1>2. a \o (m \o <<f>>) = (a \o m) \o <<f>>
  BY <1>1, ConcatAssociative
<1>3. a \o m \in Seq(Flit)
  BY ConcatProperties
<1>4. ((a \o m) \o <<f>>) \o t = (a \o m) \o (<<f>> \o t)
  BY <1>1, <1>3, ConcatAssociative
<1>. QED
  BY <1>1, <1>2, <1>4

\* Once a run has overflowed it stays known.
LEMMA StaysOverflowed == Layers /\ Drained /\ [Next]_vars /\ Overflowed => Overflowed'
<1>. SUFFICES ASSUME Layers, Drained, [Next]_vars, Overflowed PROVE Overflowed'
  OBVIOUS
<1>1. CASE UNCHANGED <<warned, overflow, header>>
  BY <1>1 DEF Overflowed
<1>2. CASE WritePack \/ CyclesOver
  <2>1. /\ writing /\ UNCHANGED <<warned, target>> /\ (overflow => overflow')
        /\ (UNCHANGED header \/ \E d \in BOOLEAN : WindowEnds(d, overflow'))
    BY <1>2 DEF WritePack, CyclesOver, host
  <2>2. target \in {0, 1} /\ header \in [{0, 1} -> [done : BOOLEAN, overflow : BOOLEAN]]
    BY DEF Layers, Shape, WriterShape
  <2>3. header[target].overflow => warned
    BY <2>1, <2>2 DEF Drained, FullHandedOver, Unreported
  <2>4. \A b \in {0, 1} : b # target => header'[b] = header[b]
    BY <2>1, <2>2 DEF WindowEnds
  <2>. QED
    BY <2>1, <2>2, <2>3, <2>4 DEF Overflowed
<1>3. CASE StartWindow
  <2>1. UNCHANGED <<warned, header>> /\ ~writing
    BY <1>3 DEF StartWindow
  <2>2. target \in {0, 1}
    BY DEF Layers, Shape, WriterShape
  <2>. QED
    BY <2>1, <2>2 DEF Overflowed, Drained, FullHandedOver
<1>4. CASE ReadBuffer
  BY <1>4 DEF ReadBuffer, writer, Overflowed
<1>. QED
  <2>1. ASSUME Arrive \/ Leave \/ PayloadSink \/ ResultSink \/ WriteResult \/ ReadRegister
                 \/ StopPayload \/ StopRules \/ UNCHANGED vars
        PROVE  UNCHANGED <<warned, overflow, header>>
    BY <2>1 DEF vars, writer, host, Arrive, Send, SourceEnds, Leave, PayloadSink, SinkTakesHit,
         SinkTakesDropped, SinkTakesNothing, SinkPacks, ResultSink, SinkResult,
         SinkResultEnd, WriteResult, ReadRegister, StopPayload, StopRules
  <2>. QED
    BY <1>1, <1>2, <1>3, <1>4, <2>1 DEF Next, Host

\* The sink adds the flit that it takes.
LEMMA PackedGrows ==
  ASSUME Layers, Drained, [Next]_vars, NEW f \in Flit, SinkPacks(f),
         SinkTakesHit \/ SinkTakesDropped
  PROVE  Packed' = Append(Packed, f)
<1>1. ~payloadStop /\ ~sinkSeen
  BY PacksBeforeStop DEF Drained, EndMarkLast
<1> DEFINE w == [data |-> f, done |-> sinkDone]
<1>2. packPipe' = Append(packPipe, w) /\ UNCHANGED <<writer, host>>
  BY Zenon DEF SinkPacks
<1>3. w \in Pack /\ w.data = f /\ packPipe \in Seq(Pack)
  BY DEF Pack, Layers, Shape, SinkShape, WriterShape
<1>. HIDE DEF w
<1>4. /\ Len(packPipe') = Len(packPipe) + 1 /\ packPipe'[Len(packPipe) + 1] = w
      /\ \A i \in 1 .. Len(packPipe) : packPipe'[i] = packPipe[i]
      /\ Len(packPipe) \in Nat
  BY <1>2, <1>3
<1>5. ~Marked /\ ~Marked'
  <2>1. Len(packPipe) # 0 => Len(packPipe) \in 1 .. Len(packPipe)
    BY <1>4
  <2>2. ~Marked
    BY <1>1, <1>3, <1>4, <2>1 DEF Marked, Drained, EndMarkLast
  <2>3. f # Nothing
    BY NothingIsNoFlit
  <2>. QED
    BY <1>3, <1>4, <2>2, <2>3 DEF Marked
<1>6. /\ InPackPipe \in Seq(Flit) /\ Len(InPackPipe) = Len(packPipe)
      /\ \A i \in 1 .. Len(InPackPipe) : InPackPipe[i] = packPipe[i].data
  BY <1>5, InPack
<1>7. /\ InPackPipe' \in Seq(Flit) /\ Len(InPackPipe') = Len(packPipe')
      /\ \A i \in 1 .. Len(InPackPipe') : InPackPipe'[i] = packPipe'[i].data
  BY <1>5, InPackNext
<1>8. InPackPipe' = Append(InPackPipe, f)
  <2>1. /\ Append(InPackPipe, f) \in Seq(Flit) /\ Len(Append(InPackPipe, f)) = Len(InPackPipe')
        /\ \A i \in 1 .. Len(InPackPipe) : Append(InPackPipe, f)[i] = InPackPipe[i]
        /\ Append(InPackPipe, f)[Len(InPackPipe) + 1] = f
    BY <1>4, <1>6, <1>7, AppendProperties
  <2>2. \A i \in 1 .. Len(InPackPipe') : InPackPipe'[i] = Append(InPackPipe, f)[i]
    BY <1>3, <1>4, <1>6, <1>7, <2>1
  <2>. QED
    BY <1>7, <2>1, <2>2, SeqEqual
<1>9. InRead' = InRead /\ memory'[target'] = memory[target] /\ collected' = collected
  BY <1>2 DEF InRead, writer, host
<1> DEFINE a == collected \o InRead \o memory[target]
<1>10. a \in Seq(Flit) /\ Packed = a \o InPackPipe
  BY PackedParts, ConcatProperties
<1>11. Packed' = a \o InPackPipe'
  <2>1. Packed' = collected' \o InRead' \o memory'[target'] \o InPackPipe'
    BY Zenon DEF Packed, InRead
  <2>. QED
    BY <1>9, <2>1
<1>. HIDE DEF a
<1>12. a \o Append(InPackPipe, f) = Append(a \o InPackPipe, f)
  <2>1. Append(InPackPipe, f) = InPackPipe \o <<f>> /\ <<f>> \in Seq(Flit)
    BY <1>6, AppendIsConcat
  <2>2. a \o (InPackPipe \o <<f>>) = (a \o InPackPipe) \o <<f>>
    BY <1>6, <1>10, <2>1, ConcatAssociative
  <2>3. a \o InPackPipe \in Seq(Flit)
    BY <1>6, <1>10, ConcatProperties
  <2>4. Append(a \o InPackPipe, f) = (a \o InPackPipe) \o <<f>>
    BY <2>3, AppendIsConcat
  <2>. QED
    BY <2>1, <2>2, <2>4
<1>. QED
  BY <1>8, <1>10, <1>11, <1>12

LEMMA PackedAs ==
  /\ Packed = collected \o InRead \o memory[target] \o InPackPipe
  /\ Packed' = collected' \o InRead' \o memory'[target'] \o InPackPipe'
BY Zenon DEF Packed, InRead

\* The end mark is no flit.
LEMMA IdleSamePacked == Layers /\ Drained /\ SinkTakesNothing => Packed' = Packed
<1>. SUFFICES ASSUME Layers, Drained, SinkTakesNothing PROVE Packed' = Packed
  OBVIOUS
<1>0. [Next]_vars
  BY DEF Next, PayloadSink
<1>1. UNCHANGED <<writer, host>> /\ (packPipe' = packPipe \/ (~sinkSeen /\ packPipe' = Append(packPipe, EndMark)))
  BY DEF SinkTakesNothing, EndMark
<1>2. InRead' = InRead /\ memory'[target'] = memory[target] /\ collected' = collected
  BY <1>1 DEF InRead, writer, host
<1>3. packPipe \in Seq(Pack) /\ Len(packPipe) \in Nat /\ EndMark \in Pack
  BY DEF Layers, Shape, WriterShape, Pack, EndMark
<1>4. CASE packPipe' = packPipe
  <2>1. InPackPipe' = InPackPipe
    BY <1>4 DEF InPackPipe
  <2>. QED
    BY <1>2, <2>1, PackedAs
<1>5. CASE ~sinkSeen /\ packPipe' = Append(packPipe, EndMark)
  <2>1. /\ Len(packPipe') = Len(packPipe) + 1 /\ packPipe'[Len(packPipe) + 1] = EndMark
        /\ \A i \in 1 .. Len(packPipe) : packPipe'[i] = packPipe[i]
    BY <1>3, <1>5
  <2>2. ~Marked
    <3>1. Len(packPipe) # 0 => Len(packPipe) \in 1 .. Len(packPipe)
      BY <1>3
    <3>2. packPipe # << >> => Len(packPipe) # 0
      BY <1>3
    <3>. QED
      BY <1>5, <3>1, <3>2 DEF Marked, Drained, EndMarkLast
  <2>3. Marked'
    <3>1. packPipe' # << >> /\ packPipe'[Len(packPipe')].data = Nothing
      BY <1>3, <1>5, <2>1 DEF EndMark
    <3>. QED
      BY <3>1 DEF Marked
  <2>4. /\ InPackPipe \in Seq(Flit) /\ Len(InPackPipe) = Len(packPipe)
        /\ \A i \in 1 .. Len(InPackPipe) : InPackPipe[i] = packPipe[i].data
    BY <2>2, InPack
  <2>5. /\ InPackPipe' \in Seq(Flit) /\ Len(InPackPipe') = Len(packPipe') - 1
        /\ \A i \in 1 .. Len(InPackPipe') : InPackPipe'[i] = packPipe'[i].data
    BY <1>0, <2>3, InPackNext
  <2>6. Len(InPackPipe') = Len(InPackPipe)
    BY <1>3, <2>1, <2>4, <2>5
  <2>7. \A i \in 1 .. Len(InPackPipe') : InPackPipe'[i] = InPackPipe[i]
    BY <2>1, <2>4, <2>5, <2>6
  <2>8. InPackPipe' = InPackPipe
    BY <2>4, <2>5, <2>6, <2>7, SeqEqual
  <2>. QED
    BY <1>2, <2>8, PackedAs
<1>. QED
  BY <1>1, <1>4, <1>5

\* A flit goes from the stream to the buffer, unless the run is full.
LEMMA WriteSamePacked ==
  ASSUME Layers, Drained, WritePack, ~SkipWrite, ~Overflowed'
  PROVE  Packed' = Packed
<1>0. [Next]_vars
  BY DEF Next
<1> DEFINE w == Head(packPipe)
<1>1. /\ packPipe # << >> /\ packPipe' = Tail(packPipe)
      /\ UNCHANGED <<target, host>> /\ overflow' = (overflow \/ Full)
  BY DEF WritePack
<1>2. ~Full /\ ~Thrown
  BY <1>1 DEF Overflowed, Thrown
<1>3. /\ w \in Pack /\ w = packPipe[1] /\ Len(packPipe) \in Nat \ {0}
      /\ packPipe' \in Seq(Pack) /\ Len(packPipe') = Len(packPipe) - 1
      /\ \A i \in 1 .. Len(packPipe) - 1 : packPipe'[i] = packPipe[i + 1]
  BY <1>1 DEF Layers, Shape, WriterShape
<1>4. collected' = collected /\ target \in {0, 1} /\ memory \in [{0, 1} -> Seq(Flit)]
      /\ target' = target /\ pc' = pc
  BY <1>1 DEF host, Layers, Shape, WriterShape
<1>5. CASE w.done /\ UNCHANGED memory
  <2>1. w = EndMark /\ 1 = Len(packPipe)
    BY <1>3, <1>5 DEF Drained, EndMarkLast
  <2>2. Len(packPipe') = Len(packPipe) - 1
    BY <1>3
  <2>3. Len(packPipe') = 0
    BY <2>1, <2>2
  <2>4. Marked /\ ~Marked'
    BY <1>1, <1>3, <2>1, <2>3 DEF Marked, EndMark
  <2>5. InPackPipe \in Seq(Flit) /\ Len(InPackPipe) = Len(packPipe) - 1
    BY <2>4, InPack
  <2>6. InPackPipe' \in Seq(Flit) /\ Len(InPackPipe') = Len(packPipe')
    BY <1>0, <2>4, InPackNext
  <2>7. Len(InPackPipe) = 0 /\ Len(InPackPipe') = 0
    BY <2>1, <2>2, <2>3, <2>5, <2>6
  <2>8. InPackPipe = << >> /\ InPackPipe' = << >>
    BY <2>5, <2>6, <2>7
  <2>9. InRead' = InRead /\ memory'[target'] = memory[target]
    BY <1>4, <1>5 DEF InRead
  <2>. QED
    BY <1>4, <2>8, <2>9, PackedAs
<1>6. CASE ~w.done /\ memory' = [memory EXCEPT ![target] = Append(@, w.data)]
  <2>1. w.data \in Flit /\ w.data # Nothing
    BY <1>3, <1>6, PackFields, NothingIsNoFlit
  <2>2. Marked' <=> Marked
    <3>1. CASE Len(packPipe) = 1
      <4>1. Len(packPipe') = 0
        BY <1>3, <3>1
      <4>2. packPipe[Len(packPipe)] = w
        BY <1>3, <3>1
      <4>. QED
        BY <1>1, <1>3, <2>1, <4>1, <4>2 DEF Marked
    <3>2. CASE Len(packPipe) # 1
      <4>1. Len(packPipe') # 0 /\ packPipe'[Len(packPipe')] = packPipe[Len(packPipe)]
        BY <1>3, <3>2
      <4>. QED
        BY <1>1, <1>3, <4>1 DEF Marked
    <3>. QED
      BY <3>1, <3>2
  <2>3. /\ InPackPipe \in Seq(Flit)
        /\ Len(InPackPipe) = (IF Marked THEN Len(packPipe) - 1 ELSE Len(packPipe))
        /\ \A i \in 1 .. Len(InPackPipe) : InPackPipe[i] = packPipe[i].data
    BY InPack
  <2>4. /\ InPackPipe' \in Seq(Flit)
        /\ Len(InPackPipe') = (IF Marked' THEN Len(packPipe') - 1 ELSE Len(packPipe'))
        /\ \A i \in 1 .. Len(InPackPipe') : InPackPipe'[i] = packPipe'[i].data
    BY <1>0, InPackNext
  <2>5. Len(InPackPipe) = Len(InPackPipe') + 1 /\ Len(InPackPipe') <= Len(packPipe) - 1
        /\ Len(InPackPipe') \in Nat
    BY <1>3, <2>2, <2>3, <2>4
  <2> DEFINE t == <<w.data>> \o InPackPipe'
  <2>6. /\ t \in Seq(Flit) /\ Len(t) = Len(InPackPipe') + 1 /\ t[1] = w.data
        /\ \A i \in 1 .. Len(InPackPipe') : t[i + 1] = InPackPipe'[i]
    BY <2>1, <2>4
  <2>. HIDE DEF t
  <2>7. \A i \in 1 .. Len(InPackPipe) : InPackPipe[i] = t[i]
    <3>1. TAKE i \in 1 .. Len(InPackPipe)
    <3>2. CASE i = 1
      BY <1>3, <2>3, <2>6, <3>2
    <3>3. CASE i # 1
      <4>1. i - 1 \in 1 .. Len(InPackPipe') /\ i - 1 \in 1 .. Len(packPipe) - 1
            /\ (i - 1) + 1 = i
        BY <2>5, <3>3
      <4>2. t[i] = InPackPipe'[i - 1] /\ InPackPipe'[i - 1] = packPipe'[i - 1].data
        BY <2>4, <2>6, <4>1
      <4>3. packPipe'[i - 1] = packPipe[i]
        BY <1>3, <4>1
      <4>. QED
        BY <2>3, <4>2, <4>3
    <3>. QED
      BY <3>2, <3>3
  <2>8. InPackPipe = t
    BY <2>3, <2>5, <2>6, <2>7, SeqEqual
  <2>9. memory'[target'] = Append(memory[target], w.data) /\ InRead' = InRead
    BY <1>4, <1>6 DEF InRead
  <2> DEFINE a == collected \o InRead
  <2>10. a \in Seq(Flit) /\ memory[target] \in Seq(Flit)
    BY PackedParts, ConcatProperties
  <2>11. Packed = a \o memory[target] \o t /\ Packed' = a \o Append(memory[target], w.data) \o InPackPipe'
    BY <1>4, <2>8, <2>9, PackedAs
  <2>. HIDE DEF a
  <2>. QED
    BY <2>1, <2>4, <2>10, <2>11, MoveFlit DEF t
<1>7. \/ w.done /\ UNCHANGED memory
      \/ ~w.done /\ memory' = [memory EXCEPT ![target] = Append(@, w.data)]
  BY <1>2 DEF WritePack
<1>. QED
  BY <1>5, <1>6, <1>7

\* The host starts a run on the other buffer, and then reads the first.
LEMMA StartSamePacked == Layers /\ Drained /\ StartWindow => Packed' = Packed
<1>. SUFFICES ASSUME Layers, Drained, StartWindow PROVE Packed' = Packed
  OBVIOUS
<1>1. /\ pc = "collect" /\ target' = 1 - target /\ pc' = "read" /\ UNCHANGED <<packPipe, collected>>
      /\ memory' = memory /\ memory[1 - target] = << >>
  BY DEF StartWindow, OtherBuffer, Drained, BufferRead
<1>2. target \in {0, 1} /\ memory \in [{0, 1} -> Seq(Flit)]
  BY DEF Layers, Shape, WriterShape
<1>3. InRead = << >> /\ InRead' = memory[target] /\ memory'[target'] = << >>
  BY <1>1, <1>2 DEF InRead
<1>4. InPackPipe' = InPackPipe
  BY <1>1 DEF InPackPipe
<1>5. /\ collected \in Seq(Flit) /\ memory[target] \in Seq(Flit) /\ InPackPipe \in Seq(Flit)
  BY PackedParts
<1>. QED
  BY <1>1, <1>3, <1>4, <1>5, PackedAs, Regroup

LEMMA ReadSamePacked == Layers /\ Drained /\ ReadBuffer => Packed' = Packed
<1>. SUFFICES ASSUME Layers, Drained, ReadBuffer PROVE Packed' = Packed
  OBVIOUS
<1>1. /\ pc = "read" /\ pc' = "poll" /\ UNCHANGED <<packPipe, target>>
      /\ collected' = collected \o memory[1 - target] /\ memory'[target] = memory[target]
  BY DEF ReadBuffer, Layers, Shape, WriterShape
<1>2. InRead = memory[1 - target] /\ InRead' = << >>
  BY <1>1 DEF InRead
<1>3. InPackPipe' = InPackPipe
  BY <1>1 DEF InPackPipe
<1>4. /\ collected \in Seq(Flit) /\ memory[target] \in Seq(Flit) /\ InPackPipe \in Seq(Flit)
      /\ memory[1 - target] \in Seq(Flit)
  BY <1>2, PackedParts
<1>5. Packed = collected \o memory[1 - target] \o memory[target] \o InPackPipe
  BY <1>2, PackedAs
<1>6. Packed' = (collected \o memory[1 - target]) \o << >> \o memory[target] \o InPackPipe
  <2>1. memory'[target'] = memory[target]
    BY <1>1
  <2>. QED
    BY <1>1, <1>2, <1>3, <2>1, PackedAs
<1>. QED
  BY <1>4, <1>5, <1>6, Regroup

LEMMA OtherSamePacked ==
  ASSUME UNCHANGED <<packPipe, memory, target, collected>>,
         pc' = pc \/ (pc # "read" /\ pc' # "read")
  PROVE  Packed' = Packed
<1>1. InRead' = InRead
  BY DEF InRead
<1>2. InPackPipe' = InPackPipe
  BY DEF InPackPipe
<1>. QED
  BY <1>1, <1>2, PackedAs

\* No step but the sink's changes what has been packed.
LEMMA SamePacked ==
  ASSUME Layers, Drained, [Next]_vars, ~SkipWrite, ~Overflowed',
         ~SinkTakesHit, ~SinkTakesDropped
  PROVE  Packed' = Packed
<1>1. CASE Arrive \/ Leave \/ ResultSink \/ WriteResult \/ CyclesOver \/ UNCHANGED vars
  <2>1. UNCHANGED <<packPipe, memory, target, host>>
    BY <1>1 DEF vars, writer, Arrive, Send, SourceEnds, Leave, ResultSink, SinkResult,
         SinkResultEnd, WriteResult, CyclesOver
  <2>. QED
    BY <2>1, OtherSamePacked DEF host
<1>2. CASE ReadRegister \/ StopPayload \/ StopRules
  <2>1. UNCHANGED <<packPipe, memory, target, collected>> /\ pc # "read" /\ pc' # "read"
    BY <1>2 DEF ReadRegister, StopPayload, StopRules, writer
  <2>. QED
    BY <2>1, OtherSamePacked
<1>. QED
  BY <1>1, <1>2, IdleSamePacked, WriteSamePacked, StartSamePacked, ReadSamePacked
     DEF Next, PayloadSink, Host

-----------------------------------------------------------------------------
(***************************************************************************)
(* No flit is lost or collected twice.                                     *)
(***************************************************************************)
\* New flits of a packet that had not left are apart from all others.
LEMMA AddedApart ==
  ASSUME NEW s \in Seq(Flit), NEW t \in Seq(Flit), NEW u \in Seq(Flit), NEW l \in Nat,
         \A i \in 1 .. Len(t) : t[i].pkt = l + 1, IsInjective(s), IsInjective(t),
         NotBeyond(s, l), NotBeyond(u, l), Apart(u, s)
  PROVE  IsInjective(s \o t) /\ NotBeyond(s \o t, l + 1) /\ Apart(u, s \o t)
<1> DEFINE v == s \o t
<1>1. /\ Len(s) \in Nat /\ Len(t) \in Nat /\ v \in Seq(Flit) /\ Len(v) = Len(s) + Len(t)
      /\ \A i \in 1 .. Len(s) : v[i] = s[i]
      /\ \A i \in 1 .. Len(v) : i > Len(s) => i - Len(s) \in 1 .. Len(t) /\ v[i] = t[i - Len(s)]
  OBVIOUS
<1>2. /\ \A i \in 1 .. Len(s) : s[i].pkt \in Nat /\ s[i].pkt <= l
      /\ \A i \in 1 .. Len(u) : u[i].pkt \in Nat /\ u[i].pkt <= l
  BY FlitFields, LengthsType DEF NotBeyond
<1>. HIDE DEF v
<1>3. \A i \in 1 .. Len(v) : \/ i <= Len(s) /\ v[i].pkt \in Nat /\ v[i].pkt <= l
                             \/ i > Len(s) /\ v[i].pkt = l + 1
  <2>. TAKE i \in 1 .. Len(v)
  <2>1. i \in Nat /\ Len(s) \in Nat
    BY <1>1
  <2>2. CASE i <= Len(s)
    <3>1. i \in 1 .. Len(s)
      BY <2>1, <2>2
    <3>2. v[i] = s[i]
      BY <1>1, <3>1
    <3>. QED
      BY <1>2, <2>2, <3>1, <3>2
  <2>3. CASE i > Len(s)
    <3>1. i - Len(s) \in 1 .. Len(t) /\ v[i] = t[i - Len(s)]
      BY <1>1, <2>3
    <3>. QED
      BY <2>3, <3>1
  <2>4. i <= Len(s) \/ i > Len(s)
    BY <2>1
  <2>. QED
    BY <2>2, <2>3, <2>4
<1>4. NotBeyond(v, l + 1)
  <2>1. ASSUME NEW i \in 1 .. Len(v)
        PROVE  v[i].pkt <= l + 1
    BY <1>3
  <2>. QED
    BY <2>1 DEF NotBeyond
<1>5. \A i, j \in 1 .. Len(s) : s[i] = s[j] => i = j
  BY DEF IsInjective
<1>6. \A i, j \in 1 .. Len(t) : t[i] = t[j] => i = j
  BY DEF IsInjective
<1>7. ASSUME NEW i \in 1 .. Len(v), NEW j \in 1 .. Len(v), v[i] = v[j]
      PROVE  i = j
  <2>1. (i <= Len(s) /\ j <= Len(s)) \/ (i > Len(s) /\ j > Len(s))
    BY <1>3, <1>7
  <2>2. CASE i <= Len(s) /\ j <= Len(s)
    BY <1>1, <1>5, <1>7, <2>2
  <2>3. CASE i > Len(s) /\ j > Len(s)
    <3>1. i - Len(s) \in 1 .. Len(t) /\ v[i] = t[i - Len(s)]
      BY <1>1, <2>3
    <3>2. j - Len(s) \in 1 .. Len(t) /\ v[j] = t[j - Len(s)]
      BY <1>1, <2>3
    <3>3. i - Len(s) = j - Len(s)
      BY <1>6, <1>7, <3>1, <3>2
    <3>. QED
      BY <1>1, <3>3
  <2>. QED
    BY <2>1, <2>2, <2>3
<1>8. IsInjective(v)
  BY <1>1, <1>7 DEF IsInjective
<1>9. ASSUME NEW i \in 1 .. Len(u), NEW j \in 1 .. Len(v)
      PROVE  u[i] # v[j]
  <2>1. CASE j <= Len(s)
    <3>1. j \in 1 .. Len(s) /\ v[j] = s[j]
      BY <1>1, <2>1
    <3>. QED
      BY <3>1 DEF Apart
  <2>2. CASE j > Len(s)
    BY <1>2, <1>3, <2>2
  <2>. QED
    BY <1>1, <2>1, <2>2
<1>10. Apart(u, v)
  BY <1>9 DEF Apart
<1>. QED
  BY <1>4, <1>8, <1>10 DEF v

LEMMA BeyondMore ==
  ASSUME NEW s \in Seq(Flit), NEW l \in Nat, NotBeyond(s, l)
  PROVE  NotBeyond(s, l + 1)
BY FlitFields, LengthsType DEF NotBeyond

LEMMA ApartSwaps ==
  ASSUME NEW s \in Seq(Flit), NEW t \in Seq(Flit), Apart(s, t)
  PROVE  Apart(t, s)
BY DEF Apart

LEMMA SeparateSwaps ==
  ASSUME NEW p \in Seq(Flit), NEW h \in Seq(Flit), NEW o \in Seq(Flit), NEW l \in Nat,
         Separate(p, h, o, l)
  PROVE  Separate(p, o, h, l)
BY ApartSwaps DEF Separate

LEMMA SeparateAdds ==
  ASSUME NEW p \in Seq(Flit), NEW h \in Seq(Flit), NEW o \in Seq(Flit), NEW t \in Seq(Flit),
         NEW l \in Nat, \A i \in 1 .. Len(t) : t[i].pkt = l + 1, IsInjective(t),
         Separate(p, h, o, l)
  PROVE  Separate(p, h \o t, o, l + 1)
<1>1. IsInjective(h \o t) /\ NotBeyond(h \o t, l + 1) /\ Apart(p, h \o t)
  BY AddedApart DEF Separate
<1>2. Apart(o, h)
  BY ApartSwaps DEF Separate
<1>3. Apart(o, h \o t)
  BY <1>2, AddedApart DEF Separate
<1>4. Apart(h \o t, o)
  BY <1>3, ApartSwaps, ConcatProperties
<1>. QED
  BY <1>1, <1>4, BeyondMore DEF Separate

\* The sink moves a flit from one to the other.
LEMMA SeparateMoves ==
  ASSUME NEW p \in Seq(Flit), NEW h \in Seq(Flit), NEW o \in Seq(Flit), NEW l \in Nat,
         h # << >>, Separate(p, h, o, l)
  PROVE  Separate(Append(p, Head(h)), Tail(h), o, l)
<1> DEFINE f == Head(h)
           t == Tail(h)
           q == Append(p, f)
<1>1. /\ f \in Flit /\ f = h[1] /\ t \in Seq(Flit) /\ Len(h) \in Nat \ {0}
      /\ Len(t) = Len(h) - 1 /\ \A i \in 1 .. Len(t) : t[i] = h[i + 1]
  BY HeadTail
<1>. HIDE DEF f, t
<1>2. /\ q \in Seq(Flit) /\ Len(p) \in Nat /\ Len(q) = Len(p) + 1 /\ q[Len(p) + 1] = f
      /\ \A i \in 1 .. Len(p) : q[i] = p[i]
  BY <1>1
<1>. HIDE DEF q
<1>3. /\ \A i, j \in 1 .. Len(p) : p[i] = p[j] => i = j
      /\ \A i, j \in 1 .. Len(h) : h[i] = h[j] => i = j
  BY DEF Separate, IsInjective
<1>4. /\ \A i \in 1 .. Len(p), j \in 1 .. Len(h) : p[i] # h[j]
      /\ \A i \in 1 .. Len(p), j \in 1 .. Len(o) : p[i] # o[j]
      /\ \A i \in 1 .. Len(h), j \in 1 .. Len(o) : h[i] # o[j]
  BY DEF Separate, Apart
<1>5. 1 \in 1 .. Len(h) /\ \A i \in 1 .. Len(t) : i + 1 \in 1 .. Len(h) /\ i + 1 # 1
  BY <1>1
<1>6. IsInjective(q)
  <2>1. ASSUME NEW i \in 1 .. Len(q), NEW j \in 1 .. Len(q), q[i] = q[j]
        PROVE  i = j
    <3>1. \A k \in 1 .. Len(q) : k \in 1 .. Len(p) \/ k = Len(p) + 1
      BY <1>2
    <3>2. \A k \in 1 .. Len(p) : q[k] # f
      BY <1>1, <1>2, <1>4, <1>5
    <3>. QED
      BY <1>2, <1>3, <2>1, <3>1, <3>2
  <2>. QED
    BY <1>2, <2>1 DEF IsInjective
<1>7. IsInjective(t)
  <2>1. ASSUME NEW i \in 1 .. Len(t), NEW j \in 1 .. Len(t), t[i] = t[j]
        PROVE  i = j
    <3>1. t[i] = h[i + 1] /\ t[j] = h[j + 1]
      BY <1>1
    <3>2. i + 1 \in 1 .. Len(h) /\ j + 1 \in 1 .. Len(h)
      BY <1>5
    <3>3. i + 1 = j + 1
      BY <1>3, <2>1, <3>1, <3>2
    <3>. QED
      BY <3>3
  <2>2. DOMAIN t = 1 .. Len(t)
    BY <1>1
  <2>. QED
    BY <2>1, <2>2 DEF IsInjective
<1>8. Apart(q, t)
  <2>1. ASSUME NEW i \in 1 .. Len(q), NEW j \in 1 .. Len(t)
        PROVE  q[i] # t[j]
    <3>0. j + 1 \in 1 .. Len(h) /\ j + 1 # 1 /\ t[j] = h[j + 1]
      BY <1>1, <1>5
    <3>1. CASE i \in 1 .. Len(p)
      <4>1. q[i] = p[i]
        BY <1>2, <3>1
      <4>. QED
        BY <1>4, <3>0, <3>1, <4>1
    <3>2. CASE i = Len(p) + 1
      <4>1. q[i] = h[1]
        BY <1>1, <1>2, <3>2
      <4>. QED
        BY <1>3, <1>5, <3>0, <4>1
    <3>. QED
      BY <1>2, <3>1, <3>2
  <2>. QED
    BY <2>1 DEF Apart
<1>9. Apart(q, o)
  <2>1. ASSUME NEW i \in 1 .. Len(q), NEW j \in 1 .. Len(o)
        PROVE  q[i] # o[j]
    <3>1. CASE i \in 1 .. Len(p)
      BY <1>2, <1>4, <3>1
    <3>2. CASE i = Len(p) + 1
      BY <1>1, <1>2, <1>4, <1>5, <3>2
    <3>. QED
      BY <1>2, <3>1, <3>2
  <2>. QED
    BY <2>1 DEF Apart
<1>10. Apart(t, o)
  BY <1>1, <1>4, <1>5 DEF Apart
<1>11. NotBeyond(q, l) /\ NotBeyond(t, l)
  <2>1. /\ \A i \in 1 .. Len(p) : p[i].pkt <= l
        /\ \A i \in 1 .. Len(h) : h[i].pkt <= l
    BY DEF Separate, NotBeyond
  <2>2. \A i \in 1 .. Len(q) : q[i].pkt <= l
    <3>1. f.pkt <= l
      BY <1>1, <1>5, <2>1
    <3>2. \A i \in 1 .. Len(q) : i \in 1 .. Len(p) \/ i = Len(p) + 1
      BY <1>2
    <3>. QED
      BY <1>2, <2>1, <3>1, <3>2
  <2>3. \A i \in 1 .. Len(t) : t[i].pkt <= l
    BY <1>1, <1>5, <2>1
  <2>. QED
    BY <2>2, <2>3 DEF NotBeyond
<1>12. IsInjective(o) /\ NotBeyond(o, l)
  BY DEF Separate
<1>. QED
  BY <1>6, <1>7, <1>8, <1>9, <1>10, <1>11, <1>12 DEF Separate, q, f, t

\* What arrives of a packet comes once.
LEMMA PacketApart ==
  ASSUME NEW p \in Packet, NEW t \in Arrivals(p)
  PROVE  t \in Seq(Flit) /\ IsInjective(t) /\ \A i \in 1 .. Len(t) : t[i].pkt = p
<1>0. /\ t \in Seq(Flit) /\ \A i \in 1 .. Len(t) : t[i].pkt = p
      /\ \A i, j \in 1 .. Len(t) : i < j => t[i].idx < t[j].idx
  BY ArrivedFlits
<1>1. /\ t \in Seq(Flit) /\ Len(t) \in Nat
      /\ \A i \in 1 .. Len(t) : t[i].pkt = p /\ t[i].idx \in Nat
      /\ \A i, j \in 1 .. Len(t) : i < j => t[i].idx < t[j].idx
  BY <1>0, FlitFields
<1>2. ASSUME NEW i \in 1 .. Len(t), NEW j \in 1 .. Len(t), t[i] = t[j]
      PROVE  i = j
  <2>1. ~(i < j) /\ ~(j < i)
    BY <1>1, <1>2
  <2>. QED
    BY <1>1, <2>1
<1>3. IsInjective(t)
  BY <1>1, <1>2 DEF IsInjective
<1>. QED
  BY <1>1, <1>3

LEMMA InitFlow == Init => Flow
<1>. SUFFICES ASSUME Init PROVE Flow
  OBVIOUS
<1>1. Layers /\ Drained
  BY InitBasis, BasisLayers, InitDrained
<1>2. /\ collected = << >> /\ pc # "read" /\ memory[target] = << >> /\ packPipe = << >>
      /\ hostPipe = << >> /\ overflowPipe = << >> /\ payloadCount = 0
  BY DEF Init
<1>3. InPackPipe = << >>
  <2>1. ~Marked /\ Len(packPipe) = 0
    BY <1>2 DEF Marked
  <2>2. InPackPipe \in Seq(Flit) /\ Len(InPackPipe) = 0
    BY <1>1, <2>1, InPack
  <2>. QED
    BY <2>2
<1>4. Packed = << >>
  BY <1>2, <1>3, PackedAs DEF InRead
<1>5. CountIn(Packed, Ends) = 0
  BY <1>4, CountEmpty
<1>6. Len(<< >>) = 0 /\ DOMAIN << >> = {}
  OBVIOUS
<1>7. Separate(<< >>, << >>, << >>, left)
  BY <1>6 DEF Separate, IsInjective, Apart, NotBeyond
<1>. QED
  BY <1>2, <1>4, <1>5, <1>7 DEF Flow

LEMMA LeaveFlow ==
  ASSUME Layers, Drained, Leave, Separate(Packed, hostPipe, overflowPipe, left),
         Packed' = Packed, ~Repeated'
  PROVE  Separate(Packed', hostPipe', overflowPipe', left')
<1>1. left + 1 \in Packet /\ left' = left + 1 /\ left \in Nat
  BY LengthsType DEF Leave, Layers, Shape, PipelineShape
<1>2. Packed \in Seq(Flit) /\ hostPipe \in Seq(Flit) /\ overflowPipe \in Seq(Flit)
  BY PackedParts DEF Layers, Shape, PipelineShape
<1>4. CASE Drop
  <2>1. PICK t \in Arrivals(left + 1) : overflowPipe' = overflowPipe \o t
    BY <1>4, Dropping
  <2>6. /\ t \in Seq(Flit) /\ IsInjective(t) /\ \A i \in 1 .. Len(t) : t[i].pkt = left + 1
        /\ UNCHANGED hostPipe
    BY <1>1, <1>4, PacketApart DEF Drop
  <2>2. Separate(Packed, overflowPipe, hostPipe, left)
    BY <1>1, <1>2, SeparateSwaps
  <2>3. Separate(Packed, overflowPipe', hostPipe, left + 1) /\ overflowPipe' \in Seq(Flit)
    BY <1>1, <1>2, <2>1, <2>2, <2>6, SeparateAdds, ConcatProperties
  <2>4. left + 1 \in Nat
    BY <1>1
  <2>5. Separate(Packed, hostPipe, overflowPipe', left + 1)
    BY <1>2, <2>3, <2>4, SeparateSwaps
  <2>. QED
    BY <1>1, <2>5, <2>6
<1>5. CASE Safe
  <2>1. UNCHANGED <<hostPipe, overflowPipe>>
    BY <1>5 DEF Safe, streams
  <2>. QED
    BY <1>1, <1>2, <2>1, BeyondMore DEF Separate
<1>6. CASE Hit
  <2> DEFINE t == FlitsOfPacket(left + 1)
  <2>1. UNCHANGED overflowPipe /\ hostPipe' = hostPipe \o t
    BY <1>6 DEF Hit
  <2>2. /\ t \in Seq(Flit) /\ IsInjective(t) /\ \A i \in 1 .. Len(t) : t[i].pkt = left + 1
    BY <1>1, PacketArrives, PacketApart
  <2>. HIDE DEF t
  <2>. QED
    BY <1>1, <1>2, <2>1, <2>2, SeparateAdds
<1>. QED
  BY <1>4, <1>5, <1>6 DEF Leave

LEMMA NextFlow == Layers /\ Drained /\ Flow /\ [Next]_vars /\ ~Repeated' => Flow'
<1>. SUFFICES ASSUME Layers, Drained, Flow, [Next]_vars, ~Repeated', ~SkipWrite', ~Overflowed'
              PROVE  /\ CountIn(Packed, Ends)' = payloadCount'
                     /\ Separate(Packed, hostPipe, overflowPipe, left)'
  BY DEF Flow
<1>0. ~SkipWrite /\ ~Overflowed
  BY StaysOverflowed
     DEF SkipWrite, Next, vars, host, Arrive, Send, SourceEnds, Leave, PayloadSink, SinkTakesHit,
         SinkTakesDropped, SinkTakesNothing, SinkPacks, ResultSink, SinkResult,
         SinkResultEnd, WriteResult, WritePack, CyclesOver, Host, StartWindow, ReadBuffer,
         ReadRegister, StopPayload, StopRules
<1>1. CountIn(Packed, Ends) = payloadCount /\ Separate(Packed, hostPipe, overflowPipe, left)
  BY <1>0 DEF Flow
<1>2. Packed \in Seq(Flit) /\ hostPipe \in Seq(Flit) /\ overflowPipe \in Seq(Flit) /\ left \in Nat
  BY PackedParts, LengthsType DEF Layers, Shape, PipelineShape
<1>3. ASSUME NEW f \in Flit, SinkPacks(f), SinkTakesHit \/ SinkTakesDropped
      PROVE  CountIn(Packed', Ends) = payloadCount'
  <2>1. Packed' = Append(Packed, f)
    BY <1>3, PackedGrows
  <2>2. CountIn(Packed', Ends) = CountIn(Packed, Ends) + (IF f \in Ends THEN 1 ELSE 0)
    BY <1>2, <2>1, CountAppend
  <2>3. payloadCount' = payloadCount + CountsEnd(f)
    BY <1>3 DEF SinkPacks, SinkEnds
  <2>. QED
    BY <1>1, <2>2, <2>3 DEF CountsEnd, Ends
<1>4. CASE SinkTakesHit
  <2>1. /\ hostPipe # << >> /\ SinkPacks(Head(hostPipe)) /\ hostPipe' = Tail(hostPipe)
        /\ UNCHANGED <<overflowPipe, left>>
    BY <1>4 DEF SinkTakesHit, SinkPacks, pipeline
  <2>2. Head(hostPipe) \in Flit
    BY <1>2, <2>1, HeadTail
  <2>3. Packed' = Append(Packed, Head(hostPipe))
    BY <1>4, <2>1, <2>2, PackedGrows
  <2>4. Separate(Append(Packed, Head(hostPipe)), Tail(hostPipe), overflowPipe, left)
    BY <1>1, <1>2, <2>1, SeparateMoves
  <2>. QED
    BY <1>3, <1>4, <2>1, <2>2, <2>3, <2>4
<1>5. CASE SinkTakesDropped
  <2>1. /\ overflowPipe # << >> /\ SinkPacks(Head(overflowPipe))
        /\ overflowPipe' = Tail(overflowPipe) /\ UNCHANGED <<hostPipe, left>>
    BY <1>5 DEF SinkTakesDropped, SinkPacks, pipeline
  <2>2. Head(overflowPipe) \in Flit /\ Tail(overflowPipe) \in Seq(Flit)
    BY <1>2, <2>1, HeadTail
  <2>3. Packed' = Append(Packed, Head(overflowPipe))
    BY <1>5, <2>1, <2>2, PackedGrows
  <2>4. Separate(Packed, overflowPipe, hostPipe, left)
    BY <1>1, <1>2, SeparateSwaps
  <2>5. Separate(Packed', overflowPipe', hostPipe, left)
    BY <1>2, <2>1, <2>3, <2>4, SeparateMoves
  <2>6. Packed' \in Seq(Flit)
    BY <1>2, <2>2, <2>3, AppendProperties
  <2>7. Separate(Packed', hostPipe, overflowPipe', left)
    BY <1>2, <2>1, <2>2, <2>5, <2>6, SeparateSwaps
  <2>. QED
    BY <1>3, <1>5, <2>1, <2>2, <2>7
<1>6. CASE ~SinkTakesHit /\ ~SinkTakesDropped
  <2>1. Packed' = Packed
    BY <1>0, <1>6, SamePacked
  <2>2. payloadCount' = payloadCount
    BY <1>6
       DEF Next, vars, payloadSink, Arrive, Send, SourceEnds, Leave, PayloadSink,
         SinkTakesNothing, SinkEnds, ResultSink, SinkResult,
         SinkResultEnd, WriteResult, WritePack, CyclesOver, Host, StartWindow, ReadBuffer,
         ReadRegister, StopPayload, StopRules
  <2>3. CASE Leave
    BY <1>1, <2>1, <2>2, <2>3, LeaveFlow
  <2>4. CASE UNCHANGED <<left, hostPipe, overflowPipe>>
    BY <1>1, <2>1, <2>2, <2>4
  <2>5. ~Leave => UNCHANGED <<left, hostPipe, overflowPipe>>
    BY <1>6
       DEF Next, vars, pipeline, streams, Arrive, Send, SourceEnds, PayloadSink,
         SinkTakesNothing, ResultSink, SinkResult,
         SinkResultEnd, WriteResult, WritePack, CyclesOver, Host, StartWindow, ReadBuffer,
         ReadRegister, StopPayload, StopRules
  <2>. QED
    BY <2>3, <2>4, <2>5
<1>. QED
  BY <1>4, <1>5, <1>6

\* Two ends of one packet are the same flit.
LEMMA SameEnd ==
  ASSUME NEW f \in Flit, NEW g \in Flit, f.eop, g.eop, f.pkt = g.pkt
  PROVE  f = g
<1>1. f.idx = FlitsOf[f.pkt] /\ g.idx = FlitsOf[g.pkt]
  BY DEF Flit
<1>2. f.eop = TRUE /\ g.eop = TRUE
  BY FlitFields
<1>. QED
  BY <1>1, <1>2 DEF Flit

\* What holds until a fragment is repeated.
Held == ~Repeated => Drained /\ Flow

LEMMA InitHeld == Init => Held
BY InitDrained, InitFlow DEF Held

LEMMA NextHeld == Basis /\ Held /\ [Next]_vars => Held'
<1>. SUFFICES ASSUME Basis, Held, [Next]_vars, ~Repeated' PROVE Drained' /\ Flow'
  BY DEF Held
<1>1. ~Repeated
  BY MangledGrows DEF Repeated
<1>. QED
  BY <1>1, BasisLayers, NextDrained, NextFlow DEF Held

\* When the host sees the end mark it has every packet that was not safe, or it
\* has read a header that says a run was full, or a fragment was repeated.
THEOREM DoneHasAll == Spec => []DoneMeansAll
<1>1. Basis /\ Held => DoneMeansAll
  <2>. SUFFICES ASSUME Layers, Drained, Flow, done, ~warned
                PROVE  Cardinality(Received) = Len(FlitsOf) - smSafe - nfSafe
    BY BasisLayers DEF DoneMeansAll, Held
  <2>1. /\ Final /\ pc # "read" /\ memory[target] = << >> /\ ~overflow
        /\ ~Unreported(target) /\ ~Unreported(1 - target)
    BY DEF Drained, EndHandedOver, NothingAfter
  <2>2. ~SkipWrite /\ ~Overflowed
    <3>1. target \in {0, 1}
      BY DEF Layers, Shape, WriterShape
    <3>2. \A b \in {0, 1} : ~header[b].overflow
      BY <2>1, <3>1 DEF Unreported
    <3>. QED
      BY <2>1, <3>2 DEF Layers, HostView, SkipWrite, Overflowed
  <2>3. CountIn(Packed, Ends) = payloadCount /\ IsInjective(Packed)
    BY <2>2 DEF Flow, Separate
  <2>4. Packed = collected
    <3>1. collected \in Seq(Flit)
      BY PackedParts
    <3>2. InPackPipe = << >>
      <4>1. ~Marked /\ Len(packPipe) = 0
        BY <2>1 DEF Marked, Final
      <4>. QED
        BY <4>1, InPack
    <3>3. collected \o << >> = collected
      BY <3>1, ConcatEmptySeq
    <3>. QED
      BY <2>1, <3>2, <3>3, PackedAs DEF InRead
  <2> DEFINE P == PlacesIn(collected, Ends)
             h == [i \in P |-> collected[i].pkt]
  <2>5. collected \in Seq(Flit) /\ IsFiniteSet(P) /\ Cardinality(P) = payloadCount
    BY <2>3, <2>4, PackedParts, CountType DEF CountIn
  <2>6. \A i \in P : /\ i \in 1 .. Len(collected) /\ collected[i] \in Flit
                     /\ collected[i].eop
    BY <2>5 DEF PlacesIn, Ends
  <2>7. h \in [P -> Received]
    BY <2>6, FlitFields DEF Received
  <2>8. \A i, j \in P : h[i] = h[j] => i = j
    <3>1. SUFFICES ASSUME NEW i \in P, NEW j \in P, collected[i].pkt = collected[j].pkt
                   PROVE  i = j
      OBVIOUS
    <3>2. collected[i] = collected[j]
      BY <2>6, <3>1, SameEnd
    <3>3. i \in DOMAIN collected /\ j \in DOMAIN collected
      BY <2>5, <2>6
    <3>. QED
      BY <2>3, <2>4, <3>2, <3>3 DEF IsInjective
  <2>9. \A p \in Received : \E i \in P : h[i] = p
    <3>1. TAKE p \in Received
    <3>2. PICK i \in 1 .. Len(collected) : collected[i].pkt = p /\ collected[i].eop
      BY DEF Received
    <3>3. i \in P
      BY <2>5, <3>2 DEF PlacesIn, Ends
    <3>. QED
      BY <3>2, <3>3
  <2>. HIDE DEF P, h
  <2>10. h \in Bijection(P, Received)
    BY <2>7, <2>8, <2>9 DEF Bijection, Injection, Surjection, IsInjective
  <2>11. Cardinality(Received) = payloadCount
    BY <2>5, <2>10, FS_Bijection DEF ExistsBijection
  <2>12. smSafe + nfSafe + payloadCount = N
    BY <2>1 DEF Final, Layers, Stops, AllPacked
  <2>. QED
    BY <2>11, <2>12 DEF N, Layers, Shape, PipelineShape, SinkShape
<1>. QED
  BY <1>1, SpecBasis, InitHeld, NextHeld, PTL DEF Spec

-----------------------------------------------------------------------------
(***************************************************************************)
(* Packets are collected whole.                                            *)
(***************************************************************************)
LEMMA ChainTail ==
  ASSUME NEW s \in Seq(Flit), s # << >>, Chain(s)
  PROVE  /\ Chain(Tail(s))
         /\ Tail(s) # << >> => Next1(Head(s), Tail(s)[1])
<1>1. /\ Head(s) = s[1] /\ Tail(s) \in Seq(Flit)
      /\ Len(s) \in Nat \ {0} /\ Len(Tail(s)) = Len(s) - 1
      /\ \A i \in 1 .. Len(s) - 1 : Tail(s)[i] = s[i + 1]
  BY HeadTail
<1> DEFINE t == Tail(s)
<1>2. ASSUME NEW i \in 1 .. Len(t) - 1
      PROVE  Next1(t[i], t[i + 1])
  <2>1. i + 1 \in 1 .. Len(s) - 1 /\ i \in 1 .. Len(s) - 1
    BY <1>1
  <2>2. Next1(s[i + 1], s[(i + 1) + 1])
    BY <2>1 DEF Chain
  <2>. QED
    BY <1>1, <2>1, <2>2
<1>3. ASSUME Tail(s) # << >>
      PROVE  Next1(s[1], t[1])
  <2>1. 1 \in 1 .. Len(s) - 1
    BY <1>1, <1>3
  <2>2. Next1(s[1], s[1 + 1])
    BY <2>1 DEF Chain
  <2>. QED
    BY <1>1, <2>1, <2>2
<1>. QED
  BY <1>1, <1>2, <1>3 DEF Chain

LEMMA ChainAppend ==
  ASSUME NEW s \in Seq(Flit), NEW f \in Flit, Chain(s), s # << >> => Next1(s[Len(s)], f)
  PROVE  Chain(Append(s, f))
<1> DEFINE t == Append(s, f)
<1>1. /\ Len(s) \in Nat /\ Len(t) = Len(s) + 1 /\ t[Len(s) + 1] = f
      /\ \A i \in 1 .. Len(s) : t[i] = s[i]
  OBVIOUS
<1>. HIDE DEF t
<1>2. ASSUME NEW i \in 1 .. Len(t) - 1
      PROVE  Next1(t[i], t[i + 1])
  <2>1. CASE i = Len(s)
    <3>1. s # << >> /\ i \in 1 .. Len(s)
      BY <1>1, <2>1
    <3>. QED
      BY <1>1, <2>1, <3>1
  <2>2. CASE i # Len(s)
    <3>1. i \in 1 .. Len(s) - 1 /\ i \in 1 .. Len(s) /\ i + 1 \in 1 .. Len(s)
      BY <1>1, <2>2
    <3>2. Next1(s[i], s[i + 1])
      BY <3>1 DEF Chain
    <3>. QED
      BY <1>1, <3>1, <3>2
  <2>. QED
    BY <2>1, <2>2
<1>. QED
  BY <1>2 DEF Chain, t

LEMMA ChainPacket ==
  ASSUME NEW s \in Seq(Flit), NEW p \in Packet, Chain(s), EndsInEop(s)
  PROVE  /\ Chain(s \o FlitsOfPacket(p))
         /\ s \o FlitsOfPacket(p) # << >>
         /\ (s \o FlitsOfPacket(p))[1].idx = IF s = << >> THEN 1 ELSE s[1].idx
         /\ s # << >> => (s \o FlitsOfPacket(p))[1] = s[1]
<1> DEFINE t == FlitsOfPacket(p)
           v == s \o t
<1>1. /\ FlitsOf[p] \in Nat \ {0} /\ t \in Seq(Flit) /\ Len(t) = FlitsOf[p]
  BY LengthsType, PacketFlits
<1>2. \A i \in 1 .. Len(t) : /\ t[i].pkt = p /\ t[i].idx = i
                             /\ t[i].eop = (i = FlitsOf[p])
  <2>1. TAKE i \in 1 .. Len(t)
  <2> DEFINE e == (i = FlitsOf[p])
  <2>2. t[i] = [pkt |-> p, idx |-> i, eop |-> e]
    BY <1>1, PacketFlits
  <2>. HIDE DEF e, t
  <2>3. t[i].pkt = p /\ t[i].idx = i /\ t[i].eop = e
    BY <2>2
  <2>. QED
    BY <2>3 DEF e
<1>. HIDE DEF t
<1>3. /\ Len(s) \in Nat /\ Len(v) = Len(s) + Len(t) /\ v \in Seq(Flit)
      /\ \A i \in 1 .. Len(s) : v[i] = s[i]
      /\ \A i \in 1 .. Len(t) : v[Len(s) + i] = t[i]
  BY <1>1
<1>. HIDE DEF v
<1>4. ASSUME NEW i \in 1 .. Len(v) - 1
      PROVE  Next1(v[i], v[i + 1])
  <2>1. CASE i < Len(s)
    <3>1. i \in 1 .. Len(s) - 1 /\ i \in 1 .. Len(s) /\ i + 1 \in 1 .. Len(s)
      BY <1>3, <2>1
    <3>2. Next1(s[i], s[i + 1])
      BY <3>1 DEF Chain
    <3>. QED
      BY <1>3, <3>1, <3>2
  <2>2. CASE i = Len(s)
    <3>1. s # << >> /\ i \in 1 .. Len(s) /\ v[i] = s[Len(s)] /\ s[Len(s)].eop
      BY <1>3, <2>2 DEF EndsInEop
    <3>2. 1 \in 1 .. Len(t) /\ v[i + 1] = t[1] /\ t[1].idx = 1
      BY <1>1, <1>2, <1>3, <2>2
    <3>. QED
      BY <3>1, <3>2 DEF Next1
  <2>3. CASE i > Len(s)
    <3> DEFINE k == i - Len(s)
    <3>1. /\ k \in 1 .. Len(t) /\ k + 1 \in 1 .. Len(t) /\ k # FlitsOf[p]
          /\ i = Len(s) + k /\ i + 1 = Len(s) + (k + 1) /\ k \in Nat
      BY <1>1, <1>3, <2>3
    <3>. HIDE DEF k
    <3>2. v[i] = t[k] /\ v[i + 1] = t[k + 1]
      BY <1>3, <3>1
    <3>3. /\ t[k].pkt = p /\ t[k].idx = k /\ ~t[k].eop
          /\ t[k + 1].pkt = p /\ t[k + 1].idx = k + 1
      BY <1>2, <3>1
    <3>. QED
      BY <3>2, <3>3 DEF Next1
  <2>. QED
    BY <1>3, <2>1, <2>2, <2>3
<1>5. Len(v) # 0 /\ v # << >>
  BY <1>1, <1>3
<1>6. s # << >> => v[1] = s[1]
  <2>1. s # << >> => 1 \in 1 .. Len(s)
    BY <1>3
  <2>. QED
    BY <1>3, <2>1
<1>7. s = << >> => v[1].idx = 1
  <2>1. s = << >> => Len(s) = 0
    OBVIOUS
  <2>2. 1 \in 1 .. Len(t) /\ t[1].idx = 1
    BY <1>1, <1>2
  <2>3. v[Len(s) + 1] = t[1]
    BY <1>3, <2>2
  <2>. QED
    BY <2>1, <2>2, <2>3
<1>. QED
  BY <1>4, <1>5, <1>6, <1>7 DEF Chain, v, t

LEMMA InitOrder == Init => Order
<1>. SUFFICES ASSUME Init PROVE Order
  OBVIOUS
<1>1. /\ collected = << >> /\ pc # "read" /\ memory[target] = << >> /\ packPipe = << >>
      /\ hostPipe = << >> /\ overflowPipe = << >> /\ newPacket
  BY DEF Init
<1>2. InPackPipe = << >>
  <2>1. ~Marked /\ Len(packPipe) = 0
    BY <1>1 DEF Marked
  <2>2. InPackPipe \in Seq(Flit) /\ Len(InPackPipe) = 0
    BY <2>1, InitBasis, BasisLayers, InitDrained, InPack
  <2>. QED
    BY <2>2
<1>3. Packed = << >>
  BY <1>1, <1>2, PackedAs DEF InRead
<1>4. Len(<< >>) = 0
  OBVIOUS
<1>5. Chain(<< >>) /\ EndsInEop(<< >>) /\ StartsPacket(<< >>)
  BY <1>4 DEF Chain, EndsInEop, StartsPacket
<1>. QED
  BY <1>1, <1>3, <1>5 DEF Order, OrderIn, OrderOut

LEMMA LeaveOrder ==
  ASSUME mangled' = {}, Layers, Drained, Leave, OrderIn
  PROVE  /\ OrderIn'
         /\ OrderOut /\ Packed' = Packed => OrderOut'
<1>1. left + 1 \in Packet /\ UNCHANGED <<newPacket, whichPipe>>
  BY LengthsType DEF Leave, payloadSink, Layers, Shape, PipelineShape
<1>2. hostPipe \in Seq(Flit) /\ overflowPipe \in Seq(Flit)
  BY DEF Layers, Shape, PipelineShape
<1> DEFINE t == FlitsOfPacket(left + 1)
<1>3. CASE Drop
  <2>1. UNCHANGED hostPipe /\ overflowPipe' = overflowPipe \o t
    BY <1>3, Dropping DEF Drop, Repeated
  <2>2. /\ Chain(overflowPipe') /\ overflowPipe' # << >>
        /\ overflowPipe'[1].idx = (IF overflowPipe = << >> THEN 1 ELSE overflowPipe[1].idx)
        /\ overflowPipe # << >> => overflowPipe'[1] = overflowPipe[1]
    BY <1>1, <1>2, <2>1, ChainPacket DEF OrderIn
  <2>3. EndsInEop(overflowPipe')
    BY <1>1, <1>2, <2>1, PacketArrives, AddPacket
  <2>4. OrderIn'
    BY <1>1, <2>1, <2>2, <2>3 DEF OrderIn, StartsPacket, EndsInEop, Chain
  <2>5. ~newPacket /\ whichPipe => overflowPipe'[1] = overflowPipe[1]
    BY <2>2 DEF OrderIn
  <2>. QED
    BY <1>1, <2>1, <2>4, <2>5 DEF OrderOut, StartsPacket, EndsInEop, Chain
<1>4. CASE Safe
  <2>1. UNCHANGED <<hostPipe, overflowPipe>>
    BY <1>4 DEF Safe, streams
  <2>. QED
    BY <1>1, <2>1 DEF OrderIn, OrderOut, StartsPacket, EndsInEop, Chain
<1>5. CASE Hit
  <2>1. UNCHANGED overflowPipe /\ hostPipe' = hostPipe \o t
    BY <1>5 DEF Hit
  <2>2. EndsInEop(hostPipe) /\ (~newPacket /\ ~whichPipe => hostPipe # << >>)
    BY DEF Layers, Accounts
  <2>3. /\ Chain(hostPipe') /\ hostPipe' # << >>
        /\ hostPipe'[1].idx = (IF hostPipe = << >> THEN 1 ELSE hostPipe[1].idx)
        /\ hostPipe # << >> => hostPipe'[1] = hostPipe[1]
    BY <1>1, <1>2, <2>1, <2>2, ChainPacket DEF OrderIn
  <2>4. OrderIn'
    BY <1>1, <2>1, <2>3 DEF OrderIn, StartsPacket, EndsInEop, Chain
  <2>5. ~newPacket /\ ~whichPipe => hostPipe'[1] = hostPipe[1]
    BY <2>2, <2>3
  <2>. QED
    BY <1>1, <2>1, <2>4, <2>5 DEF OrderOut, StartsPacket, EndsInEop, Chain
<1>. QED
  BY <1>3, <1>4, <1>5 DEF Leave

\* What the sink's taking a flit leaves in the stream.
LEMMA TakeOrder ==
  ASSUME NEW s \in Seq(Flit), s # << >>, Chain(s), EndsInEop(s)
  PROVE  /\ Chain(Tail(s)) /\ EndsInEop(Tail(s))
         /\ Head(s).eop => StartsPacket(Tail(s))
         /\ ~Head(s).eop => Tail(s) # << >> /\ Next1(Head(s), Tail(s)[1])
<1>1. /\ Chain(Tail(s)) /\ (Tail(s) # << >> => Next1(Head(s), Tail(s)[1]))
      /\ EndsInEop(Tail(s)) /\ (~Head(s).eop => Tail(s) # << >>)
  BY ChainTail, TakeHead
<1>. QED
  BY <1>1 DEF StartsPacket, Next1

\* What it leaves behind it.
LEMMA PackOrder ==
  ASSUME Layers, Drained, OrderOut, NEW f \in Flit, Packed' = Append(Packed, f),
         newPacket => f.idx = 1,
         ~newPacket => Next1(Packed[Len(Packed)], f)
  PROVE  /\ Chain(Packed') /\ StartsPacket(Packed') /\ Packed' # << >>
         /\ Packed'[Len(Packed')] = f
<1>1. Packed \in Seq(Flit)
  BY PackedParts
<1>2. /\ Len(Packed) \in Nat /\ Packed' # << >> /\ Len(Packed') = Len(Packed) + 1
      /\ Packed'[Len(Packed) + 1] = f
      /\ \A i \in 1 .. Len(Packed) : Packed'[i] = Packed[i]
  BY <1>1, AppendProperties
<1>3. Packed # << >> => Next1(Packed[Len(Packed)], f)
  BY DEF OrderOut, EndsInEop, Next1
<1>4. Chain(Packed')
  BY <1>1, <1>3, ChainAppend DEF OrderOut
<1>5. StartsPacket(Packed')
  <2>1. CASE Packed = << >>
    <3>1. Len(Packed) = 0 /\ newPacket
      BY <2>1 DEF OrderOut
    <3>. QED
      BY <1>2, <3>1 DEF StartsPacket
  <2>2. CASE Packed # << >>
    <3>1. 1 \in 1 .. Len(Packed)
      BY <1>1, <2>2
    <3>. QED
      BY <1>2, <2>2, <3>1 DEF StartsPacket, OrderOut
  <2>. QED
    BY <2>1, <2>2
<1>. QED
  BY <1>2, <1>4, <1>5

LEMMA HitOrder ==
  ASSUME Layers, Drained, [Next]_vars, SinkTakesHit, OrderIn
  PROVE  /\ OrderIn'
         /\ OrderOut => OrderOut'
<1> DEFINE f == Head(hostPipe)
<1>1. /\ hostPipe # << >> /\ SinkPacks(f) /\ hostPipe' = Tail(hostPipe) /\ ~whichPipe'
      /\ UNCHANGED overflowPipe /\ newPacket' = f.eop /\ (newPacket \/ ~whichPipe)
  BY DEF SinkTakesHit, SinkPacks
<1>2. hostPipe \in Seq(Flit) /\ f \in Flit /\ f = hostPipe[1] /\ EndsInEop(hostPipe)
  BY <1>1, HeadTail DEF Layers, Accounts, Shape, PipelineShape
<1>3. /\ Chain(hostPipe') /\ EndsInEop(hostPipe')
      /\ f.eop => StartsPacket(hostPipe')
      /\ ~f.eop => hostPipe' # << >> /\ Next1(f, hostPipe'[1])
  BY <1>1, <1>2, TakeOrder DEF OrderIn
<1>4. newPacket => f.idx = 1
  BY <1>1, <1>2 DEF OrderIn, StartsPacket
<1>. HIDE DEF f
<1>5. OrderIn'
  BY <1>1, <1>3 DEF OrderIn, StartsPacket, Chain, EndsInEop
<1>6. ASSUME OrderOut
      PROVE  OrderOut'
  <2>1. Packed' = Append(Packed, f)
    BY <1>1, <1>2, PackedGrows
  <2>2. ~newPacket => Next1(Packed[Len(Packed)], f)
    BY <1>1, <1>2, <1>6 DEF OrderOut
  <2>3. /\ Chain(Packed') /\ StartsPacket(Packed') /\ Packed' # << >>
        /\ Packed'[Len(Packed')] = f
    BY <1>2, <1>4, <1>6, <2>1, <2>2, PackOrder
  <2>. QED
    BY <1>1, <1>3, <2>3 DEF OrderOut, Chain, StartsPacket, EndsInEop
<1>. QED
  BY <1>5, <1>6

LEMMA DroppedOrder ==
  ASSUME Layers, Drained, [Next]_vars, SinkTakesDropped, OrderIn
  PROVE  /\ OrderIn'
         /\ OrderOut => OrderOut'
<1> DEFINE f == Head(overflowPipe)
<1>1. /\ overflowPipe # << >> /\ SinkPacks(f) /\ overflowPipe' = Tail(overflowPipe)
      /\ whichPipe' /\ UNCHANGED hostPipe /\ newPacket' = f.eop /\ (newPacket \/ whichPipe)
  BY DEF SinkTakesDropped, SinkPacks, TriesOverflow
<1>2. overflowPipe \in Seq(Flit) /\ f \in Flit /\ f = overflowPipe[1] /\ EndsInEop(overflowPipe)
  BY <1>1, HeadTail DEF OrderIn, Layers, Shape, PipelineShape
<1>3. /\ Chain(overflowPipe') /\ EndsInEop(overflowPipe')
      /\ f.eop => StartsPacket(overflowPipe')
      /\ ~f.eop => overflowPipe' # << >> /\ Next1(f, overflowPipe'[1])
  BY <1>1, <1>2, TakeOrder DEF OrderIn
<1>4. newPacket => f.idx = 1
  BY <1>1, <1>2 DEF OrderIn, StartsPacket
<1>. HIDE DEF f
<1>5. OrderIn'
  BY <1>1, <1>3 DEF OrderIn, StartsPacket, Chain, EndsInEop
<1>6. ASSUME OrderOut
      PROVE  OrderOut'
  <2>1. Packed' = Append(Packed, f)
    BY <1>1, <1>2, PackedGrows
  <2>2. ~newPacket => Next1(Packed[Len(Packed)], f)
    BY <1>1, <1>2, <1>6 DEF OrderOut
  <2>3. /\ Chain(Packed') /\ StartsPacket(Packed') /\ Packed' # << >>
        /\ Packed'[Len(Packed')] = f
    BY <1>2, <1>4, <1>6, <2>1, <2>2, PackOrder
  <2>. QED
    BY <1>1, <1>3, <2>3 DEF OrderOut, Chain, StartsPacket, EndsInEop
<1>. QED
  BY <1>5, <1>6

LEMMA NextOrder ==
  Layers /\ Drained /\ Order /\ [Next]_vars /\ mangled' = {} => Order'
<1>. SUFFICES ASSUME Layers, Drained, Order, [Next]_vars, mangled' = {} PROVE Order'
  OBVIOUS
<1>1. SUFFICES /\ OrderIn'
               /\ OrderOut /\ ~SkipWrite /\ ~Overflowed' => OrderOut'
  <2>1. SkipWrite => SkipWrite'
    BY DEF SkipWrite, Next, vars, host, Arrive, Send, SourceEnds, Leave, PayloadSink,
         SinkTakesHit, SinkTakesDropped, SinkTakesNothing, SinkPacks, ResultSink, SinkResult,
         SinkResultEnd, WriteResult, WritePack, CyclesOver, Host, StartWindow, ReadBuffer,
         ReadRegister, StopPayload, StopRules
  <2>. QED
    BY <2>1, StaysOverflowed DEF Order
<1>2. CASE SinkTakesHit
  BY <1>2, HitOrder DEF Order
<1>3. CASE SinkTakesDropped
  BY <1>3, DroppedOrder DEF Order
<1>4. CASE ~SinkTakesHit /\ ~SinkTakesDropped
  <2>1. ~SkipWrite /\ ~Overflowed' => Packed' = Packed
    BY <1>4, SamePacked
  <2>2. CASE Leave
    BY <2>1, <2>2, LeaveOrder DEF Order
  <2>3. CASE ~Leave
    <3>1. UNCHANGED <<hostPipe, overflowPipe, newPacket>>
          /\ (whichPipe' = whichPipe \/ (whichPipe' = (whichPipe /\ ~newPacket)))
      BY <1>4, <2>3
         DEF Next, vars, streams, payloadSink, Arrive, Send, SourceEnds, PayloadSink,
             SinkTakesNothing, ResultSink, SinkResult, SinkResultEnd, WriteResult, WritePack,
             CyclesOver, Host, StartWindow, ReadBuffer, ReadRegister, StopPayload, StopRules
    <3>2. /\ newPacket' = newPacket
          /\ ~newPacket => (whichPipe' <=> whichPipe)
      <4>1. whichPipe \in BOOLEAN /\ newPacket \in BOOLEAN /\ newPacket' = newPacket
        BY <3>1 DEF Layers, Shape, SinkShape
      <4>2. CASE whichPipe' = whichPipe
        BY <4>1, <4>2
      <4>3. CASE whichPipe' = (whichPipe /\ ~newPacket)
        BY <4>1, <4>3
      <4>. QED
        BY <3>1, <4>1, <4>2, <4>3
    <3>3. OrderIn'
      BY <3>1, <3>2 DEF Order, OrderIn, StartsPacket, Chain, EndsInEop
    <3>4. ASSUME OrderOut, Packed' = Packed
          PROVE  OrderOut'
      BY <3>1, <3>2, <3>4 DEF OrderOut, StartsPacket, Chain, EndsInEop
    <3>. QED
      BY <2>1, <3>3, <3>4
  <2>. QED
    BY <2>2, <2>3
<1>. QED
  BY <1>2, <1>3, <1>4

\* Until a fragment is repeated, and unless an overflow bit says that a run was
\* full, no flit is lost or collected twice over the changes of the buffers; and
\* the packets of the two streams are not mixed unless a part of one was lost.
THEOREM PacketsCollectedWhole == Spec => []CollectedWhole
<1>1. Basis /\ Held /\ (mangled = {} => Order) => CollectedWhole
  <2>. SUFFICES ASSUME Layers, Drained, Flow, mangled = {} => Order, ~SkipWrite, ~Overflowed
                PROVE  /\ mangled = {} => Whole(Packed)
                       /\ IsInjective(Packed)
                       /\ EndsOfPackets(Packed) = payloadCount
    BY BasisLayers DEF CollectedWhole, Held
  <2>1. Packed \in Seq(Flit)
    BY PackedParts
  <2>2. CountIn(Packed, Ends) = payloadCount /\ IsInjective(Packed)
    BY DEF Flow, Separate
  <2>3. EndsOfPackets(Packed) = CountIn(Packed, Ends)
    <3>1. \A i \in 1 .. Len(Packed) : Packed[i] \in Flit
      BY <2>1
    <3>2. {i \in 1 .. Len(Packed) : Packed[i].eop} = PlacesIn(Packed, Ends)
      BY <3>1 DEF PlacesIn, Ends
    <3>. QED
      BY <3>2 DEF EndsOfPackets, CountIn
  <2>4. mangled = {} => Whole(Packed)
    BY DEF Order, OrderOut, Whole, Chain, Next1, StartsPacket
  <2>. QED
    BY <2>2, <2>3, <2>4
<1>2. Basis /\ Held /\ (mangled = {} => Order) /\ [Next]_vars => (mangled = {} => Order)'
  <2>. SUFFICES ASSUME Basis, Held, mangled = {} => Order, [Next]_vars, mangled' = {}
                PROVE  Order'
    OBVIOUS
  <2>1. mangled = {} /\ ~Repeated
    BY MangledGrows DEF Repeated
  <2>. QED
    BY <2>1, BasisLayers, NextOrder DEF Held
<1>. QED
  BY <1>1, <1>2, SpecBasis, InitHeld, NextHeld, InitOrder, PTL DEF Spec
=============================================================================
