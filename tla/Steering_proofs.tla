--------------------------- MODULE Steering_proofs ---------------------------
(***************************************************************************)
(* Proofs about Steering, for packets and streams of any length: the bit   *)
(* of a packet and its flits meet, every packet is counted once, and the   *)
(* next stage gets results of the packets that came down the match path.   *)
(*                                                                         *)
(* All of it rests on one count.  Nothing ties the two ways around the     *)
(* matcher to each other, but each keeps the order of the packets: if the  *)
(* packet at hand in steerPayload is known, so is the packet of every bit, *)
(* of the result in flagger, and of what is left in each stream.           *)
(***************************************************************************)
EXTENDS Steering, FiniteSetTheorems, TLAPS

-----------------------------------------------------------------------------
(***************************************************************************)
(* Streams whose flits come in the order of their packets.                 *)
(***************************************************************************)
\* The packet that is at hand once flit f has passed.
PacketAfter(f) == IF f.eop THEN f.pkt + 1 ELSE f.pkt

\* The packet at hand behind stream s, if n is the one in front of it.
Behind(s, n) == IF s = << >> THEN n ELSE PacketAfter(s[Len(s)])

InOrder(s, n) ==
  /\ n <= Behind(s, n)
  /\ \A i \in 1 .. Len(s) : s[i].pkt = IF i = 1 THEN n ELSE PacketAfter(s[i - 1])
  /\ \A i \in 1 .. Len(s) : n <= s[i].pkt /\ PacketAfter(s[i]) <= Behind(s, n)
  /\ \A i, j \in 1 .. Len(s) : i < j => PacketAfter(s[i]) <= s[j].pkt

\* Flit g comes next after flit f.
NextFlit(f, g) ==
  /\ g.pkt = PacketAfter(f)
  /\ g.idx = IF f.eop THEN 1 ELSE f.idx + 1

LastOf(s, f) == IF s = << >> THEN f ELSE s[Len(s)]

\* The flits of s follow flit f and each other without a gap.
Chain(s, f) ==
  \A i \in 1 .. Len(s) : NextFlit(IF i = 1 THEN f ELSE s[i - 1], s[i])

\* What is known of the elements of a stream.
IsFlit(f) == f.pkt \in Nat /\ f.eop \in BOOLEAN

\* A flit of the packet at hand behind a stream may be added to it.
LEMMA AppendInOrder ==
  ASSUME NEW R, \A f \in R : IsFlit(f),
         NEW s \in Seq(R), NEW n \in Nat, InOrder(s, n),
         NEW r \in R, r.pkt = Behind(s, n)
  PROVE  InOrder(Append(s, r), n) /\ Behind(Append(s, r), n) = PacketAfter(r)
<1> DEFINE t == Append(s, r)
<1>1. /\ t # << >> /\ t \in Seq(R) /\ Len(t) = Len(s) + 1 /\ t[Len(t)] = r
      /\ \A i \in 1 .. Len(s) : t[i] = s[i] /\ IsFlit(s[i])
      /\ \A i \in 1 .. Len(t) : i \in 1 .. Len(s) \/ i = Len(t)
  <2>1. t \in Seq(R) /\ Len(t) = Len(s) + 1 /\ Len(s) \in Nat
    OBVIOUS
  <2>2. \A i \in 1 .. Len(s) : t[i] = s[i] /\ IsFlit(s[i])
    OBVIOUS
  <2>3. t # << >> /\ t[Len(t)] = r
    BY <2>1
  <2> QED
    BY <2>1, <2>2, <2>3
<1>2. Behind(t, n) = PacketAfter(r)
  BY <1>1 DEF Behind
<1>3. r.pkt <= PacketAfter(r) /\ r.pkt \in Nat /\ PacketAfter(r) \in Nat
  BY DEF PacketAfter, IsFlit
<1>4. \A i \in 1 .. Len(s) : PacketAfter(s[i]) \in Nat
  BY <1>1 DEF PacketAfter, IsFlit
<1>5. \A i \in 1 .. Len(t) : t[i].pkt = IF i = 1 THEN n ELSE PacketAfter(t[i - 1])
  <2> TAKE i \in 1 .. Len(t)
  <2>1. CASE i \in 1 .. Len(s)
    BY <2>1, <1>1 DEF InOrder
  <2>2. CASE i = Len(t) /\ s = << >>
    BY <2>2, <1>1 DEF Behind
  <2>3. CASE i = Len(t) /\ s # << >>
    <3>1. i # 1 /\ t[i - 1] = s[Len(s)]
      BY <2>3, <1>1
    <3> QED
      BY <2>3, <3>1, <1>1 DEF Behind
  <2> QED
    BY <2>1, <2>2, <2>3, <1>1
<1>6. \A i \in 1 .. Len(t) : n <= t[i].pkt /\ PacketAfter(t[i]) <= Behind(t, n)
  <2> TAKE i \in 1 .. Len(t)
  <2>1. CASE i \in 1 .. Len(s)
    BY <2>1, <1>1, <1>2, <1>3, <1>4 DEF InOrder
  <2>2. CASE i = Len(t)
    BY <2>2, <1>1, <1>2, <1>3 DEF InOrder
  <2> QED
    BY <2>1, <2>2, <1>1
<1>7. \A i, j \in 1 .. Len(t) : i < j => PacketAfter(t[i]) <= t[j].pkt
  <2> TAKE i, j \in 1 .. Len(t)
  <2> HAVE i < j
  <2>1. i \in 1 .. Len(s)
    BY <1>1
  <2>2. CASE j \in 1 .. Len(s)
    BY <2>1, <2>2, <1>1 DEF InOrder
  <2>3. CASE j = Len(t)
    BY <2>1, <2>3, <1>1 DEF InOrder
  <2> QED
    BY <2>2, <2>3, <1>1
<1>8. n <= Behind(t, n)
  BY <1>2, <1>3 DEF InOrder
<1> QED
  BY <1>2, <1>5, <1>6, <1>7, <1>8 DEF InOrder

\* What is left of a stream begins with the packet at hand after its first
\* flit.
LEMMA TailInOrder ==
  ASSUME NEW R, \A f \in R : IsFlit(f),
         NEW s \in Seq(R), NEW n \in Nat, InOrder(s, n), s # << >>
  PROVE  /\ s[1].pkt = n
         /\ InOrder(Tail(s), PacketAfter(s[1]))
         /\ Behind(Tail(s), PacketAfter(s[1])) = Behind(s, n)
<1> DEFINE t == Tail(s)
           m == PacketAfter(s[1])
<1>1. /\ t \in Seq(R) /\ Len(t) = Len(s) - 1 /\ Len(s) \in Nat \ {0}
      /\ \A i \in 1 .. Len(t) : t[i] = s[i + 1]
      /\ \A i \in 1 .. Len(s) : IsFlit(s[i])
  OBVIOUS
<1>2. t = << >> <=> Len(s) = 1
  BY <1>1
<1>3. Behind(t, m) = Behind(s, n)
  <2>1. CASE Len(s) = 1
    BY <2>1, <1>2 DEF Behind
  <2>2. CASE Len(s) # 1
    <3>1. t # << >> /\ t[Len(t)] = s[Len(s)]
      BY <2>2, <1>1, <1>2
    <3> QED
      BY <3>1 DEF Behind
  <2> QED
    BY <2>1, <2>2
<1>4. s[1].pkt = n
  BY DEF InOrder
<1>5. m <= Behind(t, m)
  BY <1>1, <1>3 DEF InOrder
<1>6. \A i \in 1 .. Len(t) : t[i].pkt = IF i = 1 THEN m ELSE PacketAfter(t[i - 1])
  BY <1>1 DEF InOrder
<1>7. \A i \in 1 .. Len(t) : m <= t[i].pkt /\ PacketAfter(t[i]) <= Behind(t, m)
  BY <1>1, <1>3 DEF InOrder
<1>8. \A i, j \in 1 .. Len(t) : i < j => PacketAfter(t[i]) <= t[j].pkt
  BY <1>1 DEF InOrder
<1> QED
  BY <1>3, <1>4, <1>5, <1>6, <1>7, <1>8 DEF InOrder

\* A next flit may be added to a chain.
LEMMA AppendChain ==
  ASSUME NEW R, NEW f, NEW s \in Seq(R), Chain(s, f),
         NEW r \in R, NextFlit(LastOf(s, f), r)
  PROVE  Chain(Append(s, r), f) /\ LastOf(Append(s, r), f) = r
<1> DEFINE t == Append(s, r)
<1>1. t \in Seq(R) /\ Len(t) = Len(s) + 1 /\ Len(s) \in Nat
  OBVIOUS
<1>2. \A i \in 1 .. Len(s) : t[i] = s[i]
  OBVIOUS
<1>3. t # << >> /\ t[Len(t)] = r
  BY <1>1
<1>4. ASSUME NEW i \in 1 .. Len(t)
      PROVE  NextFlit(IF i = 1 THEN f ELSE t[i - 1], t[i])
  <2>1. CASE i \in 1 .. Len(s)
    <3>1. i # 1 => t[i - 1] = s[i - 1]
      BY <2>1, <1>1, <1>2
    <3> QED
      BY <2>1, <3>1, <1>2 DEF Chain
  <2>2. CASE i = Len(t) /\ s = << >>
    BY <2>2, <1>1, <1>3 DEF LastOf
  <2>3. CASE i = Len(t) /\ s # << >>
    <3>1. i # 1 /\ t[i - 1] = s[Len(s)] /\ t[i] = r
      BY <2>3, <1>1, <1>2, <1>3
    <3> QED
      BY <2>3, <3>1 DEF LastOf
  <2> QED
    BY <2>1, <2>2, <2>3, <1>1
<1> QED
  BY <1>3, <1>4 DEF Chain, LastOf

\* The first flit may be taken from a chain.
LEMMA TailChain ==
  ASSUME NEW R, NEW f, NEW s \in Seq(R), Chain(s, f), s # << >>
  PROVE  /\ NextFlit(f, s[1])
         /\ Chain(Tail(s), s[1])
         /\ LastOf(Tail(s), s[1]) = LastOf(s, f)
<1> DEFINE t == Tail(s)
<1>1. /\ t \in Seq(R) /\ Len(t) = Len(s) - 1 /\ Len(s) \in Nat \ {0}
      /\ \A i \in 1 .. Len(t) : t[i] = s[i + 1]
  OBVIOUS
<1>2. NextFlit(f, s[1])
  BY <1>1 DEF Chain
<1>3. ASSUME NEW i \in 1 .. Len(t)
      PROVE  NextFlit(IF i = 1 THEN s[1] ELSE t[i - 1], t[i])
  <2>1. /\ t[i] = s[i + 1] /\ i + 1 \in 1 .. Len(s) /\ i + 1 # 1
        /\ (IF i = 1 THEN s[1] ELSE t[i - 1]) = s[(i + 1) - 1]
    BY <1>1
  <2> QED
    BY <2>1 DEF Chain
<1>4. LastOf(t, s[1]) = LastOf(s, f)
  <2>1. CASE Len(s) = 1
    <3>1. t = << >>
      <4>1. t \in Seq(R) /\ Len(t) = 0
        BY <2>1, <1>1
      <4> HIDE DEF t
      <4> QED
        BY <4>1
    <3>2. LastOf(t, s[1]) = s[1]
      BY <3>1 DEF LastOf
    <3> QED
      BY <2>1, <3>2 DEF LastOf
  <2>2. CASE Len(s) # 1
    <3>1. t # << >> /\ t[Len(t)] = s[Len(s)]
      BY <2>2, <1>1
    <3> QED
      BY <3>1 DEF LastOf
  <2> QED
    BY <2>1, <2>2
<1> QED
  BY <1>2, <1>3, <1>4 DEF Chain

-----------------------------------------------------------------------------
(***************************************************************************)
(* Where the packets are.                                                  *)
(***************************************************************************)
\* The last flit that was steered, and the packet at hand in steerPayload.
Steered == IF lastSafe.pkt > lastMatch.pkt THEN lastSafe ELSE lastMatch
AtHand  == PacketAfter(Steered)

\* The packets of the next bit in SteeringPipe, and of the next to be sent.
NextBit == IF first THEN AtHand ELSE AtHand + 1
Unsent  == NextBit + Len(steer)

\* The packet of which flagger has not seen the end, before this turn's result
\* and with it.
InFlagger == IF steeringSent THEN Unsent - 1 ELSE Unsent
Unread    == IF flagStage = "read" THEN InFlagger ELSE PacketAfter(result)

\* The results of the packets before this one have been passed on.
Flushed == IF flagStage = "steer" THEN PacketAfter(result) ELSE InFlagger

\* The packet at hand at the end of the matcher's streams.
AtMatcher == Behind(meta, Unread)
AtSource  == Behind(matcher, AtMatcher)

-----------------------------------------------------------------------------
(***************************************************************************)
(* The inductive invariant.                                                *)
(***************************************************************************)
\* At most one path is in the middle of a packet.
LanesRight ==
  /\ 1 <= AtHand
  /\ ~lastMatch.eop => lastMatch = Steered
  /\ ~lastSafe.eop => lastSafe = Steered
  /\ first => Steered.eop

\* The forward FIFO has every flit between the last one that was steered and
\* the source's, and the source ends a packet in time.
ForwardRight ==
  /\ Chain(forward, Steered)
  /\ IF srcStage = "read" THEN srcFlit = LastOf(forward, Steered)
                          ELSE NextFlit(LastOf(forward, Steered), srcFlit)
  /\ srcFlit.eop \/ srcFlit.idx < MaxFlits

\* Each bit says whether its packet has a hit.
BitsRight ==
  /\ \A i \in 1 .. Len(steer) : steer[i] <=> NextBit + i - 1 \in hitPackets
  /\ ~first => (flagged <=> AtHand \in hitPackets)

\* A result with a hit of packet p has not been through flagger yet.
HitPending(p) ==
  \/ flagStage # "read" /\ result.hit /\ result.pkt = p
  \/ \E i \in 1 .. Len(meta) : meta[i].hit /\ meta[i].pkt = p

\* Of a packet whose bit has not been sent, the hits are still on their way.
FlagRight ==
  /\ steeringSent => Unsent - 1 \in hitPackets
  /\ flagStage # "read" =>
       /\ result.pkt = InFlagger
       /\ result.hit => result.pkt \in hitPackets
  /\ \A i \in 1 .. Len(meta) : meta[i].hit => meta[i].pkt \in hitPackets
  /\ \A p \in hitPackets : p >= Unsent => HitPending(p)

\* The matcher's streams have every packet between flagger's and the source's.
StreamsRight ==
  /\ InOrder(meta, Unread)
  /\ InOrder(matcher, AtMatcher)
  /\ AtSource = IF srcStage = "match" THEN srcFlit.pkt ELSE PacketAfter(srcFlit)

\* The ends of the packets with hits have left, are on their way, or are still
\* to come.
OutRight ==
  /\ lastResult < Flushed
  /\ \A i \in 1 .. Len(out) :
       /\ out[i].pkt \in hitPackets
       /\ lastResult < out[i].pkt /\ PacketAfter(out[i]) <= Flushed
  /\ \A i, j \in 1 .. Len(out) : i < j => PacketAfter(out[i]) <= out[j].pkt
  /\ \A p \in hitPackets :
       \/ p <= lastResult
       \/ Flushed <= p
       \/ \E i \in 1 .. Len(out) : out[i].eop /\ out[i].pkt = p

SInv == /\ TypeOK /\ LanesRight /\ ForwardRight /\ BitsRight /\ FlagRight
        /\ StreamsRight /\ OutRight /\ RightPath /\ CountsAll

-----------------------------------------------------------------------------
(***************************************************************************)
(* What the invariant says of the places.                                  *)
(***************************************************************************)
\* The fields of flits and results.
LEMMA Fields ==
  /\ \A f \in Flit : /\ IsFlit(f) /\ f.pkt \in 0 .. Packets
                     /\ f.idx \in 0 .. MaxFlits /\ PacketAfter(f) \in Nat
  /\ \A r \in Result : /\ IsFlit(r) /\ r.pkt \in 0 .. Packets
                       /\ r.hit \in BOOLEAN /\ PacketAfter(r) \in Nat
BY SteeringAssumption DEF Flit, Result, IsFlit, PacketAfter

\* The places follow each other from steerPayload back to the matcher.
LEMMA Places ==
  ASSUME SInv
  PROVE  /\ Steered \in Flit
         /\ AtHand \in Nat /\ NextBit \in Nat /\ Unsent \in Nat /\ Len(steer) \in Nat
         /\ 1 <= AtHand /\ AtHand <= NextBit /\ NextBit + Len(steer) = Unsent
         /\ InFlagger \in Nat /\ Unread \in Nat /\ Flushed \in Nat
         /\ 1 <= InFlagger /\ InFlagger <= Flushed /\ Flushed <= Unread
         /\ AtMatcher \in Nat /\ AtSource \in Nat
         /\ Unread <= AtMatcher /\ AtMatcher <= AtSource
         /\ lastSafe.pkt < NextBit /\ lastMatch.pkt < NextBit
<1> USE DEF SInv
<1>1. Steered \in Flit /\ lastSafe.pkt <= Steered.pkt /\ lastMatch.pkt <= Steered.pkt
  <2>1. lastSafe \in Flit /\ lastMatch \in Flit
    BY DEF TypeOK
  <2>2. lastSafe.pkt \in Nat /\ lastMatch.pkt \in Nat
    BY <2>1, Fields DEF IsFlit
  <2>3. CASE lastSafe.pkt > lastMatch.pkt
    BY <2>1, <2>2, <2>3 DEF Steered
  <2>4. CASE ~(lastSafe.pkt > lastMatch.pkt)
    BY <2>1, <2>2, <2>4 DEF Steered
  <2> QED
    BY <2>3, <2>4
<1>2. /\ AtHand \in Nat /\ 1 <= AtHand /\ Steered.pkt <= AtHand
      /\ Steered.eop => Steered.pkt < AtHand
  BY <1>1, Fields DEF AtHand, PacketAfter, LanesRight
<1>3. Len(steer) \in Nat /\ first \in BOOLEAN /\ steeringSent \in BOOLEAN
  BY DEF TypeOK
<1>4. NextBit \in Nat /\ AtHand <= NextBit /\ Steered.pkt < NextBit
  BY <1>1, <1>2, <1>3, Fields DEF NextBit, LanesRight
<1>5. Unsent \in Nat /\ NextBit + Len(steer) = Unsent
  BY <1>3, <1>4 DEF Unsent
<1>6. InFlagger \in Nat /\ 1 <= InFlagger
  <2>1. CASE steeringSent
    <3>1. Unsent - 1 \in 1 .. Packets
      BY <2>1 DEF FlagRight, TypeOK
    <3> QED
      BY <2>1, <3>1, <1>5 DEF InFlagger
  <2>2. CASE ~steeringSent
    BY <2>2, <1>2, <1>4, <1>5, <1>3 DEF InFlagger
  <2> QED
    BY <2>1, <2>2
<1>7. flagStage # "read" => /\ PacketAfter(result) \in Nat
                            /\ InFlagger <= PacketAfter(result)
  BY <1>6, Fields DEF TypeOK, FlagRight, PacketAfter, IsFlit
<1>8. /\ Unread \in Nat /\ Flushed \in Nat
      /\ InFlagger <= Flushed /\ Flushed <= Unread
  BY <1>6, <1>7 DEF Unread, Flushed
<1>9. AtMatcher \in Nat /\ Unread <= AtMatcher
  <2>1. meta # << >> => meta[Len(meta)] \in Result
    BY DEF TypeOK
  <2> QED
    BY <2>1, <1>8, Fields DEF AtMatcher, Behind, StreamsRight, InOrder
<1>10. AtSource \in Nat /\ AtMatcher <= AtSource
  <2>1. matcher # << >> => matcher[Len(matcher)] \in Flit
    BY DEF TypeOK
  <2> QED
    BY <2>1, <1>9, Fields DEF AtSource, Behind, StreamsRight, InOrder
<1>11. lastSafe.pkt < NextBit /\ lastMatch.pkt < NextBit
  <2>1. lastSafe \in Flit /\ lastMatch \in Flit
    BY DEF TypeOK
  <2>2. lastSafe.pkt \in Nat /\ lastMatch.pkt \in Nat /\ Steered.pkt \in Nat
    BY <1>1, <2>1, Fields DEF IsFlit
  <2> QED
    BY <1>1, <1>4, <2>2
<1> QED
  BY <1>1, <1>2, <1>3, <1>4, <1>5, <1>6, <1>8, <1>9, <1>10, <1>11

-----------------------------------------------------------------------------
(***************************************************************************)
(* The steps of payloadSourceKernel.                                       *)
(***************************************************************************)
\* They disturb the streams they write to, and nothing else.
LEMMA SourceFrame ==
  ASSUME SInv,
         UNCHANGED <<meta, steer, out, flagging, steering, hitPackets, lastResult>>
  PROVE  /\ UNCHANGED <<Steered, Unread, AtMatcher>>
         /\ LanesRight' /\ BitsRight' /\ FlagRight' /\ OutRight' /\ RightPath' /\ CountsAll'
<1> USE DEF SInv
<1>1. UNCHANGED <<meta, steer, out, steeringSent, flagStage, result, first, flagged,
                  safeCount, lastMatch, lastSafe, hitPackets, lastResult>>
  BY DEF flagging, steering
<1>2. UNCHANGED <<Steered, AtHand>>
  BY <1>1 DEF Steered, AtHand
<1>3. UNCHANGED <<NextBit, Unsent>>
  BY <1>1, <1>2 DEF NextBit, Unsent
<1>4. UNCHANGED <<InFlagger, Unread, Flushed, AtMatcher>>
  BY <1>1, <1>3 DEF InFlagger, Unread, Flushed, AtMatcher
<1>5. LanesRight'
  BY <1>1, <1>2 DEF LanesRight
<1>6. BitsRight'
  BY <1>1, <1>2, <1>3 DEF BitsRight
<1>7. FlagRight'
  BY <1>1, <1>3, <1>4 DEF FlagRight, HitPending
<1>8. OutRight'
  BY <1>1, <1>4 DEF OutRight
<1>9. RightPath' /\ CountsAll'
  BY <1>1 DEF RightPath, CountsAll
<1> QED
  BY <1>2, <1>4, <1>5, <1>6, <1>7, <1>8, <1>9

\* A flit is made, the next one of its packet or the first of a new one.
LEMMA SourceReadSafe ==
  ASSUME SInv, NEW eop \in BOOLEAN, SourceRead(eop)
  PROVE  SInv'
<1> USE DEF SInv
<1> DEFINE flit == IF srcFlit.eop THEN [pkt |-> srcFlit.pkt + 1, idx |-> 1, eop |-> eop]
                                  ELSE [srcFlit EXCEPT !.idx = @ + 1, !.eop = eop]
<1>1. /\ srcStage = "read" /\ srcStage' = "match" /\ srcFlit' = flit
      /\ srcFlit.eop => srcFlit.pkt < Packets
      /\ flit.idx = MaxFlits => eop
      /\ UNCHANGED <<matcher, forward>>
      /\ UNCHANGED <<meta, steer, out, flagging, steering, hitPackets, lastResult>>
  BY DEF SourceRead
<1>2. /\ UNCHANGED <<Steered, Unread, AtMatcher>>
      /\ LanesRight' /\ BitsRight' /\ FlagRight' /\ OutRight' /\ RightPath' /\ CountsAll'
  BY <1>1, SourceFrame
<1>3. srcFlit \in Flit
  BY DEF TypeOK
<1>4. flit.pkt = PacketAfter(srcFlit) /\ flit.idx = IF srcFlit.eop THEN 1 ELSE srcFlit.idx + 1
  BY <1>3 DEF Flit, PacketAfter
<1>5. flit.eop = eop
  BY <1>3 DEF Flit
<1>6. flit.idx \in 0 .. MaxFlits
  BY <1>3, <1>4, Fields, SteeringAssumption DEF ForwardRight
<1>7. flit.pkt \in 0 .. Packets
  BY <1>1, <1>3, <1>4, Fields, SteeringAssumption DEF PacketAfter
<1>8. flit \in Flit
  <2>1. CASE srcFlit.eop
    BY <2>1, <1>3, <1>6, <1>7 DEF Flit
  <2>2. CASE ~srcFlit.eop
    BY <2>2, <1>3, <1>6, <1>7 DEF Flit
  <2> QED
    BY <2>1, <2>2
<1>9. TypeOK'
  BY <1>1, <1>8 DEF TypeOK, flagging, steering
<1>10. ForwardRight'
  <2>1. flit.eop \/ flit.idx < MaxFlits
    BY <1>1, <1>5, <1>6, SteeringAssumption
  <2>2. NextFlit(LastOf(forward, Steered), flit)
    BY <1>1, <1>4 DEF ForwardRight, NextFlit
  <2> QED
    BY <1>1, <1>2, <2>1, <2>2 DEF ForwardRight
<1>11. StreamsRight'
  <2>1. AtSource' = AtSource
    BY <1>1, <1>2 DEF AtSource
  <2>2. AtSource = flit.pkt
    BY <1>1, <1>4 DEF StreamsRight
  <2> QED
    BY <1>1, <1>2, <2>1, <2>2 DEF StreamsRight
<1> QED
  BY <1>2, <1>9, <1>10, <1>11

\* It is written to the matcher,
LEMMA SourceToMatcherSafe ==
  ASSUME SInv, SourceToMatcher
  PROVE  SInv'
<1> USE DEF SInv
<1>1. /\ srcStage = "match" /\ srcStage' = "forward"
      /\ Len(matcher) < MatcherDepth /\ matcher' = Append(matcher, srcFlit)
      /\ UNCHANGED <<srcFlit, forward>>
      /\ UNCHANGED <<meta, steer, out, flagging, steering, hitPackets, lastResult>>
  BY DEF SourceToMatcher
<1>2. /\ UNCHANGED <<Steered, Unread, AtMatcher>>
      /\ LanesRight' /\ BitsRight' /\ FlagRight' /\ OutRight' /\ RightPath' /\ CountsAll'
  BY <1>1, SourceFrame
<1>3. matcher \in Seq(Flit) /\ srcFlit \in Flit /\ MatcherDepth \in Nat
  BY SteeringAssumption DEF TypeOK
<1>4. matcher' \in Seq(Flit) /\ Len(matcher') <= MatcherDepth
  BY <1>1, <1>3
<1>5. TypeOK'
  BY <1>1, <1>4 DEF TypeOK, flagging, steering
<1>6. ForwardRight'
  BY <1>1, <1>2 DEF ForwardRight
<1>7. StreamsRight'
  <2>1. AtMatcher \in Nat /\ srcFlit.pkt = Behind(matcher, AtMatcher)
    BY <1>1, Places DEF StreamsRight, AtSource
  <2>2. /\ InOrder(Append(matcher, srcFlit), AtMatcher)
        /\ Behind(Append(matcher, srcFlit), AtMatcher) = PacketAfter(srcFlit)
    BY <1>3, <2>1, AppendInOrder, Fields DEF StreamsRight
  <2> QED
    BY <1>1, <1>2, <2>2 DEF StreamsRight, AtSource
<1> QED
  BY <1>2, <1>5, <1>6, <1>7

\* and to the forward FIFO.
LEMMA SourceToForwardSafe ==
  ASSUME SInv, SourceToForward
  PROVE  SInv'
<1> USE DEF SInv
<1>1. /\ srcStage = "forward" /\ srcStage' = "read"
      /\ Len(forward) < ForwardDepth /\ forward' = Append(forward, srcFlit)
      /\ UNCHANGED <<srcFlit, matcher>>
      /\ UNCHANGED <<meta, steer, out, flagging, steering, hitPackets, lastResult>>
  BY DEF SourceToForward
<1>2. /\ UNCHANGED <<Steered, Unread, AtMatcher>>
      /\ LanesRight' /\ BitsRight' /\ FlagRight' /\ OutRight' /\ RightPath' /\ CountsAll'
  BY <1>1, SourceFrame
<1>3. forward \in Seq(Flit) /\ srcFlit \in Flit /\ ForwardDepth \in Nat
  BY SteeringAssumption DEF TypeOK
<1>4. forward' \in Seq(Flit) /\ Len(forward') <= ForwardDepth
  BY <1>1, <1>3
<1>5. TypeOK'
  BY <1>1, <1>4 DEF TypeOK, flagging, steering
<1>6. ForwardRight'
  <2>1. Chain(forward, Steered) /\ NextFlit(LastOf(forward, Steered), srcFlit)
    BY <1>1 DEF ForwardRight
  <2>2. /\ Chain(Append(forward, srcFlit), Steered)
        /\ LastOf(Append(forward, srcFlit), Steered) = srcFlit
    BY <1>3, <2>1, AppendChain
  <2> QED
    BY <1>1, <1>2, <2>2 DEF ForwardRight
<1>7. StreamsRight'
  <2>1. AtSource' = AtSource
    BY <1>1, <1>2 DEF AtSource
  <2> QED
    BY <1>1, <1>2, <2>1 DEF StreamsRight
<1> QED
  BY <1>2, <1>5, <1>6, <1>7

-----------------------------------------------------------------------------
(***************************************************************************)
(* The steps of the matcher.                                               *)
(***************************************************************************)
\* A packet in which a hit is found now has not been flagged yet, or has been
\* flagged for a hit before.
LEMMA NewHits ==
  ASSUME SInv, matcher # << >>
  PROVE  /\ matcher[1] \in Flit /\ matcher[1].pkt = AtMatcher
         /\ AtMatcher >= Unsent \/ AtMatcher \in hitPackets
         /\ AtMatcher \in 1 .. Packets
<1> USE DEF SInv
<1>1. matcher[1] \in Flit
  BY DEF TypeOK
<1>2. matcher[1].pkt = AtMatcher
  BY <1>1, TailInOrder, Places, Fields DEF TypeOK, StreamsRight
<1>3. AtMatcher >= InFlagger /\ AtMatcher >= 1
  BY Places
<1>4. InFlagger = IF steeringSent THEN Unsent - 1 ELSE Unsent
  BY DEF InFlagger
<1>5. AtMatcher >= Unsent \/ AtMatcher \in hitPackets
  <2>1. CASE steeringSent /\ AtMatcher = Unsent - 1
    BY <2>1 DEF FlagRight
  <2>2. CASE ~(steeringSent /\ AtMatcher = Unsent - 1)
    BY <2>2, <1>3, <1>4, Places
  <2> QED
    BY <2>1, <2>2
<1> QED
  BY <1>1, <1>2, <1>3, <1>5, Fields, SteeringAssumption

\* A flit makes a result.
LEMMA MatchSafe ==
  ASSUME SInv, NEW hit \in BOOLEAN, Match(hit)
  PROVE  SInv'
<1> USE DEF SInv
<1> DEFINE flit == matcher[1]
           res  == [pkt |-> flit.pkt, hit |-> hit, eop |-> flit.eop]
<1>1. /\ matcher # << >> /\ Len(meta) < MetaDepth
      /\ matcher' = Tail(matcher) /\ meta' = Append(meta, res)
      /\ hitPackets' = IF hit THEN hitPackets \union {flit.pkt} ELSE hitPackets
      /\ UNCHANGED <<srcStage, srcFlit, forward, steer, out, steeringSent, flagStage,
                     result, first, flagged, safeCount, lastMatch, lastSafe, lastResult>>
  <2>1. Head(matcher) = flit
    OBVIOUS
  <2> QED
    BY <2>1, Zenon DEF Match, source, flagging, steering
<1>2. UNCHANGED <<Steered, AtHand>>
  BY <1>1 DEF Steered, AtHand
<1>3. UNCHANGED <<NextBit, Unsent>>
  BY <1>1, <1>2 DEF NextBit, Unsent
<1>4. UNCHANGED <<InFlagger, Unread, Flushed>>
  BY <1>1, <1>3 DEF InFlagger, Unread, Flushed
<1>5. /\ flit \in Flit /\ flit.pkt = AtMatcher
      /\ AtMatcher >= Unsent \/ AtMatcher \in hitPackets
      /\ AtMatcher \in 1 .. Packets
  BY <1>1, NewHits
<1>6. /\ \A p \in hitPackets : p \in hitPackets'
      /\ \A p \in hitPackets' : p \in hitPackets \/ (hit /\ p = AtMatcher)
      /\ hit => AtMatcher \in hitPackets'
      /\ \A p \in Nat : p < Unsent => (p \in hitPackets <=> p \in hitPackets')
  BY <1>1, <1>5, Places
<1>7. res \in Result /\ res.pkt = AtMatcher /\ res.hit = hit /\ res.eop = flit.eop
  BY <1>5, Fields DEF Result, IsFlit
<1>8. meta \in Seq(Result) /\ matcher \in Seq(Flit) /\ Len(matcher) <= MatcherDepth
  BY DEF TypeOK
<1>9. TypeOK'
  <2>1. meta' \in Seq(Result) /\ Len(meta') <= MetaDepth
    BY <1>1, <1>7, <1>8, SteeringAssumption
  <2>2. matcher' \in Seq(Flit) /\ Len(matcher') <= MatcherDepth
    BY <1>1, <1>8, SteeringAssumption
  <2>3. hitPackets' \subseteq 1 .. Packets
    BY <1>5, <1>6 DEF TypeOK
  <2> QED
    BY <1>1, <2>1, <2>2, <2>3 DEF TypeOK
<1>10. LanesRight' /\ ForwardRight'
  BY <1>1, <1>2 DEF LanesRight, ForwardRight
<1>11. BitsRight'
  <2>1. \A i \in 1 .. Len(steer) : NextBit + i - 1 \in Nat /\ NextBit + i - 1 < Unsent
    BY Places
  <2>2. ~first => AtHand \in Nat /\ AtHand < Unsent
    BY Places DEF NextBit
  <2> QED
    BY <1>1, <1>2, <1>3, <1>6, <2>1, <2>2 DEF BitsRight
<1>12. /\ Len(meta') = Len(meta) + 1 /\ Len(meta) \in Nat
       /\ \A i \in 1 .. Len(meta) : meta'[i] = meta[i]
       /\ meta'[Len(meta) + 1] = res
  BY <1>1, <1>7, <1>8
<1>13. FlagRight'
  <2>1. steeringSent' => Unsent' - 1 \in hitPackets'
    BY <1>1, <1>3, <1>6 DEF FlagRight
  <2>2. flagStage' # "read" => /\ result'.pkt = InFlagger'
                               /\ result'.hit => result'.pkt \in hitPackets'
    BY <1>1, <1>4, <1>6 DEF FlagRight
  <2>3. \A i \in 1 .. Len(meta') : meta'[i].hit => meta'[i].pkt \in hitPackets'
    BY <1>6, <1>7, <1>12 DEF FlagRight
  <2>4. ASSUME NEW p \in hitPackets', p >= Unsent'
        PROVE  HitPending(p)'
    <3>1. CASE p \in hitPackets
      <4>1. HitPending(p)
        BY <2>4, <3>1, <1>3 DEF FlagRight
      <4> QED
        BY <4>1, <1>1, <1>12 DEF HitPending
    <3>2. CASE hit /\ p = AtMatcher
      <4>1. Len(meta) + 1 \in 1 .. Len(meta')
        BY <1>12
      <4> QED
        BY <4>1, <3>2, <1>7, <1>12 DEF HitPending
    <3> QED
      BY <3>1, <3>2, <1>6
  <2> QED
    BY <2>1, <2>2, <2>3, <2>4 DEF FlagRight
<1>14. StreamsRight'
  <2>1. /\ InOrder(meta', Unread) /\ Behind(meta', Unread) = PacketAfter(res)
    <3>1. InOrder(meta, Unread) /\ res.pkt = Behind(meta, Unread) /\ Unread \in Nat
      BY <1>7, Places DEF StreamsRight, AtMatcher
    <3>2. \A r \in Result : IsFlit(r)
      BY Fields
    <3> HIDE DEF res
    <3> QED
      BY <1>1, <1>7, <1>8, <3>1, <3>2, AppendInOrder
  <2>2. PacketAfter(res) = PacketAfter(flit)
    BY DEF PacketAfter
  <2>3. AtMatcher' = PacketAfter(flit)
    BY <1>4, <2>1, <2>2 DEF AtMatcher
  <2>4. /\ InOrder(matcher', PacketAfter(flit))
        /\ Behind(matcher', PacketAfter(flit)) = Behind(matcher, AtMatcher)
    BY <1>1, <1>8, TailInOrder, Places, Fields DEF StreamsRight
  <2>5. AtSource' = AtSource
    BY <2>3, <2>4 DEF AtSource
  <2> QED
    BY <1>1, <1>4, <2>1, <2>3, <2>4, <2>5, Zenon DEF StreamsRight, PacketAfter
<1>15. OutRight'
  <2>1. Flushed <= AtMatcher
    BY Places
  <2>2. \A p \in hitPackets' : \/ p <= lastResult
                               \/ Flushed <= p
                               \/ \E i \in 1 .. Len(out) : out[i].eop /\ out[i].pkt = p
    BY <1>6, <2>1 DEF OutRight
  <2> QED
    BY <1>1, <1>4, <1>6, <2>2 DEF OutRight
<1>16. RightPath'
  <2>1. lastSafe.pkt \in Nat
    BY Fields DEF TypeOK, IsFlit
  <2>2. lastSafe.pkt < Unsent
    BY <2>1, Places
  <2> QED
    BY <1>1, <1>6, <2>1, <2>2 DEF RightPath
<1>17. CountsAll'
  <2> DEFINE whole == IF Steered.eop THEN Steered.pkt ELSE Steered.pkt - 1
  <2>1. whole < Unsent
    <3>1. Steered.pkt \in Nat /\ whole = AtHand - 1
      BY Places, Fields DEF AtHand, PacketAfter, IsFlit
    <3>2. AtHand \in Nat /\ Unsent \in Nat /\ AtHand <= Unsent
      BY Places
    <3> QED
      BY <3>1, <3>2
  <2>2. {p \in hitPackets' : p <= whole} = {p \in hitPackets : p <= whole}
    <3>1. \A p \in hitPackets' : p \in Nat
      BY <1>9 DEF TypeOK
    <3>2. whole \in Int /\ Unsent \in Nat
      BY Places, Fields
    <3> QED
      BY <1>6, <2>1, <3>1, <3>2
  <2>3. /\ CountsAll <=> safeCount = whole - Cardinality({p \in hitPackets : p <= whole})
        /\ CountsAll' <=> safeCount = whole - Cardinality({p \in hitPackets' : p <= whole})
    BY <1>1 DEF CountsAll, Steered
  <2> QED
    BY <2>2, <2>3
<1> QED
  BY <1>9, <1>10, <1>11, <1>13, <1>14, <1>15, <1>16, <1>17

\* A flit makes none.
LEMMA MatchNothingSafe ==
  ASSUME SInv, MatchNothing
  PROVE  SInv'
<1> USE DEF SInv
<1>1. /\ matcher # << >> /\ ~matcher[1].eop /\ matcher' = Tail(matcher)
      /\ UNCHANGED <<srcStage, srcFlit, meta, forward, steer, out, steeringSent, flagStage,
                     result, first, flagged, safeCount, lastMatch, lastSafe, hitPackets,
                     lastResult>>
  BY DEF MatchNothing, source, flagging, steering
<1>2. UNCHANGED <<Steered, AtHand>>
  BY <1>1 DEF Steered, AtHand
<1>3. UNCHANGED <<NextBit, Unsent>>
  BY <1>1, <1>2 DEF NextBit, Unsent
<1>4. UNCHANGED <<InFlagger, Unread, Flushed, AtMatcher>>
  BY <1>1, <1>3 DEF InFlagger, Unread, Flushed, AtMatcher
<1>5. TypeOK'
  <2>1. matcher \in Seq(Flit) /\ Len(matcher) <= MatcherDepth
    BY DEF TypeOK
  <2>2. matcher' \in Seq(Flit) /\ Len(matcher') <= MatcherDepth
    BY <1>1, <2>1, SteeringAssumption
  <2> QED
    BY <1>1, <2>2 DEF TypeOK
<1>6. LanesRight' /\ ForwardRight'
  BY <1>1, <1>2 DEF LanesRight, ForwardRight
<1>7. BitsRight'
  BY <1>1, <1>2, <1>3 DEF BitsRight
<1>8. FlagRight'
  BY <1>1, <1>3, <1>4 DEF FlagRight, HitPending
<1>9. StreamsRight'
  <2>1. PacketAfter(matcher[1]) = AtMatcher
    BY <1>1, NewHits DEF PacketAfter
  <2>2. /\ InOrder(matcher', AtMatcher)
        /\ Behind(matcher', AtMatcher) = Behind(matcher, AtMatcher)
    BY <1>1, <2>1, TailInOrder, Places, Fields DEF StreamsRight, TypeOK
  <2>3. AtSource' = AtSource
    BY <1>4, <2>2 DEF AtSource
  <2> QED
    BY <1>1, <1>4, <2>2, <2>3 DEF StreamsRight
<1>10. OutRight' /\ RightPath' /\ CountsAll'
  BY <1>1, <1>4 DEF OutRight, RightPath, CountsAll
<1> QED
  BY <1>5, <1>6, <1>7, <1>8, <1>9, <1>10

-----------------------------------------------------------------------------
(***************************************************************************)
(* The steps of flagger.                                                   *)
(***************************************************************************)
\* A result is taken from the matcher's stream.
LEMMA FlagReadSafe ==
  ASSUME SInv, FlagRead
  PROVE  SInv'
<1> USE DEF SInv
<1>1. /\ flagStage = "read" /\ flagStage' = "out" /\ meta # << >>
      /\ result' = meta[1] /\ meta' = Tail(meta)
      /\ UNCHANGED <<srcStage, srcFlit, matcher, forward, steer, out, steeringSent, first,
                     flagged, safeCount, lastMatch, lastSafe, hitPackets, lastResult>>
  BY DEF FlagRead, source, steering
<1>2. UNCHANGED <<Steered, AtHand>>
  BY <1>1 DEF Steered, AtHand
<1>3. UNCHANGED <<NextBit, Unsent>>
  BY <1>1, <1>2 DEF NextBit, Unsent
<1>4. /\ UNCHANGED <<InFlagger, Flushed>>
      /\ Unread = InFlagger /\ Unread' = PacketAfter(meta[1])
  BY <1>1, <1>3 DEF InFlagger, Unread, Flushed
<1>5. meta \in Seq(Result) /\ meta[1] \in Result /\ Len(meta) <= MetaDepth
  BY <1>1 DEF TypeOK
<1>6. meta' \in Seq(Result) /\ Len(meta') = Len(meta) - 1
  BY <1>1, <1>5
<1>7. TypeOK'
  BY <1>1, <1>5, <1>6, SteeringAssumption DEF TypeOK
<1>8. /\ meta[1].pkt = Unread
      /\ InOrder(meta', Unread') /\ Behind(meta', Unread') = Behind(meta, Unread)
  BY <1>1, <1>4, <1>5, TailInOrder, Places, Fields DEF StreamsRight
<1>9. LanesRight' /\ ForwardRight'
  BY <1>1, <1>2 DEF LanesRight, ForwardRight
<1>10. BitsRight'
  BY <1>1, <1>2, <1>3 DEF BitsRight
<1>11. FlagRight'
  <2>1. \A i \in 1 .. Len(meta') : i + 1 \in 1 .. Len(meta) /\ meta'[i] = meta[i + 1]
    BY <1>1, <1>5
  <2>2. /\ result'.pkt = InFlagger'
        /\ result'.hit => result'.pkt \in hitPackets'
    BY <1>1, <1>4, <1>5, <1>8 DEF FlagRight
  <2>3. \A i \in 1 .. Len(meta') : meta'[i].hit => meta'[i].pkt \in hitPackets'
    BY <1>1, <2>1 DEF FlagRight
  <2>4. ASSUME NEW p \in hitPackets, p >= Unsent
        PROVE  HitPending(p)'
    <3>1. PICK i \in 1 .. Len(meta) : meta[i].hit /\ meta[i].pkt = p
      BY <1>1, <2>4 DEF FlagRight, HitPending
    <3>2. CASE i = 1
      BY <1>1, <3>1, <3>2 DEF HitPending
    <3>3. CASE i # 1
      <4>1. i - 1 \in 1 .. Len(meta') /\ meta'[i - 1] = meta[i]
        BY <1>1, <1>5, <1>6, <3>1, <3>3
      <4> QED
        BY <3>1, <4>1 DEF HitPending
    <3> QED
      BY <3>2, <3>3
  <2> QED
    BY <1>1, <1>3, <2>2, <2>3, <2>4 DEF FlagRight
<1>12. StreamsRight'
  <2>1. UNCHANGED <<AtMatcher, AtSource>>
    BY <1>1, <1>8 DEF AtMatcher, AtSource
  <2> QED
    BY <1>1, <1>8, <2>1 DEF StreamsRight
<1>13. OutRight' /\ RightPath' /\ CountsAll'
  BY <1>1, <1>4 DEF OutRight, RightPath, CountsAll
<1> QED
  BY <1>7, <1>9, <1>10, <1>11, <1>12, <1>13

\* What flagger still has to see of the packet at hand decides nothing at the
\* packet's end: if there was a hit, it is in this result or the bit is sent.
LEMMA EndDecides ==
  ASSUME SInv, flagStage # "read", result.eop, result.pkt \in hitPackets
  PROVE  result.hit \/ steeringSent
<1> USE DEF SInv
<1>1. SUFFICES ASSUME ~result.hit, ~steeringSent PROVE FALSE
  OBVIOUS
<1>2. result.pkt = Unsent /\ Unread = result.pkt + 1
  BY <1>1 DEF FlagRight, InFlagger, Unread, PacketAfter
<1>3. PICK i \in 1 .. Len(meta) : meta[i].pkt = result.pkt
  BY <1>1, <1>2, Places DEF FlagRight, HitPending
<1>4. Unread <= meta[i].pkt
  BY <1>3 DEF StreamsRight, InOrder
<1>5. result.pkt \in Nat
  BY Fields DEF TypeOK, IsFlit
<1> QED
  BY <1>2, <1>3, <1>4, <1>5

\* A result is passed on, or not.
LEMMA FlagOutSafe ==
  ASSUME SInv, FlagOut
  PROVE  SInv'
<1> USE DEF SInv
<1>1. /\ flagStage = "out" /\ flagStage' = "steer"
      /\ PassesOn => Len(out) < OutDepth
      /\ out' = IF PassesOn THEN Append(out, result) ELSE out
      /\ UNCHANGED <<srcStage, srcFlit, matcher, meta, forward, steer, steeringSent, result,
                     first, flagged, safeCount, lastMatch, lastSafe, hitPackets, lastResult>>
  BY DEF FlagOut, source, steering
<1>2. UNCHANGED <<Steered, AtHand>>
  BY <1>1 DEF Steered, AtHand
<1>3. UNCHANGED <<NextBit, Unsent>>
  BY <1>1, <1>2 DEF NextBit, Unsent
<1>4. /\ UNCHANGED <<InFlagger, Unread, AtMatcher, AtSource>>
      /\ Flushed = result.pkt /\ Flushed' = PacketAfter(result)
  BY <1>1, <1>3 DEF InFlagger, Unread, Flushed, AtMatcher, AtSource, FlagRight
<1>5. out \in Seq(Result) /\ result \in Result /\ Len(out) <= OutDepth
  BY DEF TypeOK
<1>6. /\ out' \in Seq(Result) /\ Len(out') <= OutDepth /\ Len(out) \in Nat
      /\ \A i \in 1 .. Len(out) : i \in 1 .. Len(out') /\ out'[i] = out[i]
      /\ PassesOn => Len(out') = Len(out) + 1 /\ out'[Len(out')] = result
      /\ ~PassesOn => Len(out') = Len(out)
  <2>1. CASE PassesOn
    <3>1. out' = Append(out, result)
      BY <1>1, <2>1
    <3> QED
      BY <1>1, <1>5, <2>1, <3>1, SteeringAssumption
  <2>2. CASE ~PassesOn
    BY <1>1, <1>5, <2>2
  <2> QED
    BY <2>1, <2>2
<1>7. TypeOK'
  BY <1>1, <1>6 DEF TypeOK
<1>8. LanesRight' /\ ForwardRight'
  BY <1>1, <1>2 DEF LanesRight, ForwardRight
<1>9. BitsRight'
  BY <1>1, <1>2, <1>3 DEF BitsRight
<1>10. FlagRight'
  BY <1>1, <1>3, <1>4 DEF FlagRight, HitPending
<1>11. StreamsRight'
  BY <1>1, <1>4 DEF StreamsRight
<1>12. OutRight'
  <2>1. /\ result.pkt \in Nat /\ lastResult \in Nat
        /\ PacketAfter(result) = IF result.eop THEN result.pkt + 1 ELSE result.pkt
    BY <1>5, Fields DEF PacketAfter, TypeOK
  <2>2. /\ lastResult' < Flushed'
    BY <1>1, <1>4, <2>1 DEF OutRight
  <2>3. PassesOn => result.pkt \in hitPackets
    BY <1>1 DEF PassesOn, FlagRight, InFlagger
  <2>4. \A i \in 1 .. Len(out) : /\ out[i].pkt \in Nat /\ PacketAfter(out[i]) \in Nat
                                 /\ PacketAfter(out[i]) <= result.pkt
    BY <1>4, <1>5, Fields DEF OutRight, IsFlit
  <2>5. \A i \in 1 .. Len(out') : i \in 1 .. Len(out) \/ (PassesOn /\ i = Len(out'))
    BY <1>6
  <2>6. \A i \in 1 .. Len(out') :
          /\ out'[i].pkt \in hitPackets'
          /\ lastResult' < out'[i].pkt /\ PacketAfter(out'[i]) <= Flushed'
    <3> TAKE i \in 1 .. Len(out')
    <3>1. CASE i \in 1 .. Len(out)
      BY <1>1, <1>4, <1>6, <2>1, <2>4, <3>1 DEF OutRight
    <3>2. CASE PassesOn /\ i = Len(out')
      BY <1>1, <1>4, <1>6, <2>1, <2>3, <3>2 DEF OutRight
    <3> QED
      BY <2>5, <3>1, <3>2
  <2>7. \A i, j \in 1 .. Len(out') : i < j => PacketAfter(out'[i]) <= out'[j].pkt
    <3> TAKE i, j \in 1 .. Len(out')
    <3> HAVE i < j
    <3>1. i \in 1 .. Len(out)
      BY <1>6, <2>5
    <3>2. CASE j \in 1 .. Len(out)
      BY <1>6, <3>1, <3>2 DEF OutRight
    <3>3. CASE PassesOn /\ j = Len(out')
      BY <1>6, <2>4, <3>1, <3>3
    <3> QED
      BY <2>5, <3>2, <3>3
  <2>8. ASSUME NEW p \in hitPackets
        PROVE  \/ p <= lastResult
               \/ Flushed' <= p
               \/ \E i \in 1 .. Len(out') : out'[i].eop /\ out'[i].pkt = p
    <3>1. CASE result.eop /\ p = result.pkt
      <4>1. PassesOn
        BY <1>1, <3>1, EndDecides DEF PassesOn
      <4>2. Len(out') \in 1 .. Len(out')
        BY <1>6, <4>1
      <4> QED
        BY <1>6, <3>1, <4>1, <4>2
    <3>2. CASE \E i \in 1 .. Len(out) : out[i].eop /\ out[i].pkt = p
      BY <1>6, <3>2
    <3>3. CASE ~(result.eop /\ p = result.pkt) /\ Flushed <= p
      <4>1. p \in Nat
        BY DEF TypeOK
      <4> QED
        BY <1>4, <2>1, <3>3, <4>1
    <3> QED
      BY <3>1, <3>2, <3>3 DEF OutRight
  <2> QED
    BY <1>1, <2>2, <2>6, <2>7, <2>8 DEF OutRight
<1>13. RightPath' /\ CountsAll'
  BY <1>1 DEF RightPath, CountsAll
<1> QED
  BY <1>7, <1>8, <1>9, <1>10, <1>11, <1>12, <1>13

\* The packet's bit is sent, or not.
LEMMA FlagSteerSafe ==
  ASSUME SInv, FlagSteer
  PROVE  SInv'
<1> USE DEF SInv
<1>1. /\ flagStage = "steer" /\ flagStage' = "read"
      /\ SendsBit => Len(steer) < SteerDepth
      /\ steer' = IF SendsBit THEN Append(steer, result.hit) ELSE steer
      /\ steeringSent' = IF result.eop THEN FALSE ELSE steeringSent \/ result.hit
      /\ UNCHANGED <<srcStage, srcFlit, matcher, meta, forward, out, result,
                     first, flagged, safeCount, lastMatch, lastSafe, hitPackets, lastResult>>
  BY Zenon DEF FlagSteer, SteeringSentNext, source, steering
<1>2. UNCHANGED <<Steered, AtHand>>
  BY <1>1 DEF Steered, AtHand
<1>3. UNCHANGED NextBit
  BY <1>1, <1>2 DEF NextBit
<1>4. /\ result \in Result /\ result.hit \in BOOLEAN /\ result.eop \in BOOLEAN
      /\ result.pkt \in Nat /\ steeringSent \in BOOLEAN
  BY Fields DEF TypeOK, IsFlit
<1>5. steer \in Seq(BOOLEAN) /\ Len(steer) \in Nat /\ Len(steer) <= SteerDepth
  BY DEF TypeOK
<1>6. /\ steer' \in Seq(BOOLEAN) /\ Len(steer') <= SteerDepth
      /\ \A i \in 1 .. Len(steer) : steer'[i] = steer[i]
      /\ SendsBit => Len(steer') = Len(steer) + 1
      /\ ~SendsBit => Len(steer') = Len(steer)
  <2>1. CASE SendsBit
    <3>1. steer' = Append(steer, result.hit)
      BY <1>1, <2>1
    <3> QED
      BY <1>1, <1>4, <1>5, <2>1, <3>1, SteeringAssumption
  <2>2. CASE ~SendsBit
    BY <1>1, <1>5, <2>2
  <2> QED
    BY <2>1, <2>2
<1>7. Unsent' = IF SendsBit THEN Unsent + 1 ELSE Unsent
  <2>1. Unsent' = NextBit + Len(steer')
    BY <1>3 DEF Unsent
  <2>2. CASE SendsBit
    <3>1. Len(steer') = Len(steer) + 1
      BY <1>6, <2>2
    <3>2. NextBit \in Nat /\ Unsent = NextBit + Len(steer)
      BY Places
    <3>3. Unsent' = Unsent + 1
      BY <1>5, <2>1, <3>1, <3>2
    <3> QED
      BY <2>2, <3>3, Zenon
  <2>3. CASE ~SendsBit
    BY <1>6, <2>1, <2>3, Places
  <2> QED
    BY <2>2, <2>3
<1>8. result.pkt = IF steeringSent THEN Unsent - 1 ELSE Unsent
  BY <1>1 DEF FlagRight, InFlagger
<1>9. InFlagger' = PacketAfter(result)
  <2>1. Unsent \in Nat
    BY Places
  <2>2. InFlagger' = IF steeringSent' THEN Unsent' - 1 ELSE Unsent'
    BY DEF InFlagger
  <2>3. CASE result.eop
    <3>1. ~steeringSent'
      BY <1>1, <2>3
    <3>2. Unsent' = result.pkt + 1
      BY <1>7, <1>8, <2>1, <2>3 DEF SendsBit
    <3> QED
      BY <2>2, <2>3, <3>1, <3>2 DEF PacketAfter
  <2>4. CASE ~result.eop /\ (steeringSent \/ result.hit)
    <3>1. steeringSent'
      BY <1>1, <2>4
    <3>2. Unsent' = result.pkt + 1
      BY <1>7, <1>8, <2>1, <2>4 DEF SendsBit
    <3> QED
      BY <1>4, <2>2, <2>4, <3>1, <3>2 DEF PacketAfter
  <2>5. CASE ~result.eop /\ ~steeringSent /\ ~result.hit
    <3>1. ~steeringSent'
      BY <1>1, <2>5
    <3>2. Unsent' = result.pkt
      BY <1>7, <1>8, <2>1, <2>5 DEF SendsBit
    <3> QED
      BY <2>2, <2>5, <3>1, <3>2 DEF PacketAfter
  <2> QED
    BY <2>3, <2>4, <2>5
<1>10. /\ UNCHANGED <<Unread, Flushed, AtMatcher, AtSource>>
       /\ Flushed = PacketAfter(result)
  BY <1>1, <1>9 DEF Unread, Flushed, AtMatcher, AtSource
<1>11. TypeOK'
  <2>1. steeringSent' \in BOOLEAN
    BY <1>1, <1>4
  <2> QED
    BY <1>1, <1>6, <2>1 DEF TypeOK
<1>12. LanesRight' /\ ForwardRight'
  BY <1>1, <1>2 DEF LanesRight, ForwardRight
<1>13. SendsBit => (result.hit <=> Unsent \in hitPackets)
  BY <1>1, <1>4, <1>8, EndDecides DEF SendsBit, FlagRight
<1>14. BitsRight'
  <2>1. \A i \in 1 .. Len(steer) : steer'[i] <=> NextBit + i - 1 \in hitPackets
    BY <1>6 DEF BitsRight
  <2>2. SendsBit => /\ steer'[Len(steer')] = result.hit
                    /\ NextBit + Len(steer') - 1 = Unsent
    <3> HAVE SendsBit
    <3>1. steer' = Append(steer, result.hit)
      BY <1>1
    <3>2. steer'[Len(steer')] = result.hit
      BY <1>4, <1>5, <3>1
    <3> QED
      BY <1>6, <3>2, Places
  <2>3. \A i \in 1 .. Len(steer') : i \in 1 .. Len(steer) \/ (SendsBit /\ i = Len(steer'))
    BY <1>5, <1>6
  <2>4. \A i \in 1 .. Len(steer') : steer'[i] <=> NextBit + i - 1 \in hitPackets
    <3> TAKE i \in 1 .. Len(steer')
    <3>1. CASE i \in 1 .. Len(steer)
      BY <2>1, <3>1
    <3>2. CASE SendsBit /\ i = Len(steer')
      BY <1>13, <2>2, <3>2
    <3> QED
      BY <2>3, <3>1, <3>2
  <2> QED
    BY <1>1, <1>2, <1>3, <2>4 DEF BitsRight
<1>15. FlagRight'
  <2>1. steeringSent' => Unsent' - 1 \in hitPackets
    <3> HAVE steeringSent'
    <3>1. CASE SendsBit
      <4>1. result.hit /\ result.pkt = Unsent /\ Unsent' - 1 = Unsent
        <5>1. ~steeringSent
          BY <3>1 DEF SendsBit
        <5>2. result.hit
          BY <1>1, <5>1
        <5> QED
          BY <1>7, <1>8, <3>1, <5>1, <5>2, Places
      <4> QED
        BY <1>13, <3>1, <4>1
    <3>2. CASE ~SendsBit
      <4>1. steeringSent /\ Unsent' = Unsent
        BY <1>1, <1>4, <1>7, <3>2 DEF SendsBit
      <4> QED
        BY <4>1 DEF FlagRight
    <3> QED
      BY <3>1, <3>2
  <2>2. ASSUME NEW p \in hitPackets, p >= Unsent'
        PROVE  HitPending(p)'
    <3>1. p >= Unsent /\ HitPending(p)
      <4>1. p \in Nat
        BY DEF TypeOK
      <4>2. p >= Unsent
        BY <1>7, <2>2, <4>1, Places
      <4> QED
        BY <4>2 DEF FlagRight
    <3>2. ~(result.hit /\ result.pkt = p)
      <4>1. p \in Nat
        BY DEF TypeOK
      <4>2. Unsent \in Nat
        BY Places
      <4>3. CASE steeringSent
        BY <1>8, <3>1, <4>1, <4>2, <4>3
      <4>4. CASE ~steeringSent /\ result.hit
        <5>1. Unsent' = Unsent + 1
          BY <1>7, <4>4 DEF SendsBit
        <5> QED
          BY <1>8, <2>2, <4>1, <4>2, <4>4, <5>1
      <4>5. CASE ~result.hit
        BY <4>5
      <4> QED
        BY <4>3, <4>4, <4>5
    <3> QED
      BY <1>1, <3>1, <3>2 DEF HitPending
  <2> QED
    BY <1>1, <2>1, <2>2 DEF FlagRight
<1>16. StreamsRight'
  BY <1>1, <1>10 DEF StreamsRight
<1>17. OutRight'
  BY <1>1, <1>10 DEF OutRight
<1>18. RightPath' /\ CountsAll'
  BY <1>1 DEF RightPath, CountsAll
<1> QED
  BY <1>11, <1>12, <1>14, <1>15, <1>16, <1>17, <1>18

-----------------------------------------------------------------------------
(***************************************************************************)
(* The steps of steerPayload and of the next stage.                        *)
(***************************************************************************)
\* A bit is read.
LEMMA ReadBitSafe ==
  ASSUME SInv, ReadBit
  PROVE  SInv'
<1> USE DEF SInv
<1>1. /\ first /\ first' = FALSE /\ steer # << >>
      /\ flagged' = steer[1] /\ steer' = Tail(steer)
      /\ UNCHANGED <<srcStage, srcFlit, matcher, meta, forward, out, steeringSent, flagStage,
                     result, safeCount, lastMatch, lastSafe, hitPackets, lastResult>>
  <2>1. steer # << >> => Head(steer) = steer[1]
    OBVIOUS
  <2> QED
    BY <2>1, Zenon DEF ReadBit, source, flagging
<1>2. UNCHANGED <<Steered, AtHand>>
  BY <1>1 DEF Steered, AtHand
<1>3. /\ steer \in Seq(BOOLEAN) /\ Len(steer) \in Nat \ {0} /\ Len(steer) <= SteerDepth
      /\ steer[1] \in BOOLEAN
  BY <1>1 DEF TypeOK
<1>4. /\ steer' \in Seq(BOOLEAN) /\ Len(steer') = Len(steer) - 1
      /\ \A i \in 1 .. Len(steer') : i + 1 \in 1 .. Len(steer) /\ steer'[i] = steer[i + 1]
  BY <1>1, <1>3
<1>5. AtHand \in Nat /\ NextBit = AtHand /\ NextBit' = AtHand + 1
  BY <1>1, <1>2, Places DEF NextBit
<1>6. UNCHANGED Unsent
  BY <1>3, <1>4, <1>5 DEF Unsent
<1>7. UNCHANGED <<InFlagger, Unread, Flushed, AtMatcher, AtSource>>
  BY <1>1, <1>6 DEF InFlagger, Unread, Flushed, AtMatcher, AtSource
<1>8. TypeOK'
  <2>1. flagged' \in BOOLEAN /\ first' \in BOOLEAN
    BY <1>1, <1>3, Zenon
  <2>2. Len(steer') <= SteerDepth
    BY <1>3, <1>4, SteeringAssumption
  <2> QED
    BY <1>1, <1>4, <2>1, <2>2 DEF TypeOK
<1>9. LanesRight' /\ ForwardRight'
  BY <1>1, <1>2 DEF LanesRight, ForwardRight
<1>10. BitsRight'
  <2>1. \A i \in 1 .. Len(steer') : steer'[i] <=> NextBit' + i - 1 \in hitPackets
    <3> TAKE i \in 1 .. Len(steer')
    <3>1. steer[i + 1] <=> NextBit + (i + 1) - 1 \in hitPackets
      BY <1>4 DEF BitsRight
    <3>2. NextBit + (i + 1) - 1 = NextBit' + i - 1
      BY <1>5
    <3> QED
      BY <1>4, <3>1, <3>2
  <2>2. steer[1] <=> AtHand \in hitPackets
    <3>1. 1 \in 1 .. Len(steer) /\ NextBit + 1 - 1 = AtHand
      BY <1>3, <1>5
    <3> QED
      BY <3>1 DEF BitsRight
  <2> QED
    BY <1>1, <1>2, <2>1, <2>2 DEF BitsRight
<1>11. FlagRight'
  BY <1>1, <1>6, <1>7 DEF FlagRight, HitPending
<1>12. StreamsRight' /\ OutRight'
  BY <1>1, <1>7 DEF StreamsRight, OutRight
<1>13. RightPath' /\ CountsAll'
  BY <1>1 DEF RightPath, CountsAll
<1> QED
  BY <1>8, <1>9, <1>10, <1>11, <1>12, <1>13

\* The next flit is of the packet at hand, whose bit is known, and the path
\* that does not get it is between two packets.
LEMMA SteersRight ==
  ASSUME SInv, ~first, forward # << >>
  PROVE  /\ forward[1] \in Flit /\ NextFlit(Steered, forward[1]) /\ forward[1].pkt = AtHand
         /\ flagged => /\ AtHand \in hitPackets
                       /\ lastSafe.eop /\ Follows(lastMatch, forward[1])
         /\ ~flagged => /\ AtHand \notin hitPackets
                        /\ lastMatch.eop /\ lastMatch.pkt < AtHand
                        /\ Follows(lastSafe, forward[1])
<1> USE DEF SInv
<1> DEFINE flit == forward[1]
<1>1. flit \in Flit /\ lastMatch \in Flit /\ lastSafe \in Flit
  BY DEF TypeOK
<1>2. NextFlit(Steered, flit)
  BY TailChain DEF ForwardRight, TypeOK
<1>3. flit.pkt = AtHand /\ AtHand \in Nat /\ 1 <= AtHand
  BY <1>2, Places DEF NextFlit, AtHand
<1>4. flagged <=> AtHand \in hitPackets
  BY DEF BitsRight
<1>5. /\ lastMatch.pkt \in Nat /\ lastMatch.pkt <= AtHand
      /\ lastSafe.pkt \in Nat /\ lastSafe.pkt <= AtHand
  <2>1. lastMatch.pkt \in Nat /\ lastSafe.pkt \in Nat
    BY <1>1, Fields DEF IsFlit
  <2>2. lastMatch.pkt < AtHand + 1 /\ lastSafe.pkt < AtHand + 1
    BY Places DEF NextBit
  <2> QED
    BY <1>3, <2>1, <2>2
<1>6. /\ Steered = lastMatch \/ Steered = lastSafe
      /\ lastMatch.pkt <= Steered.pkt /\ lastSafe.pkt <= Steered.pkt
      /\ Steered.pkt \in Nat
  <2>1. CASE lastSafe.pkt > lastMatch.pkt
    BY <1>5, <2>1 DEF Steered
  <2>2. CASE ~(lastSafe.pkt > lastMatch.pkt)
    BY <1>5, <2>2 DEF Steered
  <2> QED
    BY <2>1, <2>2
<1>7. ASSUME flagged
      PROVE  lastSafe.eop /\ Follows(lastMatch, flit)
  <2>1. lastSafe.pkt # AtHand
    BY <1>4, <1>7 DEF RightPath
  <2>2. lastSafe.eop
    BY <2>1 DEF LanesRight, AtHand, PacketAfter
  <2>3. CASE lastMatch.eop
    <3>1. Steered.eop
      BY <1>6, <2>2, <2>3
    <3> QED
      BY <1>2, <1>5, <1>6, <2>2, <2>3, <3>1 DEF Follows, NextFlit, PacketAfter
  <2>4. CASE ~lastMatch.eop
    <3>1. lastMatch = Steered
      BY <2>4 DEF LanesRight
    <3> QED
      BY <1>2, <2>2, <2>4, <3>1 DEF Follows, NextFlit, PacketAfter
  <2> QED
    BY <2>2, <2>3, <2>4
<1>8. ASSUME ~flagged
      PROVE  lastMatch.eop /\ lastMatch.pkt < AtHand /\ Follows(lastSafe, flit)
  <2>1. lastMatch.pkt # AtHand
    BY <1>3, <1>4, <1>5, <1>8 DEF RightPath
  <2>2. lastMatch.eop
    BY <2>1 DEF LanesRight, AtHand, PacketAfter
  <2>3. CASE lastSafe.eop
    <3>1. Steered.eop
      BY <1>6, <2>2, <2>3
    <3> QED
      BY <1>2, <1>5, <1>6, <2>1, <2>2, <2>3, <3>1, <1>3 DEF Follows, NextFlit, PacketAfter
  <2>4. CASE ~lastSafe.eop
    BY <1>2, <1>3, <1>5, <2>1, <2>2, <2>4 DEF LanesRight, Follows, NextFlit, PacketAfter
  <2> QED
    BY <1>3, <1>5, <2>1, <2>2, <2>3, <2>4
<1> QED
  BY <1>1, <1>2, <1>3, <1>4, <1>7, <1>8

\* A flit goes to its path.
LEMMA SteerFlitSafe ==
  ASSUME SInv, SteerFlit
  PROVE  SInv'
<1> USE DEF SInv
<1> DEFINE flit == forward[1]
<1>1. /\ ~first /\ forward # << >> /\ forward' = Tail(forward) /\ first' = flit.eop
      /\ \/ /\ flagged /\ lastMatch' = flit
            /\ UNCHANGED <<lastSafe, safeCount>>
         \/ /\ ~flagged /\ lastSafe' = flit
            /\ safeCount' = safeCount + (IF flit.eop THEN 1 ELSE 0)
            /\ UNCHANGED lastMatch
      /\ UNCHANGED <<srcStage, srcFlit, matcher, meta, steer, out, steeringSent, flagStage,
                     result, flagged, hitPackets, lastResult>>
  <2>1. Head(forward) = flit
    OBVIOUS
  <2> QED
    BY <2>1, Zenon DEF SteerFlit, NextFirst, CountsPacket, source, flagging
<1>2. /\ flit \in Flit /\ NextFlit(Steered, flit) /\ flit.pkt = AtHand
      /\ flagged => AtHand \in hitPackets /\ lastSafe.eop
      /\ ~flagged => AtHand \notin hitPackets /\ lastMatch.eop /\ lastMatch.pkt < AtHand
  BY <1>1, SteersRight
<1>3. /\ AtHand \in Nat /\ 1 <= AtHand /\ NextBit = AtHand + 1
      /\ lastMatch.pkt \in Nat /\ lastSafe.pkt \in Nat /\ lastSafe.pkt <= AtHand
  <2>1. lastMatch.pkt \in Nat /\ lastSafe.pkt \in Nat
    BY Fields DEF TypeOK, IsFlit
  <2>2. AtHand \in Nat /\ 1 <= AtHand /\ NextBit = AtHand + 1
    BY <1>1, Places DEF NextBit
  <2>3. lastSafe.pkt < NextBit
    BY Places
  <2> QED
    BY <2>1, <2>2, <2>3
<1>4. Steered' = flit
  <2>1. CASE flagged
    BY <1>1, <1>2, <1>3, <2>1 DEF Steered
  <2>2. CASE ~flagged
    BY <1>1, <1>2, <1>3, <2>2 DEF Steered
  <2> QED
    BY <2>1, <2>2
<1>5. AtHand' = IF flit.eop THEN AtHand + 1 ELSE AtHand
  BY <1>2, <1>4 DEF AtHand, PacketAfter
<1>6. UNCHANGED NextBit
  BY <1>1, <1>3, <1>5 DEF NextBit
<1>7. UNCHANGED <<Unsent, InFlagger, Unread, Flushed, AtMatcher, AtSource>>
  BY <1>1, <1>6 DEF Unsent, InFlagger, Unread, Flushed, AtMatcher, AtSource
<1>8. CountsAll'
  <2> DEFINE upTo(n) == {p \in hitPackets : p <= n}
  <2>1. safeCount = AtHand - 1 - Cardinality(upTo(AtHand - 1))
    <3>1. (IF Steered.eop THEN Steered.pkt ELSE Steered.pkt - 1) = AtHand - 1
      BY Places, Fields DEF AtHand, PacketAfter, IsFlit
    <3> QED
      BY <3>1 DEF CountsAll, Steered
  <2>2. (IF Steered'.eop THEN Steered'.pkt ELSE Steered'.pkt - 1)
          = IF flit.eop THEN AtHand ELSE AtHand - 1
    BY <1>2, <1>4
  <2>3. SUFFICES safeCount' = (IF flit.eop THEN AtHand ELSE AtHand - 1)
                    - Cardinality(upTo(IF flit.eop THEN AtHand ELSE AtHand - 1))
    BY <1>1, <2>2 DEF CountsAll, Steered
  <2>4. CASE ~flit.eop
    <3>1. safeCount' = safeCount
      BY <1>1, <2>4 DEF TypeOK
    <3> QED
      BY <2>1, <2>4, <3>1
  <2>5. CASE flit.eop
    <3>1. IsFiniteSet(upTo(AtHand - 1)) /\ Cardinality(upTo(AtHand - 1)) \in Nat
      <4>1. IsFiniteSet(1 .. Packets)
        BY FS_Interval, SteeringAssumption
      <4>2. upTo(AtHand - 1) \subseteq 1 .. Packets
        BY DEF TypeOK
      <4> QED
        BY <4>1, <4>2, FS_Subset, FS_CardinalityType
    <3>2. \A p \in hitPackets : p \in Nat
      BY DEF TypeOK
    <3>3. CASE flagged
      <4>1. upTo(AtHand) = upTo(AtHand - 1) \cup {AtHand} /\ AtHand \notin upTo(AtHand - 1)
        BY <1>2, <1>3, <3>2, <3>3
      <4>2. Cardinality(upTo(AtHand)) = Cardinality(upTo(AtHand - 1)) + 1
        BY <3>1, <4>1, FS_AddElement
      <4>3. safeCount' = safeCount
        BY <1>1, <3>3
      <4> QED
        BY <1>3, <2>1, <2>5, <3>1, <4>2, <4>3
    <3>4. CASE ~flagged
      <4>1. upTo(AtHand) = upTo(AtHand - 1)
        BY <1>2, <1>3, <3>2, <3>4
      <4>2. safeCount' = safeCount + 1
        BY <1>1, <2>5, <3>4
      <4> QED
        <5>1. Cardinality(upTo(AtHand)) = Cardinality(upTo(AtHand - 1))
          BY <4>1
        <5> HIDE DEF upTo
        <5> QED
          BY <1>3, <2>1, <2>5, <3>1, <4>2, <5>1
    <3> QED
      BY <3>3, <3>4
  <2> QED
    BY <2>4, <2>5
<1>9. TypeOK'
  <2>1. /\ forward \in Seq(Flit) /\ Len(forward) <= ForwardDepth /\ safeCount \in Nat
        /\ lastMatch \in Flit /\ lastSafe \in Flit /\ flit.eop \in BOOLEAN
    <3>1. flit.eop \in BOOLEAN
      BY <1>2, Fields DEF IsFlit
    <3> QED
      BY <3>1 DEF TypeOK
  <2>2. forward' \in Seq(Flit) /\ Len(forward') <= ForwardDepth
    BY <1>1, <2>1, SteeringAssumption
  <2>3. lastMatch' \in Flit /\ lastSafe' \in Flit /\ first' \in BOOLEAN /\ safeCount' \in Nat
    BY <1>1, <1>2, <2>1
  <2>4. safeCount' <= Packets
    <3> DEFINE whole == IF Steered'.eop THEN Steered'.pkt ELSE Steered'.pkt - 1
               hits  == {p \in hitPackets : p <= whole}
    <3>1. safeCount' = whole - Cardinality(hits)
      BY <1>1, <1>8 DEF CountsAll, Steered
    <3>2. whole \in Int /\ whole <= Packets
      BY <1>2, <1>4, Fields, SteeringAssumption
    <3>3. Cardinality(hits) \in Nat
      <4>1. IsFiniteSet(1 .. Packets)
        BY FS_Interval, SteeringAssumption
      <4>2. hits \subseteq 1 .. Packets
        BY DEF TypeOK
      <4> QED
        BY <4>1, <4>2, FS_Subset, FS_CardinalityType
    <3> QED
      BY <3>1, <3>2, <3>3, SteeringAssumption
  <2> QED
    BY <1>1, <2>2, <2>3, <2>4, SteeringAssumption DEF TypeOK
<1>10. LanesRight'
  <2>1. 1 <= AtHand'
    BY <1>3, <1>5
  <2> QED
    BY <1>1, <1>2, <1>4, <2>1 DEF LanesRight
<1>11. ForwardRight'
  <2>1. /\ Chain(forward', flit)
        /\ LastOf(forward', flit) = LastOf(forward, Steered)
    BY <1>1, TailChain DEF ForwardRight, TypeOK
  <2> QED
    BY <1>1, <1>4, <2>1 DEF ForwardRight
<1>12. BitsRight'
  BY <1>1, <1>5, <1>6 DEF BitsRight
<1>13. FlagRight'
  BY <1>1, <1>7 DEF FlagRight, HitPending
<1>14. StreamsRight' /\ OutRight'
  BY <1>1, <1>7 DEF StreamsRight, OutRight
<1>15. RightPath'
  BY <1>1, <1>2 DEF RightPath
<1> QED
  BY <1>8, <1>9, <1>10, <1>11, <1>12, <1>13, <1>14, <1>15

\* The first result is of a packet with a hit, and of the first such packet of
\* which the next stage has not had the end.
LEMMA FirstResult ==
  ASSUME SInv, out # << >>
  PROVE  /\ out[1] \in Result /\ out[1].pkt \in hitPackets /\ lastResult < out[1].pkt
         /\ \A p \in hitPackets : p <= lastResult \/ out[1].pkt <= p
<1> USE DEF SInv
<1>1. out \in Seq(Result) /\ 1 \in 1 .. Len(out) /\ out[1] \in Result
  BY DEF TypeOK
<1>2. out[1].pkt \in hitPackets /\ lastResult < out[1].pkt /\ PacketAfter(out[1]) <= Flushed
  BY <1>1 DEF OutRight
<1>3. out[1].pkt \in Nat /\ out[1].pkt <= Flushed
  <2>1. out[1].pkt \in Nat
    BY <1>1, Fields DEF IsFlit
  <2>2. Flushed \in Nat
    BY Places
  <2> QED
    BY <1>2, <2>1, <2>2 DEF PacketAfter
<1>4. ASSUME NEW p \in hitPackets
      PROVE  p <= lastResult \/ out[1].pkt <= p
  <2>1. p \in Nat
    BY DEF TypeOK
  <2>2. CASE Flushed <= p
    BY <1>3, <2>1, <2>2, Places
  <2>3. CASE \E i \in 1 .. Len(out) : out[i].pkt = p
    <3>1. PICK i \in 1 .. Len(out) : out[i].pkt = p
      BY <2>3
    <3>2. CASE i = 1
      BY <1>3, <3>1, <3>2
    <3>3. CASE i # 1
      <4>1. PacketAfter(out[1]) <= out[i].pkt
        BY <1>1, <3>3 DEF OutRight
      <4> QED
        BY <1>1, <1>3, <2>1, <3>1, <4>1, Fields DEF PacketAfter, IsFlit
    <3> QED
      BY <3>2, <3>3
  <2> QED
    BY <2>2, <2>3 DEF OutRight
<1> QED
  BY <1>1, <1>2, <1>4

\* The next stage takes it.
LEMMA TakeResultSafe ==
  ASSUME SInv, TakeResult
  PROVE  SInv'
<1> USE DEF SInv
<1>1. /\ out # << >> /\ out' = Tail(out)
      /\ lastResult' = IF out[1].eop THEN out[1].pkt ELSE lastResult
      /\ UNCHANGED <<srcStage, srcFlit, matcher, meta, forward, steer, steeringSent,
                     flagStage, result, first, flagged, safeCount, lastMatch, lastSafe,
                     hitPackets>>
  <2>1. Head(out) = out[1]
    OBVIOUS
  <2> QED
    BY <2>1, Zenon DEF TakeResult, source, flagging, steering
<1>2. UNCHANGED <<Steered, AtHand>>
  BY <1>1 DEF Steered, AtHand
<1>3. UNCHANGED <<NextBit, Unsent>>
  BY <1>1, <1>2 DEF NextBit, Unsent
<1>4. UNCHANGED <<InFlagger, Unread, Flushed, AtMatcher, AtSource>>
  BY <1>1, <1>3 DEF InFlagger, Unread, Flushed, AtMatcher, AtSource
<1>5. /\ out \in Seq(Result) /\ Len(out) \in Nat \ {0} /\ Len(out) <= OutDepth
      /\ out[1] \in Result
  BY <1>1 DEF TypeOK
<1>6. /\ out' \in Seq(Result) /\ Len(out') = Len(out) - 1
      /\ \A i \in 1 .. Len(out') : i + 1 \in 1 .. Len(out) /\ out'[i] = out[i + 1]
  BY <1>1, <1>5
<1>7. TypeOK'
  <2>1. lastResult' \in 0 .. Packets
    BY <1>1, <1>5, Fields DEF TypeOK
  <2> QED
    BY <1>1, <1>5, <1>6, <2>1, SteeringAssumption DEF TypeOK
<1>8. LanesRight' /\ ForwardRight'
  BY <1>1, <1>2 DEF LanesRight, ForwardRight
<1>9. BitsRight'
  BY <1>1, <1>2, <1>3 DEF BitsRight
<1>10. FlagRight' /\ StreamsRight'
  BY <1>1, <1>3, <1>4 DEF FlagRight, HitPending, StreamsRight
<1>11. OutRight'
  <2>1. /\ out[1].pkt \in Nat /\ lastResult \in Nat /\ Flushed \in Nat
        /\ lastResult < out[1].pkt
        /\ PacketAfter(out[1]) = IF out[1].eop THEN out[1].pkt + 1 ELSE out[1].pkt
    <3>1. out[1].pkt \in Nat
      BY <1>5, Fields DEF IsFlit
    <3>2. lastResult \in Nat /\ Flushed \in Nat
      BY Places DEF TypeOK
    <3>3. lastResult < out[1].pkt
      BY <1>1, FirstResult
    <3> QED
      BY <3>1, <3>2, <3>3 DEF PacketAfter
  <2>2. lastResult' < Flushed'
    <3>1. PacketAfter(out[1]) <= Flushed /\ lastResult < Flushed
      BY <1>5 DEF OutRight
    <3> QED
      BY <1>1, <1>4, <2>1, <3>1
  <2>3. ASSUME NEW i \in 1 .. Len(out')
        PROVE  /\ out'[i].pkt \in hitPackets
               /\ lastResult' < out'[i].pkt /\ PacketAfter(out'[i]) <= Flushed'
    <3>1. /\ out'[i] = out[i + 1] /\ out[i + 1] \in Result /\ i + 1 \in 1 .. Len(out)
          /\ 1 \in 1 .. Len(out) /\ 1 < i + 1
      BY <1>5, <1>6
    <3>2. /\ out[i + 1].pkt \in hitPackets /\ lastResult < out[i + 1].pkt
          /\ PacketAfter(out[i + 1]) <= Flushed /\ PacketAfter(out[1]) <= out[i + 1].pkt
      BY <3>1 DEF OutRight
    <3>3. out[i + 1].pkt \in Nat
      BY <3>1, Fields DEF IsFlit
    <3> QED
      BY <1>1, <1>4, <2>1, <3>1, <3>2, <3>3
  <2>4. \A i, j \in 1 .. Len(out') : i < j => PacketAfter(out'[i]) <= out'[j].pkt
    <3> TAKE i, j \in 1 .. Len(out')
    <3> HAVE i < j
    <3>1. PacketAfter(out[i + 1]) <= out[j + 1].pkt
      BY <1>6 DEF OutRight
    <3> QED
      BY <1>6, <3>1
  <2>5. ASSUME NEW p \in hitPackets
        PROVE  \/ p <= lastResult'
               \/ Flushed <= p
               \/ \E i \in 1 .. Len(out') : out'[i].eop /\ out'[i].pkt = p
    <3>1. p \in Nat
      BY DEF TypeOK
    <3>2. CASE p <= lastResult
      BY <1>1, <2>1, <3>1, <3>2
    <3>3. CASE \E i \in 1 .. Len(out) : out[i].eop /\ out[i].pkt = p
      <4>1. PICK i \in 1 .. Len(out) : out[i].eop /\ out[i].pkt = p
        BY <3>3
      <4>2. CASE i = 1
        BY <1>1, <2>1, <4>1, <4>2
      <4>3. CASE i # 1
        <5>1. i - 1 \in 1 .. Len(out') /\ out'[i - 1] = out[i]
          BY <1>5, <1>6, <4>3
        <5> QED
          BY <4>1, <5>1
      <4> QED
        BY <4>2, <4>3
    <3> QED
      BY <3>2, <3>3 DEF OutRight
  <2> QED
    BY <1>1, <1>4, <2>2, <2>3, <2>4, <2>5 DEF OutRight
<1>12. RightPath' /\ CountsAll'
  BY <1>1 DEF RightPath, CountsAll
<1> QED
  BY <1>7, <1>8, <1>9, <1>10, <1>11, <1>12

-----------------------------------------------------------------------------
(***************************************************************************)
(* The invariant, and what follows from it.                                *)
(***************************************************************************)
\* It holds at the start: the next packet everywhere is the first.
LEMMA InitSafe == Init => SInv
<1> SUFFICES ASSUME Init PROVE SInv
  OBVIOUS
<1> USE DEF Init
<1>1. /\ NoFlit \in Flit /\ NoFlit.pkt = 0 /\ NoFlit.eop = TRUE
      /\ [pkt |-> 0, hit |-> FALSE, eop |-> FALSE] \in Result
  BY SteeringAssumption DEF NoFlit, Flit, Result
<1>2. TypeOK
  <2>1. /\ matcher \in Seq(Flit) /\ meta \in Seq(Result) /\ forward \in Seq(Flit)
        /\ steer \in Seq(BOOLEAN) /\ out \in Seq(Result)
    OBVIOUS
  <2>2. /\ Len(matcher) <= MatcherDepth /\ Len(meta) <= MetaDepth
        /\ Len(forward) <= ForwardDepth /\ Len(steer) <= SteerDepth /\ Len(out) <= OutDepth
    BY SteeringAssumption
  <2>3. /\ srcFlit \in Flit /\ result \in Result /\ lastMatch \in Flit /\ lastSafe \in Flit
    BY <1>1
  <2>4. safeCount \in 0 .. Packets /\ lastResult \in 0 .. Packets
    BY SteeringAssumption
  <2>5. steeringSent \in BOOLEAN /\ first \in BOOLEAN /\ flagged \in BOOLEAN
    OBVIOUS
  <2> QED
    BY <2>1, <2>2, <2>3, <2>4, <2>5 DEF TypeOK
<1>3. Steered = NoFlit /\ AtHand = 1 /\ NextBit = 1 /\ Unsent = 1
  BY <1>1 DEF Steered, AtHand, NextBit, Unsent, PacketAfter
<1>4. InFlagger = 1 /\ Unread = 1 /\ Flushed = 1 /\ AtMatcher = 1 /\ AtSource = 1
  BY <1>3 DEF InFlagger, Unread, Flushed, AtMatcher, AtSource, Behind
<1>5. LanesRight /\ ForwardRight
  BY <1>1, <1>3 DEF LanesRight, ForwardRight, Chain, LastOf
<1>6. BitsRight /\ FlagRight
  BY <1>3 DEF BitsRight, FlagRight
<1>7. StreamsRight
  BY <1>1, <1>4 DEF StreamsRight, InOrder, Behind, PacketAfter
<1>8. OutRight
  BY <1>4 DEF OutRight
<1>9. RightPath
  BY <1>1 DEF RightPath
<1>10. CountsAll
  <2>1. {p \in {} : p <= 0} = {}
    OBVIOUS
  <2> QED
    BY <1>1, <2>1, FS_EmptySet DEF CountsAll
<1> QED
  BY <1>2, <1>5, <1>6, <1>7, <1>8, <1>9, <1>10 DEF SInv

\* Every step keeps it.
LEMMA NextSafe == SInv /\ [Next]_vars => SInv'
<1> SUFFICES ASSUME SInv, [Next]_vars PROVE SInv'
  OBVIOUS
<1>1. CASE \E eop \in BOOLEAN : SourceRead(eop)
  BY <1>1, SourceReadSafe
<1>2. CASE SourceToMatcher
  BY <1>2, SourceToMatcherSafe
<1>3. CASE SourceToForward
  BY <1>3, SourceToForwardSafe
<1>4. CASE \E hit \in BOOLEAN : Match(hit)
  BY <1>4, MatchSafe
<1>5. CASE MatchNothing
  BY <1>5, MatchNothingSafe
<1>6. CASE FlagRead
  BY <1>6, FlagReadSafe
<1>7. CASE FlagOut
  BY <1>7, FlagOutSafe
<1>8. CASE FlagSteer
  BY <1>8, FlagSteerSafe
<1>9. CASE ReadBit
  BY <1>9, ReadBitSafe
<1>10. CASE SteerFlit
  BY <1>10, SteerFlitSafe
<1>11. CASE TakeResult
  BY <1>11, TakeResultSafe
<1>12. CASE UNCHANGED vars
  <2>1. UNCHANGED <<srcStage, srcFlit, matcher, forward>>
    BY <1>12 DEF vars, source
  <2>2. UNCHANGED <<meta, steer, out, flagging, steering, hitPackets, lastResult>>
    BY <1>12 DEF vars
  <2>3. TypeOK'
    BY <2>1, <2>2 DEF SInv, TypeOK, flagging, steering
  <2>4. ForwardRight' /\ StreamsRight'
    BY <2>1, <2>2, SourceFrame DEF SInv, ForwardRight, StreamsRight, AtSource
  <2> QED
    BY <2>2, <2>3, <2>4, SourceFrame DEF SInv
<1> QED
  BY <1>1, <1>2, <1>3, <1>4, <1>5, <1>6, <1>7, <1>8, <1>9, <1>10, <1>11, <1>12
     DEF Next, Source, Matcher, Flagger, Steerer

\* The inductive invariant holds throughout.
LEMMA InvariantHolds == Spec => []SInv
<1>1. Init => SInv
  BY InitSafe
<1>2. SInv /\ [Next]_vars => SInv'
  BY NextSafe
<1> QED
  BY <1>1, <1>2, PTL DEF Spec

\* The kernels' registers and streams stay within their types and depths, and
\* the count of safe packets within the number of packets.
THEOREM TypeCorrect == Spec => []TypeOK
<1>1. SInv => TypeOK
  BY DEF SInv
<1> QED
  BY <1>1, InvariantHolds, PTL

\* A packet goes down the match path only if a rule matched in it, and down
\* the safe path only if none did, whatever the depths of the streams and the
\* lengths of the packets.
THEOREM SteeringIsRight == Spec => []RightPath
<1>1. SInv => RightPath
  BY DEF SInv
<1> QED
  BY <1>1, InvariantHolds, PTL

\* safe_payload_count and the packets on the match path are all the packets
\* that were steered: nothing is counted twice or by flit.
THEOREM EveryPacketCounted == Spec => []CountsAll
<1>1. SInv => CountsAll
  BY DEF SInv
<1> QED
  BY <1>1, InvariantHolds, PTL

\* No packet is torn between the two paths or mixed with another.
THEOREM NoTornPacket == Spec => PacketsWhole
<1> DEFINE Whole == /\ lastMatch' # lastMatch => Follows(lastMatch, lastMatch')
                    /\ lastSafe' # lastSafe => Follows(lastSafe, lastSafe')
<1>1. SInv /\ [Next]_vars => [Whole]_vars
  <2> SUFFICES ASSUME SInv, [Next]_vars PROVE Whole \/ UNCHANGED vars
    OBVIOUS
  <2>1. CASE SteerFlit
    <3>1. ~first /\ forward # << >> /\ Head(forward) = forward[1]
      BY <2>1 DEF SteerFlit
    <3>2. CASE flagged
      <4>1. lastMatch' = forward[1] /\ lastSafe' = lastSafe
        BY <2>1, <3>1, <3>2 DEF SteerFlit
      <4> QED
        BY <3>1, <3>2, <4>1, SteersRight
    <3>3. CASE ~flagged
      <4>1. lastSafe' = forward[1] /\ lastMatch' = lastMatch
        BY <2>1, <3>1, <3>3 DEF SteerFlit
      <4> QED
        BY <3>1, <3>3, <4>1, SteersRight
    <3> QED
      BY <3>2, <3>3
  <2>2. CASE ~SteerFlit
    <3>1. UNCHANGED vars \/ UNCHANGED <<lastMatch, lastSafe>>
      BY <2>2 DEF Next, Source, Matcher, Flagger, Steerer, SourceRead, SourceToMatcher,
                  SourceToForward, Match, MatchNothing, FlagRead, FlagOut, FlagSteer,
                  ReadBit, TakeResult, steering
    <3> QED
      BY <3>1
  <2> QED
    BY <2>1, <2>2
<1> QED
  BY <1>1, InvariantHolds, PTL DEF Spec, PacketsWhole

\* The next stage gets results of the packets with hits, of every one and in
\* their order.
THEOREM ResultsKeepStep == Spec => ResultsInStep
<1> DEFINE InStep == lastResult' # lastResult =>
                       /\ lastResult' \in hitPackets
                       /\ \A p \in lastResult + 1 .. lastResult' - 1 : p \notin hitPackets
<1>1. SInv /\ [Next]_vars => [InStep]_vars
  <2> SUFFICES ASSUME SInv, [Next]_vars PROVE InStep \/ UNCHANGED vars
    OBVIOUS
  <2>1. CASE TakeResult
    <3>1. out # << >> /\ (lastResult' = out[1].pkt \/ lastResult' = lastResult)
      BY <2>1 DEF TakeResult
    <3>2. /\ out[1].pkt \in hitPackets
          /\ \A p \in hitPackets : p <= lastResult \/ out[1].pkt <= p
      BY <3>1, FirstResult
    <3>3. out[1].pkt \in Nat
      BY <3>1, FirstResult, Fields DEF IsFlit
    <3>4. lastResult \in Nat
      BY DEF SInv, TypeOK
    <3> QED
      BY <3>1, <3>2, <3>3, <3>4
  <2>2. CASE ~TakeResult
    <3>1. UNCHANGED vars \/ UNCHANGED lastResult
      BY <2>2 DEF Next, Source, Matcher, Flagger, Steerer, SourceRead, SourceToMatcher,
                  SourceToForward, Match, MatchNothing, FlagRead, FlagOut, FlagSteer,
                  ReadBit, SteerFlit
    <3> QED
      BY <3>1
  <2> QED
    BY <2>1, <2>2
<1> QED
  BY <1>1, InvariantHolds, PTL DEF Spec, ResultsInStep
=============================================================================
