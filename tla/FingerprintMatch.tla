-------------------------- MODULE FingerprintMatch --------------------------
(***************************************************************************)
(* The second matcher (nf.cpp).  nfpmHashCheckStage finds the patterns of  *)
(* every length in a packet's payload and sends the hits of each length    *)
(* down a pipe of its own; fpAccumulateStage gathers them into the         *)
(* packet's fingerprint; fpMatchStage keeps those of the packet's rule     *)
(* ids, which come from the string matcher on another stream, whose own    *)
(* fingerprint is contained in it.                                         *)
(*                                                                         *)
(* A pattern's hit sets one bit: the bits of a length are the lanes here.  *)
(***************************************************************************)
EXTENDS Naturals, Sequences, FiniteSets, Bags

CONSTANTS
  Lanes,       \* the pattern lengths, each with one bit of the fingerprint
  Rids,        \* the rule ids
  RuleFp,      \* the fingerprint of every rule: a set of lanes
  LaneDepth,   \* depth of the pipes of hits
  MetaDepth,   \* depth of NfFprintMetaPipe and of RidMetaInPipe
  Packets,     \* how many packets arrive (a bound)
  MaxFlits     \* payload flits, and rule id flits, of all packets (a bound)

ASSUME FingerprintAssumption ==
  /\ RuleFp \in [Rids -> SUBSET Lanes]
  /\ LaneDepth \in Nat \ {0} /\ MetaDepth \in Nat \ {0}
  /\ Packets \in Nat /\ MaxFlits \in Nat

VARIABLES
  \* nfpmHashCheckStage: the hits of the flit at hand, the lanes still to be
  \* written, and how many flits have arrived
  hits, eop, todo, flits,
  lane,                      \* HitsPipe of every lane
  \* fpAccumulateStage: fp, barrierWait
  fp, barrierWait,
  fprint, rids, ridFlits,    \* NfFprintMetaPipe, RidMetaInPipe, flits put into it
  \* fpMatchStage: fpFlit, fpValid, getNextFp, ridFlit, ridValid
  fpFlit, fpValid, getNextFp, ridFlit, ridValid,
  \* history, one entry per packet: the hits in its payload, its rule ids, and
  \* those given on
  hitsIn, ridsIn, given

checker == <<hits, eop, todo, flits>>
accum   == <<fp, barrierWait>>
matcher == <<fpFlit, fpValid, getNextFp, ridFlit, ridValid>>
vars == <<checker, lane, accum, fprint, rids, ridFlits, matcher, hitsIn, ridsIn, given>>

NoRids == [ids |-> {}, eop |-> FALSE]

Init ==
  /\ hits = {} /\ eop = FALSE /\ todo = {} /\ flits = 0
  /\ lane = [l \in Lanes |-> << >>]
  /\ fp = {} /\ barrierWait = [l \in Lanes |-> FALSE]
  /\ fprint = << >> /\ rids = << >> /\ ridFlits = 0
  /\ fpFlit = {} /\ fpValid = FALSE /\ getNextFp = TRUE
  /\ ridFlit = NoRids /\ ridValid = FALSE
  /\ hitsIn = <<{}>> /\ ridsIn = <<EmptyBag>> /\ given = <<EmptyBag>>

TypeOK ==
  /\ hits \subseteq Lanes /\ eop \in BOOLEAN /\ todo \subseteq Lanes
  /\ flits \in 0 .. MaxFlits /\ ridFlits \in 0 .. MaxFlits
  /\ \A l \in Lanes : Len(lane[l]) <= LaneDepth
  /\ fp \subseteq Lanes /\ barrierWait \in [Lanes -> BOOLEAN]
  /\ Len(fprint) <= MetaDepth /\ Len(rids) <= MetaDepth
  /\ fpFlit \subseteq Lanes /\ fpValid \in BOOLEAN /\ getNextFp \in BOOLEAN
  /\ ridFlit \in [ids : SUBSET Rids, eop : BOOLEAN] /\ ridValid \in BOOLEAN
  /\ Len(hitsIn) \in 1 .. Packets + 1 /\ Len(ridsIn) \in 1 .. Packets + 1
  /\ Len(given) \in 1 .. Len(ridsIn)

-----------------------------------------------------------------------------
(***************************************************************************)
(* nfpmHashCheckStage: a lane is sent a flit if it has a hit, or to end    *)
(* the packet.                                                             *)
(***************************************************************************)
\* Mutant: the end goes only to the lanes with hits.
SendsHits(l, found, last) == l \in found

Sends(l, found, last) == l \in found \/ last

CheckRead(found, last) ==
  LET n == Len(hitsIn)
      h == [hitsIn EXCEPT ![n] = @ \cup found]
  IN  /\ todo = {} /\ flits < MaxFlits /\ n <= Packets
      /\ flits' = flits + 1
      /\ hits' = found /\ eop' = last
      /\ todo' = {l \in Lanes : Sends(l, found, last)}
      /\ hitsIn' = IF last THEN Append(h, {}) ELSE h
      /\ UNCHANGED <<lane, accum, fprint, rids, ridFlits, matcher, ridsIn, given>>

CheckWrite(l) ==
  /\ l \in todo
  /\ Len(lane[l]) < LaneDepth
  /\ lane' = [lane EXCEPT ![l] = Append(@, [hit |-> l \in hits, eop |-> eop])]
  /\ todo' = todo \ {l}
  /\ UNCHANGED <<hits, eop, flits, accum, fprint, rids, ridFlits, matcher, hitsIn, ridsIn, given>>

-----------------------------------------------------------------------------
(***************************************************************************)
(* fpAccumulateStage: a lane that has come to the packet's end waits until *)
(* all have.                                                               *)
(***************************************************************************)
\* Mutant: no lane waits.
ReadyLanesAll == {l \in Lanes : lane[l] # << >>}

ReadyLanes == {l \in Lanes : lane[l] # << >> /\ ~barrierWait[l]}

Accumulate ==
  LET ready == ReadyLanes
      now   == fp \cup {l \in ready : Head(lane[l]).hit}
      wait  == [l \in Lanes |-> barrierWait[l] \/ (l \in ready /\ Head(lane[l]).eop)]
      all   == \A l \in Lanes : wait[l]
  IN  /\ ready # {}
      /\ lane' = [l \in Lanes |-> IF l \in ready THEN Tail(lane[l]) ELSE lane[l]]
      /\ \/ /\ all /\ Len(fprint) < MetaDepth
            /\ fprint' = Append(fprint, now)
            /\ fp' = {}
            /\ barrierWait' = [l \in Lanes |-> FALSE]
         \/ /\ ~all
            /\ fp' = now /\ barrierWait' = wait
            /\ UNCHANGED fprint
      /\ UNCHANGED <<checker, rids, ridFlits, matcher, hitsIn, ridsIn, given>>

-----------------------------------------------------------------------------
(***************************************************************************)
(* The rule ids of the packets, from sm2nfKernel: a flit has some, or ends *)
(* the packet.                                                             *)
(***************************************************************************)
Add(history, ids, last) ==
  LET n == Len(history)
      h == [history EXCEPT ![n] = @ (+) SetToBag(ids)]
  IN  IF last THEN Append(h, EmptyBag) ELSE h

RidsArrive(ids, last) ==
  /\ ids # {} \/ last
  /\ ridFlits < MaxFlits /\ Len(ridsIn) <= Packets /\ Len(rids) < MetaDepth
  /\ ridFlits' = ridFlits + 1
  /\ rids' = Append(rids, [ids |-> ids, eop |-> last])
  /\ ridsIn' = Add(ridsIn, ids, last)
  /\ UNCHANGED <<checker, lane, accum, fprint, matcher, hitsIn, given>>

-----------------------------------------------------------------------------
(***************************************************************************)
(* fpMatchStage: one iteration.  A fingerprint is kept for all the rule id *)
(* flits of its packet.                                                    *)
(***************************************************************************)
\* The packet's last flit of rule ids uses its fingerprint up.
FpUsedUp(last) == last

\* A flit waits only for its fingerprint.
RidWaits(ridOk, fpOk) == ridOk /\ ~fpOk

\* nfpmMatchFP
Matches(id, print) == RuleFp[id] \subseteq print

Match ==
  LET gotFp  == getNextFp /\ fprint # << >>
      gotRid == ~ridValid /\ rids # << >>
      print  == IF gotFp THEN Head(fprint) ELSE fpFlit
      flit   == IF gotRid THEN Head(rids) ELSE ridFlit
      fpOk   == IF getNextFp THEN gotFp ELSE fpValid
      ridOk  == ridValid \/ gotRid
      kept   == {id \in flit.ids : Matches(id, print)}
  IN  /\ fprint' = IF gotFp THEN Tail(fprint) ELSE fprint
      /\ rids' = IF gotRid THEN Tail(rids) ELSE rids
      /\ fpFlit' = print /\ fpValid' = fpOk
      /\ ridFlit' = flit /\ ridValid' = RidWaits(ridOk, fpOk)
      /\ getNextFp' = IF fpOk /\ ridOk /\ FpUsedUp(flit.eop) THEN TRUE
                      ELSE getNextFp /\ ~gotFp
      /\ given' = IF fpOk /\ ridOk /\ (kept # {} \/ flit.eop)
                  THEN Add(given, kept, flit.eop) ELSE given
      /\ UNCHANGED <<checker, lane, accum, ridFlits, hitsIn, ridsIn>>

-----------------------------------------------------------------------------
Check == (\E found \in SUBSET Lanes, last \in BOOLEAN : CheckRead(found, last))
         \/ \E l \in Lanes : CheckWrite(l)

Next == Check \/ Accumulate \/ Match
        \/ \E ids \in SUBSET Rids, last \in BOOLEAN : RidsArrive(ids, last)

\* The kernels run freely (ap_ctrl_none) and the next stage keeps reading; the
\* packets may stop.
Fairness == /\ WF_vars(\E l \in Lanes : CheckWrite(l))
            /\ WF_vars(Accumulate) /\ WF_vars(Match)

Spec == Init /\ [][Next]_vars /\ Fairness

-----------------------------------------------------------------------------
(***************************************************************************)
(* Properties.                                                             *)
(***************************************************************************)
\* The rule ids of packet n that its own payload supports.
Supported(n) ==
  [id \in {i \in DOMAIN ridsIn[n] : RuleFp[i] \subseteq hitsIn[n]} |-> ridsIn[n][id]]

\* Each packet's ids are measured against the fingerprint of that packet and
\* of no other, though the two come on streams that are tied by order alone:
\* nothing unsupported is given, and nothing supported is missing at the end.
OwnFingerprint ==
  \A n \in 1 .. Len(given) :
    /\ given[n] \sqsubseteq Supported(n)
    /\ n < Len(given) => given[n] = Supported(n)

\* A packet whose payload and rule ids have arrived to the end is answered:
\* neither the lanes that wait at the barrier nor the two streams that wait for
\* each other stop for good.
EveryPacketAnswered ==
  []<>(\A n \in 1 .. Packets : n < Len(hitsIn) /\ n < Len(ridsIn) => n < Len(given))
=============================================================================
