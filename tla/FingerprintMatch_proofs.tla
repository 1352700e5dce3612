------------------------ MODULE FingerprintMatch_proofs ------------------------
(***************************************************************************)
(* Proofs about FingerprintMatch, for every number of lanes, any rules and *)
(* fingerprints, and every depth of the pipes: a packet's rule ids are     *)
(* measured against the fingerprint of that packet.                        *)
(*                                                                         *)
(* The streams carry no packet numbers.  A lane is a path from what has    *)
(* been gathered of its hits to what the checker has found, and the stream *)
(* of rule ids a path from what has been matched to what has arrived; an   *)
(* end of packet on a path is that of one packet, since the path can only  *)
(* go on to the next packet with all that this one has.                    *)
(***************************************************************************)
EXTENDS FingerprintMatch, Integers, SequenceTheorems, FiniteSetTheorems, TLAPS

-----------------------------------------------------------------------------
(***************************************************************************)
(* Streams as paths.  Each flit of a stream leads from what has been told  *)
(* by the flits before it to what has been told with it: a link <<p, f,    *)
(* q>>.  What a proof needs of a stream is where it starts and ends.       *)
(***************************************************************************)
\* The flits of s lead from p to q, each by a link of L.
Path(s, p, q, L) ==
  \E t : /\ t[1] = p /\ t[Len(s) + 1] = q
         /\ \A i \in 1 .. Len(s) : <<t[i], s[i], t[i + 1]>> \in L

\* A stream of no flits.
LEMMA PathEmpty ==
  ASSUME NEW p, NEW q, NEW L
  PROVE  Path(<< >>, p, q, L) <=> p = q
<1>1. Len(<< >>) = 0 /\ 1 .. 0 = {}
  OBVIOUS
<1>2. ASSUME p = q
      PROVE  Path(<< >>, p, q, L)
  <2> DEFINE t == [i \in {1} |-> p]
  <2>1. t[1] = p /\ t[Len(<< >>) + 1] = q
    BY <1>1, <1>2
  <2>. QED
    BY <1>1, <2>1 DEF Path
<1>. QED
  BY <1>1, <1>2 DEF Path

\* A write.
LEMMA PathAppend ==
  ASSUME NEW T, NEW s \in Seq(T), NEW f \in T, NEW p, NEW q, NEW r, NEW L,
         Path(s, p, q, L), <<q, f, r>> \in L
  PROVE  Path(Append(s, f), p, r, L)
<1>1. PICK t : /\ t[1] = p /\ t[Len(s) + 1] = q
               /\ \A i \in 1 .. Len(s) : <<t[i], s[i], t[i + 1]>> \in L
  BY DEF Path
<1> DEFINE n == Len(s) + 1
           u == [i \in 1 .. n + 1 |-> IF i <= n THEN t[i] ELSE r]
           a == Append(s, f)
<1>2. /\ n \in Nat \ {0} /\ Len(a) = n /\ a[n] = f
      /\ \A i \in 1 .. Len(s) : a[i] = s[i]
  OBVIOUS
<1>3. /\ \A i \in 1 .. n : u[i] = t[i]
      /\ u[n + 1] = r /\ u[1] = t[1]
  BY <1>2
<1>. HIDE DEF u
<1>4. ASSUME NEW i \in 1 .. n
      PROVE  <<u[i], a[i], u[i + 1]>> \in L
  <2>1. CASE i \in 1 .. Len(s)
    <3>1. i \in 1 .. n /\ i + 1 \in 1 .. n
      BY <2>1
    <3>2. u[i] = t[i] /\ u[i + 1] = t[i + 1] /\ a[i] = s[i]
      BY <1>2, <1>3, <2>1, <3>1
    <3>. QED
      BY <1>1, <2>1, <3>2
  <2>2. CASE i = n
    <3>1. n \in 1 .. n
      BY <1>2
    <3>2. u[n] = q /\ u[n + 1] = r /\ a[n] = f
      BY <1>1, <1>2, <1>3, <3>1
    <3>. QED
      BY <2>2, <3>2
  <2>. QED
    BY <2>1, <2>2
<1>5. u[1] = p /\ u[Len(a) + 1] = r
  BY <1>1, <1>2, <1>3
<1>6. \A i \in 1 .. Len(a) : <<u[i], a[i], u[i + 1]>> \in L
  BY <1>2, <1>4
<1>. QED
  BY <1>5, <1>6 DEF Path

\* A read.
LEMMA PathTail ==
  ASSUME NEW T, NEW s \in Seq(T), s # << >>, NEW p, NEW q, NEW L, Path(s, p, q, L)
  PROVE  \E r : <<p, Head(s), r>> \in L /\ Path(Tail(s), r, q, L)
<1>1. PICK t : /\ t[1] = p /\ t[Len(s) + 1] = q
               /\ \A i \in 1 .. Len(s) : <<t[i], s[i], t[i + 1]>> \in L
  BY DEF Path
<1> DEFINE n == Len(s)
           v == Tail(s)
           u == [i \in 1 .. n |-> t[i + 1]]
<1>2. /\ n \in Nat \ {0} /\ Len(v) = n - 1 /\ Head(s) = s[1]
      /\ \A i \in 1 .. n - 1 : v[i] = s[i + 1]
  OBVIOUS
<1>3. \A i \in 1 .. n : u[i] = t[i + 1]
  OBVIOUS
<1>. HIDE DEF u, v
<1>4. 1 \in 1 .. n /\ n \in 1 .. n
  BY <1>2
<1>5. <<p, Head(s), t[2]>> \in L
  BY <1>1, <1>2, <1>4
<1>6. u[1] = t[2] /\ u[n] = q
  BY <1>1, <1>3, <1>4
<1>7. ASSUME NEW i \in 1 .. n - 1
      PROVE  <<u[i], v[i], u[i + 1]>> \in L
  <2>1. i \in 1 .. n /\ i + 1 \in 1 .. n
    BY <1>2
  <2>2. u[i] = t[i + 1] /\ u[i + 1] = t[(i + 1) + 1] /\ v[i] = s[i + 1]
    BY <1>2, <1>3, <2>1
  <2>. QED
    BY <1>1, <2>1, <2>2
<1>8. Path(v, t[2], q, L)
  <2>1. u[1] = t[2] /\ u[Len(v) + 1] = q
    BY <1>2, <1>6
  <2>2. \A i \in 1 .. Len(v) : <<u[i], v[i], u[i + 1]>> \in L
    BY <1>2, <1>7
  <2>. QED
    BY <2>1, <2>2 DEF Path
<1>. QED
  BY <1>5, <1>8 DEF v

\* More links.
LEMMA PathMore ==
  ASSUME NEW s, NEW p, NEW q, NEW L, NEW M, L \subseteq M, Path(s, p, q, L)
  PROVE  Path(s, p, q, M)
BY DEF Path

\* A stream starts where its first link does, or where it ends.
LEMMA PathStart ==
  ASSUME NEW T, NEW s \in Seq(T), NEW p, NEW q, NEW L, Path(s, p, q, L)
  PROVE  p = q \/ \E f, r : <<p, f, r>> \in L
<1>1. CASE s = << >>
  BY <1>1, PathEmpty
<1>2. CASE s # << >>
  BY <1>2, PathTail
<1>. QED
  BY <1>1, <1>2

-----------------------------------------------------------------------------
LaneFlit == [hit : BOOLEAN, eop : BOOLEAN]
RidFlit  == [ids : SUBSET Rids, eop : BOOLEAN]
RidBag   == UNION {[ids -> Nat \ {0}] : ids \in SUBSET Rids}

\* The types.
Shape ==
  /\ hits \subseteq Lanes /\ eop \in BOOLEAN /\ todo \subseteq Lanes
  /\ flits \in 0 .. MaxFlits /\ ridFlits \in 0 .. MaxFlits
  /\ lane \in [Lanes -> Seq(LaneFlit)] /\ \A l \in Lanes : Len(lane[l]) <= LaneDepth
  /\ fp \subseteq Lanes /\ barrierWait \in [Lanes -> BOOLEAN]
  /\ fprint \in Seq(SUBSET Lanes) /\ Len(fprint) <= MetaDepth
  /\ rids \in Seq(RidFlit) /\ Len(rids) <= MetaDepth
  /\ fpFlit \subseteq Lanes /\ fpValid \in BOOLEAN /\ getNextFp \in BOOLEAN
  /\ ridFlit \in RidFlit /\ ridValid \in BOOLEAN
  /\ hitsIn \in Seq(SUBSET Lanes) /\ Len(hitsIn) \in 1 .. Packets + 1
  /\ ridsIn \in Seq(RidBag) /\ Len(ridsIn) \in 1 .. Packets + 1
  /\ given \in Seq(RidBag) /\ given # << >>

\* The packets of the first fingerprint on the pipe, and of the one that is
\* being gathered.
FirstPrint == Len(given) + (IF getNextFp THEN 0 ELSE 1)
Gathered   == FirstPrint + Len(fprint)

\* Every fingerprint that has been gathered is that of its packet.
Prints ==
  /\ Gathered <= Len(hitsIn)
  /\ ~getNextFp => fpValid /\ fpFlit = hitsIn[Len(given)]
  /\ \A i \in 1 .. Len(fprint) : fprint[i] = hitsIn[FirstPrint + i - 1]

\* How a flit on lane l goes on from the hits there are of a packet: its end is
\* that of a packet that has ended, and has come after all of its hits.
HitLinks(l) ==
  {x \in ((Nat \ {0}) \X SUBSET Lanes) \X LaneFlit \X ((Nat \ {0}) \X SUBSET Lanes) :
     LET n     == x[1][1]
         found == x[1][2] \cup (IF x[2].hit THEN {l} ELSE {})
     IN  IF x[2].eop THEN n < Len(hitsIn) /\ hitsIn[n] \cap {l} = found /\ x[3] = <<n + 1, {}>>
                     ELSE x[3] = <<n, found>>}

LaneStart(l) == IF barrierWait[l] THEN <<Gathered + 1, {}>> ELSE <<Gathered, fp \cap {l}>>
LaneEnd(l)   == <<Len(hitsIn), hitsIn[Len(hitsIn)] \cap {l}>>
LaneWrite(l) == [hit |-> l \in hits, eop |-> eop]

\* The flits of a lane, and the one that is still to be written to it, tell
\* what has been found and not yet been gathered.
LaneRight(l) ==
  /\ barrierWait[l] => Gathered < Len(hitsIn) /\ hitsIn[Gathered] \cap {l} = fp \cap {l}
  /\ \E q : /\ Path(lane[l], LaneStart(l), q, HitLinks(l))
            /\ IF l \in todo THEN <<q, LaneWrite(l), LaneEnd(l)>> \in HitLinks(l)
                             ELSE q = LaneEnd(l)

LanesRight == \A l \in Lanes : LaneRight(l)

\* How a flit of rule ids goes on from the ids there are of a packet.
RidLinks ==
  {x \in ((Nat \ {0}) \X RidBag) \X RidFlit \X ((Nat \ {0}) \X RidBag) :
     LET n   == x[1][1]
         all == x[1][2] (+) SetToBag(x[2].ids)
     IN  /\ n <= Len(ridsIn) /\ x[1][2] \sqsubseteq ridsIn[n]
         /\ IF x[2].eop THEN n < Len(ridsIn) /\ ridsIn[n] = all /\ x[3] = <<n + 1, EmptyBag>>
                        ELSE x[3] = <<n, all>>}

\* The ids of a bag that a fingerprint supports.
Only(b, print) == [id \in {i \in DOMAIN b : Matches(i, print)} |-> b[id]]

\* Of the packet at hand the rule ids b have been matched, all of them against
\* the fingerprint held; the rest is held or on the stream.
Matched(b) ==
  /\ b \in RidBag
  /\ \E p : /\ Path(rids, p, <<Len(ridsIn), ridsIn[Len(ridsIn)]>>, RidLinks)
            /\ IF ridValid THEN <<<<Len(given), b>>, ridFlit, p>> \in RidLinks
                           ELSE p = <<Len(given), b>>
  /\ IF getNextFp THEN b = EmptyBag /\ given[Len(given)] = EmptyBag
                  ELSE given[Len(given)] = Only(b, fpFlit)

Answered ==
  /\ Len(given) <= Len(ridsIn)
  /\ \E b : Matched(b)
  /\ \A n \in 1 .. Len(given) - 1 : given[n] = Only(ridsIn[n], hitsIn[n])

IInv == Shape /\ Prints /\ LanesRight /\ Answered

-----------------------------------------------------------------------------
(***************************************************************************)
(* Bags of rule ids.                                                       *)
(***************************************************************************)
LEMMA RidBags ==
  ASSUME NEW b
  PROVE  b \in RidBag <=> /\ DOMAIN b \subseteq Rids /\ b \in [DOMAIN b -> Nat \ {0}]
<1>1. ASSUME b \in RidBag
      PROVE  DOMAIN b \subseteq Rids /\ b \in [DOMAIN b -> Nat \ {0}]
  <2>1. PICK ids \in SUBSET Rids : b \in [ids -> Nat \ {0}]
    BY <1>1 DEF RidBag
  <2>2. DOMAIN b = ids
    BY <2>1
  <2>. QED
    BY <2>1, <2>2
<1>2. ASSUME DOMAIN b \subseteq Rids, b \in [DOMAIN b -> Nat \ {0}]
      PROVE  b \in RidBag
  BY <1>2 DEF RidBag
<1>. QED
  BY <1>1, <1>2

LEMMA EmptyRidBag ==
  /\ EmptyBag \in RidBag
  /\ \A b \in RidBag : EmptyBag \sqsubseteq b /\ b (+) EmptyBag = b
<1>1. DOMAIN EmptyBag = {} /\ EmptyBag \in [DOMAIN EmptyBag -> Nat \ {0}]
  BY DEF EmptyBag, SetToBag
<1>2. EmptyBag \in RidBag
  BY <1>1, RidBags
<1>3. ASSUME NEW b \in RidBag
      PROVE  EmptyBag \sqsubseteq b /\ b (+) EmptyBag = b
  <2>1. b \in [DOMAIN b -> Nat \ {0}]
    BY RidBags
  <2>2. EmptyBag \sqsubseteq b
    BY <1>1 DEF \sqsubseteq
  <2>3. DOMAIN b \cup DOMAIN EmptyBag = DOMAIN b
    BY <1>1
  <2>4. b (+) EmptyBag = [e \in DOMAIN b |-> b[e]]
    BY <1>1, <2>1, <2>3 DEF (+)
  <2>. QED
    BY <2>1, <2>2, <2>4
<1>. QED
  BY <1>2, <1>3

LEMMA RidBagAdd ==
  ASSUME NEW b \in RidBag, NEW ids \in SUBSET Rids
  PROVE  /\ b (+) SetToBag(ids) \in RidBag
         /\ b \sqsubseteq b (+) SetToBag(ids)
<1> DEFINE c == SetToBag(ids)
<1>1. DOMAIN b \subseteq Rids /\ b \in [DOMAIN b -> Nat \ {0}]
  BY RidBags
<1>2. DOMAIN c = ids /\ \A i \in ids : c[i] = 1
  BY DEF SetToBag
<1>. HIDE DEF c
<1>3. DOMAIN (b (+) c) = DOMAIN b \cup ids
  BY <1>2 DEF (+)
<1>4. ASSUME NEW i \in DOMAIN b \cup ids
      PROVE  (b (+) c)[i] \in Nat \ {0} /\ (i \in DOMAIN b => b[i] <= (b (+) c)[i])
  <2>1. (b (+) c)[i] = (IF i \in DOMAIN b THEN b[i] ELSE 0) + (IF i \in ids THEN c[i] ELSE 0)
    BY <1>2 DEF (+)
  <2>. QED
    BY <1>1, <1>2, <2>1
<1>5. b (+) c = [i \in DOMAIN b \cup ids |-> (b (+) c)[i]]
  BY <1>2 DEF (+)
<1>6. b (+) c \in RidBag
  BY <1>1, <1>3, <1>4, <1>5, RidBags
<1>7. b \sqsubseteq b (+) c
  BY <1>3, <1>4 DEF \sqsubseteq
<1>. QED
  BY <1>6, <1>7 DEF c

LEMMA BelowTransitive ==
  ASSUME NEW a \in RidBag, NEW b \in RidBag, NEW c \in RidBag, a \sqsubseteq b, b \sqsubseteq c
  PROVE  a \sqsubseteq c
<1>1. /\ \A i \in DOMAIN a : i \in DOMAIN b /\ a[i] <= b[i]
      /\ \A i \in DOMAIN b : i \in DOMAIN c /\ b[i] <= c[i]
  BY DEF \sqsubseteq
<1>2. /\ \A i \in DOMAIN a : a[i] \in Nat
      /\ \A i \in DOMAIN b : b[i] \in Nat
      /\ \A i \in DOMAIN c : c[i] \in Nat
  BY RidBags
<1>3. \A i \in DOMAIN a : i \in DOMAIN c /\ a[i] <= c[i]
  BY <1>1, <1>2
<1>. QED
  BY <1>3 DEF \sqsubseteq

LEMMA BelowItself == \A b \in RidBag : b \sqsubseteq b
<1>1. ASSUME NEW b \in RidBag
      PROVE  b \sqsubseteq b
  <2>1. \A i \in DOMAIN b : b[i] \in Nat
    BY RidBags
  <2>. QED
    BY <2>1 DEF \sqsubseteq
<1>. QED
  BY <1>1

LEMMA OnlyType ==
  ASSUME NEW b \in RidBag, NEW print
  PROVE  Only(b, print) \in RidBag
<1>1. DOMAIN b \subseteq Rids /\ b \in [DOMAIN b -> Nat \ {0}]
  BY RidBags
<1>2. DOMAIN Only(b, print) = {i \in DOMAIN b : Matches(i, print)}
  BY DEF Only
<1>3. Only(b, print) \in [DOMAIN Only(b, print) -> Nat \ {0}]
  BY <1>1, <1>2 DEF Only
<1>. QED
  BY <1>1, <1>2, <1>3, RidBags

LEMMA OnlyEmpty == \A print : Only(EmptyBag, print) = EmptyBag
<1>1. ASSUME NEW print
      PROVE  Only(EmptyBag, print) = EmptyBag
  <2>1. DOMAIN EmptyBag = {}
    BY DEF EmptyBag, SetToBag
  <2>2. {i \in DOMAIN EmptyBag : Matches(i, print)} = {}
    BY <2>1
  <2>3. Only(EmptyBag, print) = [id \in {} |-> EmptyBag[id]]
    BY <2>2 DEF Only
  <2>. QED
    BY <2>3 DEF EmptyBag, SetToBag
<1>. QED
  BY <1>1

LEMMA OnlyBelow ==
  ASSUME NEW b \in RidBag, NEW c \in RidBag, b \sqsubseteq c, NEW print
  PROVE  Only(b, print) \sqsubseteq Only(c, print)
BY DEF Only, \sqsubseteq

LEMMA OnlyAdd ==
  ASSUME NEW b \in RidBag, NEW ids \in SUBSET Rids, NEW print
  PROVE  Only(b (+) SetToBag(ids), print)
           = Only(b, print) (+) SetToBag({id \in ids : Matches(id, print)})
<1> DEFINE kept == {id \in ids : Matches(id, print)}
           c == SetToBag(ids)
           k == SetToBag(kept)
           o == Only(b, print)
           D == {i \in DOMAIN b \cup ids : Matches(i, print)}
<1>1. /\ DOMAIN c = ids /\ \A i \in ids : c[i] = 1
      /\ DOMAIN k = kept /\ \A i \in kept : k[i] = 1
  BY DEF SetToBag
<1>2. /\ DOMAIN o = {i \in DOMAIN b : Matches(i, print)}
      /\ \A i \in DOMAIN o : o[i] = b[i]
  BY DEF Only
<1>. HIDE DEF c, k, o
<1>3. /\ DOMAIN (b (+) c) = DOMAIN b \cup ids
      /\ \A i \in DOMAIN b \cup ids :
           (b (+) c)[i] = (IF i \in DOMAIN b THEN b[i] ELSE 0) + (IF i \in ids THEN c[i] ELSE 0)
  BY <1>1 DEF (+)
<1>4. /\ DOMAIN o \cup DOMAIN k = D
      /\ o (+) k = [i \in D |-> (IF i \in DOMAIN o THEN o[i] ELSE 0)
                                   + (IF i \in DOMAIN k THEN k[i] ELSE 0)]
  <2>1. DOMAIN o \cup DOMAIN k = D
    BY <1>1, <1>2
  <2>. QED
    BY <2>1 DEF (+)
<1>5. Only(b (+) c, print) = [i \in D |-> (b (+) c)[i]]
  BY <1>3 DEF Only
<1>6. ASSUME NEW i \in D
      PROVE  (b (+) c)[i] = (IF i \in DOMAIN o THEN o[i] ELSE 0)
                               + (IF i \in DOMAIN k THEN k[i] ELSE 0)
  BY <1>1, <1>2, <1>3
<1>7. Only(b (+) c, print) = o (+) k
  BY <1>4, <1>5, <1>6
<1>. QED
  BY <1>7 DEF c, k, o

-----------------------------------------------------------------------------
(***************************************************************************)
(* How the histories grow.                                                 *)
(***************************************************************************)
LEMMA AddGrows ==
  ASSUME NEW h \in Seq(RidBag), h # << >>, NEW ids \in SUBSET Rids, NEW last \in BOOLEAN
  PROVE  LET n == Len(h)
             a == Add(h, ids, last)
         IN  /\ n \in Nat \ {0} /\ a \in Seq(RidBag)
             /\ Len(a) = IF last THEN n + 1 ELSE n
             /\ \A i \in 1 .. n - 1 : a[i] = h[i]
             /\ a[n] = h[n] (+) SetToBag(ids)
             /\ last => a[n + 1] = EmptyBag
<1> DEFINE n == Len(h)
           b == h[n] (+) SetToBag(ids)
           g == [h EXCEPT ![n] = b]
<1>1. n \in Nat \ {0} /\ n \in 1 .. n /\ h[n] \in RidBag
  OBVIOUS
<1>2. b \in RidBag
  BY <1>1, RidBagAdd
<1>. HIDE DEF b
<1>3. /\ g \in Seq(RidBag) /\ Len(g) = n /\ g[n] = b
      /\ \A i \in 1 .. n - 1 : g[i] = h[i]
  BY <1>1, <1>2
<1>4. Add(h, ids, last) = IF last THEN Append(g, EmptyBag) ELSE g
  BY DEF Add, b
<1>. HIDE DEF g
<1>5. EmptyBag \in RidBag
  BY EmptyRidBag
<1>6. /\ Append(g, EmptyBag) \in Seq(RidBag) /\ Len(Append(g, EmptyBag)) = n + 1
      /\ Append(g, EmptyBag)[n + 1] = EmptyBag
      /\ \A i \in 1 .. n : Append(g, EmptyBag)[i] = g[i]
  BY <1>1, <1>3, <1>5
<1>7. Add(h, ids, last)[n] = b
  BY <1>1, <1>3, <1>4, <1>6
<1>8. \A i \in 1 .. n - 1 : Add(h, ids, last)[i] = h[i]
  BY <1>1, <1>3, <1>4, <1>6
<1>. QED
  BY <1>1, <1>3, <1>4, <1>6, <1>7, <1>8 DEF b

LEMMA HitsGrow ==
  ASSUME Shape, NEW found \in SUBSET Lanes, NEW last \in BOOLEAN, CheckRead(found, last)
  PROVE  LET n == Len(hitsIn)
         IN  /\ n \in Nat \ {0} /\ hitsIn' \in Seq(SUBSET Lanes)
             /\ Len(hitsIn') = IF last THEN n + 1 ELSE n
             /\ \A i \in 1 .. n - 1 : hitsIn'[i] = hitsIn[i]
             /\ hitsIn'[n] = hitsIn[n] \cup found
             /\ last => hitsIn'[n + 1] = {}
<1> DEFINE n == Len(hitsIn)
           b == hitsIn[n] \cup found
           g == [hitsIn EXCEPT ![n] = b]
<1>1. /\ n \in Nat \ {0} /\ n \in 1 .. n /\ hitsIn \in Seq(SUBSET Lanes)
      /\ hitsIn[n] \in SUBSET Lanes
  BY DEF Shape
<1>2. b \in SUBSET Lanes
  BY <1>1
<1>3. hitsIn' = IF last THEN Append(g, {}) ELSE g
  BY DEF CheckRead
<1>. HIDE DEF b
<1>4. /\ g \in Seq(SUBSET Lanes) /\ Len(g) = n /\ g[n] = b
      /\ \A i \in 1 .. n - 1 : g[i] = hitsIn[i]
  BY <1>1, <1>2
<1>. HIDE DEF g
<1>5. /\ Append(g, {}) \in Seq(SUBSET Lanes) /\ Len(Append(g, {})) = n + 1
      /\ Append(g, {})[n + 1] = {}
      /\ \A i \in 1 .. n : Append(g, {})[i] = g[i]
  BY <1>1, <1>4
<1>6. hitsIn'[n] = b
  BY <1>1, <1>3, <1>4, <1>5
<1>7. \A i \in 1 .. n - 1 : hitsIn'[i] = hitsIn[i]
  BY <1>1, <1>3, <1>4, <1>5
<1>. QED
  BY <1>1, <1>3, <1>4, <1>5, <1>6, <1>7 DEF b

-----------------------------------------------------------------------------
(***************************************************************************)
(* The initial states, and the types.                                      *)
(***************************************************************************)
LEMMA InitIInv == Init => IInv
<1>. SUFFICES ASSUME Init PROVE IInv
  OBVIOUS
<1>1. Shape
  <2>1. /\ LaneDepth \in Nat \ {0} /\ MetaDepth \in Nat \ {0}
        /\ Packets \in Nat /\ MaxFlits \in Nat
    BY FingerprintAssumption
  <2>2. EmptyBag \in RidBag
    BY EmptyRidBag
  <2>3. /\ hits \subseteq Lanes /\ eop \in BOOLEAN /\ todo \subseteq Lanes
        /\ fp \subseteq Lanes /\ fpFlit \subseteq Lanes /\ fpValid \in BOOLEAN
        /\ getNextFp \in BOOLEAN /\ ridValid \in BOOLEAN
    BY DEF Init
  <2>10. flits \in 0 .. MaxFlits /\ ridFlits \in 0 .. MaxFlits
    BY <2>1 DEF Init
  <2>9. lane \in [Lanes -> Seq(LaneFlit)] /\ barrierWait \in [Lanes -> BOOLEAN]
    <3>1. << >> \in Seq(LaneFlit)
      OBVIOUS
    <3>. QED
      BY <3>1 DEF Init
  <2>8. ASSUME NEW l \in Lanes
        PROVE  Len(lane[l]) <= LaneDepth
    <3>1. lane[l] = << >>
      BY DEF Init
    <3>. QED
      BY <2>1, <3>1
  <2>4. /\ fprint \in Seq(SUBSET Lanes) /\ Len(fprint) <= MetaDepth
        /\ rids \in Seq(RidFlit) /\ Len(rids) <= MetaDepth
    BY <2>1 DEF Init
  <2>5. ridFlit \in RidFlit
    BY DEF Init, NoRids, RidFlit
  <2>6. hitsIn \in Seq(SUBSET Lanes) /\ Len(hitsIn) \in 1 .. Packets + 1
    BY <2>1 DEF Init
  <2>7. /\ ridsIn \in Seq(RidBag) /\ Len(ridsIn) \in 1 .. Packets + 1
        /\ given \in Seq(RidBag) /\ given # << >>
    BY <2>1, <2>2 DEF Init
  <2>. QED
    BY <2>3, <2>4, <2>5, <2>6, <2>7, <2>8, <2>9, <2>10 DEF Shape
<1>2. /\ Len(given) = 1 /\ Len(hitsIn) = 1 /\ Len(ridsIn) = 1 /\ Len(fprint) = 0
      /\ hitsIn[1] = {} /\ ridsIn[1] = EmptyBag /\ given[1] = EmptyBag /\ getNextFp
  BY DEF Init
<1>3. FirstPrint = 1 /\ Gathered = 1
  BY <1>2 DEF FirstPrint, Gathered
<1>4. Prints
  BY <1>2, <1>3 DEF Prints
<1>5. LanesRight
  <2>1. ASSUME NEW l \in Lanes
        PROVE  LaneRight(l)
    <3>1. lane[l] = << >> /\ ~barrierWait[l] /\ fp = {} /\ todo = {}
      BY DEF Init
    <3>2. LaneStart(l) = <<1, {}>> /\ LaneEnd(l) = <<1, {}>>
      BY <1>2, <1>3, <3>1 DEF LaneStart, LaneEnd
    <3>3. Path(lane[l], LaneStart(l), LaneEnd(l), HitLinks(l))
      BY <3>1, <3>2, PathEmpty
    <3>. QED
      BY <3>1, <3>3 DEF LaneRight
  <2>. QED
    BY <2>1 DEF LanesRight
<1>6. Answered
  <2>1. rids = << >> /\ ~ridValid
    BY DEF Init
  <2>2. Path(rids, <<1, EmptyBag>>, <<1, EmptyBag>>, RidLinks)
    BY <2>1, PathEmpty
  <2>3. Matched(EmptyBag)
    BY <1>2, <2>1, <2>2, EmptyRidBag DEF Matched
  <2>. QED
    BY <1>2, <2>3 DEF Answered
<1>. QED
  BY <1>1, <1>4, <1>5, <1>6 DEF IInv

LEMMA CheckReadShape ==
  ASSUME Shape, NEW found \in SUBSET Lanes, NEW last \in BOOLEAN, CheckRead(found, last)
  PROVE  Shape'
<1>1. /\ hitsIn' \in Seq(SUBSET Lanes) /\ Len(hitsIn') \in 1 .. Packets + 1
  <2>1. Len(hitsIn) <= Packets /\ Packets \in Nat
    BY FingerprintAssumption DEF CheckRead
  <2>2. /\ Len(hitsIn) \in Nat \ {0} /\ hitsIn' \in Seq(SUBSET Lanes)
        /\ Len(hitsIn') = IF last THEN Len(hitsIn) + 1 ELSE Len(hitsIn)
    BY HitsGrow
  <2>. QED
    BY <2>1, <2>2
<1>2. flits' \in 0 .. MaxFlits
  BY FingerprintAssumption DEF CheckRead, Shape
<1>3. /\ hits' \subseteq Lanes /\ eop' \in BOOLEAN /\ todo' \subseteq Lanes
      /\ UNCHANGED <<lane, accum, fprint, rids, ridFlits, matcher, ridsIn, given>>
  BY DEF CheckRead
<1>. QED
  BY <1>1, <1>2, <1>3 DEF Shape, accum, matcher

LEMMA CheckWriteShape ==
  ASSUME Shape, NEW l \in Lanes, CheckWrite(l)
  PROVE  /\ Shape' /\ lane' \in [Lanes -> Seq(LaneFlit)]
         /\ lane'[l] = Append(lane[l], LaneWrite(l))
         /\ \A k \in Lanes \ {l} : lane'[k] = lane[k]
<1>1. LaneWrite(l) \in LaneFlit
  BY DEF LaneWrite, LaneFlit, Shape
<1>2. /\ lane' = [lane EXCEPT ![l] = Append(lane[l], LaneWrite(l))]
      /\ Len(lane[l]) < LaneDepth /\ todo' = todo \ {l}
      /\ UNCHANGED <<hits, eop, flits, accum, fprint, rids, ridFlits, matcher, hitsIn, ridsIn, given>>
  BY DEF CheckWrite, LaneWrite
<1>3. lane \in [Lanes -> Seq(LaneFlit)] /\ lane[l] \in Seq(LaneFlit)
      /\ \A k \in Lanes : Len(lane[k]) <= LaneDepth
  BY DEF Shape
<1>4. /\ Append(lane[l], LaneWrite(l)) \in Seq(LaneFlit)
      /\ Len(Append(lane[l], LaneWrite(l))) = Len(lane[l]) + 1 /\ Len(lane[l]) \in Nat
  BY <1>1, <1>3
<1>5. Len(lane[l]) + 1 <= LaneDepth
  BY <1>2, <1>4, FingerprintAssumption
<1>6. /\ lane' \in [Lanes -> Seq(LaneFlit)]
      /\ lane'[l] = Append(lane[l], LaneWrite(l))
      /\ \A k \in Lanes \ {l} : lane'[k] = lane[k]
  BY <1>2, <1>3, <1>4
<1>7. \A k \in Lanes : Len(lane'[k]) <= LaneDepth
  BY <1>3, <1>4, <1>5, <1>6
<1>8. todo' \subseteq Lanes
  BY <1>2 DEF Shape
<1>. QED
  BY <1>2, <1>6, <1>7, <1>8 DEF Shape, accum, matcher

\* The lanes that are read, and the ones that are not.
LEMMA LanesRead ==
  ASSUME Shape, Accumulate, NEW l \in Lanes
  PROVE  /\ lane' \in [Lanes -> Seq(LaneFlit)]
         /\ l \in ReadyLanes =>
              /\ lane[l] \in Seq(LaneFlit) /\ lane[l] # << >> /\ ~barrierWait[l]
              /\ Head(lane[l]) \in LaneFlit
              /\ lane'[l] = Tail(lane[l]) /\ Len(lane'[l]) <= Len(lane[l])
         /\ l \notin ReadyLanes => lane'[l] = lane[l]
<1>1. lane \in [Lanes -> Seq(LaneFlit)]
  BY DEF Shape
<1>2. lane' = [k \in Lanes |-> IF k \in ReadyLanes THEN Tail(lane[k]) ELSE lane[k]]
  BY DEF Accumulate
<1>3. ASSUME NEW k \in Lanes, k \in ReadyLanes
      PROVE  /\ lane[k] \in Seq(LaneFlit) /\ lane[k] # << >> /\ ~barrierWait[k]
             /\ Head(lane[k]) \in LaneFlit
             /\ Tail(lane[k]) \in Seq(LaneFlit) /\ Len(Tail(lane[k])) <= Len(lane[k])
  <2>1. lane[k] \in Seq(LaneFlit) /\ lane[k] # << >> /\ ~barrierWait[k]
    BY <1>1, <1>3 DEF ReadyLanes
  <2>. QED
    BY <2>1
<1>4. lane' \in [Lanes -> Seq(LaneFlit)]
  BY <1>1, <1>2, <1>3
<1>. QED
  BY <1>2, <1>3, <1>4

LEMMA AccumulateShape ==
  ASSUME Shape, Accumulate
  PROVE  Shape'
<1> DEFINE now  == fp \cup {l \in ReadyLanes : Head(lane[l]).hit}
           wait == [l \in Lanes |-> barrierWait[l] \/ (l \in ReadyLanes /\ Head(lane[l]).eop)]
<1>1. now \in SUBSET Lanes /\ wait \in [Lanes -> BOOLEAN]
  BY DEF Shape, ReadyLanes
<1>2. \/ /\ Len(fprint) < MetaDepth
         /\ fprint' = Append(fprint, now)
         /\ fp' = {} /\ barrierWait' = [l \in Lanes |-> FALSE]
      \/ /\ fp' = now /\ barrierWait' = wait
         /\ UNCHANGED fprint
  BY DEF Accumulate
<1>. HIDE DEF now, wait
<1>3. fp' \in SUBSET Lanes /\ barrierWait' \in [Lanes -> BOOLEAN]
  BY <1>1, <1>2
<1>4. fprint' \in Seq(SUBSET Lanes) /\ Len(fprint') <= MetaDepth
  <2>1. fprint \in Seq(SUBSET Lanes) /\ Len(fprint) <= MetaDepth /\ MetaDepth \in Nat
    BY FingerprintAssumption DEF Shape
  <2>2. CASE UNCHANGED fprint
    BY <2>1, <2>2
  <2>3. CASE Len(fprint) < MetaDepth /\ fprint' = Append(fprint, now)
    BY <1>1, <2>1, <2>3
  <2>. QED
    BY <1>2, <2>2, <2>3
<1>5. /\ lane' \in [Lanes -> Seq(LaneFlit)]
      /\ \A l \in Lanes : Len(lane'[l]) <= LaneDepth
  <2>1. ASSUME NEW l \in Lanes
        PROVE  lane' \in [Lanes -> Seq(LaneFlit)] /\ Len(lane'[l]) <= LaneDepth
    <3>1. Len(lane[l]) <= LaneDepth /\ lane[l] \in Seq(LaneFlit) /\ LaneDepth \in Nat
      BY FingerprintAssumption DEF Shape
    <3>2. lane' \in [Lanes -> Seq(LaneFlit)] /\ (lane'[l] = lane[l] \/ Len(lane'[l]) <= Len(lane[l]))
      BY LanesRead
    <3>3. lane'[l] \in Seq(LaneFlit)
      BY <3>2
    <3>4. Len(lane'[l]) \in Nat /\ Len(lane[l]) \in Nat
      BY <3>1, <3>3
    <3>. QED
      BY <3>1, <3>2, <3>4
  <2>2. CASE Lanes = {}
    <3>1. lane' = [k \in Lanes |-> IF k \in ReadyLanes THEN Tail(lane[k]) ELSE lane[k]]
      BY DEF Accumulate
    <3>. QED
      BY <2>2, <3>1
  <2>. QED
    BY <2>1, <2>2
<1>6. UNCHANGED <<checker, rids, ridFlits, matcher, hitsIn, ridsIn, given>>
  BY DEF Accumulate
<1>. QED
  BY <1>3, <1>4, <1>5, <1>6 DEF Shape, checker, matcher

LEMMA RidsArriveShape ==
  ASSUME Shape, NEW ids \in SUBSET Rids, NEW last \in BOOLEAN, RidsArrive(ids, last)
  PROVE  Shape'
<1>1. ridsIn' \in Seq(RidBag) /\ Len(ridsIn') \in 1 .. Packets + 1
  <2>1. /\ ridsIn \in Seq(RidBag) /\ ridsIn # << >>
        /\ Len(ridsIn) <= Packets /\ Packets \in Nat /\ ridsIn' = Add(ridsIn, ids, last)
    <3>1. ridsIn \in Seq(RidBag) /\ Len(ridsIn) \in 1 .. Packets + 1
      BY DEF Shape
    <3>. QED
      BY <3>1, FingerprintAssumption DEF RidsArrive
  <2>2. /\ Len(ridsIn) \in Nat \ {0} /\ ridsIn' \in Seq(RidBag)
        /\ Len(ridsIn') = IF last THEN Len(ridsIn) + 1 ELSE Len(ridsIn)
    BY <2>1, AddGrows
  <2>. QED
    BY <2>1, <2>2
<1>2. ridFlits' \in 0 .. MaxFlits
  BY FingerprintAssumption DEF RidsArrive, Shape
<1>3. rids' \in Seq(RidFlit) /\ Len(rids') <= MetaDepth
  <2>1. rids \in Seq(RidFlit) /\ Len(rids) < MetaDepth /\ MetaDepth \in Nat
    BY FingerprintAssumption DEF RidsArrive, Shape
  <2>2. [ids |-> ids, eop |-> last] \in RidFlit /\ rids' = Append(rids, [ids |-> ids, eop |-> last])
    BY DEF RidsArrive, RidFlit
  <2>. QED
    BY <2>1, <2>2
<1>4. UNCHANGED <<checker, lane, accum, fprint, matcher, hitsIn, given>>
  BY DEF RidsArrive
<1>. QED
  BY <1>1, <1>2, <1>3, <1>4 DEF Shape, checker, accum, matcher

-----------------------------------------------------------------------------
(***************************************************************************)
(* An iteration of fpMatchStage, by its parts: what it has read, and what  *)
(* it does with it.                                                        *)
(***************************************************************************)
GotFp  == getNextFp /\ fprint # << >>
GotRid == ~ridValid /\ rids # << >>
PrintAtHand == IF GotFp THEN Head(fprint) ELSE fpFlit
AtHand == IF GotRid THEN Head(rids) ELSE ridFlit
FpOk   == IF getNextFp THEN GotFp ELSE fpValid
RidOk  == ridValid \/ GotRid
Kept   == {id \in AtHand.ids : Matches(id, PrintAtHand)}

LEMMA MatchParts ==
  ASSUME Shape, Match
  PROVE  /\ PrintAtHand \in SUBSET Lanes /\ AtHand \in RidFlit /\ Kept \in SUBSET Rids
         /\ fprint' = (IF GotFp THEN Tail(fprint) ELSE fprint)
         /\ rids' = (IF GotRid THEN Tail(rids) ELSE rids)
         /\ fpFlit' = PrintAtHand /\ fpValid' = FpOk
         /\ ridFlit' = AtHand /\ ridValid' = (RidOk /\ ~FpOk)
         /\ getNextFp' = (IF FpOk /\ RidOk /\ AtHand.eop THEN TRUE ELSE getNextFp /\ ~GotFp)
         /\ given' = (IF FpOk /\ RidOk /\ (Kept # {} \/ AtHand.eop)
                      THEN Add(given, Kept, AtHand.eop) ELSE given)
         /\ UNCHANGED <<checker, lane, accum, ridFlits, hitsIn, ridsIn>>
<1>1. PrintAtHand \in SUBSET Lanes
  BY DEF Shape, PrintAtHand, GotFp
<1>2. AtHand \in RidFlit
  BY DEF Shape, AtHand, GotRid
<1>3. Kept \in SUBSET Rids
  BY <1>2 DEF Kept, RidFlit
<1>. QED
  BY <1>1, <1>2, <1>3 DEF Match, GotFp, GotRid, PrintAtHand, AtHand, FpOk, RidOk, Kept,
  RidWaits, FpUsedUp

LEMMA MatchShape ==
  ASSUME Shape, Match
  PROVE  Shape'
<1>1. fprint' \in Seq(SUBSET Lanes) /\ Len(fprint') <= MetaDepth
  <2>1. fprint \in Seq(SUBSET Lanes) /\ Len(fprint) <= MetaDepth /\ MetaDepth \in Nat
    BY FingerprintAssumption DEF Shape
  <2>2. CASE GotFp
    <3>1. fprint # << >> /\ fprint' = Tail(fprint)
      BY <2>2, MatchParts DEF GotFp
    <3>2. Tail(fprint) \in Seq(SUBSET Lanes) /\ Len(Tail(fprint)) = Len(fprint) - 1 /\ Len(fprint) \in Nat
      BY <2>1, <3>1
    <3>. QED
      BY <2>1, <3>1, <3>2
  <2>3. CASE ~GotFp
    <3>1. fprint' = fprint
      BY <2>3, MatchParts
    <3>. QED
      BY <2>1, <3>1
  <2>. QED
    BY <2>2, <2>3
<1>2. rids' \in Seq(RidFlit) /\ Len(rids') <= MetaDepth
  <2>1. rids \in Seq(RidFlit) /\ Len(rids) <= MetaDepth /\ MetaDepth \in Nat
    BY FingerprintAssumption DEF Shape
  <2>2. CASE GotRid
    <3>1. rids # << >> /\ rids' = Tail(rids)
      BY <2>2, MatchParts DEF GotRid
    <3>2. Tail(rids) \in Seq(RidFlit) /\ Len(Tail(rids)) = Len(rids) - 1 /\ Len(rids) \in Nat
      BY <2>1, <3>1
    <3>. QED
      BY <2>1, <3>1, <3>2
  <2>3. CASE ~GotRid
    <3>1. rids' = rids
      BY <2>3, MatchParts
    <3>. QED
      BY <2>1, <3>1
  <2>. QED
    BY <2>2, <2>3
<1>3. /\ fpFlit' \in SUBSET Lanes /\ fpValid' \in BOOLEAN
      /\ ridFlit' \in RidFlit /\ ridValid' \in BOOLEAN /\ getNextFp' \in BOOLEAN
  BY MatchParts DEF Shape, FpOk, GotFp, RidOk, GotRid
<1>4. given' \in Seq(RidBag) /\ given' # << >>
  <2>1. given \in Seq(RidBag) /\ given # << >>
    BY DEF Shape
  <2>2. CASE given' = given
    BY <2>1, <2>2
  <2>3. CASE given' = Add(given, Kept, AtHand.eop)
    <3>1. Kept \in SUBSET Rids /\ AtHand.eop \in BOOLEAN
      BY MatchParts DEF RidFlit
    <3>2. /\ Len(given) \in Nat \ {0} /\ given' \in Seq(RidBag)
          /\ Len(given') = IF AtHand.eop THEN Len(given) + 1 ELSE Len(given)
      BY <2>1, <2>3, <3>1, AddGrows
    <3>. QED
      BY <3>2
  <2>. QED
    BY <2>2, <2>3, MatchParts
<1>5. UNCHANGED <<checker, lane, accum, ridFlits, hitsIn, ridsIn>>
  BY MatchParts
<1>. QED
  BY <1>1, <1>2, <1>3, <1>4, <1>5 DEF Shape, checker, accum

LEMMA NextShape == Shape /\ [Next]_vars => Shape'
<1>1. CASE UNCHANGED vars
  BY <1>1 DEF Shape, vars, checker, accum, matcher
<1>. QED
  BY <1>1, CheckReadShape, CheckWriteShape, AccumulateShape, RidsArriveShape, MatchShape
  DEF Next, Check

-----------------------------------------------------------------------------
(***************************************************************************)
(* The lanes and the fingerprints.                                         *)
(***************************************************************************)
LEMMA PacketNumbers ==
  ASSUME Shape
  PROVE  /\ Len(given) \in Nat \ {0} /\ Len(hitsIn) \in Nat \ {0} /\ Len(ridsIn) \in Nat \ {0}
         /\ Len(fprint) \in Nat /\ FirstPrint \in Nat \ {0} /\ Gathered \in Nat \ {0}
         /\ FirstPrint = (IF getNextFp THEN Len(given) ELSE Len(given) + 1)
         /\ Gathered = FirstPrint + Len(fprint)
<1>1. Len(given) \in Nat \ {0}
  BY DEF Shape
<1>2. Len(hitsIn) \in Nat \ {0} /\ Len(ridsIn) \in Nat \ {0} /\ Len(fprint) \in Nat
  BY DEF Shape
<1>3. FirstPrint = IF getNextFp THEN Len(given) ELSE Len(given) + 1
  BY <1>1 DEF FirstPrint
<1>. QED
  BY <1>1, <1>2, <1>3 DEF Gathered

\* The ends of a link are a packet's number and some of its hits.
LEMMA HitLinkEnds ==
  ASSUME NEW l, NEW p, NEW f, NEW q, <<p, f, q>> \in HitLinks(l)
  PROVE  /\ p \in (Nat \ {0}) \X SUBSET Lanes /\ f \in LaneFlit
         /\ q \in (Nat \ {0}) \X SUBSET Lanes
BY DEF HitLinks

\* Links stay when more is found.
LEMMA HitLinksStay ==
  ASSUME NEW l, Len(hitsIn) \in Nat, Len(hitsIn') \in Nat, Len(hitsIn) <= Len(hitsIn'),
         \A i \in 1 .. Len(hitsIn) - 1 : hitsIn'[i] = hitsIn[i]
  PROVE  HitLinks(l) \subseteq HitLinks(l)'
<1>1. ASSUME NEW x \in HitLinks(l)
      PROVE  x \in HitLinks(l)'
  <2>1. x \in ((Nat \ {0}) \X SUBSET Lanes) \X LaneFlit \X ((Nat \ {0}) \X SUBSET Lanes)
    BY DEF HitLinks
  <2>2. x[1][1] \in Nat \ {0}
    BY <2>1
  <2>3. CASE x[2].eop
    <3>1. /\ x[1][1] < Len(hitsIn) /\ x[3] = <<x[1][1] + 1, {}>>
          /\ hitsIn[x[1][1]] \cap {l} = x[1][2] \cup (IF x[2].hit THEN {l} ELSE {})
      BY <2>3 DEF HitLinks
    <3>2. x[1][1] \in 1 .. Len(hitsIn) - 1 /\ x[1][1] < Len(hitsIn')
      BY <2>2, <3>1
    <3>3. hitsIn'[x[1][1]] = hitsIn[x[1][1]]
      BY <3>2
    <3>. QED
      BY <2>1, <2>3, <3>1, <3>2, <3>3 DEF HitLinks
  <2>4. CASE ~x[2].eop
    BY <2>1, <2>4 DEF HitLinks
  <2>. QED
    BY <2>3, <2>4
<1>. QED
  BY <1>1

LEMMA CheckReadPrints ==
  ASSUME Shape, Prints, NEW found \in SUBSET Lanes, NEW last \in BOOLEAN, CheckRead(found, last)
  PROVE  Prints'
<1>1. UNCHANGED <<given, getNextFp, fprint, fpValid, fpFlit>>
  BY DEF CheckRead, matcher
<1>2. FirstPrint' = FirstPrint /\ Gathered' = Gathered
  BY <1>1 DEF FirstPrint, Gathered
<1>3. /\ Len(hitsIn) \in Nat \ {0} /\ Len(hitsIn') \in Nat /\ Len(hitsIn) <= Len(hitsIn')
      /\ \A i \in 1 .. Len(hitsIn) - 1 : hitsIn'[i] = hitsIn[i]
  <2>1. /\ Len(hitsIn) \in Nat \ {0}
        /\ Len(hitsIn') = IF last THEN Len(hitsIn) + 1 ELSE Len(hitsIn)
        /\ \A i \in 1 .. Len(hitsIn) - 1 : hitsIn'[i] = hitsIn[i]
    BY HitsGrow
  <2>. QED
    BY <2>1
<1>4. Gathered' <= Len(hitsIn')
  BY <1>2, <1>3, PacketNumbers DEF Prints
<1>5. ASSUME ~getNextFp
      PROVE  fpValid /\ fpFlit = hitsIn'[Len(given)]
  <2>1. Len(given) \in 1 .. Len(hitsIn) - 1
    BY <1>3, <1>5, PacketNumbers DEF Prints
  <2>. QED
    BY <1>3, <1>5, <2>1 DEF Prints
<1>6. ASSUME NEW i \in 1 .. Len(fprint)
      PROVE  fprint[i] = hitsIn'[FirstPrint + i - 1]
  <2>1. FirstPrint + i - 1 \in 1 .. Len(hitsIn) - 1
    BY <1>3, PacketNumbers DEF Prints
  <2>2. fprint[i] = hitsIn[FirstPrint + i - 1]
    BY DEF Prints
  <2>. QED
    BY <1>3, <2>1, <2>2
<1>. QED
  BY <1>1, <1>2, <1>4, <1>5, <1>6 DEF Prints

LEMMA CheckReadLanes ==
  ASSUME Shape, Prints, LanesRight,
         NEW found \in SUBSET Lanes, NEW last \in BOOLEAN, CheckRead(found, last)
  PROVE  LanesRight'
<1> DEFINE n == Len(hitsIn)
<1>1. UNCHANGED <<given, getNextFp, fprint, lane, fp, barrierWait>>
  BY DEF CheckRead, matcher, accum
<1>2. Gathered' = Gathered
  BY <1>1 DEF FirstPrint, Gathered
<1>3. /\ n \in Nat \ {0} /\ Len(hitsIn') = (IF last THEN n + 1 ELSE n)
      /\ \A i \in 1 .. n - 1 : hitsIn'[i] = hitsIn[i]
      /\ hitsIn'[n] = hitsIn[n] \cup found
      /\ last => hitsIn'[n + 1] = {}
      /\ hitsIn \in Seq(SUBSET Lanes)
  BY HitsGrow DEF Shape
<1>4. /\ todo = {} /\ todo' = {l \in Lanes : l \in found \/ last}
      /\ hits' = found /\ eop' = last
  BY DEF CheckRead, Sends
<1>5. ASSUME NEW l \in Lanes
      PROVE  LaneRight(l)'
  <2>1. LaneStart(l)' = LaneStart(l)
    BY <1>1, <1>2 DEF LaneStart
  <2>2. PICK q : /\ Path(lane[l], LaneStart(l), q, HitLinks(l))
                 /\ q = LaneEnd(l)
    BY <1>4 DEF LanesRight, LaneRight
  <2>3. HitLinks(l) \subseteq HitLinks(l)'
    <3>1. Len(hitsIn') \in Nat /\ n <= Len(hitsIn')
      BY <1>3
    <3>. QED
      BY <1>3, <3>1, HitLinksStay
  <2>4. Path(lane[l], LaneStart(l), q, HitLinks(l)')
    BY <2>2, <2>3, PathMore
  <2>5. ASSUME barrierWait[l]
        PROVE  Gathered < Len(hitsIn') /\ hitsIn'[Gathered] \cap {l} = fp \cap {l}
    <3>1. Gathered < n /\ hitsIn[Gathered] \cap {l} = fp \cap {l}
      BY <2>5 DEF LanesRight, LaneRight
    <3>2. Gathered \in 1 .. n - 1
      BY <3>1, PacketNumbers
    <3>. QED
      BY <1>3, <3>1, <3>2
  <2>6. q = <<n, hitsIn[n] \cap {l}>> /\ hitsIn[n] \in SUBSET Lanes
    BY <1>3, <2>2 DEF LaneEnd
  <2>7. LaneEnd(l)' = IF last THEN <<n + 1, {}>> ELSE <<n, (hitsIn[n] \cup found) \cap {l}>>
    BY <1>3 DEF LaneEnd
  <2>8. LaneWrite(l)' = [hit |-> l \in found, eop |-> last]
    BY <1>4 DEF LaneWrite
  <2>9. CASE l \in todo'
    <3> DEFINE f == [hit |-> l \in found, eop |-> last]
               F == hitsIn[n] \cap {l}
               T == (hitsIn[n] \cup found) \cap {l}
    <3>1. f \in LaneFlit /\ f.eop = last /\ f.hit = (l \in found)
      <4>1. (l \in found) \in BOOLEAN
        OBVIOUS
      <4>2. f \in LaneFlit
        BY <4>1 DEF LaneFlit
      <4>. QED
        BY <4>2
    <3>2. F \cup (IF f.hit THEN {l} ELSE {}) = T /\ F \in SUBSET Lanes /\ T \in SUBSET Lanes
      BY <2>6, <3>1
    <3>3. hitsIn'[n] \cap {l} = T
      BY <1>3
    <3>. HIDE DEF f, F, T
    <3>4. CASE last
      <4>1. n < Len(hitsIn') /\ n + 1 \in Nat \ {0}
        BY <1>3, <3>4
      <4>2. <<<<n, F>>, f, <<n + 1, {}>>>> \in HitLinks(l)'
        BY <1>3, <3>1, <3>2, <3>3, <3>4, <4>1 DEF HitLinks
      <4>. QED
        BY <1>1, <2>1, <2>4, <2>5, <2>6, <2>7, <2>8, <2>9, <3>4, <4>2, <1>2 DEF LaneRight, f, F
    <3>5. CASE ~last
      <4>2. <<<<n, F>>, f, <<n, T>>>> \in HitLinks(l)'
        BY <1>3, <3>1, <3>2, <3>5 DEF HitLinks
      <4>. QED
        BY <1>1, <2>1, <2>4, <2>5, <2>6, <2>7, <2>8, <2>9, <3>5, <4>2, <1>2 DEF LaneRight, f, F, T
    <3>. QED
      BY <3>4, <3>5
  <2>10. CASE l \notin todo'
    <3>1. ~last /\ l \notin found
      BY <1>4, <2>10
    <3>2. q = LaneEnd(l)'
      BY <2>6, <2>7, <3>1
    <3>. QED
      BY <1>1, <1>2, <2>1, <2>4, <2>5, <2>10, <3>2 DEF LaneRight
  <2>. QED
    BY <2>9, <2>10
<1>. QED
  BY <1>5 DEF LanesRight

LEMMA CheckWriteLanes ==
  ASSUME Shape, LanesRight, NEW l \in Lanes, CheckWrite(l)
  PROVE  LanesRight'
<1>1. /\ l \in todo /\ todo' = todo \ {l}
      /\ UNCHANGED <<hits, eop, given, getNextFp, fprint, fp, barrierWait, hitsIn>>
  BY DEF CheckWrite, matcher, accum
<1>2. Gathered' = Gathered
  BY <1>1 DEF FirstPrint, Gathered
<1>3. ASSUME NEW k \in Lanes
      PROVE  /\ HitLinks(k)' = HitLinks(k) /\ LaneStart(k)' = LaneStart(k)
             /\ LaneEnd(k)' = LaneEnd(k) /\ LaneWrite(k)' = LaneWrite(k)
             /\ barrierWait'[k] => Gathered' < Len(hitsIn') /\ hitsIn'[Gathered'] \cap {k} = fp' \cap {k}
             /\ LaneRight(k)
  BY <1>1, <1>2 DEF HitLinks, LaneStart, LaneEnd, LaneWrite, LanesRight, LaneRight
<1>4. ASSUME NEW k \in Lanes, k # l
      PROVE  LaneRight(k)'
  <2>1. lane'[k] = lane[k] /\ (k \in todo' <=> k \in todo)
    BY <1>1, <1>4, CheckWriteShape
  <2>2. PICK q : /\ Path(lane[k], LaneStart(k), q, HitLinks(k))
                 /\ IF k \in todo THEN <<q, LaneWrite(k), LaneEnd(k)>> \in HitLinks(k)
                                  ELSE q = LaneEnd(k)
    BY <1>3 DEF LaneRight
  <2>3. /\ Path(lane'[k], LaneStart(k)', q, HitLinks(k)')
        /\ IF k \in todo' THEN <<q, LaneWrite(k)', LaneEnd(k)'>> \in HitLinks(k)'
                          ELSE q = LaneEnd(k)'
    BY <1>3, <2>1, <2>2
  <2>. QED
    BY <1>3, <2>3 DEF LaneRight
<1>5. LaneRight(l)'
  <2>1. PICK q : /\ Path(lane[l], LaneStart(l), q, HitLinks(l))
                 /\ <<q, LaneWrite(l), LaneEnd(l)>> \in HitLinks(l)
    BY <1>1, <1>3 DEF LaneRight
  <2>2. lane[l] \in Seq(LaneFlit) /\ LaneWrite(l) \in LaneFlit
    BY <2>1, HitLinkEnds DEF Shape
  <2>3. lane'[l] = Append(lane[l], LaneWrite(l))
    BY CheckWriteShape
  <2>4. Path(lane'[l], LaneStart(l), LaneEnd(l), HitLinks(l))
    BY <2>1, <2>2, <2>3, PathAppend
  <2>5. l \notin todo'
    BY <1>1
  <2>. QED
    BY <1>3, <2>4, <2>5 DEF LaneRight
<1>. QED
  BY <1>4, <1>5 DEF LanesRight

\* An iteration of fpAccumulateStage: the hits gathered, and the lanes that have
\* come to the packet's end.
Now     == fp \cup {l \in ReadyLanes : Head(lane[l]).hit}
Ended   == {l \in Lanes : barrierWait[l] \/ (l \in ReadyLanes /\ Head(lane[l]).eop)}

LEMMA AccumulateParts ==
  ASSUME Shape, Accumulate
  PROVE  /\ ReadyLanes # {} /\ ReadyLanes \subseteq Lanes /\ Now \in SUBSET Lanes
         /\ \/ /\ Ended = Lanes /\ fprint' = Append(fprint, Now) /\ fp' = {}
               /\ \A l \in Lanes : ~barrierWait'[l]
            \/ /\ Ended # Lanes /\ fprint' = fprint /\ fp' = Now
               /\ \A l \in Lanes : barrierWait'[l] <=> l \in Ended
         /\ UNCHANGED <<checker, rids, ridFlits, matcher, hitsIn, ridsIn, given>>
<1> DEFINE wait == [l \in Lanes |-> barrierWait[l] \/ (l \in ReadyLanes /\ Head(lane[l]).eop)]
<1>1. \A l \in Lanes : wait[l] <=> l \in Ended
  BY DEF Ended
<1>2. (\A l \in Lanes : wait[l]) <=> Ended = Lanes
  BY <1>1 DEF Ended
<1>3. /\ ReadyLanes # {} /\ ReadyLanes \subseteq Lanes /\ Now \in SUBSET Lanes
      /\ UNCHANGED <<checker, rids, ridFlits, matcher, hitsIn, ridsIn, given>>
  BY DEF Accumulate, ReadyLanes, Now, Shape
<1>4. \/ /\ \A l \in Lanes : wait[l]
         /\ fprint' = Append(fprint, Now) /\ fp' = {}
         /\ barrierWait' = [l \in Lanes |-> FALSE]
      \/ /\ ~\A l \in Lanes : wait[l]
         /\ fp' = Now /\ barrierWait' = wait /\ UNCHANGED fprint
  BY DEF Accumulate, Now
<1>. HIDE DEF wait
<1>5. CASE /\ \A l \in Lanes : wait[l]
           /\ fprint' = Append(fprint, Now) /\ fp' = {}
           /\ barrierWait' = [l \in Lanes |-> FALSE]
  <2>1. \A l \in Lanes : ~barrierWait'[l]
    BY <1>5
  <2>. QED
    BY <1>2, <1>3, <1>5, <2>1
<1>6. CASE /\ ~\A l \in Lanes : wait[l]
           /\ fp' = Now /\ barrierWait' = wait /\ UNCHANGED fprint
  <2>1. \A l \in Lanes : barrierWait'[l] <=> l \in Ended
    BY <1>1, <1>6
  <2>. QED
    BY <1>2, <1>3, <1>6, <2>1
<1>. QED
  BY <1>4, <1>5, <1>6

\* A lane after it.
LEMMA AccumulateLane ==
  ASSUME Shape, LanesRight, Accumulate, NEW l \in Lanes
  PROVE  /\ l \in Ended => Gathered < Len(hitsIn) /\ hitsIn[Gathered] \cap {l} = Now \cap {l}
         /\ \E q : /\ Path(lane'[l], IF l \in Ended THEN <<Gathered + 1, {}>>
                                                    ELSE <<Gathered, Now \cap {l}>>, q, HitLinks(l))
                   /\ IF l \in todo THEN <<q, LaneWrite(l), LaneEnd(l)>> \in HitLinks(l)
                                    ELSE q = LaneEnd(l)
<1>1. LaneRight(l)
  BY DEF LanesRight
<1>2. PICK q : /\ Path(lane[l], LaneStart(l), q, HitLinks(l))
               /\ IF l \in todo THEN <<q, LaneWrite(l), LaneEnd(l)>> \in HitLinks(l)
                                ELSE q = LaneEnd(l)
  BY <1>1 DEF LaneRight
<1>3. CASE l \in ReadyLanes
  <2> DEFINE f == Head(lane[l])
             F == fp \cap {l}
             T == Now \cap {l}
  <2>1. /\ lane[l] \in Seq(LaneFlit) /\ lane[l] # << >> /\ ~barrierWait[l]
        /\ f \in LaneFlit /\ lane'[l] = Tail(lane[l])
    BY <1>3, LanesRead
  <2>2. LaneStart(l) = <<Gathered, F>>
    BY <2>1 DEF LaneStart
  <2>3. PICK r : <<<<Gathered, F>>, f, r>> \in HitLinks(l) /\ Path(lane'[l], r, q, HitLinks(l))
    BY <1>2, <2>1, <2>2, PathTail
  <2>4. F \cup (IF f.hit THEN {l} ELSE {}) = T
    BY <1>3, <2>1 DEF Now
  <2>5. l \in Ended <=> f.eop
    BY <1>3, <2>1 DEF Ended
  <2>. HIDE DEF f, F, T
  <2>6. IF f.eop THEN Gathered < Len(hitsIn) /\ hitsIn[Gathered] \cap {l} = T /\ r = <<Gathered + 1, {}>>
                 ELSE r = <<Gathered, T>>
    BY <2>3, <2>4 DEF HitLinks
  <2>. QED
    BY <1>2, <2>3, <2>5, <2>6 DEF T
<1>4. CASE l \notin ReadyLanes
  <2>1. lane'[l] = lane[l]
    BY <1>4, LanesRead
  <2>2. (l \in Ended <=> barrierWait[l]) /\ Now \cap {l} = fp \cap {l}
    BY <1>4 DEF Ended, Now
  <2>3. LaneStart(l) = IF l \in Ended THEN <<Gathered + 1, {}>> ELSE <<Gathered, Now \cap {l}>>
    BY <2>2 DEF LaneStart
  <2>4. l \in Ended => Gathered < Len(hitsIn) /\ hitsIn[Gathered] \cap {l} = Now \cap {l}
    BY <1>1, <2>2 DEF LaneRight
  <2>. QED
    BY <1>2, <2>1, <2>3, <2>4
<1>. QED
  BY <1>3, <1>4

LEMMA AccumulateRight ==
  ASSUME Shape, Prints, LanesRight, Accumulate
  PROVE  Prints' /\ LanesRight'
<1>1. /\ UNCHANGED <<hits, eop, todo, given, getNextFp, fpValid, fpFlit, hitsIn>>
      /\ FirstPrint' = FirstPrint
      /\ \A l \in Lanes : /\ HitLinks(l)' = HitLinks(l) /\ LaneEnd(l)' = LaneEnd(l)
                          /\ LaneWrite(l)' = LaneWrite(l)
  BY AccumulateParts DEF checker, matcher, FirstPrint, HitLinks, LaneEnd, LaneWrite
<1>2. CASE /\ Ended = Lanes /\ fprint' = Append(fprint, Now) /\ fp' = {}
           /\ \A l \in Lanes : ~barrierWait'[l]
  <2>1. /\ fprint \in Seq(SUBSET Lanes) /\ Now \in SUBSET Lanes /\ Len(fprint) \in Nat
        /\ Gathered \in Nat \ {0} /\ FirstPrint \in Nat \ {0} /\ Gathered = FirstPrint + Len(fprint)
    BY AccumulateParts, PacketNumbers DEF Shape
  <2>2. /\ Len(fprint') = Len(fprint) + 1 /\ fprint'[Len(fprint) + 1] = Now
        /\ \A i \in 1 .. Len(fprint) : fprint'[i] = fprint[i]
    BY <1>2, <2>1
  <2>3. Gathered' = Gathered + 1
    BY <1>1, <2>1, <2>2 DEF Gathered
  <2>4. PICK k \in Lanes : k \in Ended
    BY <1>2, AccumulateParts
  <2>5. Gathered < Len(hitsIn) /\ Len(hitsIn) \in Nat
    BY <2>4, AccumulateLane, PacketNumbers
  <2>6. Now = hitsIn[Gathered]
    <3>1. \A l \in Lanes : hitsIn[Gathered] \cap {l} = Now \cap {l}
      BY <1>2, AccumulateLane
    <3>2. hitsIn[Gathered] \in SUBSET Lanes
      BY <2>1, <2>5 DEF Shape
    <3>3. \A l \in Lanes : l \in hitsIn[Gathered] <=> l \in Now
      BY <3>1
    <3>. QED
      BY <2>1, <3>2, <3>3
  <2>7. Prints'
    <3>1. Gathered' <= Len(hitsIn')
      BY <1>1, <2>1, <2>3, <2>5
    <3>2. ASSUME NEW i \in 1 .. Len(fprint')
          PROVE  fprint'[i] = hitsIn[FirstPrint + i - 1]
      <4>1. CASE i \in 1 .. Len(fprint)
        BY <2>2, <4>1 DEF Prints
      <4>2. CASE i = Len(fprint) + 1
        <5>1. FirstPrint + i - 1 = Gathered
          BY <2>1, <4>2
        <5>. QED
          BY <2>2, <2>6, <4>2, <5>1
      <4>. QED
        BY <2>1, <2>2, <4>1, <4>2
    <3>. QED
      BY <1>1, <3>1, <3>2 DEF Prints
  <2>8. ASSUME NEW l \in Lanes
        PROVE  LaneRight(l)'
    <3>1. LaneStart(l)' = <<Gathered + 1, {}>>
      BY <1>2, <2>3 DEF LaneStart
    <3>2. PICK q : /\ Path(lane'[l], <<Gathered + 1, {}>>, q, HitLinks(l))
                   /\ IF l \in todo THEN <<q, LaneWrite(l), LaneEnd(l)>> \in HitLinks(l)
                                    ELSE q = LaneEnd(l)
      BY <1>2, AccumulateLane
    <3>3. /\ Path(lane'[l], LaneStart(l)', q, HitLinks(l)')
          /\ IF l \in todo' THEN <<q, LaneWrite(l)', LaneEnd(l)'>> \in HitLinks(l)'
                            ELSE q = LaneEnd(l)'
      BY <1>1, <3>1, <3>2
    <3>. QED
      BY <1>2, <3>3 DEF LaneRight
  <2>. QED
    BY <2>7, <2>8 DEF LanesRight
<1>3. CASE /\ Ended # Lanes /\ fprint' = fprint /\ fp' = Now
           /\ \A l \in Lanes : barrierWait'[l] <=> l \in Ended
  <2>1. Gathered' = Gathered
    BY <1>1, <1>3 DEF Gathered
  <2>2. Prints'
    BY <1>1, <1>3, <2>1 DEF Prints
  <2>3. ASSUME NEW l \in Lanes
        PROVE  LaneRight(l)'
    <3>1. LaneStart(l)' = IF l \in Ended THEN <<Gathered + 1, {}>> ELSE <<Gathered, Now \cap {l}>>
      BY <1>3, <2>1 DEF LaneStart
    <3>2. PICK q : /\ Path(lane'[l], IF l \in Ended THEN <<Gathered + 1, {}>>
                                                    ELSE <<Gathered, Now \cap {l}>>, q, HitLinks(l))
                   /\ IF l \in todo THEN <<q, LaneWrite(l), LaneEnd(l)>> \in HitLinks(l)
                                    ELSE q = LaneEnd(l)
      BY AccumulateLane
    <3>3. /\ Path(lane'[l], LaneStart(l)', q, HitLinks(l)')
          /\ IF l \in todo' THEN <<q, LaneWrite(l)', LaneEnd(l)'>> \in HitLinks(l)'
                            ELSE q = LaneEnd(l)'
      BY <1>1, <3>1, <3>2
    <3>4. barrierWait'[l] => Gathered' < Len(hitsIn') /\ hitsIn'[Gathered'] \cap {l} = fp' \cap {l}
      BY <1>1, <1>3, <2>1, AccumulateLane
    <3>. QED
      BY <3>3, <3>4 DEF LaneRight
  <2>. QED
    BY <2>2, <2>3 DEF LanesRight
<1>. QED
  BY <1>2, <1>3, AccumulateParts

-----------------------------------------------------------------------------
(***************************************************************************)
(* The rule ids.                                                           *)
(***************************************************************************)
\* What follows from a link.
LEMMA RidLinkParts ==
  ASSUME NEW n, NEW b, NEW f, NEW q, <<<<n, b>>, f, q>> \in RidLinks
  PROVE  /\ n \in Nat \ {0} /\ b \in RidBag /\ f \in RidFlit
         /\ n <= Len(ridsIn) /\ b \sqsubseteq ridsIn[n]
         /\ IF f.eop THEN /\ n < Len(ridsIn) /\ ridsIn[n] = b (+) SetToBag(f.ids)
                          /\ q = <<n + 1, EmptyBag>>
                     ELSE q = <<n, b (+) SetToBag(f.ids)>>
BY DEF RidLinks

\* Links stay when more has arrived.
LEMMA RidLinksStay ==
  ASSUME NEW n \in Nat \ {0}, n = Len(ridsIn), ridsIn \in Seq(RidBag), ridsIn' \in Seq(RidBag),
         n <= Len(ridsIn'), \A i \in 1 .. n - 1 : ridsIn'[i] = ridsIn[i],
         ridsIn[n] \sqsubseteq ridsIn'[n]
  PROVE  RidLinks \subseteq RidLinks'
<1>1. ASSUME NEW x \in RidLinks
      PROVE  x \in RidLinks'
  <2> DEFINE k == x[1][1]
             b == x[1][2]
  <2>1. x \in ((Nat \ {0}) \X RidBag) \X RidFlit \X ((Nat \ {0}) \X RidBag)
    BY DEF RidLinks
  <2>2. k \in Nat \ {0} /\ b \in RidBag
    BY <2>1
  <2>3. /\ k <= n /\ b \sqsubseteq ridsIn[k]
        /\ IF x[2].eop THEN /\ k < n /\ ridsIn[k] = b (+) SetToBag(x[2].ids)
                            /\ x[3] = <<k + 1, EmptyBag>>
                       ELSE x[3] = <<k, b (+) SetToBag(x[2].ids)>>
    BY DEF RidLinks
  <2>. HIDE DEF k, b
  <2>4. k <= Len(ridsIn') /\ b \sqsubseteq ridsIn'[k]
    <3>1. CASE k < n
      <4>1. k \in 1 .. n - 1
        BY <2>2, <3>1
      <4>2. ridsIn'[k] = ridsIn[k]
        BY <4>1
      <4>. QED
        BY <2>2, <2>3, <3>1, <4>2
    <3>2. CASE k = n
      <4>1. ridsIn[n] \in RidBag /\ ridsIn'[n] \in RidBag
        OBVIOUS
      <4>2. b \sqsubseteq ridsIn[n]
        BY <2>3, <3>2
      <4>3. b \sqsubseteq ridsIn'[n]
        BY <2>2, <4>1, <4>2, BelowTransitive
      <4>. QED
        BY <3>2, <4>3
    <3>. QED
      BY <2>2, <2>3, <3>1, <3>2
  <2>5. x[2].eop => k < Len(ridsIn') /\ ridsIn'[k] = ridsIn[k]
    <3>1. ASSUME k < n
          PROVE  k \in 1 .. n - 1 /\ k < Len(ridsIn')
      BY <2>2, <3>1
    <3>. QED
      BY <2>3, <3>1
  <2>. QED
    BY <2>1, <2>3, <2>4, <2>5 DEF RidLinks, k, b
<1>. QED
  BY <1>1

RidEnd == <<Len(ridsIn), ridsIn[Len(ridsIn)]>>

LEMMA RidsArriveAnswered ==
  ASSUME Shape, Answered, NEW ids \in SUBSET Rids, NEW last \in BOOLEAN, RidsArrive(ids, last)
  PROVE  Answered'
<1> DEFINE n == Len(ridsIn)
           f == [ids |-> ids, eop |-> last]
<1>1. /\ rids' = Append(rids, f) /\ ridsIn' = Add(ridsIn, ids, last)
      /\ UNCHANGED <<given, hitsIn, ridFlit, ridValid, getNextFp, fpFlit>>
  BY DEF RidsArrive, matcher
<1>2. f \in RidFlit /\ f.ids = ids /\ f.eop = last
  BY DEF RidFlit
<1>. HIDE DEF f
<1>3. ridsIn \in Seq(RidBag) /\ ridsIn # << >> /\ rids \in Seq(RidFlit) /\ n \in Nat \ {0}
  <2>1. ridsIn \in Seq(RidBag) /\ rids \in Seq(RidFlit) /\ n \in Nat \ {0}
    BY PacketNumbers DEF Shape
  <2>. QED
    BY <2>1
<1>4. /\ ridsIn' \in Seq(RidBag) /\ Len(ridsIn') = (IF last THEN n + 1 ELSE n)
      /\ \A i \in 1 .. n - 1 : ridsIn'[i] = ridsIn[i]
      /\ ridsIn'[n] = ridsIn[n] (+) SetToBag(ids)
      /\ last => ridsIn'[n + 1] = EmptyBag
  <2> DEFINE a == Add(ridsIn, ids, last)
  <2>1. /\ a \in Seq(RidBag) /\ Len(a) = (IF last THEN n + 1 ELSE n)
        /\ \A i \in 1 .. n - 1 : a[i] = ridsIn[i]
        /\ a[n] = ridsIn[n] (+) SetToBag(ids)
        /\ last => a[n + 1] = EmptyBag
    BY <1>3, AddGrows
  <2>. HIDE DEF a
  <2>. QED
    BY <1>1, <2>1 DEF a
<1>5. /\ ridsIn[n] \in RidBag /\ ridsIn'[n] \in RidBag /\ ridsIn[n] \sqsubseteq ridsIn'[n]
      /\ EmptyBag \in RidBag
  BY <1>3, <1>4, RidBagAdd, EmptyRidBag
<1>6. Len(ridsIn') \in Nat \ {0} /\ n <= Len(ridsIn')
  BY <1>3, <1>4
<1>7. RidLinks \subseteq RidLinks'
  BY <1>3, <1>4, <1>5, <1>6, RidLinksStay
<1>8. <<RidEnd, f, RidEnd'>> \in RidLinks'
  <2> DEFINE m == Len(ridsIn')
             c == ridsIn'[Len(ridsIn')]
  <2>1. m \in Nat \ {0} /\ c \in RidBag
    BY <1>4, <1>5, <1>6
  <2>2. CASE last
    <3>1. <<m, c>> = <<n + 1, EmptyBag>> /\ n < m /\ n <= m
      BY <1>3, <1>4, <2>2
    <3>2. n + 1 \in Nat \ {0} /\ m = n + 1
      BY <1>3, <1>4, <2>2
    <3>3. <<<<n, ridsIn[n]>>, f, <<n + 1, EmptyBag>>>> \in RidLinks'
      BY <1>2, <1>3, <1>4, <1>5, <2>2, <3>1, <3>2 DEF RidLinks
    <3>. QED
      BY <3>1, <3>3 DEF RidEnd
  <2>3. CASE ~last
    <3>1. <<m, c>> = <<n, ridsIn'[n]>>
      BY <1>4, <2>3
    <3>2. <<<<n, ridsIn[n]>>, f, <<n, ridsIn'[n]>>>> \in RidLinks'
      BY <1>2, <1>3, <1>4, <1>5, <2>3 DEF RidLinks
    <3>. QED
      BY <3>1, <3>2 DEF RidEnd
  <2>. QED
    BY <2>2, <2>3
<1>9. PICK b : Matched(b)
  BY DEF Answered
<1>10. PICK p : /\ Path(rids, p, RidEnd, RidLinks)
                /\ IF ridValid THEN <<<<Len(given), b>>, ridFlit, p>> \in RidLinks
                               ELSE p = <<Len(given), b>>
  BY <1>9 DEF Matched, RidEnd
<1>11. Path(rids', p, RidEnd', RidLinks')
  <2>1. Path(rids, p, RidEnd, RidLinks')
    BY <1>7, <1>10, PathMore
  <2>. QED
    BY <1>1, <1>2, <1>3, <1>8, <2>1, PathAppend
<1>12. Matched(b)'
  BY <1>1, <1>7, <1>9, <1>10, <1>11 DEF Matched, RidEnd
<1>13. ASSUME NEW i \in 1 .. Len(given) - 1
       PROVE  given[i] = Only(ridsIn'[i], hitsIn[i])
  <2>1. i \in 1 .. n - 1
    BY <1>3, PacketNumbers DEF Answered
  <2>. QED
    BY <1>4, <2>1 DEF Answered
<1>14. Len(given) <= Len(ridsIn')
  BY <1>3, <1>6, PacketNumbers DEF Answered
<1>. QED
  BY <1>1, <1>12, <1>13, <1>14 DEF Answered

\* What the other kernels do does not touch the rule ids, and no packet that has
\* been answered is found to have more hits.
LEMMA OthersAnswered ==
  ASSUME Shape, Prints, Answered, UNCHANGED <<rids, ridsIn, matcher, given>>,
         \A i \in 1 .. Len(hitsIn) - 1 : hitsIn'[i] = hitsIn[i]
  PROVE  Answered'
<1>1. UNCHANGED <<rids, ridsIn, given, ridFlit, ridValid, getNextFp, fpFlit>>
  BY DEF matcher
<1>2. RidLinks' = RidLinks
  BY <1>1 DEF RidLinks
<1>3. \A b : Matched(b) => Matched(b)'
  BY <1>1, <1>2 DEF Matched
<1>4. ASSUME NEW i \in 1 .. Len(given) - 1
      PROVE  given[i] = Only(ridsIn[i], hitsIn'[i])
  <2>1. i \in 1 .. Len(hitsIn) - 1
    BY PacketNumbers DEF Prints
  <2>. QED
    BY <2>1 DEF Answered
<1>. QED
  BY <1>1, <1>3, <1>4 DEF Answered

\* The lanes are as they were when neither they nor the packet being gathered
\* have changed.
LEMMA LanesStay ==
  ASSUME LanesRight, UNCHANGED <<checker, lane, accum, hitsIn>>, Gathered' = Gathered
  PROVE  LanesRight'
<1>1. UNCHANGED <<hits, eop, todo, lane, fp, barrierWait, hitsIn>>
  BY DEF checker, accum
<1>2. \A l \in Lanes : /\ HitLinks(l)' = HitLinks(l) /\ LaneStart(l)' = LaneStart(l)
                       /\ LaneEnd(l)' = LaneEnd(l) /\ LaneWrite(l)' = LaneWrite(l)
  BY <1>1 DEF HitLinks, LaneStart, LaneEnd, LaneWrite
<1>3. \A l \in Lanes : LaneRight(l) => LaneRight(l)'
  BY <1>1, <1>2 DEF LaneRight
<1>. QED
  BY <1>3 DEF LanesRight

-----------------------------------------------------------------------------
(***************************************************************************)
(* fpMatchStage.                                                           *)
(***************************************************************************)
\* A fingerprint is used up with the packet's last rule ids, and not before.
LEMMA MatchNumbers ==
  ASSUME Shape, Prints, Match
  PROVE  /\ Len(given') = (IF FpOk /\ RidOk /\ AtHand.eop THEN Len(given) + 1 ELSE Len(given))
         /\ FirstPrint' = (IF GotFp THEN FirstPrint + 1 ELSE FirstPrint)
         /\ Gathered' = Gathered
<1>1. Len(given) \in Nat \ {0}
  BY PacketNumbers
<1>2. Len(given') = IF FpOk /\ RidOk /\ AtHand.eop THEN Len(given) + 1 ELSE Len(given)
  <2>1. given \in Seq(RidBag) /\ given # << >>
    BY DEF Shape
  <2>2. Kept \in SUBSET Rids /\ AtHand.eop \in BOOLEAN
    BY MatchParts DEF RidFlit
  <2>3. Len(Add(given, Kept, AtHand.eop)) = IF AtHand.eop THEN Len(given) + 1 ELSE Len(given)
    BY <2>1, <2>2, AddGrows
  <2>4. given' = IF FpOk /\ RidOk /\ (Kept # {} \/ AtHand.eop)
                 THEN Add(given, Kept, AtHand.eop) ELSE given
    BY MatchParts
  <2>. QED
    BY <2>3, <2>4
<1>3. getNextFp' = IF FpOk /\ RidOk /\ AtHand.eop THEN TRUE ELSE getNextFp /\ ~GotFp
  BY MatchParts
<1>4. FirstPrint' = IF getNextFp' THEN Len(given') ELSE Len(given') + 1
  <2>1. Len(given') \in Nat
    BY <1>1, <1>2
  <2>. QED
    BY <2>1 DEF FirstPrint
<1>5. FirstPrint = IF getNextFp THEN Len(given) ELSE Len(given) + 1
  BY PacketNumbers
<1>6. FirstPrint' = IF GotFp THEN FirstPrint + 1 ELSE FirstPrint
  <2>1. CASE GotFp
    <3>1. FpOk /\ getNextFp
      BY <2>1 DEF FpOk, GotFp
    <3>2. FirstPrint' = Len(given) + 1
      BY <1>2, <1>3, <1>4, <2>1, <3>1
    <3>. QED
      BY <1>5, <2>1, <3>1, <3>2
  <2>2. CASE ~GotFp /\ getNextFp
    <3>1. ~FpOk
      BY <2>2 DEF FpOk
    <3>. QED
      BY <1>2, <1>3, <1>4, <1>5, <2>2, <3>1
  <2>3. CASE ~getNextFp
    <3>1. FpOk /\ ~GotFp
      BY <2>3 DEF FpOk, GotFp, Prints
    <3>2. FirstPrint' = Len(given) + 1
      BY <1>2, <1>3, <1>4, <2>3, <3>1
    <3>. QED
      BY <1>5, <2>3, <3>1, <3>2
  <2>. QED
    BY <2>1, <2>2, <2>3
<1>7. Gathered' = Gathered
  <2>1. FirstPrint \in Nat \ {0} /\ fprint \in Seq(SUBSET Lanes)
    BY PacketNumbers DEF Shape
  <2>2. CASE GotFp
    <3>1. fprint # << >> /\ fprint' = Tail(fprint)
      BY <2>2, MatchParts DEF GotFp
    <3>2. Len(fprint) \in Nat \ {0} /\ Len(fprint') = Len(fprint) - 1
      BY <2>1, <3>1
    <3>3. Gathered' = FirstPrint + 1 + (Len(fprint) - 1)
      BY <1>6, <2>2, <3>2 DEF Gathered
    <3>. QED
      BY <2>1, <3>2, <3>3 DEF Gathered
  <2>3. CASE ~GotFp
    <3>1. fprint' = fprint
      BY <2>3, MatchParts
    <3>. QED
      BY <1>6, <2>3, <3>1 DEF Gathered
  <2>. QED
    BY <2>2, <2>3
<1>. QED
  BY <1>2, <1>6, <1>7

\* The fingerprint it holds is that of the packet at hand.
LEMMA MatchPrint ==
  ASSUME Shape, Prints, Match
  PROVE  FpOk => Len(given) <= Len(hitsIn) /\ PrintAtHand = hitsIn[Len(given)]
<1>1. CASE GotFp
  <2>1. fprint \in Seq(SUBSET Lanes) /\ fprint # << >> /\ getNextFp
    BY <1>1 DEF Shape, GotFp
  <2>2. Len(fprint) \in Nat \ {0} /\ 1 \in 1 .. Len(fprint) /\ Head(fprint) = fprint[1]
    BY <2>1
  <2>3. fprint[1] = hitsIn[FirstPrint + 1 - 1]
    BY <2>2 DEF Prints
  <2>4. FirstPrint + 1 - 1 = Len(given)
    BY <2>1, PacketNumbers
  <2>5. Len(given) <= Len(hitsIn)
    BY <2>1, <2>2, PacketNumbers DEF Prints
  <2>. QED
    BY <1>1, <2>2, <2>3, <2>4, <2>5 DEF PrintAtHand
<1>2. CASE ~GotFp /\ ~getNextFp
  <2>1. Len(given) <= Len(hitsIn)
    BY <1>2, PacketNumbers DEF Prints
  <2>. QED
    BY <1>2, <2>1 DEF PrintAtHand, Prints
<1>3. CASE ~GotFp /\ getNextFp
  BY <1>3 DEF FpOk
<1>. QED
  BY <1>1, <1>2, <1>3

LEMMA MatchRight ==
  ASSUME Shape, Prints, LanesRight, Match
  PROVE  Prints' /\ LanesRight'
<1>1. UNCHANGED <<checker, lane, accum, hitsIn>>
  BY MatchParts
<1>2. LanesRight'
  BY <1>1, MatchNumbers, LanesStay
<1>3. Gathered' <= Len(hitsIn')
  BY <1>1, MatchNumbers DEF Prints
<1>4. ASSUME ~getNextFp'
      PROVE  fpValid' /\ fpFlit' = hitsIn'[Len(given')]
  <2>1. ~(FpOk /\ RidOk /\ AtHand.eop) /\ (~getNextFp \/ GotFp)
    BY <1>4, MatchParts
  <2>2. FpOk
    BY <2>1 DEF FpOk, GotFp, Prints
  <2>3. Len(given') = Len(given)
    BY <2>1, MatchNumbers
  <2>. QED
    BY <1>1, <2>2, <2>3, MatchParts, MatchPrint
<1>5. ASSUME NEW i \in 1 .. Len(fprint')
      PROVE  fprint'[i] = hitsIn'[FirstPrint' + i - 1]
  <2>1. FirstPrint \in Nat \ {0} /\ fprint \in Seq(SUBSET Lanes)
    BY PacketNumbers DEF Shape
  <2>2. CASE GotFp
    <3>1. fprint # << >> /\ fprint' = Tail(fprint)
      BY <2>2, MatchParts DEF GotFp
    <3>2. i \in Nat \ {0} /\ i + 1 \in 1 .. Len(fprint) /\ fprint'[i] = fprint[i + 1]
      BY <2>1, <3>1
    <3>3. fprint[i + 1] = hitsIn[FirstPrint + (i + 1) - 1]
      BY <3>2 DEF Prints
    <3>4. FirstPrint' + i - 1 = FirstPrint + (i + 1) - 1
      BY <2>1, <2>2, <3>2, MatchNumbers
    <3>. QED
      BY <1>1, <3>2, <3>3, <3>4
  <2>3. CASE ~GotFp
    <3>1. fprint' = fprint /\ FirstPrint' = FirstPrint
      BY <2>3, MatchParts, MatchNumbers
    <3>. QED
      BY <1>1, <3>1 DEF Prints
  <2>. QED
    BY <2>2, <2>3
<1>6. Prints'
  BY <1>3, <1>4, <1>5 DEF Prints
<1>. QED
  BY <1>2, <1>6

\* The flit of rule ids at hand, if there is one, goes on from what has been
\* matched, and the rest is on the stream.
LEMMA MatchHand ==
  ASSUME Shape, Match, NEW b, Matched(b)
  PROVE  /\ b \in RidBag
         /\ RidLinks' = RidLinks /\ RidEnd' = RidEnd
         /\ RidOk => \E r : /\ <<<<Len(given), b>>, AtHand, r>> \in RidLinks
                            /\ Path(rids', r, RidEnd, RidLinks)
         /\ ~RidOk => Path(rids', <<Len(given), b>>, RidEnd, RidLinks)
<1>1. UNCHANGED ridsIn
  BY MatchParts
<1>2. RidLinks' = RidLinks /\ RidEnd' = RidEnd
  BY <1>1 DEF RidLinks, RidEnd
<1>3. PICK p : /\ Path(rids, p, RidEnd, RidLinks)
               /\ IF ridValid THEN <<<<Len(given), b>>, ridFlit, p>> \in RidLinks
                              ELSE p = <<Len(given), b>>
  BY DEF Matched, RidEnd
<1>4. CASE GotRid
  <2>1. ~ridValid /\ rids # << >> /\ rids \in Seq(RidFlit)
    BY <1>4 DEF GotRid, Shape
  <2>2. PICK r : <<p, Head(rids), r>> \in RidLinks /\ Path(Tail(rids), r, RidEnd, RidLinks)
    BY <1>3, <2>1, PathTail
  <2>3. rids' = Tail(rids) /\ AtHand = Head(rids) /\ RidOk
    BY <1>4, MatchParts DEF AtHand, RidOk
  <2>. QED
    BY <1>2, <1>3, <2>1, <2>2, <2>3 DEF Matched
<1>5. CASE ~GotRid
  <2>1. rids' = rids /\ AtHand = ridFlit /\ (RidOk <=> ridValid)
    BY <1>5, MatchParts DEF AtHand, RidOk
  <2>. QED
    BY <1>2, <1>3, <2>1 DEF Matched
<1>. QED
  BY <1>4, <1>5

\* What has been given of the packet at hand is what its fingerprint supports of
\* the rule ids matched, also when that fingerprint has just been read.
LEMMA MatchGiven ==
  ASSUME Shape, Match, NEW b, Matched(b), FpOk
  PROVE  given[Len(given)] = Only(b, PrintAtHand)
<1>1. CASE getNextFp
  BY <1>1, OnlyEmpty DEF Matched
<1>2. CASE ~getNextFp
  BY <1>2 DEF Matched, PrintAtHand, GotFp
<1>. QED
  BY <1>1, <1>2

\* The rule ids that it gives on.
LEMMA MatchGives ==
  ASSUME Shape, Match, NEW b, Matched(b), FpOk, RidOk
  PROVE  LET g == Len(given)
         IN  /\ g \in Nat \ {0} /\ g <= Len(given')
             /\ \A i \in 1 .. g - 1 : given'[i] = given[i]
             /\ given'[g] = Only(b (+) SetToBag(AtHand.ids), PrintAtHand)
             /\ AtHand.eop => given'[g + 1] = EmptyBag
<1> DEFINE g == Len(given)
<1>1. /\ given \in Seq(RidBag) /\ given # << >> /\ g \in Nat \ {0}
      /\ b \in RidBag /\ given[g] \in RidBag
  <2>1. given \in Seq(RidBag) /\ given # << >> /\ g \in Nat \ {0}
    BY PacketNumbers DEF Shape
  <2>. QED
    BY <2>1 DEF Matched
<1>2. AtHand.ids \in SUBSET Rids /\ AtHand.eop \in BOOLEAN /\ Kept \in SUBSET Rids
  BY MatchParts DEF RidFlit
<1>3. given[g] (+) SetToBag(Kept) = Only(b (+) SetToBag(AtHand.ids), PrintAtHand)
  <2>1. given[g] = Only(b, PrintAtHand)
    BY MatchGiven
  <2>2. Only(b (+) SetToBag(AtHand.ids), PrintAtHand)
          = Only(b, PrintAtHand) (+) SetToBag({id \in AtHand.ids : Matches(id, PrintAtHand)})
    BY <1>1, <1>2, OnlyAdd
  <2>. QED
    BY <2>1, <2>2 DEF Kept
<1>4. CASE Kept # {} \/ AtHand.eop
  <2>1. given' = Add(given, Kept, AtHand.eop)
    BY <1>4, MatchParts
  <2>2. /\ Len(given') = IF AtHand.eop THEN g + 1 ELSE g
        /\ \A i \in 1 .. g - 1 : given'[i] = given[i]
        /\ given'[g] = given[g] (+) SetToBag(Kept)
        /\ AtHand.eop => given'[g + 1] = EmptyBag
    <3> DEFINE a == Add(given, Kept, AtHand.eop)
    <3>1. /\ Len(a) = IF AtHand.eop THEN g + 1 ELSE g
          /\ \A i \in 1 .. g - 1 : a[i] = given[i]
          /\ a[g] = given[g] (+) SetToBag(Kept)
          /\ AtHand.eop => a[g + 1] = EmptyBag
      BY <1>1, <1>2, AddGrows
    <3>. HIDE DEF a
    <3>. QED
      BY <2>1, <3>1 DEF a
  <2>. QED
    BY <1>1, <1>3, <2>2
<1>5. CASE ~(Kept # {} \/ AtHand.eop)
  <2>1. given' = given /\ ~AtHand.eop /\ Kept = {}
    BY <1>5, MatchParts
  <2>2. given[g] (+) SetToBag(Kept) = given[g]
    <3>1. SetToBag(Kept) = EmptyBag
      BY <2>1 DEF EmptyBag
    <3>. QED
      BY <1>1, <3>1, EmptyRidBag
  <2>. QED
    BY <1>1, <1>3, <2>1, <2>2
<1>. QED
  BY <1>4, <1>5

LEMMA MatchAnswered ==
  ASSUME Shape, Prints, Answered, Match
  PROVE  Answered'
<1> DEFINE g == Len(given)
<1>1. PICK b : Matched(b)
  BY DEF Answered
<1>2. /\ b \in RidBag /\ RidLinks' = RidLinks /\ RidEnd' = RidEnd
      /\ RidOk => \E r : /\ <<<<g, b>>, AtHand, r>> \in RidLinks
                         /\ Path(rids', r, RidEnd, RidLinks)
      /\ ~RidOk => Path(rids', <<g, b>>, RidEnd, RidLinks)
  BY <1>1, MatchHand
<1>3. /\ fpFlit' = PrintAtHand /\ ridFlit' = AtHand /\ ridValid' = (RidOk /\ ~FpOk)
      /\ getNextFp' = (IF FpOk /\ RidOk /\ AtHand.eop THEN TRUE ELSE getNextFp /\ ~GotFp)
      /\ UNCHANGED <<hitsIn, ridsIn>> /\ AtHand \in RidFlit
  BY MatchParts
<1>4. g \in Nat \ {0} /\ Len(ridsIn) \in Nat \ {0} /\ g <= Len(ridsIn)
  BY PacketNumbers DEF Answered
<1>5. Len(given') = IF FpOk /\ RidOk /\ AtHand.eop THEN g + 1 ELSE g
  BY MatchNumbers
<1>6. CASE FpOk /\ RidOk
  <2>0. PICK all : all = b (+) SetToBag(AtHand.ids)
    OBVIOUS
  <2>1. /\ \A i \in 1 .. g - 1 : given'[i] = given[i]
        /\ given'[g] = Only(all, PrintAtHand)
        /\ AtHand.eop => given'[g + 1] = EmptyBag
    BY <1>1, <1>6, <2>0, MatchGives
  <2>2. PICK r : <<<<g, b>>, AtHand, r>> \in RidLinks /\ Path(rids', r, RidEnd, RidLinks)
    BY <1>2, <1>6
  <2>3. IF AtHand.eop THEN g < Len(ridsIn) /\ ridsIn[g] = all /\ r = <<g + 1, EmptyBag>>
                      ELSE r = <<g, all>>
    BY <2>0, <2>2, RidLinkParts
  <2>4. all \in RidBag
    <3>1. AtHand.ids \in SUBSET Rids
      BY <1>3 DEF RidFlit
    <3>. QED
      BY <1>2, <2>0, <3>1, RidBagAdd
  <2>5. ~ridValid' /\ PrintAtHand = hitsIn[g]
    BY <1>3, <1>6, MatchPrint
  <2>6. CASE AtHand.eop
    <3>1. Len(given') = g + 1 /\ getNextFp' /\ given'[g + 1] = EmptyBag
      BY <1>3, <1>5, <1>6, <2>1, <2>6
    <3>2. r = <<Len(given'), EmptyBag>> /\ ridsIn[g] = all /\ g < Len(ridsIn)
      BY <2>3, <2>6, <3>1
    <3>3. Matched(EmptyBag)'
      BY <1>2, <2>2, <2>5, <3>1, <3>2, EmptyRidBag DEF Matched, RidEnd
    <3>4. ASSUME NEW i \in 1 .. Len(given') - 1
          PROVE  given'[i] = Only(ridsIn[i], hitsIn[i])
      <4>1. CASE i \in 1 .. g - 1
        BY <2>1, <4>1 DEF Answered
      <4>2. CASE i = g
        BY <2>1, <2>5, <3>2, <4>2
      <4>. QED
        BY <1>4, <3>1, <4>1, <4>2
    <3>5. Len(given') <= Len(ridsIn)
      BY <1>4, <3>1, <3>2
    <3>. QED
      BY <1>3, <3>3, <3>4, <3>5 DEF Answered
  <2>7. CASE ~AtHand.eop
    <3>1. Len(given') = g /\ r = <<g, all>>
      BY <1>5, <2>3, <2>7
    <3>2. ~getNextFp'
      BY <1>3, <1>6, <2>7 DEF FpOk
    <3>3. Matched(all)'
      BY <1>2, <1>3, <2>1, <2>2, <2>4, <2>5, <3>1, <3>2 DEF Matched, RidEnd
    <3>. QED
      BY <1>3, <1>4, <2>1, <3>1, <3>3 DEF Answered
  <2>. QED
    BY <2>6, <2>7
<1>7. CASE ~(FpOk /\ RidOk)
  <2>1. given' = given
    BY <1>7, MatchParts
  <2>2. IF getNextFp' THEN b = EmptyBag /\ given[g] = EmptyBag
                      ELSE given[g] = Only(b, fpFlit')
    <3>1. CASE FpOk
      <4>1. given[g] = Only(b, PrintAtHand) /\ ~getNextFp'
        BY <1>1, <1>3, <1>7, <3>1, MatchGiven DEF FpOk
      <4>. QED
        BY <1>3, <4>1
    <3>2. CASE ~FpOk
      <4>1. getNextFp /\ ~GotFp
        BY <3>2 DEF FpOk, Prints
      <4>. QED
        BY <1>1, <1>3, <1>7, <4>1 DEF Matched
    <3>. QED
      BY <3>1, <3>2
  <2>3. \E p : /\ Path(rids', p, RidEnd, RidLinks)
               /\ IF ridValid' THEN <<<<g, b>>, AtHand, p>> \in RidLinks
                               ELSE p = <<g, b>>
    <3>1. ridValid' <=> RidOk
      BY <1>3, <1>7
    <3>. QED
      BY <1>2, <3>1
  <2>4. Matched(b)'
    BY <1>2, <1>3, <2>1, <2>2, <2>3 DEF Matched, RidEnd
  <2>. QED
    BY <1>3, <2>1, <2>4 DEF Answered
<1>. QED
  BY <1>6, <1>7

-----------------------------------------------------------------------------
(***************************************************************************)
(* The invariant is kept.                                                  *)
(***************************************************************************)
LEMMA NextIInv == IInv /\ [Next]_vars => IInv'
<1>. SUFFICES ASSUME Shape, Prints, LanesRight, Answered, [Next]_vars
              PROVE  IInv'
  BY DEF IInv
<1>1. Shape'
  BY NextShape
<1>2. ASSUME NEW found \in SUBSET Lanes, NEW last \in BOOLEAN, CheckRead(found, last)
      PROVE  IInv'
  <2>1. UNCHANGED <<rids, ridsIn, matcher, given>>
    BY <1>2 DEF CheckRead
  <2>2. \A i \in 1 .. Len(hitsIn) - 1 : hitsIn'[i] = hitsIn[i]
    BY <1>2, HitsGrow
  <2>. QED
    BY <1>1, <1>2, <2>1, <2>2, CheckReadPrints, CheckReadLanes, OthersAnswered DEF IInv
<1>3. ASSUME NEW l \in Lanes, CheckWrite(l)
      PROVE  IInv'
  <2>1. UNCHANGED <<rids, ridsIn, matcher, given, fprint, hitsIn>>
    BY <1>3 DEF CheckWrite
  <2>2. Prints'
    BY <2>1 DEF Prints, FirstPrint, Gathered, matcher
  <2>. QED
    BY <1>1, <1>3, <2>1, <2>2, CheckWriteLanes, OthersAnswered DEF IInv
<1>4. ASSUME Accumulate
      PROVE  IInv'
  <2>1. UNCHANGED <<rids, ridsIn, matcher, given, hitsIn>>
    BY <1>4 DEF Accumulate
  <2>. QED
    BY <1>1, <1>4, <2>1, AccumulateRight, OthersAnswered DEF IInv
<1>5. ASSUME NEW ids \in SUBSET Rids, NEW last \in BOOLEAN, RidsArrive(ids, last)
      PROVE  IInv'
  <2>1. UNCHANGED <<checker, lane, accum, fprint, matcher, hitsIn, given>>
    BY <1>5 DEF RidsArrive
  <2>2. Gathered' = Gathered /\ Prints'
    BY <2>1 DEF Prints, FirstPrint, Gathered, matcher
  <2>. QED
    BY <1>1, <1>5, <2>1, <2>2, LanesStay, RidsArriveAnswered DEF IInv
<1>6. ASSUME Match
      PROVE  IInv'
  BY <1>1, <1>6, MatchRight, MatchAnswered DEF IInv
<1>7. CASE UNCHANGED vars
  <2>1. UNCHANGED <<checker, lane, accum, fprint, matcher, hitsIn, rids, ridsIn, given>>
    BY <1>7 DEF vars
  <2>2. Gathered' = Gathered /\ Prints'
    BY <2>1 DEF Prints, FirstPrint, Gathered, matcher
  <2>. QED
    BY <1>1, <2>1, <2>2, LanesStay, OthersAnswered DEF IInv
<1>. QED
  BY <1>2, <1>3, <1>4, <1>5, <1>6, <1>7 DEF Next, Check

-----------------------------------------------------------------------------
(***************************************************************************)
(* Theorems.                                                               *)
(***************************************************************************)
LEMMA Invariance == Spec => []IInv
BY InitIInv, NextIInv, PTL DEF Spec

\* Every variable keeps its type; no pipe holds more than its depth, and no more
\* packets are being answered than have begun to arrive.
THEOREM TypeCorrect == Spec => []TypeOK
<1>1. IInv => TypeOK
  BY PacketNumbers DEF IInv, Shape, Answered, TypeOK, RidFlit
<1>. QED
  BY <1>1, Invariance, PTL

\* However the kernels interleave and the pipes fill, a packet's rule ids are
\* measured against the fingerprint of its own payload: what fpMatchStage gives
\* on of a packet is supported by that packet's hits, and nothing that they
\* support is missing once the packet has ended.
THEOREM OwnPrints == Spec => []OwnFingerprint
<1>1. ASSUME IInv, NEW n \in 1 .. Len(given)
      PROVE  /\ given[n] \sqsubseteq Supported(n)
             /\ n < Len(given) => given[n] = Supported(n)
  <2>1. Shape /\ Prints /\ Answered
    BY <1>1 DEF IInv
  <2>2. /\ Len(given) \in Nat \ {0} /\ Len(given) <= Len(ridsIn)
        /\ given \in Seq(RidBag) /\ ridsIn \in Seq(RidBag)
    BY <2>1, PacketNumbers DEF Shape, Answered
  <2>3. Supported(n) = Only(ridsIn[n], hitsIn[n])
    BY DEF Supported, Only, Matches
  <2>4. CASE n < Len(given)
    <3>1. n \in 1 .. Len(given) - 1
      BY <2>2, <2>4
    <3>2. given[n] = Supported(n) /\ given[n] \in RidBag
      BY <2>1, <2>2, <2>3, <3>1 DEF Answered
    <3>. QED
      BY <3>2, BelowItself
  <2>5. CASE n = Len(given)
    <3>1. PICK b : Matched(b)
      BY <2>1 DEF Answered
    <3>2. ridsIn[n] \in RidBag /\ b \in RidBag
      <4>1. n \in 1 .. Len(ridsIn)
        BY <2>2, <2>5
      <4>. QED
        BY <2>2, <3>1, <4>1 DEF Matched
    <3>3. b \sqsubseteq ridsIn[n]
      <4>1. PICK p : /\ Path(rids, p, RidEnd, RidLinks)
                     /\ IF ridValid THEN <<<<n, b>>, ridFlit, p>> \in RidLinks
                                    ELSE p = <<n, b>>
        BY <2>5, <3>1 DEF Matched, RidEnd
      <4>2. CASE ridValid
        BY <4>1, <4>2, RidLinkParts
      <4>3. CASE ~ridValid
        <5>1. rids \in Seq(RidFlit)
          BY <2>1 DEF Shape
        <5>2. <<n, b>> = RidEnd \/ \E f, r : <<<<n, b>>, f, r>> \in RidLinks
          BY <4>1, <4>3, <5>1, PathStart
        <5>3. <<n, b>> = RidEnd => b = ridsIn[n]
          BY DEF RidEnd
        <5>. QED
          BY <3>2, <5>2, <5>3, RidLinkParts, BelowItself
      <4>. QED
        BY <4>2, <4>3
    <3>4. Only(b, hitsIn[n]) \sqsubseteq Supported(n)
      BY <2>3, <3>2, <3>3, OnlyBelow
    <3>5. given[n] = Only(b, hitsIn[n])
      <4>1. CASE getNextFp
        BY <2>5, <3>1, <4>1, OnlyEmpty DEF Matched
      <4>2. CASE ~getNextFp
        BY <2>1, <2>5, <3>1, <4>2 DEF Matched, Prints
      <4>. QED
        BY <4>1, <4>2
    <3>. QED
      BY <2>2, <2>5, <3>4, <3>5
  <2>. QED
    BY <2>2, <2>4, <2>5
<1>2. IInv => OwnFingerprint
  BY <1>1 DEF OwnFingerprint
<1>. QED
  BY <1>2, Invariance, PTL
=============================================================================
