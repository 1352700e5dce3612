-------------------------- MODULE PayloadInput_proofs --------------------------
(***************************************************************************)
(* Proofs about PayloadInput for every buffer, word size, depth and        *)
(* throttle: the flits come off the link in the order of the buffer, none  *)
(* lost or repeated and with the right ends of packet, and the two counts  *)
(* of packets agree.                                                       *)
(***************************************************************************)
EXTENDS PayloadInput, Integers, SequenceTheorems, FiniteSetTheorems,
        WellFoundedInduction, TLAPS

-----------------------------------------------------------------------------
(***************************************************************************)
(* The inductive invariant, in layers: each is preserved on the strength   *)
(* of itself and of the ones before it.                                    *)
(***************************************************************************)
\* The types, but for the bounds of the two counts.
Shape ==
  /\ newlines \in Newlines
  /\ word \in 1 .. Words + 1 /\ half \in {"split", "main", "count"}
  /\ half # "split" => word <= Words
  /\ main \in Seq(Flit) /\ Len(main) <= Depth
  /\ split \in Seq(Flit) /\ Len(split) <= Depth
  /\ merged \in Seq(Flit) /\ Len(merged) <= Depth
  /\ wire \in Seq(Flit) /\ Len(wire) <= Depth
  /\ flits \in Seq(Flit) /\ Len(flits) <= Depth
  /\ wPack \in [{0, 1} -> Flit] /\ wasSwitchPipe \in BOOLEAN
  /\ held \in Flit /\ got \in Flit
  /\ period \in 0 .. Period - 1 /\ sent \in 0 .. Period /\ allowed \in 0 .. Period
  /\ inFrame \in 0 .. FrameFlits - 1 /\ throttle \in Throttles /\ frameOpen \in BOOLEAN

\* The two flits a word is cut into.
Front(w) == [lo |-> First(w), hi |-> Cut(w), eop |-> Ends(w) # {},
             switchPipe |-> Rest(w), hasQuote |-> InLastBurst(w)]
Back(w)  == [None EXCEPT !.lo = Cut(w) + 1, !.hi = Last(w)]

\* The words whose front, and whose rest if it has one, the reader has written,
\* and the words whose front the merger has passed on.
FrontsRead   == IF half = "count" THEN word ELSE word - 1
BacksRead    == IF half = "split" THEN word - 1 ELSE word
FrontsMerged == FrontsRead - Len(main) - (IF wPack[0] = None THEN 0 ELSE 1)

\* The main stream, and the register before it, hold the fronts of the words up
\* to the last one read, and a rest is due only behind the front it belongs to.
Fronts ==
  /\ FrontsMerged >= 0
  /\ \A i \in 1 .. Len(main) : main[i] = Front((FrontsRead - Len(main)) + i)
  /\ wPack[0] # None => wPack[0] = Front(FrontsRead - Len(main))
  /\ wasSwitchPipe => FrontsMerged > 0 /\ Rest(FrontsMerged)

\* A flit of some word, on which the end of packet can be seen at its last byte,
\* which is then the last newline of the word.
Piece == {f \in Flit :
            /\ f.lo <= f.hi
            /\ \E w \in 1 .. Words : /\ First(w) <= f.lo /\ f.hi <= Last(w)
                                     /\ f.hi \in newlines => f.hi = Cut(w)
            /\ \A q \in newlines : f.lo <= q /\ q <= f.hi => f.hi \in newlines}

\* Which flit may follow a flit that ends at a place: on the way to the host's
\* stage, the next bytes; on the stream of the rests, the next rest there is.
NextBytes == {l \in Places \X Piece : l[2].lo = l[1] + 1}
NextBack  == {l \in Places \X Flit :
                \E w \in 1 .. Words :
                  /\ Rest(w) /\ l[2] = Back(w) /\ l[1] < Last(w)
                  /\ \A v \in 1 .. Words : l[1] < Last(v) /\ v < w => ~Rest(v)}

\* The last place of a stream that starts behind place p, and that its flits,
\* from p on, follow each other.
EndOf(s, p)    == IF s = << >> THEN p ELSE s[Len(s)].hi
Chain(s, p, L) == \A i \in 1 .. Len(s) : <<IF i = 1 THEN p ELSE s[i - 1].hi, s[i]>> \in L

\* The last place whose rest the merger is done with, and the last one before
\* the stream of rests.
BackMerged == IF wasSwitchPipe THEN Last(FrontsMerged - 1) ELSE Last(FrontsMerged)
BackTaken  == IF wPack[1] = None THEN BackMerged ELSE wPack[1].hi

\* The rests are on their stream in order and none is missing.
Backs ==
  /\ wPack[1] # None => <<BackMerged, wPack[1]>> \in NextBack
  /\ Chain(split, BackTaken, NextBack)
  /\ EndOf(split, BackTaken) <= Last(BacksRead)
  /\ \A w \in 1 .. BacksRead : EndOf(split, BackTaken) < Last(w) => ~Rest(w)

\* The last byte that the merger has written, and the last ones behind the
\* streams that follow it.
LastMerged == IF wasSwitchPipe THEN Cut(FrontsMerged) ELSE Last(FrontsMerged)
AtFlits == EndOf(flits, got.hi)
AtWire  == EndOf(wire, AtFlits)
AtHeld  == IF held = None THEN AtWire ELSE held.hi

\* What the merger has written is on its way in the buffer's order.
Line ==
  /\ Chain(flits, got.hi, NextBytes)
  /\ Chain(wire, AtFlits, NextBytes)
  /\ held # None => <<AtWire, held>> \in NextBytes
  /\ Chain(merged, AtHeld, NextBytes)
  /\ EndOf(merged, AtHeld) = LastMerged
  /\ \A i \in 1 .. Len(flits) : flits[i].eop <=> flits[i].hi \in newlines

\* The words with a newline that the reader has counted, and the ones whose
\* last newline has come off the link.
WordsCounted == {w \in 1 .. Words : w < word /\ Ends(w) # {}}
WordsSeen    == {w \in 1 .. Words : Ends(w) # {} /\ Cut(w) <= got.hi}

Counts == /\ payloadCount = Cardinality(WordsCounted)
          /\ packets = Cardinality(WordsSeen)

-----------------------------------------------------------------------------
(***************************************************************************)
(* Places of words, and where a word is cut.                               *)
(***************************************************************************)
\* Words are next to each other, and as long as each other.
LEMMA PlacesOfWords ==
  /\ \A w \in Nat : Last(w) \in Nat /\ First(w) \in Int /\ First(w) = Last(w) - Word + 1
  /\ \A w \in Nat : First(w + 1) = Last(w) + 1
  /\ Last(0) = 0 /\ Last(Words) = Words * Word
  /\ \A v, w \in Nat : v < w => Last(v) < First(w)
  /\ \A v, w \in Nat : v <= w => Last(v) <= Last(w)
<1>1. Word \in Nat /\ Word > 0 /\ Words \in Nat
  BY PayloadInputAssumption
<1>2. ASSUME NEW w \in Nat
      PROVE  /\ Last(w) \in Nat /\ First(w) \in Int /\ First(w) = Last(w) - Word + 1
             /\ First(w + 1) = Last(w) + 1
  <2>1. w * Word \in Nat
    BY <1>1
  <2>2. (w - 1) * Word = w * Word - Word
    BY <1>1
  <2>3. (w + 1) - 1 = w
    OBVIOUS
  <2>. QED
    BY <1>1, <2>1, <2>2, <2>3 DEF First, Last
<1>3. ASSUME NEW v \in Nat, NEW w \in Nat, v <= w
      PROVE  v * Word <= w * Word
  <2>1. PICK k \in Nat : w = v + k
    <3>1. w - v \in Nat /\ w = v + (w - v)
      BY <1>3
    <3>. QED
      BY <3>1
  <2>2. (v + k) * Word = v * Word + k * Word
    BY <1>1
  <2>3. k * Word \in Nat /\ v * Word \in Nat
    BY <1>1
  <2>. QED
    BY <2>1, <2>2, <2>3
<1>4. ASSUME NEW v \in Nat, NEW w \in Nat, v < w
      PROVE  Last(v) < First(w)
  <2>1. w - 1 \in Nat /\ v <= w - 1
    BY <1>4
  <2>2. v * Word <= (w - 1) * Word
    BY <1>3, <2>1
  <2>3. v * Word \in Nat /\ (w - 1) * Word \in Nat
    BY <1>1, <2>1
  <2>. QED
    BY <2>2, <2>3 DEF First, Last
<1>5. Last(0) = 0 /\ Last(Words) = Words * Word
  BY <1>1 DEF Last
<1>. QED
  BY <1>2, <1>3, <1>4, <1>5 DEF Last

\* The last newline of a word exists.
LEMMA LastOfNaturals ==
  ASSUME NEW S \in SUBSET Nat, NEW n \in Nat, \A s \in S : s <= n, S # {}
  PROVE  Max(S) \in S /\ \A s \in S : s <= Max(S)
<1> DEFINE T == {k \in Nat : \E s \in S : k = n - s}
<1>1. T \subseteq Nat /\ T # {}
  <2>1. PICK s \in S : TRUE
    OBVIOUS
  <2>2. n - s \in T
    BY <2>1
  <2>. QED
    BY <2>2
<1>2. PICK x \in T : \A y \in T : <<y, x>> \notin OpToRel(<, Nat)
  BY <1>1, NatLessThanWellFounded, WFMin
<1>3. PICK m \in S : x = n - m
  BY <1>2
<1>4. ASSUME NEW s \in S PROVE m >= s
  <2>1. s \in Nat /\ s <= n
    OBVIOUS
  <2>2. n - s \in Nat
    BY <2>1
  <2>3. n - s \in T /\ x \in Nat
    BY <1>2, <2>2
  <2>4. ~ (n - s < x)
    BY <1>2, <2>2, <2>3 DEF OpToRel
  <2>. QED
    BY <1>3, <2>1, <2>4
<1>5. /\ Max(S) \in S
      /\ \A y \in S : Max(S) >= y
  BY <1>3, <1>4 DEF Max
<1>. QED
  BY <1>5

\* A word is cut at its last byte or at its last newline.
LEMMA WhereCut ==
  ASSUME Shape, NEW w \in 1 .. Words
  PROVE  /\ First(w) \in Nat /\ First(w) > 0 /\ Last(w) \in Nat /\ First(w) <= Last(w)
         /\ Last(w) <= Words * Word /\ Words * Word \in Nat
         /\ Cut(w) \in Nat /\ First(w) <= Cut(w) /\ Cut(w) <= Last(w)
         /\ Ends(w) # {} => Cut(w) \in newlines
         /\ Ends(w) = {} => Cut(w) = Last(w)
         /\ \A q \in newlines : First(w) <= q /\ q <= Last(w)
                                  => Ends(w) # {} /\ q <= Cut(w)
<1>1. Word \in Nat /\ Word > 0 /\ Words \in Nat /\ Words * Word \in Nat
  BY PayloadInputAssumption
<1>2. w \in Nat /\ w - 1 \in Nat /\ w <= Words /\ (w - 1) + 1 = w
  BY <1>1
<1>3. /\ First(w) \in Int /\ Last(w) \in Nat /\ First(w) = Last(w) - Word + 1
      /\ First(w) = Last(w - 1) + 1 /\ Last(w - 1) \in Nat
      /\ Last(w) <= Words * Word
  BY <1>1, <1>2, PlacesOfWords
<1>4. newlines \in SUBSET (1 .. Words * Word)
  BY PayloadInputAssumption DEF Shape
<1>5. newlines \subseteq Nat
  BY <1>1, <1>4
<1>6. /\ \A q \in newlines : First(w) <= q /\ q <= Last(w) => q \in Ends(w)
      /\ \A q \in Ends(w) : q \in newlines /\ q \in Nat /\ First(w) <= q /\ q <= Last(w)
  <2>1. ASSUME NEW q \in newlines, First(w) <= q, q <= Last(w)
        PROVE  q \in Ends(w)
    <3>1. q \in First(w) .. Last(w)
      BY <1>3, <1>5, <2>1
    <3>. QED
      BY <3>1 DEF Ends
  <2>2. ASSUME NEW q \in Ends(w)
        PROVE  q \in newlines /\ q \in Nat /\ First(w) <= q /\ q <= Last(w)
    <3>1. q \in newlines /\ q \in First(w) .. Last(w)
      BY DEF Ends
    <3>. QED
      BY <1>3, <1>5, <3>1
  <2>. QED
    BY <2>1, <2>2
<1>7. CASE Ends(w) = {}
  BY <1>1, <1>3, <1>6, <1>7 DEF Cut
<1>8. CASE Ends(w) # {}
  <2>1. Max(Ends(w)) \in Ends(w) /\ \A s \in Ends(w) : s <= Max(Ends(w))
    <3>1. Ends(w) \in SUBSET Nat /\ \A s \in Ends(w) : s <= Last(w)
      BY <1>5, <1>6
    <3>. QED
      BY <1>3, <1>8, <3>1, LastOfNaturals
  <2>2. Cut(w) = Max(Ends(w))
    BY <1>8 DEF Cut
  <2>. QED
    BY <1>1, <1>3, <1>6, <1>8, <2>1, <2>2
<1>. QED
  BY <1>7, <1>8

\* None is a flit, but no piece of a word.
LEMMA NoneIsNone ==
  /\ None \in Flit /\ None \notin Piece /\ None.lo = 1 /\ None.hi = 0
<1>1. Words * Word \in Nat
  BY PayloadInputAssumption
<1>. QED
  BY <1>1 DEF None, Flit, Piece, Places

\* The two flits of a word are pieces of it, and a piece is not None.
LEMMA FlitsOfWord ==
  ASSUME Shape, NEW w \in 1 .. Words
  PROVE  /\ Front(w) \in Piece /\ Front(w).lo = First(w) /\ Front(w).hi = Cut(w)
         /\ Front(w).switchPipe = Rest(w) /\ Front(w) # None
         /\ Rest(w) => /\ Back(w) \in Piece /\ Back(w).lo = Cut(w) + 1
                       /\ Back(w).hi = Last(w) /\ Back(w) # None
                       /\ Back(w).switchPipe = FALSE
<1>1. /\ First(w) \in Nat /\ First(w) > 0 /\ Last(w) \in Nat /\ First(w) <= Last(w)
      /\ Last(w) <= Words * Word /\ Words * Word \in Nat
      /\ Cut(w) \in Nat /\ First(w) <= Cut(w) /\ Cut(w) <= Last(w)
      /\ Ends(w) # {} => Cut(w) \in newlines
      /\ \A q \in newlines : First(w) <= q /\ q <= Last(w)
                               => Ends(w) # {} /\ q <= Cut(w)
  BY WhereCut
<1>2. newlines \subseteq Nat
  BY <1>1, PayloadInputAssumption DEF Shape
<1>3. /\ Front(w).lo = First(w) /\ Front(w).hi = Cut(w)
      /\ Front(w).switchPipe = Rest(w)
  BY DEF Front
<1>4. Front(w) \in Flit
  <2>1. (Ends(w) # {}) \in BOOLEAN /\ Rest(w) \in BOOLEAN /\ InLastBurst(w) \in BOOLEAN
    BY DEF Rest, InLastBurst
  <2>2. First(w) \in 1 .. Words * Word + 1 /\ Cut(w) \in Places
    BY <1>1 DEF Places
  <2>. QED
    BY <2>1, <2>2 DEF Front, Flit
<1>5. Front(w) \in Piece
  <2>1. ASSUME NEW q \in newlines, First(w) <= q, q <= Cut(w)
        PROVE  Cut(w) \in newlines
    BY <1>1, <1>2, <2>1
  <2>. QED
    BY <1>1, <1>3, <1>4, <2>1 DEF Piece
<1>6. ASSUME Rest(w)
      PROVE  /\ Back(w) \in Piece /\ Back(w).lo = Cut(w) + 1
             /\ Back(w).hi = Last(w) /\ Back(w) # None
             /\ Back(w).switchPipe = FALSE
  <2>1. Cut(w) < Last(w)
    BY <1>1, <1>6 DEF Rest
  <2>2. /\ Back(w).lo = Cut(w) + 1 /\ Back(w).hi = Last(w)
        /\ Back(w).switchPipe = FALSE
    BY DEF Back, None
  <2>3. Back(w) \in Flit
    <3>1. Cut(w) + 1 \in 1 .. Words * Word + 1 /\ Last(w) \in Places
      BY <1>1 DEF Places
    <3>. QED
      BY <3>1 DEF Back, None, Flit
  <2>4. ASSUME NEW q \in newlines, Cut(w) + 1 <= q, q <= Last(w)
        PROVE  FALSE
    BY <1>1, <1>2, <2>4
  <2>5. Last(w) \notin newlines
    BY <1>1, <2>1
  <2>6. Back(w) \in Piece
    BY <1>1, <2>1, <2>2, <2>3, <2>4, <2>5 DEF Piece
  <2>. QED
    BY <2>2, <2>6, NoneIsNone
<1>. QED
  BY <1>3, <1>5, <1>6, NoneIsNone

-----------------------------------------------------------------------------
(***************************************************************************)
(* Streams whose flits follow each other.                                  *)
(***************************************************************************)
\* A write to the end of a chain.
LEMMA ChainAppend ==
  ASSUME NEW s \in Seq(Flit), NEW f \in Flit, NEW p, NEW L,
         Chain(s, p, L), <<EndOf(s, p), f>> \in L
  PROVE  Chain(Append(s, f), p, L) /\ EndOf(Append(s, f), p) = f.hi
<1> DEFINE t == Append(s, f)
<1>1. /\ Len(s) \in Nat /\ Len(t) = Len(s) + 1 /\ t[Len(t)] = f /\ t # << >>
      /\ \A i \in 1 .. Len(s) : t[i] = s[i]
      /\ s = << >> <=> Len(s) = 0
  OBVIOUS
<1>2. ASSUME NEW i \in 1 .. Len(t)
      PROVE  <<IF i = 1 THEN p ELSE t[i - 1].hi, t[i]>> \in L
  <2>1. CASE i <= Len(s)
    <3>1. i \in 1 .. Len(s) /\ t[i] = s[i] /\ (i # 1 => t[i - 1] = s[i - 1])
      BY <1>1, <2>1
    <3>2. <<IF i = 1 THEN p ELSE s[i - 1].hi, s[i]>> \in L
      BY <3>1 DEF Chain
    <3>. QED
      BY <3>1, <3>2
  <2>2. CASE i = Len(s) + 1
    <3>1. t[i] = f /\ (i # 1 => t[i - 1] = s[Len(s)])
      BY <1>1, <2>2
    <3>2. EndOf(s, p) = IF i = 1 THEN p ELSE s[Len(s)].hi
      BY <1>1, <2>2 DEF EndOf
    <3>. QED
      BY <3>1, <3>2
  <2>3. i <= Len(s) \/ i = Len(s) + 1
    BY <1>1
  <2>. QED
    BY <2>1, <2>2, <2>3
<1>3. EndOf(t, p) = f.hi
  BY <1>1 DEF EndOf
<1>. QED
  BY <1>2, <1>3 DEF Chain

\* A read from the front of a chain.
LEMMA ChainTail ==
  ASSUME NEW s \in Seq(Flit), s # << >>, NEW p, NEW L, Chain(s, p, L)
  PROVE  /\ Head(s) \in Flit /\ Tail(s) \in Seq(Flit)
         /\ Len(Tail(s)) = Len(s) - 1 /\ Len(s) \in Nat \ {0}
         /\ Head(s) = s[1] /\ \A i \in 1 .. Len(s) - 1 : Tail(s)[i] = s[i + 1]
         /\ <<p, Head(s)>> \in L
         /\ Chain(Tail(s), Head(s).hi, L)
         /\ EndOf(Tail(s), Head(s).hi) = EndOf(s, p)
<1> DEFINE t == Tail(s)
<1>1. /\ Head(s) \in Flit /\ t \in Seq(Flit)
      /\ Len(t) = Len(s) - 1 /\ Len(s) \in Nat \ {0} /\ Head(s) = s[1]
      /\ \A i \in 1 .. Len(s) - 1 : t[i] = s[i + 1]
  OBVIOUS
<1>2. <<p, s[1]>> \in L
  <2>1. 1 \in 1 .. Len(s)
    BY <1>1
  <2>. QED
    BY <2>1 DEF Chain
<1>3. ASSUME NEW i \in 1 .. Len(t)
      PROVE  <<IF i = 1 THEN s[1].hi ELSE t[i - 1].hi, t[i]>> \in L
  <2>1. /\ i + 1 \in 1 .. Len(s) /\ i + 1 # 1 /\ (i + 1) - 1 = i
        /\ t[i] = s[i + 1] /\ (i # 1 => t[i - 1] = s[i])
    BY <1>1
  <2>2. <<s[i].hi, s[i + 1]>> \in L
    BY <2>1 DEF Chain
  <2>. QED
    BY <2>1, <2>2
<1>4. EndOf(t, s[1].hi) = s[Len(s)].hi
  <2>1. t = << >> <=> Len(s) = 1
    <3>1. \A u \in Seq(Flit) : u = << >> <=> Len(u) = 0
      OBVIOUS
    <3>. HIDE DEF t
    <3>2. t = << >> <=> Len(t) = 0
      BY <1>1, <3>1
    <3>. QED
      BY <1>1, <3>2
  <2>2. CASE Len(s) = 1
    BY <2>1, <2>2 DEF EndOf
  <2>3. CASE Len(s) # 1
    <3>1. Len(t) \in 1 .. Len(s) - 1 /\ Len(t) + 1 = Len(s)
      BY <1>1, <2>3
    <3>. QED
      BY <1>1, <2>1, <2>3, <3>1 DEF EndOf
  <2>. QED
    BY <2>2, <2>3
<1>. QED
  BY <1>1, <1>2, <1>3, <1>4 DEF Chain, EndOf

\* The last place of a stream is one of its flits' or the place before it.
LEMMA EndOfPlace ==
  ASSUME NEW s \in Seq(Flit), NEW p \in Places
  PROVE  EndOf(s, p) \in Places
<1>1. CASE s = << >>
  BY <1>1 DEF EndOf
<1>2. CASE s # << >>
  <2>1. Len(s) \in 1 .. Len(s)
    BY <1>2
  <2>2. s[Len(s)] \in Flit
    BY <2>1
  <2>. QED
    BY <1>2, <2>2 DEF EndOf, Flit
<1>. QED
  BY <1>1, <1>2

\* A flit that may follow is a flit, and no None.
LEMMA Links ==
  /\ \A p, f : <<p, f>> \in NextBytes =>
       f \in Piece /\ f \in Flit /\ f # None /\ f.lo = p + 1
  /\ \A p \in Places : \A f \in Piece : f.lo = p + 1 => <<p, f>> \in NextBytes
<1>1. \A p, f : <<p, f>> \in NextBytes => p \in Places /\ f \in Piece /\ f.lo = p + 1
  BY DEF NextBytes
<1>2. Piece \subseteq Flit
  BY DEF Piece
<1>3. \A p \in Places : \A f \in Piece : f.lo = p + 1 => <<p, f>> \in NextBytes
  BY DEF NextBytes
<1>. QED
  BY <1>1, <1>2, <1>3, NoneIsNone

\* The buffer does not change, and with it nothing that is said of its words.
LEMMA BufferStays ==
  ASSUME newlines' = newlines
  PROVE  /\ \A w : /\ Ends(w)' = Ends(w) /\ Cut(w)' = Cut(w) /\ Rest(w)' = Rest(w)
                   /\ Front(w)' = Front(w) /\ Back(w)' = Back(w)
         /\ Piece' = Piece /\ NextBytes' = NextBytes /\ NextBack' = NextBack
<1>1. \A w : Ends(w)' = Ends(w)
  BY DEF Ends
<1>2. \A w : Cut(w)' = Cut(w)
  BY <1>1 DEF Cut
<1>3. \A w : Rest(w)' = Rest(w)
  BY <1>2 DEF Rest
<1>4. \A w : Front(w)' = Front(w)
  BY <1>1, <1>2, <1>3 DEF Front
<1>5. \A w : Back(w)' = Back(w)
  BY <1>2 DEF Back
<1>6. Piece' = Piece
  BY <1>2 DEF Piece
<1>7. NextBytes' = NextBytes
  BY <1>6 DEF NextBytes
<1>8. NextBack' = NextBack
  BY <1>3, <1>5 DEF NextBack
<1>. QED
  BY <1>1, <1>2, <1>3, <1>4, <1>5, <1>6, <1>7, <1>8

LEMMA BufferFixed == Next => newlines' = newlines
BY DEF Next, Reader, ReadRest, ReadFront, ReadCount, Merge, SendCycle, ReceiveFlit,
       TakeFlit, reader

-----------------------------------------------------------------------------
(***************************************************************************)
(* Shape.                                                                  *)
(***************************************************************************)
LEMMA InitShape == Init => Shape
<1>. SUFFICES ASSUME Init PROVE Shape
  OBVIOUS
<1>1. << >> \in Seq(Flit) /\ Len(<< >>) = 0
  OBVIOUS
<1>2. /\ wPack \in [{0, 1} -> Flit] /\ held \in Flit /\ got \in Flit
  BY NoneIsNone DEF Init
<1>3. /\ Word \in Nat /\ Words \in Nat \ {0} /\ Period \in Nat \ {0}
      /\ FrameFlits \in Nat \ {0} /\ Depth \in Nat \ {0}
  BY PayloadInputAssumption
<1>. QED
  BY <1>1, <1>2, <1>3 DEF Init, Shape

\* What Merge finds in its registers once they are filled: due on the main
\* stream, and on the stream of the rests.
Taken0 == IF wPack[0] = None /\ main # << >> THEN Head(main) ELSE wPack[0]
Taken1 == IF wPack[1] = None /\ split # << >> THEN Head(split) ELSE wPack[1]

\* The two outcomes of Merge.
MergeReads ==
  /\ main'  = IF wPack[0] = None /\ main # << >> THEN Tail(main) ELSE main
  /\ split' = IF wPack[1] = None /\ split # << >> THEN Tail(split) ELSE split
  /\ UNCHANGED <<reader, wire, flits, sender, got, packets>>

MergesFront == /\ MergeReads /\ ~wasSwitchPipe /\ Taken0 # None /\ Room(merged)
               /\ merged' = Append(merged, Taken0)
               /\ wPack' = [i \in {0, 1} |-> IF i = 0 THEN None ELSE Taken1]
               /\ wasSwitchPipe' = Taken0.switchPipe
MergesBack  == /\ MergeReads /\ wasSwitchPipe /\ Taken1 # None /\ Room(merged)
               /\ merged' = Append(merged, Taken1)
               /\ wPack' = [i \in {0, 1} |-> IF i = 1 THEN None ELSE Taken0]
               /\ wasSwitchPipe' = FALSE
MergesNone  == /\ MergeReads /\ (IF wasSwitchPipe THEN Taken1 ELSE Taken0) = None
               /\ wPack' = [i \in {0, 1} |-> IF i = 0 THEN Taken0 ELSE Taken1]
               /\ UNCHANGED <<merged, wasSwitchPipe>>

LEMMA TakenShape ==
  ASSUME Shape
  PROVE  Taken0 \in Flit /\ Taken1 \in Flit
BY NoneIsNone DEF Shape, Taken0, Taken1

LEMMA MergeCases ==
  ASSUME Shape, Merge
  PROVE  MergesFront \/ MergesBack \/ MergesNone
<1> DEFINE pack == [i \in {0, 1} |->
                      LET s == IF i = 0 THEN main ELSE split
                      IN  IF wPack[i] = None /\ s # << >> THEN Head(s) ELSE wPack[i]]
           due  == IF wasSwitchPipe THEN 1 ELSE 0
<1>1. pack[0] = Taken0 /\ pack[1] = Taken1
  BY DEF Taken0, Taken1
<1>2. pack = [i \in {0, 1} |-> IF i = 0 THEN Taken0 ELSE Taken1]
  BY DEF Taken0, Taken1
<1>3. due \in {0, 1} /\ pack[due] = IF wasSwitchPipe THEN Taken1 ELSE Taken0
  BY <1>1
<1>4. MergeReads
  BY DEF Merge, MergeReads
<1>5. \/ /\ pack[due] # None /\ Room(merged)
         /\ merged' = Append(merged, pack[due])
         /\ wPack' = [pack EXCEPT ![due] = None]
         /\ wasSwitchPipe' = (due = 0 /\ pack[due].switchPipe)
      \/ /\ pack[due] = None
         /\ wPack' = pack
         /\ UNCHANGED <<merged, wasSwitchPipe>>
  BY DEF Merge, Due
<1>6. wasSwitchPipe \in BOOLEAN
  BY DEF Shape
<1>7. CASE pack[due] = None
  BY <1>2, <1>3, <1>4, <1>5, <1>7 DEF MergesNone
<1>8. CASE pack[due] # None /\ wasSwitchPipe
  <2>1. [pack EXCEPT ![due] = None] = [i \in {0, 1} |-> IF i = 1 THEN None ELSE Taken0]
    BY <1>2, <1>8
  <2>. QED
    BY <1>3, <1>4, <1>5, <1>8, <2>1 DEF MergesBack
<1>9. CASE pack[due] # None /\ ~wasSwitchPipe
  <2>1. [pack EXCEPT ![due] = None] = [i \in {0, 1} |-> IF i = 0 THEN None ELSE Taken1]
    BY <1>2, <1>9
  <2>2. wasSwitchPipe' = pack[due].switchPipe
    <3> DEFINE out == pack[due]
               e   == out.switchPipe
    <3>1. out = Taken0
      BY <1>3, <1>9
    <3>2. e \in BOOLEAN
      BY <3>1, TakenShape DEF Flit
    <3>3. wasSwitchPipe' = (due = 0 /\ e)
      BY <1>5, <1>9
    <3>4. due = 0
      BY <1>9
    <3>. HIDE DEF e, due
    <3>5. wasSwitchPipe' = e
      BY <3>2, <3>3, <3>4
    <3>. QED
      BY <3>5 DEF e
  <2>. QED
    BY <1>3, <1>4, <1>5, <1>9, <2>1, <2>2 DEF MergesFront
<1>. QED
  BY <1>6, <1>7, <1>8, <1>9

\* What reads and writes keep of a stream.
LEMMA StreamTypes ==
  ASSUME NEW s \in Seq(Flit), Len(s) <= Depth
  PROVE  /\ s # << >> => Head(s) \in Flit /\ Tail(s) \in Seq(Flit) /\ Len(Tail(s)) <= Depth
         /\ \A f \in Flit : Room(s) =>
              Append(s, f) \in Seq(Flit) /\ Len(Append(s, f)) <= Depth
<1>1. Depth \in Nat /\ Len(s) \in Nat
  BY PayloadInputAssumption
<1>2. s # << >> => Head(s) \in Flit /\ Tail(s) \in Seq(Flit) /\ Len(Tail(s)) = Len(s) - 1
  OBVIOUS
<1>3. \A f \in Flit : Append(s, f) \in Seq(Flit) /\ Len(Append(s, f)) = Len(s) + 1
  OBVIOUS
<1>. QED
  BY <1>1, <1>2, <1>3 DEF Room

LEMMA NextShape ==
  ASSUME Shape, [Next]_vars
  PROVE  Shape'
<1>1. /\ Word \in Nat /\ Words \in Nat \ {0} /\ Period \in Nat \ {0}
      /\ FrameFlits \in Nat \ {0} /\ Throttles \subseteq 0 .. Period
  BY PayloadInputAssumption
<1>2. CASE ReadRest
  <2>1. Rest(word) => /\ Room(split)
                      /\ split' = Append(split, Back(word)) /\ Back(word) \in Flit
    <3>1. word \in 1 .. Words /\ Piece \subseteq Flit
      BY <1>1, <1>2 DEF ReadRest, Shape, Piece
    <3>2. Rest(word) => Back(word) \in Flit
      BY <3>1, FlitsOfWord
    <3>. QED
      BY <1>2, <3>2 DEF ReadRest, Back
  <2>2. split' \in Seq(Flit) /\ Len(split') <= Depth
    BY <1>2, <2>1, StreamTypes DEF ReadRest, Shape
  <2>. QED
    BY <1>2, <2>2 DEF ReadRest, Shape, merger, sender
<1>3. CASE ReadFront
  <2>1. main' = Append(main, Front(word)) /\ Front(word) \in Flit /\ Room(main)
    <3>1. word \in 1 .. Words /\ Piece \subseteq Flit
      BY <1>1, <1>3 DEF ReadFront, Shape, Piece
    <3>2. Front(word) \in Flit
      BY <3>1, FlitsOfWord
    <3>. QED
      BY <1>3, <3>2 DEF ReadFront, Front
  <2>2. main' \in Seq(Flit) /\ Len(main') <= Depth
    BY <2>1, StreamTypes DEF Shape
  <2>. QED
    BY <1>3, <2>2 DEF ReadFront, Shape, merger, sender
<1>4. CASE ReadCount
  <2>1. word' \in 1 .. Words + 1 /\ half' = "split"
    BY <1>1, <1>4 DEF ReadCount, Shape
  <2>. QED
    BY <1>4, <2>1 DEF ReadCount, Shape, merger, sender
<1>5. CASE Merge
  <2>1. /\ main' \in Seq(Flit) /\ Len(main') <= Depth
        /\ split' \in Seq(Flit) /\ Len(split') <= Depth
    BY <1>5, StreamTypes DEF Merge, Shape
  <2>2. Taken0 \in Flit /\ Taken1 \in Flit /\ Taken0.switchPipe \in BOOLEAN
    BY TakenShape DEF Flit
  <2>3. /\ merged' \in Seq(Flit) /\ Len(merged') <= Depth
        /\ wPack' \in [{0, 1} -> Flit] /\ wasSwitchPipe' \in BOOLEAN
    <3>1. MergesFront \/ MergesBack \/ MergesNone
      BY <1>5, MergeCases
    <3>2. CASE MergesFront
      BY <2>2, <3>2, StreamTypes, NoneIsNone DEF MergesFront, Shape
    <3>3. CASE MergesBack
      BY <2>2, <3>3, StreamTypes, NoneIsNone DEF MergesBack, Shape
    <3>4. CASE MergesNone
      BY <2>2, <3>4 DEF MergesNone, Shape
    <3>. QED
      BY <3>1, <3>2, <3>3, <3>4
  <2>. QED
    BY <1>5, <2>1, <2>3 DEF Merge, Shape, reader, sender
<1>6. CASE SendCycle
  <2> DEFINE pack  == IF held = None /\ merged # << >> THEN Head(merged) ELSE held
             next  == (inFrame + 1) % FrameFlits
             sends == pack # None /\ sent < allowed /\ Room(wire)
             tick  == (period + 1) % Period
  <2>1. pack \in Flit /\ merged' \in Seq(Flit) /\ Len(merged') <= Depth
    BY <1>6, StreamTypes DEF SendCycle, Shape
  <2>2. wire' \in Seq(Flit) /\ Len(wire') <= Depth /\ held' \in Flit
    BY <1>6, <2>1, StreamTypes, NoneIsNone DEF SendCycle, Shape
  <2>3. tick \in 0 .. Period - 1 /\ next \in 0 .. FrameFlits - 1
    BY <1>1 DEF Shape
  <2>4. period' = tick /\ inFrame' \in 0 .. FrameFlits - 1
    BY <1>6, <2>3 DEF SendCycle, Shape
  <2>5. sent' \in 0 .. Period
    <3>1. CASE sends
      <4>1. sent + 1 \in 0 .. Period
        BY <1>1, <3>1 DEF Shape
      <4>2. sent' = SentAfter(sent + 1, tick)
        BY <1>6, <3>1 DEF SendCycle
      <4>. QED
        BY <1>1, <4>1, <4>2 DEF SentAfter
    <3>2. CASE ~sends
      <4>1. sent' = SentAfter(sent, tick)
        BY <1>6, <3>2 DEF SendCycle
      <4>. QED
        BY <1>1, <4>1 DEF SentAfter, Shape
    <3>. QED
      BY <3>1, <3>2
  <2>6. allowed' \in 0 .. Period /\ throttle' \in Throttles
    BY <1>1, <1>6 DEF SendCycle, Shape
  <2>7. frameOpen' \in BOOLEAN
    BY <1>6 DEF SendCycle, Shape
  <2>. HIDE DEF tick
  <2>. QED
    <3>1. UNCHANGED <<reader, main, split, flits, merger, got>>
      BY <1>6 DEF SendCycle
    <3>2. period' \in 0 .. Period - 1
      BY <2>3, <2>4
    <3>. QED
      BY <2>1, <2>2, <2>4, <2>5, <2>6, <2>7, <3>1, <3>2 DEF Shape, reader, merger
<1>7. CASE ReceiveFlit
  <2> DEFINE f == [None EXCEPT !.lo = Head(wire).lo, !.hi = Head(wire).hi,
                               !.eop = FindsEop(Head(wire).lo, Head(wire).hi)]
  <2>1. /\ Head(wire) \in Flit /\ wire' \in Seq(Flit) /\ Len(wire') <= Depth
    BY <1>7, StreamTypes DEF ReceiveFlit, Shape
  <2>2. f \in Flit
    BY <2>1 DEF Flit, None, FindsEop
  <2>3. flits' = Append(flits, f) /\ Room(flits)
    BY <1>7 DEF ReceiveFlit
  <2>. HIDE DEF f
  <2>4. flits' \in Seq(Flit) /\ Len(flits') <= Depth
    BY <2>2, <2>3, StreamTypes DEF Shape
  <2>. QED
    BY <1>7, <2>1, <2>4 DEF ReceiveFlit, Shape, reader, merger, sender
<1>8. CASE TakeFlit
  <2>1. Head(flits) \in Flit /\ flits' \in Seq(Flit) /\ Len(flits') <= Depth
    BY <1>8, StreamTypes DEF TakeFlit, Shape
  <2>. QED
    BY <1>8, <2>1 DEF TakeFlit, Shape, reader, merger, sender
<1>9. CASE UNCHANGED vars
  BY <1>9 DEF Shape, vars, reader, merger, sender
<1>. QED
  BY <1>2, <1>3, <1>4, <1>5, <1>6, <1>7, <1>8, <1>9 DEF Next, Reader

-----------------------------------------------------------------------------
(***************************************************************************)
(* Fronts.                                                                 *)
(***************************************************************************)
\* The buffer stays, so the next state's layers speak of the same words.
LEMMA FrontsNext ==
  ASSUME newlines' = newlines
  PROVE  Fronts' <=>
           /\ FrontsMerged' >= 0
           /\ \A i \in 1 .. Len(main') :
                main'[i] = Front((FrontsRead' - Len(main')) + i)
           /\ wPack'[0] # None => wPack'[0] = Front(FrontsRead' - Len(main'))
           /\ wasSwitchPipe' => FrontsMerged' > 0 /\ Rest(FrontsMerged')
BY DEF Fronts, Front, Rest, Cut, Ends

\* The numbers of words are numbers, and the fronts that are not merged yet are
\* those of words.
LEMMA FrontNumbers ==
  ASSUME Shape, Fronts
  PROVE  /\ FrontsRead \in 0 .. Words /\ BacksRead \in 0 .. Words
         /\ FrontsRead <= BacksRead /\ FrontsMerged \in 0 .. FrontsRead
         /\ Len(main) \in Nat
         /\ FrontsMerged = FrontsRead - Len(main) - (IF wPack[0] = None THEN 0 ELSE 1)
         /\ \A i \in 1 .. Len(main) : (FrontsRead - Len(main)) + i \in 1 .. Words
         /\ wPack[0] # None => FrontsRead - Len(main) \in 1 .. Words
         /\ Words \in Nat
<1>1. Words \in Nat /\ Len(main) \in Nat
  BY PayloadInputAssumption DEF Shape
<1>2. /\ FrontsRead \in 0 .. Words /\ BacksRead \in 0 .. Words
      /\ FrontsRead <= BacksRead
  BY <1>1 DEF Shape, FrontsRead, BacksRead
<1>3. FrontsMerged = FrontsRead - Len(main) - (IF wPack[0] = None THEN 0 ELSE 1)
  BY DEF FrontsMerged
<1>4. FrontsMerged \in 0 .. FrontsRead
  BY <1>1, <1>2, <1>3 DEF Fronts
<1>5. \A i \in 1 .. Len(main) : (FrontsRead - Len(main)) + i \in 1 .. Words
  BY <1>1, <1>2, <1>3, <1>4
<1>6. wPack[0] # None => FrontsRead - Len(main) \in 1 .. Words
  BY <1>1, <1>2, <1>3, <1>4
<1>. QED
  BY <1>1, <1>2, <1>3, <1>4, <1>5, <1>6

\* What the filled register of the main stream holds.
LEMMA TakenFront ==
  ASSUME Shape, Fronts,
         main' = IF wPack[0] = None /\ main # << >> THEN Tail(main) ELSE main
  PROVE  /\ main' \in Seq(Flit) /\ Len(main') \in Nat
         /\ FrontsMerged = FrontsRead - Len(main') - (IF Taken0 = None THEN 0 ELSE 1)
         /\ \A i \in 1 .. Len(main') : main'[i] = Front((FrontsRead - Len(main')) + i)
         /\ Taken0 # None => /\ FrontsRead - Len(main') \in 1 .. Words
                             /\ Taken0 = Front(FrontsRead - Len(main'))
<1>1. /\ FrontsRead \in 0 .. Words /\ Words \in Nat /\ FrontsMerged \in 0 .. FrontsRead
      /\ Len(main) \in Nat
      /\ FrontsMerged = FrontsRead - Len(main) - (IF wPack[0] = None THEN 0 ELSE 1)
      /\ \A i \in 1 .. Len(main) : (FrontsRead - Len(main)) + i \in 1 .. Words
      /\ wPack[0] # None => FrontsRead - Len(main) \in 1 .. Words
  BY FrontNumbers
<1>2. /\ \A i \in 1 .. Len(main) : main[i] = Front((FrontsRead - Len(main)) + i)
      /\ wPack[0] # None => wPack[0] = Front(FrontsRead - Len(main))
  BY DEF Fronts
<1>3. CASE wPack[0] = None /\ main # << >>
  <2>1. /\ main' \in Seq(Flit) /\ Len(main') = Len(main) - 1 /\ Taken0 = main[1]
        /\ Len(main) > 0
        /\ \A i \in 1 .. Len(main) - 1 : main'[i] = main[i + 1]
    BY <1>3 DEF Shape, Taken0
  <2>. DEFINE n == Len(main)
              m == Len(main')
  <2>0. /\ FrontsRead \in Int /\ n \in Int /\ m \in Int /\ m = n - 1
        /\ 1 \in 1 .. Len(main)
    BY <1>1, <2>1
  <2>. HIDE DEF n, m
  <2>2. /\ 1 \in 1 .. Len(main)
        /\ (FrontsRead - Len(main)) + 1 = FrontsRead - Len(main')
    <3>1. (FrontsRead - n) + 1 = FrontsRead - m
      BY <2>0
    <3>. QED
      BY <2>0, <3>1 DEF n, m
  <2>3. /\ Taken0 = Front(FrontsRead - Len(main'))
        /\ FrontsRead - Len(main') \in 1 .. Words
    BY <1>1, <1>2, <2>1, <2>2
  <2>4. Taken0 # None
    BY <2>3, FlitsOfWord
  <2>5. ASSUME NEW i \in 1 .. Len(main')
        PROVE  main'[i] = Front((FrontsRead - Len(main')) + i)
    <3>1. i \in 1 .. Len(main) - 1 /\ i + 1 \in 1 .. Len(main)
      BY <1>1, <2>1
    <3>2. (FrontsRead - Len(main)) + (i + 1) = (FrontsRead - Len(main')) + i
      <4>1. (FrontsRead - n) + (i + 1) = (FrontsRead - m) + i
        BY <2>0
      <4>. QED
        BY <4>1 DEF n, m
    <3>. QED
      BY <1>2, <2>1, <3>1, <3>2
  <2>6. FrontsMerged = FrontsRead - Len(main') - 1
    BY <1>1, <1>3, <2>1
  <2>7. Len(main') \in Nat
    BY <2>1
  <2>. QED
    BY <2>1, <2>3, <2>4, <2>5, <2>6, <2>7
<1>4. CASE ~(wPack[0] = None /\ main # << >>)
  <2>1. main' = main /\ Taken0 = wPack[0]
    BY <1>4 DEF Taken0
  <2>. QED
    BY <1>1, <1>2, <2>1 DEF Shape
<1>. QED
  BY <1>3, <1>4

\* Merge writes the front of the next word, or the rest of the word whose front
\* it has just written, or nothing.
LEMMA MergeMoves ==
  ASSUME Shape, Fronts, Merge
  PROVE  /\ FrontsRead' = FrontsRead
         /\ \A i \in 1 .. Len(main') : main'[i] = Front((FrontsRead - Len(main')) + i)
         /\ \/ /\ MergesFront
               /\ FrontsMerged' = FrontsMerged + 1 /\ FrontsMerged' \in 1 .. FrontsRead
               /\ Taken0 = Front(FrontsMerged') /\ (wasSwitchPipe' <=> Rest(FrontsMerged'))
            \/ MergesBack /\ FrontsMerged' = FrontsMerged
            \/ MergesNone /\ FrontsMerged' = FrontsMerged
<1>1. /\ FrontsRead \in 0 .. Words /\ Words \in Nat /\ FrontsMerged \in 0 .. FrontsRead
  BY FrontNumbers
<1>2. FrontsRead' = FrontsRead
  BY DEF Merge, FrontsRead, reader
<1>3. /\ main' \in Seq(Flit) /\ Len(main') \in Nat
      /\ FrontsMerged = FrontsRead - Len(main') - (IF Taken0 = None THEN 0 ELSE 1)
      /\ \A i \in 1 .. Len(main') : main'[i] = Front((FrontsRead - Len(main')) + i)
      /\ Taken0 # None => /\ FrontsRead - Len(main') \in 1 .. Words
                          /\ Taken0 = Front(FrontsRead - Len(main'))
  <2>1. main' = IF wPack[0] = None /\ main # << >> THEN Tail(main) ELSE main
    BY DEF Merge
  <2>. QED
    BY <2>1, TakenFront
<1>4. FrontsMerged' = FrontsRead - Len(main') - (IF wPack'[0] = None THEN 0 ELSE 1)
  BY <1>2 DEF FrontsMerged
<1>5. MergesFront \/ MergesBack \/ MergesNone
  BY MergeCases
<1>6. CASE MergesFront
  <2>1. wPack'[0] = None /\ wasSwitchPipe' = Taken0.switchPipe /\ Taken0 # None
    BY <1>6 DEF MergesFront
  <2>2. FrontsMerged' = FrontsMerged + 1 /\ FrontsMerged' = FrontsRead - Len(main')
    BY <1>1, <1>3, <1>4, <2>1
  <2>3. /\ Taken0 = Front(FrontsMerged') /\ FrontsMerged' \in 1 .. Words
        /\ FrontsMerged' \in 1 .. FrontsRead
    BY <1>1, <1>3, <2>1, <2>2
  <2>4. wasSwitchPipe' = Rest(FrontsMerged')
    BY <2>1, <2>3, FlitsOfWord
  <2>. QED
    BY <1>2, <1>3, <1>6, <2>2, <2>3, <2>4
<1>7. CASE MergesBack
  <2>1. wPack'[0] = Taken0
    BY <1>7 DEF MergesBack
  <2>. QED
    BY <1>2, <1>3, <1>4, <1>7, <2>1
<1>8. CASE MergesNone
  <2>1. wPack'[0] = Taken0
    BY <1>8 DEF MergesNone
  <2>. QED
    BY <1>2, <1>3, <1>4, <1>8, <2>1
<1>. QED
  BY <1>5, <1>6, <1>7, <1>8

LEMMA InitFronts == Init => Fronts
<1>. SUFFICES ASSUME Init PROVE Fronts
  OBVIOUS
<1>1. FrontsRead = 0 /\ Len(main) = 0 /\ FrontsMerged = 0 /\ ~wasSwitchPipe /\ wPack[0] = None
  BY DEF Init, FrontsRead, FrontsMerged
<1>. QED
  BY <1>1 DEF Fronts

LEMMA NextFronts ==
  ASSUME Shape, Fronts, [Next]_vars
  PROVE  Fronts'
<1>1. /\ FrontsRead \in 0 .. Words /\ Words \in Nat /\ FrontsMerged \in 0 .. FrontsRead
      /\ Len(main) \in Nat
      /\ FrontsMerged = FrontsRead - Len(main) - (IF wPack[0] = None THEN 0 ELSE 1)
  BY FrontNumbers
<1>2. newlines' = newlines
  BY BufferFixed DEF vars, reader
<1>3. /\ \A i \in 1 .. Len(main) : main[i] = Front((FrontsRead - Len(main)) + i)
      /\ wPack[0] # None => wPack[0] = Front(FrontsRead - Len(main))
      /\ wasSwitchPipe => FrontsMerged > 0 /\ Rest(FrontsMerged)
  BY DEF Fronts
<1>4. ASSUME FrontsRead' = FrontsRead, UNCHANGED <<main, wPack, wasSwitchPipe>>
      PROVE  Fronts'
  <2>1. FrontsMerged' = FrontsMerged
    BY <1>4 DEF FrontsMerged
  <2>. QED
    BY <1>1, <1>2, <1>3, <1>4, <2>1, FrontsNext
<1>5. CASE ReadRest
  <2>1. FrontsRead' = FrontsRead
    BY <1>5 DEF ReadRest, FrontsRead
  <2>. QED
    BY <1>4, <1>5, <2>1 DEF ReadRest, merger
<1>6. CASE ReadFront
  <2>1. /\ word \in 1 .. Words /\ FrontsRead = word - 1 /\ FrontsRead' = word
    BY <1>1, <1>6 DEF ReadFront, FrontsRead, Shape
  <2>2. main' = Append(main, Front(word)) /\ UNCHANGED <<wPack, wasSwitchPipe>>
    BY <1>6 DEF ReadFront, Front, merger
  <2>3. /\ Len(main') = Len(main) + 1 /\ main'[Len(main) + 1] = Front(word)
        /\ \A i \in 1 .. Len(main) : main'[i] = main[i]
    BY <2>2 DEF Shape
  <2>4. FrontsRead' - Len(main') = FrontsRead - Len(main)
    BY <1>1, <2>1, <2>3
  <2>5. FrontsMerged' = FrontsMerged
    BY <1>1, <2>2, <2>4 DEF FrontsMerged
  <2>6. ASSUME NEW i \in 1 .. Len(main')
        PROVE  main'[i] = Front((FrontsRead' - Len(main')) + i)
    <3>1. CASE i \in 1 .. Len(main)
      BY <1>3, <2>3, <2>4, <3>1
    <3>2. CASE i = Len(main) + 1
      <4>1. (FrontsRead' - Len(main')) + i = word
        BY <1>1, <2>1, <2>4, <3>2
      <4>. QED
        BY <2>3, <3>2, <4>1
    <3>. QED
      BY <1>1, <2>3, <3>1, <3>2
  <2>. QED
    BY <1>1, <1>2, <1>3, <2>2, <2>4, <2>5, <2>6, FrontsNext
<1>7. CASE ReadCount
  <2>1. FrontsRead' = FrontsRead
    BY <1>7 DEF ReadCount, FrontsRead, Shape
  <2>. QED
    BY <1>4, <1>7, <2>1 DEF ReadCount, merger
<1>8. CASE Merge
  <2>1. /\ FrontsRead' = FrontsRead
        /\ \A i \in 1 .. Len(main') : main'[i] = Front((FrontsRead - Len(main')) + i)
    BY <1>8, MergeMoves
  <2>2. \/ MergesFront /\ FrontsMerged' = FrontsMerged + 1 /\ (wasSwitchPipe' <=> Rest(FrontsMerged'))
        \/ MergesBack /\ FrontsMerged' = FrontsMerged
        \/ MergesNone /\ FrontsMerged' = FrontsMerged
    BY <1>8, MergeMoves
  <2>3. FrontsMerged' >= 0 /\ (wasSwitchPipe' => FrontsMerged' > 0 /\ Rest(FrontsMerged'))
    BY <1>1, <1>3, <2>2 DEF MergesFront, MergesBack, MergesNone
  <2>4. wPack'[0] # None => wPack'[0] = Front(FrontsRead - Len(main'))
    <3>1. wPack'[0] # None => wPack'[0] = Taken0
      BY <2>2 DEF MergesFront, MergesBack, MergesNone
    <3>2. Taken0 # None => Taken0 = Front(FrontsRead - Len(main'))
      BY <1>8, TakenFront DEF Merge
    <3>. QED
      BY <3>1, <3>2
  <2>. QED
    BY <1>2, <2>1, <2>3, <2>4, FrontsNext
<1>9. CASE SendCycle \/ ReceiveFlit \/ TakeFlit \/ UNCHANGED vars
  <2>1. UNCHANGED <<word, half, main, wPack, wasSwitchPipe>>
    BY <1>9 DEF SendCycle, ReceiveFlit, TakeFlit, vars, reader, merger
  <2>2. FrontsRead' = FrontsRead
    BY <2>1 DEF FrontsRead
  <2>. QED
    BY <1>4, <2>1, <2>2
<1>. QED
  BY <1>5, <1>6, <1>7, <1>8, <1>9 DEF Next, Reader

-----------------------------------------------------------------------------
(***************************************************************************)
(* Backs.                                                                  *)
(***************************************************************************)
LEMMA BacksNext ==
  ASSUME newlines' = newlines
  PROVE  Backs' <=>
           /\ wPack'[1] # None => <<BackMerged', wPack'[1]>> \in NextBack
           /\ Chain(split', BackTaken', NextBack)
           /\ EndOf(split', BackTaken') <= Last(BacksRead')
           /\ \A w \in 1 .. BacksRead' : EndOf(split', BackTaken') < Last(w) => ~Rest(w)
<1>1. NextBack' = NextBack /\ \A w : Rest(w)' = Rest(w)
  BY BufferStays
<1>. QED
  BY <1>1 DEF Backs, Chain, EndOf, Rest, Cut, Ends

\* A flit that may follow on the stream of the rests is one, of a word behind
\* the place it follows.
LEMMA BackLinks ==
  ASSUME Shape, NEW p, NEW f, <<p, f>> \in NextBack
  PROVE  /\ p \in Places /\ f \in Flit /\ f # None /\ f.switchPipe = FALSE
         /\ \E w \in 1 .. Words : /\ Rest(w) /\ f = Back(w) /\ p < Last(w) /\ f.hi = Last(w)
                                  /\ \A v \in 1 .. Words :
                                       p < Last(v) /\ v < w => ~Rest(v)
<1>1. /\ p \in Places /\ f \in Flit
      /\ \E w \in 1 .. Words : /\ Rest(w) /\ f = Back(w) /\ p < Last(w)
                               /\ \A v \in 1 .. Words : p < Last(v) /\ v < w => ~Rest(v)
  BY DEF NextBack
<1>2. PICK w \in 1 .. Words : /\ Rest(w) /\ f = Back(w) /\ p < Last(w)
                              /\ \A v \in 1 .. Words : p < Last(v) /\ v < w => ~Rest(v)
  BY <1>1
<1>3. f # None /\ f.hi = Last(w) /\ f.switchPipe = FALSE
  BY <1>2, FlitsOfWord
<1>. QED
  BY <1>1, <1>2, <1>3

\* What the filled register of the rests holds.
LEMMA TakenBack ==
  ASSUME Shape, Backs,
         split' = IF wPack[1] = None /\ split # << >> THEN Tail(split) ELSE split
  PROVE  LET after == IF Taken1 = None THEN BackMerged ELSE Taken1.hi
         IN  /\ Taken1 # None => <<BackMerged, Taken1>> \in NextBack
             /\ Chain(split', after, NextBack)
             /\ EndOf(split', after) = EndOf(split, BackTaken)
             /\ Taken1 = None => split' = << >>
<1>1. /\ wPack[1] # None => <<BackMerged, wPack[1]>> \in NextBack
      /\ Chain(split, BackTaken, NextBack)
  BY DEF Backs
<1>2. CASE wPack[1] = None /\ split # << >>
  <2>1. BackTaken = BackMerged /\ Taken1 = Head(split) /\ split' = Tail(split)
    BY <1>2 DEF BackTaken, Taken1
  <2>2. /\ <<BackMerged, Taken1>> \in NextBack
        /\ Chain(split', Taken1.hi, NextBack)
        /\ EndOf(split', Taken1.hi) = EndOf(split, BackTaken)
    BY <1>1, <1>2, <2>1, ChainTail DEF Shape
  <2>3. Taken1 # None
    BY <2>2, BackLinks
  <2>. QED
    BY <2>2, <2>3
<1>3. CASE ~(wPack[1] = None /\ split # << >>)
  <2>1. split' = split /\ Taken1 = wPack[1]
    BY <1>3 DEF Taken1
  <2>2. BackTaken = IF Taken1 = None THEN BackMerged ELSE Taken1.hi
    BY <2>1 DEF BackTaken
  <2>. QED
    BY <1>1, <1>3, <2>1, <2>2
<1>. QED
  BY <1>2, <1>3

\* The places the rests are merged up to.
LEMMA BackPlaces ==
  ASSUME Shape, Fronts, Backs
  PROVE  /\ BackMerged \in Places /\ BackTaken \in Places
         /\ EndOf(split, BackTaken) \in Places
         /\ Places \subseteq Nat
         /\ wasSwitchPipe => BackMerged = Last(FrontsMerged - 1)
         /\ ~wasSwitchPipe => BackMerged = Last(FrontsMerged)
<1>1. /\ FrontsMerged \in 0 .. FrontsRead /\ FrontsRead \in 0 .. Words /\ Words \in Nat
      /\ Words * Word \in Nat
  BY FrontNumbers, PayloadInputAssumption
<1>2. wasSwitchPipe => FrontsMerged > 0
  BY DEF Fronts
<1>3. \A w \in 0 .. Words : Last(w) \in Places
  <2>1. ASSUME NEW w \in 0 .. Words
        PROVE  Last(w) \in Places
    <3>1. w \in Nat /\ w <= Words
      BY <1>1
    <3>2. Last(w) \in Nat /\ Last(w) <= Words * Word
      BY <1>1, <3>1, PlacesOfWords
    <3>. QED
      BY <1>1, <3>2 DEF Places
  <2>. QED
    BY <2>1
<1>4. BackMerged \in Places
  BY <1>1, <1>2, <1>3 DEF BackMerged
<1>5. wPack[1].hi \in Places
  BY DEF Shape, Flit
<1>6. BackTaken \in Places
  BY <1>4, <1>5 DEF BackTaken
<1>7. EndOf(split, BackTaken) \in Places
  BY <1>6, EndOfPlace DEF Shape
<1>. QED
  BY <1>1, <1>4, <1>6, <1>7 DEF Places, BackMerged

LEMMA InitBacks == Init => Backs
<1>. SUFFICES ASSUME Init PROVE Backs
  OBVIOUS
<1>1. /\ FrontsMerged = 0 /\ BacksRead = 0 /\ ~wasSwitchPipe /\ wPack[1] = None
      /\ Len(split) = 0 /\ split = << >>
  BY DEF Init, FrontsMerged, FrontsRead, BacksRead
<1>2. BackTaken = 0 /\ EndOf(split, BackTaken) = 0
  BY <1>1, PlacesOfWords DEF BackMerged, BackTaken, EndOf
<1>3. Chain(split, BackTaken, NextBack)
  BY <1>1 DEF Chain
<1>. QED
  BY <1>1, <1>2, <1>3, PlacesOfWords DEF Backs

\* A rest is written: it is that of the first word with one since the last.
LEMMA ReadRestBacks ==
  ASSUME Shape, Fronts, Backs, ReadRest
  PROVE  Backs'
<1>1. /\ FrontsMerged \in 0 .. FrontsRead /\ Words \in Nat
      /\ BackTaken \in Places /\ EndOf(split, BackTaken) \in Places /\ Places \subseteq Nat
  BY FrontNumbers, BackPlaces
<1>2. newlines' = newlines
  BY DEF ReadRest
<1>3. /\ word \in 1 .. Words /\ BacksRead = word - 1 /\ BacksRead' = word
      /\ FrontsRead' = FrontsRead
  BY <1>1 DEF ReadRest, BacksRead, FrontsRead, Shape
<1>4. UNCHANGED <<main, wPack, wasSwitchPipe>>
  BY DEF ReadRest, merger
<1>5. BackMerged' = BackMerged /\ BackTaken' = BackTaken
  <2>1. FrontsMerged' = FrontsMerged
    BY <1>3, <1>4 DEF FrontsMerged
  <2>2. BackMerged' = BackMerged
    BY <1>4, <2>1 DEF BackMerged
  <2>. QED
    BY <1>4, <2>2 DEF BackTaken
<1>6. /\ wPack[1] # None => <<BackMerged, wPack[1]>> \in NextBack
      /\ Chain(split, BackTaken, NextBack)
      /\ EndOf(split, BackTaken) <= Last(BacksRead)
      /\ \A w \in 1 .. BacksRead : EndOf(split, BackTaken) < Last(w) => ~Rest(w)
  BY DEF Backs
<1>7. EndOf(split, BackTaken) < Last(word) /\ Last(word) \in Nat
  <2>1. word \in Nat /\ word - 1 \in Nat /\ word - 1 < word
    BY <1>3
  <2>2. Last(word - 1) < First(word) /\ First(word) <= Last(word) /\ Last(word) \in Nat
        /\ First(word) \in Nat /\ Last(word - 1) \in Nat
    BY <1>3, <2>1, PlacesOfWords, WhereCut
  <2>. DEFINE e == EndOf(split, BackTaken)
  <2>3. e \in Nat /\ e <= Last(word - 1)
    BY <1>1, <1>3, <1>6
  <2>. HIDE DEF e
  <2>4. e < Last(word)
    BY <2>2, <2>3
  <2>. QED
    BY <2>2, <2>4 DEF e
<1>8. CASE Rest(word)
  <2>1. split' = Append(split, Back(word)) /\ Back(word) \in Flit /\ Back(word).hi = Last(word)
    <3>1. Back(word) \in Piece /\ Back(word).hi = Last(word)
      BY <1>3, <1>8, FlitsOfWord
    <3>2. split' = Append(split, Back(word))
      BY <1>8 DEF ReadRest, Back
    <3>. QED
      BY <3>1, <3>2 DEF Piece
  <2>2. <<EndOf(split, BackTaken), Back(word)>> \in NextBack
    <3>1. \A v \in 1 .. Words : EndOf(split, BackTaken) < Last(v) /\ v < word => ~Rest(v)
      BY <1>1, <1>3, <1>6
    <3>. QED
      BY <1>1, <1>3, <1>7, <1>8, <2>1, <3>1 DEF NextBack
  <2>3. Chain(split', BackTaken, NextBack) /\ EndOf(split', BackTaken) = Last(word)
    BY <1>6, <2>1, <2>2, ChainAppend DEF Shape
  <2>4. \A w \in 1 .. word : Last(w) <= Last(word)
    BY <1>3, PlacesOfWords
  <2>5. \A w \in 1 .. word : ~(Last(word) < Last(w))
    <3>0. \A w \in 1 .. word : w \in Nat
      BY <1>3
    <3>1. \A w \in 1 .. word : Last(w) \in Nat
      BY <3>0, PlacesOfWords
    <3>2. word \in Nat /\ Last(word) \in Nat
      BY <1>3, PlacesOfWords
    <3>. QED
      BY <2>4, <3>1, <3>2
  <2>. QED
    BY <1>2, <1>3, <1>4, <1>5, <1>6, <1>7, <2>3, <2>5, BacksNext
<1>9. CASE ~Rest(word)
  <2>1. split' = split
    BY <1>9 DEF ReadRest
  <2>2. \A w \in 1 .. word : EndOf(split, BackTaken) < Last(w) => ~Rest(w)
    <3>1. \A w \in 1 .. word : w \in 1 .. BacksRead \/ w = word
      BY <1>3
    <3>. QED
      BY <1>6, <1>9, <3>1
  <2>. DEFINE e == EndOf(split, BackTaken)
  <2>3. e <= Last(word)
    <3>1. e \in Nat /\ e < Last(word)
      BY <1>1, <1>7
    <3>. HIDE DEF e
    <3>. QED
      BY <1>7, <3>1
  <2>. QED
    BY <1>2, <1>3, <1>4, <1>5, <1>6, <2>1, <2>2, <2>3, BacksNext
<1>. QED
  BY <1>8, <1>9

\* How the ends of the words are ordered.
LEMMA EndsOfWords ==
  /\ \A w \in 0 .. Words : Last(w) \in Nat
  /\ \A v, w \in 0 .. Words : v < w => Last(v) < Last(w)
  /\ \A v, w \in 0 .. Words : v <= w => Last(v) <= Last(w)
<1>1. \A w \in 0 .. Words : w \in Nat
  OBVIOUS
<1>2. \A w \in Nat : Last(w) \in Nat /\ First(w) \in Int /\ First(w) = Last(w) - Word + 1
  BY PlacesOfWords
<1>3. Word \in Nat /\ Word > 0
  BY PayloadInputAssumption
<1>4. \A v, w \in Nat : v < w => Last(v) < Last(w)
  <2>1. \A v, w \in Nat : v < w => Last(v) < First(w)
    BY PlacesOfWords
  <2>. QED
    BY <1>2, <1>3, <2>1
<1>. QED
  BY <1>1, <1>2, <1>4, PlacesOfWords

\* Behind a front that has been cut, the next rest is its own.
LEMMA BackIsDue ==
  ASSUME Shape, Fronts, wasSwitchPipe, <<BackMerged, Taken1>> \in NextBack
  PROVE  /\ FrontsMerged \in 1 .. Words /\ Rest(FrontsMerged)
         /\ Taken1 = Back(FrontsMerged)
<1> DEFINE k == FrontsMerged
<1>1. k \in 0 .. FrontsRead /\ FrontsRead \in 0 .. Words /\ Words \in Nat
  BY FrontNumbers
<1>2. k > 0 /\ Rest(k) /\ BackMerged = Last(k - 1)
  BY DEF Fronts, BackMerged
<1>3. k \in 1 .. Words /\ k \in 0 .. Words /\ k - 1 \in 0 .. Words
  BY <1>1, <1>2
<1>4. PICK w \in 1 .. Words : /\ Rest(w) /\ Taken1 = Back(w) /\ Last(k - 1) < Last(w)
                              /\ \A v \in 1 .. Words :
                                   Last(k - 1) < Last(v) /\ v < w => ~Rest(v)
  BY <1>2, BackLinks
<1>. HIDE DEF k
<1>5. w \in 0 .. Words /\ w \in Int /\ k \in Int /\ Last(k - 1) < Last(k)
  BY <1>1, <1>3, EndsOfWords
<1>6. ~(k < w)
  BY <1>2, <1>3, <1>4, <1>5
<1>7. ~(w <= k - 1)
  <2>1. w <= k - 1 => Last(w) <= Last(k - 1)
    BY <1>3, <1>5, EndsOfWords
  <2>2. Last(w) \in Nat /\ Last(k - 1) \in Nat
    BY <1>3, <1>5, EndsOfWords
  <2>. QED
    BY <1>4, <2>1, <2>2
<1>8. w = k
  BY <1>5, <1>6, <1>7
<1>. QED
  BY <1>2, <1>3, <1>4, <1>8 DEF k

\* Merge keeps the rests in step with the fronts.
LEMMA MergeBacks ==
  ASSUME Shape, Fronts, Backs, Merge
  PROVE  Backs'
<1> DEFINE after == IF Taken1 = None THEN BackMerged ELSE Taken1.hi
           k     == FrontsMerged'
<1>1. /\ FrontsMerged \in 0 .. FrontsRead /\ FrontsRead \in 0 .. Words /\ Words \in Nat
      /\ FrontsRead <= BacksRead /\ BacksRead \in 0 .. Words
  BY FrontNumbers
<1>2. /\ BackMerged \in Places /\ EndOf(split, BackTaken) \in Places /\ Places \subseteq Nat
      /\ wasSwitchPipe => BackMerged = Last(FrontsMerged - 1)
      /\ ~wasSwitchPipe => BackMerged = Last(FrontsMerged)
  BY BackPlaces
<1>3. newlines' = newlines /\ BacksRead' = BacksRead
  BY DEF Merge, reader, BacksRead
<1>4. /\ Taken1 # None => <<BackMerged, Taken1>> \in NextBack
      /\ Chain(split', after, NextBack)
      /\ EndOf(split', after) = EndOf(split, BackTaken)
      /\ Taken1 = None => split' = << >>
  <2>1. split' = IF wPack[1] = None /\ split # << >> THEN Tail(split) ELSE split
    BY DEF Merge
  <2>. QED
    BY <2>1, TakenBack
<1>5. /\ EndOf(split', after) <= Last(BacksRead)
      /\ \A w \in 1 .. BacksRead : EndOf(split', after) < Last(w) => ~Rest(w)
  BY <1>4 DEF Backs
<1>6. /\ \A w \in 0 .. Words : Last(w) \in Nat
      /\ \A v, w \in 0 .. Words : v < w => Last(v) < Last(w)
      /\ \A v, w \in 0 .. Words : v <= w => Last(v) <= Last(w)
  BY EndsOfWords
<1>7. \/ /\ MergesFront
         /\ k = FrontsMerged + 1 /\ k \in 1 .. FrontsRead
         /\ Taken0 = Front(k) /\ (wasSwitchPipe' <=> Rest(k))
      \/ MergesBack /\ k = FrontsMerged
      \/ MergesNone /\ k = FrontsMerged
  BY MergeMoves
<1>. HIDE DEF k
<1>8. BackMerged' = IF wasSwitchPipe' THEN Last(k - 1) ELSE Last(k)
  BY DEF BackMerged, k
<1>9. ASSUME wPack'[1] = Taken1, BackMerged' = BackMerged
      PROVE  Backs'
  <2>1. BackTaken' = after
    BY <1>9 DEF BackTaken
  <2>. QED
    BY <1>3, <1>4, <1>5, <1>9, <2>1, BacksNext
<1>10. CASE MergesFront /\ k = FrontsMerged + 1 /\ k \in 1 .. FrontsRead
            /\ Rest(k) /\ wasSwitchPipe'
  <2>1. wPack'[1] = Taken1 /\ ~wasSwitchPipe
    BY <1>10 DEF MergesFront
  <2>2. k - 1 = FrontsMerged
    BY <1>1, <1>10
  <2>3. BackMerged' = BackMerged
    BY <1>2, <1>8, <1>10, <2>1, <2>2
  <2>. QED
    BY <1>9, <2>1, <2>3
<1>11. CASE MergesFront /\ k = FrontsMerged + 1 /\ k \in 1 .. FrontsRead
            /\ ~Rest(k) /\ ~wasSwitchPipe'
  <2>1. wPack'[1] = Taken1 /\ ~wasSwitchPipe /\ BackMerged' = Last(k)
    BY <1>8, <1>11 DEF MergesFront
  <2>2. k - 1 = FrontsMerged /\ k \in 1 .. Words /\ k \in 0 .. Words /\ k - 1 \in 0 .. Words
    BY <1>1, <1>11
  <2>3. BackMerged = Last(k - 1) /\ Last(k - 1) < Last(k) /\ Last(k) \in Nat /\ Last(k) \in Places
    <3>1. BackMerged = Last(k - 1) /\ Last(k - 1) < Last(k) /\ Last(k) \in Nat
      BY <1>2, <1>6, <2>1, <2>2
    <3>2. Last(k) <= Words * Word /\ Words * Word \in Nat
      BY <2>2, WhereCut
    <3>. QED
      BY <3>1, <3>2 DEF Places
  <2>4. CASE Taken1 = None
    <3>1. split' = << >> /\ wPack'[1] = None
      BY <1>4, <2>1, <2>4
    <3>2. BackTaken' = Last(k) /\ EndOf(split', BackTaken') = Last(k)
      BY <2>1, <3>1 DEF BackTaken, EndOf
    <3>3. Chain(split', BackTaken', NextBack)
      BY <3>1 DEF Chain
    <3>4. Last(k) <= Last(BacksRead)
      BY <1>1, <1>6, <1>11, <2>2
    <3>5. EndOf(split', after) = Last(k - 1)
      BY <2>3, <2>4, <3>1 DEF EndOf
    <3>6. ASSUME NEW w \in 1 .. BacksRead, Last(k) < Last(w)
          PROVE  ~Rest(w)
      <4>1. Last(w) \in Nat /\ Last(k - 1) \in Nat
        BY <1>1, <1>6, <2>2
      <4>2. Last(k - 1) < Last(w)
        BY <2>3, <3>6, <4>1
      <4>. QED
        BY <1>5, <3>5, <4>2
    <3>. QED
      BY <1>3, <3>1, <3>2, <3>3, <3>4, <3>6, BacksNext
  <2>5. CASE Taken1 # None
    <3>1. BackTaken' = after
      BY <2>1, <2>5 DEF BackTaken
    <3>2. PICK w \in 1 .. Words : /\ Rest(w) /\ Taken1 = Back(w) /\ Last(k - 1) < Last(w)
                                  /\ \A v \in 1 .. Words :
                                       Last(k - 1) < Last(v) /\ v < w => ~Rest(v)
      BY <1>4, <2>3, <2>5, BackLinks
    <3>3. Last(k) < Last(w)
      <4>1. w \in 0 .. Words /\ w # k /\ w \in Int /\ k \in Int
        BY <1>1, <1>11, <2>2, <3>2
      <4>2. ~(w <= k - 1)
        <5>1. w <= k - 1 => Last(w) <= Last(k - 1)
          BY <1>6, <2>2, <4>1
        <5>2. Last(w) \in Nat /\ Last(k - 1) \in Nat
          BY <1>6, <2>2, <4>1
        <5>. QED
          BY <3>2, <5>1, <5>2
      <4>3. k < w
        BY <4>1, <4>2
      <4>. QED
        BY <1>6, <2>2, <4>1, <4>3
    <3>4. ASSUME NEW v \in 1 .. Words, Last(k) < Last(v), v < w
          PROVE  ~Rest(v)
      <4>1. Last(v) \in Nat /\ Last(k - 1) \in Nat
        BY <1>1, <1>6, <2>2
      <4>2. Last(k - 1) < Last(v)
        BY <2>3, <3>4, <4>1
      <4>. QED
        BY <3>2, <3>4, <4>2
    <3>5. <<Last(k), Taken1>> \in NextBack
      BY <2>3, <3>2, <3>3, <3>4, TakenShape DEF NextBack
    <3>. QED
      BY <1>3, <1>4, <1>5, <2>1, <3>1, <3>5, BacksNext
  <2>. QED
    BY <2>4, <2>5
<1>12. CASE MergesBack /\ k = FrontsMerged
  <2>1. /\ wPack'[1] = None /\ wasSwitchPipe /\ ~wasSwitchPipe' /\ Taken1 # None
        /\ BackMerged' = Last(k)
    BY <1>8, <1>12 DEF MergesBack
  <2>2. Taken1 = Back(k) /\ k \in 1 .. Words /\ Rest(k)
    BY <1>4, <1>12, <2>1, BackIsDue
  <2>3. Taken1.hi = Last(k)
    BY <2>2, FlitsOfWord
  <2>4. BackTaken' = after
    BY <2>1, <2>3 DEF BackTaken
  <2>. QED
    BY <1>3, <1>4, <1>5, <2>1, <2>4, BacksNext
<1>13. CASE MergesNone /\ k = FrontsMerged
  <2>1. wPack'[1] = Taken1 /\ wasSwitchPipe' = wasSwitchPipe
    BY <1>13 DEF MergesNone
  <2>2. BackMerged' = BackMerged
    BY <1>8, <1>13, <2>1 DEF BackMerged
  <2>. QED
    BY <1>9, <2>1, <2>2
<1>. QED
  BY <1>7, <1>10, <1>11, <1>12, <1>13

\* The reader does not change what has been merged.
LEMMA ReaderMergesNone ==
  ASSUME Shape, Reader
  PROVE  FrontsMerged' = FrontsMerged
<1>1. UNCHANGED <<wPack, wasSwitchPipe>>
  BY DEF Reader, ReadRest, ReadFront, ReadCount, merger
<1>2. CASE ReadFront
  <2>1. word \in Int /\ FrontsRead = word - 1 /\ FrontsRead' = word
    BY <1>2, PayloadInputAssumption DEF ReadFront, FrontsRead, Shape
  <2>2. Len(main') = Len(main) + 1 /\ Len(main) \in Int
    BY <1>2 DEF ReadFront, Shape
  <2>3. FrontsRead' - Len(main') = FrontsRead - Len(main)
    BY <2>1, <2>2
  <2>. QED
    BY <1>1, <2>3 DEF FrontsMerged
<1>3. CASE ReadRest \/ ReadCount
  <2>1. FrontsRead' = FrontsRead /\ main' = main
    BY <1>3, PayloadInputAssumption DEF ReadRest, ReadCount, FrontsRead, Shape
  <2>. QED
    BY <1>1, <2>1 DEF FrontsMerged
<1>. QED
  BY <1>2, <1>3 DEF Reader

LEMMA NextBacks ==
  ASSUME Shape, Fronts, Backs, [Next]_vars
  PROVE  Backs'
<1>1. newlines' = newlines
  BY BufferFixed DEF vars, reader
<1>2. ASSUME BacksRead' = BacksRead, FrontsMerged' = FrontsMerged,
             UNCHANGED <<split, wPack, wasSwitchPipe>>
      PROVE  Backs'
  <2>1. BackMerged' = BackMerged
    BY <1>2 DEF BackMerged
  <2>2. BackTaken' = BackTaken
    BY <1>2, <2>1 DEF BackTaken
  <2>. QED
    BY <1>1, <1>2, <2>1, <2>2, BacksNext DEF Backs
<1>3. CASE ReadFront \/ ReadCount
  <2>1. BacksRead' = BacksRead /\ UNCHANGED <<split, wPack, wasSwitchPipe>>
    BY <1>3, PayloadInputAssumption DEF ReadFront, ReadCount, BacksRead, Shape, merger
  <2>2. FrontsMerged' = FrontsMerged
    BY <1>3, ReaderMergesNone DEF Reader
  <2>. QED
    BY <1>2, <2>1, <2>2
<1>5. CASE SendCycle \/ ReceiveFlit \/ TakeFlit \/ UNCHANGED vars
  <2>1. UNCHANGED <<word, half, main, split, wPack, wasSwitchPipe>>
    BY <1>5 DEF SendCycle, ReceiveFlit, TakeFlit, vars, reader, merger
  <2>2. BacksRead' = BacksRead /\ FrontsRead' = FrontsRead
    BY <2>1 DEF BacksRead, FrontsRead
  <2>. QED
    BY <1>2, <2>1, <2>2 DEF FrontsMerged
<1>. QED
  BY <1>3, <1>5, ReadRestBacks, MergeBacks DEF Next, Reader

-----------------------------------------------------------------------------
(***************************************************************************)
(* Line.                                                                   *)
(***************************************************************************)
LEMMA LineNext ==
  ASSUME newlines' = newlines
  PROVE  Line' <=>
           /\ Chain(flits', got'.hi, NextBytes)
           /\ Chain(wire', AtFlits', NextBytes)
           /\ held' # None => <<AtWire', held'>> \in NextBytes
           /\ Chain(merged', AtHeld', NextBytes)
           /\ EndOf(merged', AtHeld') = LastMerged'
           /\ \A i \in 1 .. Len(flits') : flits'[i].eop <=> flits'[i].hi \in newlines
<1>1. NextBytes' = NextBytes
  BY BufferStays
<1>. QED
  BY <1>1 DEF Line, Chain, EndOf

LEMMA LinePlaces ==
  ASSUME Shape
  PROVE  /\ AtFlits \in Places /\ AtWire \in Places /\ AtHeld \in Places
         /\ got.hi \in Places
<1>1. got.hi \in Places /\ held.hi \in Places
  BY DEF Shape, Flit
<1>2. AtFlits \in Places
  BY <1>1, EndOfPlace DEF Shape, AtFlits
<1>3. AtWire \in Places
  BY <1>2, EndOfPlace DEF Shape, AtWire
<1>. QED
  BY <1>1, <1>2, <1>3 DEF AtHeld

LEMMA InitLine == Init => Line
<1>. SUFFICES ASSUME Init PROVE Line
  OBVIOUS
<1>1. /\ flits = << >> /\ wire = << >> /\ merged = << >> /\ held = None /\ got.hi = 0
      /\ ~wasSwitchPipe /\ Len(<< >>) = 0
  BY NoneIsNone DEF Init
<1>2. FrontsMerged = 0
  BY DEF Init, FrontsMerged, FrontsRead
<1>3. AtFlits = 0 /\ AtWire = 0 /\ AtHeld = 0 /\ LastMerged = 0
  BY <1>1, <1>2, PlacesOfWords DEF AtFlits, AtWire, AtHeld, EndOf, LastMerged
<1>4. \A p : Chain(<< >>, p, NextBytes) /\ EndOf(<< >>, p) = p
  BY <1>1 DEF Chain, EndOf
<1>. QED
  BY <1>1, <1>3, <1>4 DEF Line

\* What the merger writes follows what it has written.
LEMMA MergeLine ==
  ASSUME Shape, Fronts, Backs, Line, Merge
  PROVE  Line'
<1>1. newlines' = newlines /\ UNCHANGED <<flits, wire, held, got>>
  BY DEF Merge, reader, sender
<1>2. AtFlits' = AtFlits /\ AtWire' = AtWire /\ AtHeld' = AtHeld
  BY <1>1 DEF AtFlits, AtWire, AtHeld, EndOf
<1>3. /\ Chain(flits, got.hi, NextBytes) /\ Chain(wire, AtFlits, NextBytes)
      /\ held # None => <<AtWire, held>> \in NextBytes
      /\ Chain(merged, AtHeld, NextBytes) /\ EndOf(merged, AtHeld) = LastMerged
      /\ \A i \in 1 .. Len(flits) : flits[i].eop <=> flits[i].hi \in newlines
  BY DEF Line
<1>4. SUFFICES /\ Chain(merged', AtHeld, NextBytes)
               /\ EndOf(merged', AtHeld) = LastMerged'
  BY <1>1, <1>2, <1>3, LineNext
<1>5. EndOf(merged, AtHeld) \in Places
  BY LinePlaces, EndOfPlace DEF Shape
<1>6. \A f \in Piece : f.lo = LastMerged + 1 =>
        /\ Chain(Append(merged, f), AtHeld, NextBytes)
        /\ EndOf(Append(merged, f), AtHeld) = f.hi
  <2>1. ASSUME NEW f \in Piece, f.lo = LastMerged + 1
        PROVE  /\ Chain(Append(merged, f), AtHeld, NextBytes)
               /\ EndOf(Append(merged, f), AtHeld) = f.hi
    <3>1. f \in Flit /\ <<EndOf(merged, AtHeld), f>> \in NextBytes
      BY <1>3, <1>5, <2>1, Links DEF Piece
    <3>. QED
      BY <1>3, <3>1, ChainAppend DEF Shape
  <2>. QED
    BY <2>1
<1>7. /\ FrontsMerged \in 0 .. FrontsRead /\ FrontsRead \in 0 .. Words /\ Words \in Nat
  BY FrontNumbers
<1>8. LastMerged' = IF wasSwitchPipe' THEN Cut(FrontsMerged') ELSE Last(FrontsMerged')
  BY <1>1 DEF LastMerged, Cut, Ends
<1>9. CASE MergesFront /\ FrontsMerged' = FrontsMerged + 1 /\ FrontsMerged' \in 1 .. FrontsRead
           /\ Taken0 = Front(FrontsMerged') /\ (wasSwitchPipe' <=> Rest(FrontsMerged'))
  <2> DEFINE k == FrontsMerged'
  <2>1. k \in 1 .. Words /\ k - 1 = FrontsMerged /\ k - 1 \in Nat /\ (k - 1) + 1 = k
    BY <1>7, <1>9
  <2>2. merged' = Append(merged, Front(k)) /\ ~wasSwitchPipe
    BY <1>9 DEF MergesFront
  <2>3. LastMerged = Last(k - 1)
    BY <2>1, <2>2 DEF LastMerged
  <2>4. Front(k) \in Piece /\ Front(k).lo = First(k) /\ Front(k).hi = Cut(k)
    BY <2>1, FlitsOfWord
  <2>. HIDE DEF k
  <2>5. First(k) = Last(k - 1) + 1
    BY <2>1, PlacesOfWords
  <2>6. LastMerged' = Cut(k)
    BY <1>8, <1>9 DEF k, Rest
  <2>. QED
    BY <1>6, <2>2, <2>3, <2>4, <2>5, <2>6
<1>10. CASE MergesBack /\ FrontsMerged' = FrontsMerged
  <2> DEFINE k == FrontsMerged
  <2>1. merged' = Append(merged, Taken1) /\ wasSwitchPipe /\ ~wasSwitchPipe' /\ Taken1 # None
    BY <1>10 DEF MergesBack
  <2>2. <<BackMerged, Taken1>> \in NextBack
    <3>1. split' = IF wPack[1] = None /\ split # << >> THEN Tail(split) ELSE split
      BY DEF Merge
    <3>. QED
      BY <2>1, <3>1, TakenBack
  <2>3. k \in 1 .. Words /\ Rest(k) /\ Taken1 = Back(k)
    BY <2>1, <2>2, BackIsDue
  <2>4. Back(k) \in Piece /\ Back(k).lo = Cut(k) + 1 /\ Back(k).hi = Last(k)
    BY <2>3, FlitsOfWord
  <2>5. LastMerged = Cut(k) /\ LastMerged' = Last(k)
    BY <1>8, <1>10, <2>1 DEF LastMerged
  <2>. QED
    BY <1>6, <2>1, <2>3, <2>4, <2>5
<1>11. CASE MergesNone /\ FrontsMerged' = FrontsMerged
  <2>1. merged' = merged /\ wasSwitchPipe' = wasSwitchPipe
    BY <1>11 DEF MergesNone
  <2>2. LastMerged' = LastMerged
    BY <1>8, <1>11, <2>1 DEF LastMerged
  <2>. QED
    BY <1>3, <2>1, <2>2
<1>. QED
  BY <1>9, <1>10, <1>11, MergeMoves

\* A cycle of the sender takes the next flit, or sends the one it has, or both.
LEMMA SendLine ==
  ASSUME Shape, Line, SendCycle
  PROVE  Line'
<1> DEFINE pack  == IF held = None /\ merged # << >> THEN Head(merged) ELSE held
           sends == pack # None /\ sent < allowed /\ Room(wire)
           at    == IF pack = None THEN AtWire ELSE pack.hi
<1>1. newlines' = newlines /\ UNCHANGED <<flits, got, word, half, main, wPack, wasSwitchPipe>>
  BY DEF SendCycle, reader, merger
<1>2. AtFlits' = AtFlits /\ LastMerged' = LastMerged
  BY <1>1 DEF AtFlits, EndOf, LastMerged, FrontsMerged, FrontsRead, Cut, Ends
<1>3. /\ Chain(flits, got.hi, NextBytes) /\ Chain(wire, AtFlits, NextBytes)
      /\ held # None => <<AtWire, held>> \in NextBytes
      /\ Chain(merged, AtHeld, NextBytes) /\ EndOf(merged, AtHeld) = LastMerged
      /\ \A i \in 1 .. Len(flits) : flits[i].eop <=> flits[i].hi \in newlines
  BY DEF Line
<1>4. /\ pack # None => <<AtWire, pack>> \in NextBytes
      /\ Chain(merged', at, NextBytes) /\ EndOf(merged', at) = LastMerged
  <2>1. CASE held = None /\ merged # << >>
    <3>1. /\ pack = Head(merged) /\ merged' = Tail(merged) /\ AtHeld = AtWire
      BY <2>1 DEF SendCycle, AtHeld
    <3>2. /\ <<AtWire, pack>> \in NextBytes
          /\ Chain(merged', pack.hi, NextBytes)
          /\ EndOf(merged', pack.hi) = LastMerged
      BY <1>3, <2>1, <3>1, ChainTail DEF Shape
    <3>3. pack # None
      BY <3>2, Links
    <3>. QED
      BY <3>2, <3>3
  <2>2. CASE ~(held = None /\ merged # << >>)
    <3>1. pack = held /\ merged' = merged /\ at = AtHeld
      BY <2>2 DEF SendCycle, AtHeld
    <3>. QED
      BY <1>3, <3>1
  <2>. QED
    BY <2>1, <2>2
<1>5. pack \in Flit
  BY DEF Shape
<1>6. wire' = (IF sends THEN Append(wire, pack) ELSE wire)
      /\ held' = (IF sends THEN None ELSE pack)
  BY DEF SendCycle
<1>7. CASE sends
  <2>1. <<EndOf(wire, AtFlits), pack>> \in NextBytes
    BY <1>4, <1>7 DEF AtWire
  <2>. HIDE DEF pack
  <2>2. Chain(Append(wire, pack), AtFlits, NextBytes)
        /\ EndOf(Append(wire, pack), AtFlits) = pack.hi
    BY <1>3, <1>5, <2>1, ChainAppend DEF Shape
  <2>3. wire' = Append(wire, pack) /\ held' = None
    BY <1>6, <1>7
  <2>4. AtWire' = EndOf(wire', AtFlits)
    BY <1>2 DEF AtWire, EndOf
  <2>5. AtHeld' = AtWire'
    BY <2>3 DEF AtHeld, None
  <2>6. AtHeld' = at
    BY <1>7, <2>2, <2>3, <2>4, <2>5
  <2>. QED
    BY <1>1, <1>2, <1>3, <1>4, <2>2, <2>3, <2>6, LineNext
<1>8. CASE ~sends
  <2>1. wire' = wire /\ held' = pack
    BY <1>6, <1>8
  <2>2. AtWire' = AtWire
    BY <1>2, <2>1 DEF AtWire, EndOf
  <2>. HIDE DEF pack
  <2>3. AtHeld' = at
    BY <2>1, <2>2 DEF AtHeld, None
  <2>. QED
    BY <1>1, <1>2, <1>3, <1>4, <2>1, <2>2, <2>3, LineNext
<1>. QED
  BY <1>7, <1>8

\* The receiver passes a flit on as it is, but for the end of packet, which it
\* finds anew.
LEMMA ReceiveLine ==
  ASSUME Shape, Line, ReceiveFlit
  PROVE  Line'
<1> DEFINE flit == Head(wire)
           e == FindsEop(flit.lo, flit.hi)
           f == [None EXCEPT !.lo = flit.lo, !.hi = flit.hi, !.eop = e]
<1>1. newlines' = newlines
      /\ UNCHANGED <<got, held, merged, word, half, main, wPack, wasSwitchPipe>>
  BY DEF ReceiveFlit, reader, merger, sender
<1>2. LastMerged' = LastMerged
  BY <1>1 DEF LastMerged, FrontsMerged, FrontsRead, Cut, Ends
<1>3. /\ Chain(flits, got.hi, NextBytes) /\ Chain(wire, AtFlits, NextBytes)
      /\ held # None => <<AtWire, held>> \in NextBytes
      /\ Chain(merged, AtHeld, NextBytes) /\ EndOf(merged, AtHeld) = LastMerged
      /\ \A i \in 1 .. Len(flits) : flits[i].eop <=> flits[i].hi \in newlines
  BY DEF Line
<1>4. /\ wire # << >> /\ wire' = Tail(wire) /\ flits' = Append(flits, f)
  BY DEF ReceiveFlit
<1>5. /\ flit \in Flit /\ <<AtFlits, flit>> \in NextBytes
      /\ Chain(wire', flit.hi, NextBytes)
      /\ EndOf(wire', flit.hi) = AtWire
  BY <1>3, <1>4, ChainTail DEF Shape, AtWire
<1>6. flit \in Piece /\ flit.lo = AtFlits + 1
  BY <1>5, Links
<1>7. newlines \subseteq Nat
  <2>1. newlines \in SUBSET (1 .. Words * Word) /\ Words * Word \in Nat
    BY PayloadInputAssumption DEF Shape
  <2>. QED
    BY <2>1
<1>8. e <=> flit.hi \in newlines
  <2>1. /\ flit.lo \in Nat /\ flit.hi \in Nat /\ flit.lo <= flit.hi
        /\ \A q \in newlines : flit.lo <= q /\ q <= flit.hi => flit.hi \in newlines
    <3>1. Words * Word \in Nat
      BY PayloadInputAssumption
    <3>. QED
      BY <1>5, <1>6, <3>1 DEF Piece, Flit, Places
  <2>. DEFINE lo == flit.lo
              hi == flit.hi
  <2>2. lo \in Nat /\ hi \in Nat /\ lo <= hi
        /\ \A q \in newlines : lo <= q /\ q <= hi => hi \in newlines
    BY <2>1
  <2>. HIDE DEF lo, hi
  <2>3. FindsEop(lo, hi) <=> hi \in newlines
    BY <1>7, <2>2 DEF FindsEop
  <2>. QED
    BY <2>3 DEF lo, hi
<1>9. e \in BOOLEAN
  BY DEF FindsEop
<1>. HIDE DEF e
<1>10. f \in Flit /\ f.lo = flit.lo /\ f.hi = flit.hi /\ f.eop = e
  BY <1>5, <1>9 DEF None, Flit
<1>. HIDE DEF f, flit
<1>11. f \in Piece
  BY <1>6, <1>10 DEF Piece
<1>12. <<AtFlits, f>> \in NextBytes
  BY <1>6, <1>10, <1>11, LinePlaces, Links
<1>13. Chain(flits', got.hi, NextBytes) /\ EndOf(flits', got.hi) = flit.hi
  BY <1>3, <1>4, <1>10, <1>12, ChainAppend DEF Shape, AtFlits
<1>14. AtFlits' = flit.hi
  BY <1>1, <1>13 DEF AtFlits, EndOf
<1>15. AtWire' = AtWire
  BY <1>5, <1>14 DEF AtWire, EndOf
<1>16. AtHeld' = AtHeld
  BY <1>1, <1>15 DEF AtHeld, None
<1>17. ASSUME NEW i \in 1 .. Len(flits')
       PROVE  flits'[i].eop <=> flits'[i].hi \in newlines
  <2>1. CASE i \in 1 .. Len(flits)
    <3>1. flits'[i] = flits[i]
      BY <1>4, <1>10, <2>1 DEF Shape
    <3>. QED
      BY <1>3, <2>1, <3>1
  <2>2. CASE i = Len(flits) + 1
    <3>1. flits'[i] = f
      BY <1>4, <1>10, <2>2 DEF Shape
    <3>. QED
      BY <1>8, <1>10, <3>1
  <2>3. Len(flits') = Len(flits) + 1 /\ Len(flits) \in Nat
    BY <1>4, <1>10 DEF Shape
  <2>. QED
    BY <2>1, <2>2, <2>3
<1>. QED
  BY <1>1, <1>2, <1>3, <1>5, <1>13, <1>14, <1>15, <1>16, <1>17, LineNext

\* The stage behind takes the flit that follows the last one it took.
LEMMA TakeLine ==
  ASSUME Shape, Line, TakeFlit
  PROVE  /\ Line'
         /\ got' = Head(flits) /\ got' \in Piece /\ got' \in Flit /\ got'.lo = got.hi + 1
         /\ got'.eop <=> got'.hi \in newlines
<1>1. newlines' = newlines
      /\ UNCHANGED <<wire, held, merged, word, half, main, wPack, wasSwitchPipe>>
  BY DEF TakeFlit, reader, merger, sender
<1>2. LastMerged' = LastMerged
  BY <1>1 DEF LastMerged, FrontsMerged, FrontsRead, Cut, Ends
<1>3. /\ Chain(flits, got.hi, NextBytes) /\ Chain(wire, AtFlits, NextBytes)
      /\ held # None => <<AtWire, held>> \in NextBytes
      /\ Chain(merged, AtHeld, NextBytes) /\ EndOf(merged, AtHeld) = LastMerged
      /\ \A i \in 1 .. Len(flits) : flits[i].eop <=> flits[i].hi \in newlines
  BY DEF Line
<1>4. flits # << >> /\ flits' = Tail(flits) /\ got' = Head(flits)
  BY DEF TakeFlit
<1>5. /\ Len(flits') = Len(flits) - 1 /\ Len(flits) \in Nat \ {0} /\ got' = flits[1]
      /\ \A i \in 1 .. Len(flits) - 1 : flits'[i] = flits[i + 1]
      /\ <<got.hi, got'>> \in NextBytes
      /\ Chain(flits', got'.hi, NextBytes) /\ EndOf(flits', got'.hi) = AtFlits
  BY <1>3, <1>4, ChainTail DEF Shape, AtFlits
<1>6. got' \in Piece /\ got' \in Flit /\ got'.lo = got.hi + 1
  BY <1>5, Links
<1>7. got'.eop <=> got'.hi \in newlines
  <2>1. 1 \in 1 .. Len(flits)
    BY <1>5
  <2>. QED
    BY <1>3, <1>5, <2>1
<1>8. AtFlits' = AtFlits
  BY <1>5 DEF AtFlits, EndOf
<1>9. AtWire' = AtWire
  BY <1>1, <1>8 DEF AtWire, EndOf
<1>10. AtHeld' = AtHeld
  BY <1>1, <1>9 DEF AtHeld, None
<1>11. \A i \in 1 .. Len(flits') : flits'[i].eop <=> flits'[i].hi \in newlines
  <2>1. \A i \in 1 .. Len(flits') : i + 1 \in 1 .. Len(flits) /\ flits'[i] = flits[i + 1]
    BY <1>5
  <2>. QED
    BY <1>3, <2>1
<1>12. Line'
  BY <1>1, <1>2, <1>3, <1>5, <1>8, <1>9, <1>10, <1>11, LineNext
<1>. QED
  BY <1>4, <1>6, <1>7, <1>12

LEMMA NextLine ==
  ASSUME Shape, Fronts, Backs, Line, [Next]_vars
  PROVE  Line'
<1>1. CASE Reader \/ UNCHANGED vars
  <2>1. newlines' = newlines
        /\ UNCHANGED <<flits, wire, merged, held, got, wasSwitchPipe>>
    BY <1>1 DEF Reader, ReadRest, ReadFront, ReadCount, vars, reader, merger, sender
  <2>2. AtFlits' = AtFlits /\ AtWire' = AtWire /\ AtHeld' = AtHeld
    BY <2>1 DEF AtFlits, AtWire, AtHeld, EndOf
  <2>3. FrontsMerged' = FrontsMerged
    <3>1. CASE UNCHANGED vars
      BY <3>1 DEF vars, reader, merger, FrontsMerged, FrontsRead
    <3>. QED
      BY <1>1, <3>1, ReaderMergesNone
  <2>4. LastMerged' = LastMerged
    BY <2>1, <2>3 DEF LastMerged, Cut, Ends
  <2>. QED
    BY <2>1, <2>2, <2>4, LineNext DEF Line
<1>. QED
  BY <1>1, MergeLine, SendLine, ReceiveLine, TakeLine DEF Next

-----------------------------------------------------------------------------
(***************************************************************************)
(* Behind.                                                                 *)
(***************************************************************************)
\* No flit on its way is of bytes that the merger has not written yet.
UpTo(p) == {f \in Flit : f.hi <= p}
Behind ==
  /\ \A i \in 1 .. Len(flits) : flits[i] \in UpTo(LastMerged)
  /\ \A i \in 1 .. Len(wire) : wire[i] \in UpTo(LastMerged)
  /\ \A i \in 1 .. Len(merged) : merged[i] \in UpTo(LastMerged)
  /\ held \in UpTo(LastMerged) /\ got \in UpTo(LastMerged)

LEMMA BehindNext ==
  Behind' <=>
    /\ \A i \in 1 .. Len(flits') : flits'[i] \in UpTo(LastMerged')
    /\ \A i \in 1 .. Len(wire') : wire'[i] \in UpTo(LastMerged')
    /\ \A i \in 1 .. Len(merged') : merged'[i] \in UpTo(LastMerged')
    /\ held' \in UpTo(LastMerged') /\ got' \in UpTo(LastMerged')
BY DEF Behind, UpTo

\* Reads and writes of a stream whose flits are in a set.
LEMMA StreamWithin ==
  ASSUME NEW s \in Seq(Flit), NEW S, \A i \in 1 .. Len(s) : s[i] \in S
  PROVE  /\ s # << >> => /\ Head(s) \in S
                         /\ \A i \in 1 .. Len(Tail(s)) : Tail(s)[i] \in S
         /\ \A f \in Flit : f \in S =>
              \A i \in 1 .. Len(Append(s, f)) : Append(s, f)[i] \in S
<1>1. ASSUME s # << >>
      PROVE  /\ Head(s) \in S
             /\ \A i \in 1 .. Len(Tail(s)) : Tail(s)[i] \in S
  <2>1. /\ Len(Tail(s)) = Len(s) - 1 /\ Len(s) \in Nat \ {0} /\ Head(s) = s[1]
        /\ \A i \in 1 .. Len(s) - 1 : Tail(s)[i] = s[i + 1]
    BY <1>1
  <2>2. 1 \in 1 .. Len(s) /\ \A i \in 1 .. Len(s) - 1 : i + 1 \in 1 .. Len(s)
    BY <2>1
  <2>. QED
    BY <2>1, <2>2
<1>2. ASSUME NEW f \in Flit, f \in S
      PROVE  \A i \in 1 .. Len(Append(s, f)) : Append(s, f)[i] \in S
  BY <1>2
<1>. QED
  BY <1>1, <1>2

\* Where the merger is: not beyond the fronts that have been read.
LEMMA MergedPlace ==
  ASSUME Shape, Fronts
  PROVE  /\ LastMerged \in Nat /\ LastMerged <= Last(FrontsRead)
         /\ Last(FrontsRead) \in Nat
<1>1. /\ FrontsMerged \in 0 .. FrontsRead /\ FrontsRead \in 0 .. Words /\ Words \in Nat
      /\ FrontsMerged \in 0 .. Words
  BY FrontNumbers
<1>2. /\ Last(FrontsMerged) \in Nat /\ Last(FrontsRead) \in Nat
      /\ Last(FrontsMerged) <= Last(FrontsRead)
  BY <1>1, EndsOfWords
<1>3. wasSwitchPipe => FrontsMerged \in 1 .. Words
  BY <1>1 DEF Fronts
<1>4. wasSwitchPipe => Cut(FrontsMerged) \in Nat /\ Cut(FrontsMerged) <= Last(FrontsMerged)
  BY <1>3, WhereCut
<1>5. LastMerged \in Nat /\ LastMerged <= Last(FrontsMerged)
  BY <1>2, <1>4 DEF LastMerged
<1>6. LastMerged <= Last(FrontsRead)
  BY <1>2, <1>5
<1>. QED
  BY <1>2, <1>5, <1>6

\* A merge writes a flit behind the place it was at.
LEMMA MergeAdvances ==
  ASSUME Shape, Fronts, Backs, Line, Merge
  PROVE  LastMerged' \in Nat /\ LastMerged <= LastMerged'
<1>1. /\ FrontsMerged \in 0 .. FrontsRead /\ FrontsRead \in 0 .. Words /\ Words \in Nat
      /\ LastMerged \in Nat
  BY FrontNumbers, MergedPlace
<1>2. LastMerged' = IF wasSwitchPipe' THEN Cut(FrontsMerged') ELSE Last(FrontsMerged')
  BY DEF LastMerged, Cut, Ends, Merge, reader
<1>3. CASE MergesFront /\ FrontsMerged' = FrontsMerged + 1 /\ FrontsMerged' \in 1 .. FrontsRead
  <2> DEFINE k == FrontsMerged'
  <2>1. k \in 1 .. Words /\ k - 1 = FrontsMerged /\ k \in 0 .. Words /\ k - 1 \in Nat
        /\ (k - 1) + 1 = k
    BY <1>1, <1>3
  <2>2. LastMerged = Last(k - 1)
    BY <1>3, <2>1 DEF MergesFront, LastMerged
  <2>. HIDE DEF k
  <2>3. /\ Cut(k) \in Nat /\ First(k) <= Cut(k) /\ Last(k) \in Nat /\ First(k) <= Last(k)
        /\ First(k) \in Nat
    BY <2>1, WhereCut
  <2>4. First(k) = Last(k - 1) + 1
    BY <2>1, PlacesOfWords
  <2>5. LastMerged' \in {Cut(k), Last(k)}
    BY <1>2 DEF k
  <2>. QED
    BY <1>1, <2>2, <2>3, <2>4, <2>5
<1>4. CASE MergesBack /\ FrontsMerged' = FrontsMerged
  <2> DEFINE k == FrontsMerged
  <2>1. wasSwitchPipe /\ ~wasSwitchPipe' /\ k \in 1 .. Words
    BY <1>1, <1>4 DEF MergesBack, Fronts
  <2>2. Cut(k) <= Last(k) /\ Last(k) \in Nat
    BY <2>1, WhereCut
  <2>. QED
    BY <1>2, <1>4, <2>1, <2>2 DEF LastMerged
<1>5. CASE MergesNone /\ FrontsMerged' = FrontsMerged
  <2>1. LastMerged' = LastMerged
    BY <1>2, <1>5 DEF MergesNone, LastMerged
  <2>. QED
    BY <1>1, <2>1
<1>. QED
  BY <1>3, <1>4, <1>5, MergeMoves

LEMMA InitBehind == Init => Behind
<1>. SUFFICES ASSUME Init PROVE Behind
  OBVIOUS
<1>1. FrontsMerged = 0
  BY DEF Init, FrontsMerged, FrontsRead
<1>2. LastMerged = 0
  BY <1>1, PlacesOfWords DEF Init, LastMerged
<1>. QED
  BY <1>2, NoneIsNone DEF Init, Behind, UpTo

LEMMA NextBehind ==
  ASSUME Shape, Fronts, Backs, Line, Behind, [Next]_vars
  PROVE  Behind'
<1>1. /\ \A i \in 1 .. Len(flits) : flits[i] \in UpTo(LastMerged)
      /\ \A i \in 1 .. Len(wire) : wire[i] \in UpTo(LastMerged)
      /\ \A i \in 1 .. Len(merged) : merged[i] \in UpTo(LastMerged)
      /\ held \in UpTo(LastMerged) /\ got \in UpTo(LastMerged)
  BY DEF Behind
<1>2. /\ flits \in Seq(Flit) /\ wire \in Seq(Flit) /\ merged \in Seq(Flit)
      /\ held \in Flit /\ got \in Flit
  BY DEF Shape
<1>3. LastMerged \in Nat
  BY MergedPlace
<1>4. None \in UpTo(LastMerged)
  BY <1>3, NoneIsNone DEF UpTo
<1>5. ASSUME newlines' = newlines, FrontsMerged' = FrontsMerged, wasSwitchPipe' = wasSwitchPipe
      PROVE  LastMerged' = LastMerged
  BY <1>5 DEF LastMerged, Cut, Ends
<1>6. CASE Reader \/ UNCHANGED vars
  <2>1. newlines' = newlines
        /\ UNCHANGED <<flits, wire, merged, held, got, wasSwitchPipe>>
    BY <1>6 DEF Reader, ReadRest, ReadFront, ReadCount, vars, reader, merger, sender
  <2>2. FrontsMerged' = FrontsMerged
    <3>1. CASE UNCHANGED vars
      BY <3>1 DEF vars, reader, merger, FrontsMerged, FrontsRead
    <3>. QED
      BY <1>6, <3>1, ReaderMergesNone
  <2>. QED
    BY <1>1, <1>5, <2>1, <2>2, BehindNext
<1>7. CASE Merge
  <2>1. LastMerged' \in Nat /\ LastMerged <= LastMerged'
    BY <1>7, MergeAdvances
  <2>2. UpTo(LastMerged) \subseteq UpTo(LastMerged')
    <3>1. \A f \in Flit : f.hi \in Nat
      BY PayloadInputAssumption DEF Flit, Places
    <3>. QED
      BY <1>3, <2>1, <3>1 DEF UpTo
  <2>3. EndOf(merged', AtHeld') = LastMerged' /\ merged' \in Seq(Flit)
    BY <1>7, MergeLine, NextShape DEF Line, Shape, Next
  <2>4. \A i \in 1 .. Len(merged') : merged'[i] \in UpTo(LastMerged')
    <3>1. CASE merged' = merged
      BY <1>1, <2>2, <3>1
    <3>2. ASSUME NEW f \in Flit, merged' = Append(merged, f)
          PROVE  \A i \in 1 .. Len(merged') : merged'[i] \in UpTo(LastMerged')
      <4>1. merged' # << >> /\ merged'[Len(merged')] = f
        <5>1. /\ Len(Append(merged, f)) = Len(merged) + 1
              /\ Append(merged, f)[Len(merged) + 1] = f /\ Append(merged, f) # << >>
          BY <1>2
        <5>. QED
          BY <3>2, <5>1
      <4>2. f.hi = LastMerged'
        BY <2>3, <4>1 DEF EndOf
      <4>3. f \in UpTo(LastMerged')
        BY <2>1, <4>2 DEF UpTo
      <4>. QED
        BY <1>1, <1>2, <2>2, <3>2, <4>3, StreamWithin
    <3>3. merged' = merged \/ \E f \in Flit : merged' = Append(merged, f)
      BY <1>7, MergeCases, TakenShape DEF MergesFront, MergesBack, MergesNone
    <3>. QED
      BY <3>1, <3>2, <3>3
  <2>5. UNCHANGED <<flits, wire, held, got>>
    BY <1>7 DEF Merge, sender
  <2>. QED
    BY <1>1, <2>2, <2>4, <2>5, BehindNext
<1>8. ASSUME SendCycle \/ ReceiveFlit \/ TakeFlit
      PROVE  LastMerged' = LastMerged
  <2>1. newlines' = newlines /\ UNCHANGED <<word, half, main, wPack, wasSwitchPipe>>
    BY <1>8 DEF SendCycle, ReceiveFlit, TakeFlit, reader, merger
  <2>. QED
    BY <1>5, <2>1 DEF FrontsMerged, FrontsRead
<1>9. CASE SendCycle
  <2> DEFINE pack == IF held = None /\ merged # << >> THEN Head(merged) ELSE held
  <2>1. pack \in UpTo(LastMerged) /\ pack \in Flit
        /\ \A i \in 1 .. Len(merged') : merged'[i] \in UpTo(LastMerged)
    BY <1>1, <1>2, <1>9, StreamWithin DEF SendCycle, UpTo
  <2>2. /\ wire' = wire \/ wire' = Append(wire, pack)
        /\ held' = None \/ held' = pack
        /\ UNCHANGED <<flits, got>>
    BY <1>9 DEF SendCycle
  <2>. HIDE DEF pack
  <2>3. \A i \in 1 .. Len(wire') : wire'[i] \in UpTo(LastMerged)
    BY <1>1, <1>2, <2>1, <2>2, StreamWithin
  <2>. QED
    BY <1>1, <1>4, <1>8, <1>9, <2>1, <2>2, <2>3, BehindNext
<1>10. CASE ReceiveFlit
  <2> DEFINE f == [None EXCEPT !.lo = Head(wire).lo, !.hi = Head(wire).hi,
                               !.eop = FindsEop(Head(wire).lo, Head(wire).hi)]
  <2>1. /\ wire # << >> /\ wire' = Tail(wire) /\ flits' = Append(flits, f)
        /\ UNCHANGED <<held, merged, got>>
    BY <1>10 DEF ReceiveFlit, sender
  <2>2. Head(wire) \in UpTo(LastMerged)
        /\ \A i \in 1 .. Len(wire') : wire'[i] \in UpTo(LastMerged)
    BY <1>1, <1>2, <2>1, StreamWithin
  <2>3. f \in Flit /\ f.hi = Head(wire).hi
    BY <2>2 DEF UpTo, Flit, None, FindsEop
  <2>. HIDE DEF f
  <2>4. f \in UpTo(LastMerged)
    BY <2>2, <2>3 DEF UpTo
  <2>5. \A i \in 1 .. Len(flits') : flits'[i] \in UpTo(LastMerged)
    BY <1>1, <1>2, <2>1, <2>3, <2>4, StreamWithin
  <2>. QED
    BY <1>1, <1>8, <1>10, <2>1, <2>2, <2>5, BehindNext
<1>11. CASE TakeFlit
  <2>1. /\ flits # << >> /\ flits' = Tail(flits) /\ got' = Head(flits)
        /\ UNCHANGED <<held, merged, wire>>
    BY <1>11 DEF TakeFlit, sender
  <2>2. got' \in UpTo(LastMerged)
        /\ \A i \in 1 .. Len(flits') : flits'[i] \in UpTo(LastMerged)
    BY <1>1, <1>2, <2>1, StreamWithin
  <2>. QED
    BY <1>1, <1>8, <1>11, <2>1, <2>2, BehindNext
<1>. QED
  BY <1>6, <1>7, <1>9, <1>10, <1>11 DEF Next

-----------------------------------------------------------------------------
(***************************************************************************)
(* Counts.                                                                 *)
(***************************************************************************)
LEMMA CountsNext ==
  ASSUME newlines' = newlines
  PROVE  /\ WordsCounted' = {w \in 1 .. Words : w < word' /\ Ends(w) # {}}
         /\ WordsSeen' = {w \in 1 .. Words : Ends(w) # {} /\ Cut(w) <= got'.hi}
BY DEF WordsCounted, WordsSeen, Cut, Ends

\* Sets of words are finite.
LEMMA SetsOfWords ==
  ASSUME NEW S \in SUBSET (1 .. Words)
  PROVE  /\ IsFiniteSet(S) /\ Cardinality(S) \in 0 .. Words
         /\ \A w : Cardinality(S \cup {w})
                     = IF w \in S THEN Cardinality(S) ELSE Cardinality(S) + 1
<1>1. Words \in Nat
  BY PayloadInputAssumption
<1>2. IsFiniteSet(1 .. Words) /\ Cardinality(1 .. Words) = Words
  BY <1>1, FS_Interval
<1>3. IsFiniteSet(S) /\ Cardinality(S) <= Words
  BY <1>2, FS_Subset
<1>4. Cardinality(S) \in Nat
  BY <1>3, FS_CardinalityType
<1>. QED
  BY <1>1, <1>3, <1>4, FS_AddElement

LEMMA InitCounts == Init => Counts
<1>. SUFFICES ASSUME Init PROVE Counts
  OBVIOUS
<1>1. WordsCounted = {}
  BY DEF Init, WordsCounted
<1>2. WordsSeen = {}
  <2>1. ASSUME NEW w \in 1 .. Words, Cut(w) <= got.hi
        PROVE  FALSE
    <3>1. First(w) \in Nat /\ First(w) > 0 /\ Cut(w) \in Nat /\ First(w) <= Cut(w)
      BY InitShape, WhereCut
    <3>2. got.hi = 0
      BY NoneIsNone DEF Init
    <3>. QED
      BY <2>1, <3>1, <3>2
  <2>. QED
    BY <2>1 DEF WordsSeen
<1>. QED
  BY <1>1, <1>2, FS_EmptySet DEF Init, Counts

\* A flit off the link brings the last newline of its word, if it ends with one.
LEMMA TakeCounts ==
  ASSUME Shape, Line, Counts, TakeFlit
  PROVE  Counts'
<1>1. newlines' = newlines /\ UNCHANGED <<word, payloadCount>>
  BY DEF TakeFlit, reader
<1>2. /\ got' \in Piece /\ got' \in Flit /\ got'.lo = got.hi + 1
      /\ got'.eop <=> got'.hi \in newlines
      /\ packets' = IF got'.eop THEN packets + 1 ELSE packets
  BY TakeLine DEF TakeFlit
<1> DEFINE p == got.hi
           q == got'.hi
           new == {w \in 1 .. Words : Ends(w) # {} /\ p < Cut(w) /\ Cut(w) <= q}
<1>3. p \in Nat /\ q \in Nat /\ p < q /\ (\A x \in newlines : p < x /\ x <= q => q \in newlines)
      /\ \E w \in 1 .. Words : /\ First(w) <= p + 1 /\ q <= Last(w)
                               /\ q \in newlines => q = Cut(w)
  <2>1. Words * Word \in Nat
    BY PayloadInputAssumption
  <2>2. newlines \subseteq Nat
    BY <2>1, PayloadInputAssumption DEF Shape
  <2>3. p \in Nat /\ q \in Nat
    BY <1>2, <2>1 DEF Shape, Flit, Places
  <2>4. /\ p + 1 <= q
        /\ \E w \in 1 .. Words : /\ First(w) <= p + 1 /\ q <= Last(w)
                                 /\ q \in newlines => q = Cut(w)
        /\ \A x \in newlines : p + 1 <= x /\ x <= q => q \in newlines
    BY <1>2 DEF Piece
  <2>. HIDE DEF p, q
  <2>. QED
    BY <2>2, <2>3, <2>4
<1>4. WordsSeen = {w \in 1 .. Words : Ends(w) # {} /\ Cut(w) <= p}
      /\ WordsSeen' = {w \in 1 .. Words : Ends(w) # {} /\ Cut(w) <= q}
  BY <1>1, CountsNext DEF WordsSeen
<1>. HIDE DEF p, q
<1>5. PICK w \in 1 .. Words : /\ First(w) <= p + 1 /\ q <= Last(w)
                              /\ q \in newlines => q = Cut(w)
  BY <1>3
<1>6. ASSUME NEW v \in 1 .. Words, Ends(v) # {}, p < Cut(v), Cut(v) <= q
      PROVE  v = w /\ q \in newlines
  <2>1. /\ Cut(v) \in Nat /\ First(v) <= Cut(v) /\ Cut(v) <= Last(v) /\ Cut(v) \in newlines
        /\ First(v) \in Nat /\ Last(v) \in Nat /\ First(w) \in Nat /\ Last(w) \in Nat
    BY <1>6, WhereCut
  <2>2. q \in newlines
    BY <1>3, <1>6, <2>1
  <2>3. /\ v < w => Last(v) < First(w)
        /\ w < v => Last(w) < First(v)
        /\ v \in Int /\ w \in Int
    <3>1. v \in Nat /\ w \in Nat /\ v \in Int /\ w \in Int
      OBVIOUS
    <3>2. \A x, y \in Nat : x < y => Last(x) < First(y)
      BY PlacesOfWords
    <3>. QED
      BY <3>1, <3>2
  <2>4. ~(v < w) /\ ~(w < v)
    BY <1>3, <1>5, <1>6, <2>1, <2>3
  <2>. QED
    BY <2>2, <2>3, <2>4
<1>7. q \in newlines => Ends(w) # {} /\ p < Cut(w) /\ Cut(w) <= q
  <2>1. /\ Cut(w) \in Nat /\ First(w) \in Nat /\ Last(w) \in Nat /\ Cut(w) <= Last(w)
        /\ Ends(w) # {} => Cut(w) \in newlines
        /\ \A x \in newlines : First(w) <= x /\ x <= Last(w) => Ends(w) # {} /\ x <= Cut(w)
    BY WhereCut
  <2>2. First(w) <= q
    BY <1>3, <1>5, <2>1
  <2>3. q \in newlines => Ends(w) # {}
    BY <1>5, <2>1, <2>2
  <2>. QED
    BY <1>3, <1>5, <2>3
<1>8. WordsSeen' = IF q \in newlines THEN WordsSeen \cup {w} ELSE WordsSeen
  <2>1. \A v \in 1 .. Words : Cut(v) \in Nat
    BY WhereCut
  <2>2. CASE q \in newlines
    <3>1. ASSUME NEW v \in 1 .. Words
          PROVE  (Ends(v) # {} /\ Cut(v) <= q) <=> (Ends(v) # {} /\ Cut(v) <= p) \/ v = w
      BY <1>3, <1>6, <1>7, <2>1, <2>2
    <3>. QED
      BY <1>4, <2>2, <3>1
  <2>3. CASE q \notin newlines
    <3>1. ASSUME NEW v \in 1 .. Words
          PROVE  (Ends(v) # {} /\ Cut(v) <= q) <=> (Ends(v) # {} /\ Cut(v) <= p)
      BY <1>3, <1>6, <2>1, <2>3
    <3>. QED
      BY <1>4, <2>3, <3>1
  <2>. QED
    BY <2>2, <2>3
<1>9. q \in newlines => w \notin WordsSeen
  BY <1>3, <1>4, <1>7, WhereCut
<1>10. /\ WordsSeen \in SUBSET (1 .. Words) /\ packets = Cardinality(WordsSeen)
       /\ payloadCount = Cardinality(WordsCounted) /\ WordsCounted' = WordsCounted
  BY <1>1, CountsNext DEF Counts, WordsSeen, WordsCounted
<1>11. packets' = Cardinality(WordsSeen')
  <2>1. CASE q \in newlines
    <3>1. Cardinality(WordsSeen \cup {w}) = Cardinality(WordsSeen) + 1
      BY <1>9, <1>10, <2>1, SetsOfWords
    <3>2. packets' = packets + 1
      BY <1>2, <2>1 DEF q
    <3>. QED
      BY <1>8, <1>10, <2>1, <3>1, <3>2
  <2>2. CASE q \notin newlines
    <3>1. packets' = packets
      BY <1>2, <2>2 DEF q
    <3>. QED
      BY <1>8, <1>10, <2>2, <3>1
  <2>. QED
    BY <2>1, <2>2
<1>. QED
  BY <1>1, <1>10, <1>11 DEF Counts

LEMMA NextCounts ==
  ASSUME Shape, Line, Counts, [Next]_vars
  PROVE  Counts'
<1>1. newlines' = newlines
  BY BufferFixed DEF vars, reader
<1>2. ASSUME UNCHANGED <<got, packets, word, payloadCount>>
      PROVE  Counts'
  <2>1. WordsSeen' = WordsSeen /\ WordsCounted' = WordsCounted
    BY <1>1, <1>2, CountsNext DEF WordsSeen, WordsCounted
  <2>. QED
    BY <1>2, <2>1 DEF Counts
<1>3. CASE ReadCount
  <2>1. /\ word' = word + 1 /\ word \in 1 .. Words
        /\ payloadCount' = IF Ends(word) # {} THEN payloadCount + 1 ELSE payloadCount
        /\ UNCHANGED <<got, packets>>
    BY <1>3, PayloadInputAssumption DEF ReadCount, Shape
  <2>2. WordsSeen' = WordsSeen
    BY <1>1, <2>1, CountsNext DEF WordsSeen
  <2>3. WordsCounted' = IF Ends(word) # {} THEN WordsCounted \cup {word} ELSE WordsCounted
    <3>1. \A w \in 1 .. Words : w < word' <=> w < word \/ w = word
      BY <2>1
    <3>2. WordsCounted' = {w \in 1 .. Words : w < word' /\ Ends(w) # {}}
      BY <1>1, CountsNext
    <3>. QED
      BY <2>1, <3>1, <3>2 DEF WordsCounted
  <2>4. word \notin WordsCounted /\ WordsCounted \in SUBSET (1 .. Words)
    BY <2>1 DEF WordsCounted
  <2>5. payloadCount' = Cardinality(WordsCounted')
    <3>1. CASE Ends(word) # {}
      BY <2>1, <2>3, <2>4, <3>1, SetsOfWords DEF Counts
    <3>2. CASE Ends(word) = {}
      BY <2>1, <2>3, <3>2 DEF Counts
    <3>. QED
      BY <3>1, <3>2
  <2>. QED
    BY <2>1, <2>2, <2>5 DEF Counts
<1>4. CASE ReadRest \/ ReadFront \/ Merge \/ SendCycle \/ ReceiveFlit \/ UNCHANGED vars
  BY <1>2, <1>4 DEF ReadRest, ReadFront, Merge, SendCycle, ReceiveFlit, vars, reader
<1>. QED
  BY <1>3, <1>4, TakeCounts DEF Next, Reader

-----------------------------------------------------------------------------
(***************************************************************************)
(* The theorems.                                                           *)
(***************************************************************************)
IInv == Shape /\ Fronts /\ Backs /\ Line /\ Behind /\ Counts

LEMMA IInvHolds == Spec => []IInv
<1>1. Init => IInv
  BY InitShape, InitFronts, InitBacks, InitLine, InitBehind, InitCounts DEF IInv
<1>2. IInv /\ [Next]_vars => IInv'
  BY NextShape, NextFronts, NextBacks, NextLine, NextBehind, NextCounts DEF IInv
<1>. QED
  BY <1>1, <1>2, PTL DEF Spec

\* Every variable keeps its type: the streams stay within their depth, and the
\* two counts of packets never pass the number of words.
THEOREM TypeCorrect == Spec => []TypeOK
<1>1. IInv => TypeOK
  <2>. SUFFICES ASSUME IInv PROVE TypeOK
    OBVIOUS
  <2>1. packets \in 0 .. Words /\ payloadCount \in 0 .. Words
    <3>1. WordsSeen \in SUBSET (1 .. Words) /\ WordsCounted \in SUBSET (1 .. Words)
      BY DEF WordsSeen, WordsCounted
    <3>. QED
      BY <3>1, SetsOfWords DEF IInv, Counts
  <2>2. \A s \in {main, split, merged, wire, flits} : s \in Seq(Flit) /\ Len(s) <= Depth
    BY DEF IInv, Shape
  <2>3. Flit \cup {None} = Flit /\ sent \in 0 .. 2 * Period
    BY NoneIsNone, PayloadInputAssumption DEF IInv, Shape
  <2>. QED
    BY <2>1, <2>2, <2>3 DEF IInv, Shape, TypeOK
<1>. QED
  BY <1>1, IInvHolds, PTL

\* The flits come off the link in the buffer's order, none lost or repeated, and
\* each is an end of packet just when its last byte is a newline.
THEOREM ArrivesInOrder == Spec => LinesInOrder
<1>1. IInv /\ [Next]_vars =>
        [got' # got => /\ got'.lo = got.hi + 1
                       /\ got'.eop <=> got'.hi \in newlines]_vars
  <2>. SUFFICES ASSUME IInv, [Next]_vars, got' # got
                PROVE  got'.lo = got.hi + 1 /\ (got'.eop <=> got'.hi \in newlines)
    OBVIOUS
  <2>1. TakeFlit
    BY DEF Next, Reader, ReadRest, ReadFront, ReadCount, Merge, SendCycle, ReceiveFlit, vars
  <2>. QED
    BY <2>1, TakeLine DEF IInv
<1>. QED
  BY <1>1, IInvHolds, PTL DEF Spec, LinesInOrder

\* PayloadCount and the packets counted behind the link differ by no more than
\* the word at hand, and agree when the buffer has arrived.
THEOREM CountsAgreeAtTheEnd == Spec => []CountsLines
<1>1. IInv => CountsLines
  <2>. SUFFICES ASSUME IInv PROVE CountsLines
    OBVIOUS
  <2>. USE DEF IInv
  <2>1. /\ FrontsRead \in 0 .. Words /\ Words \in Nat
        /\ LastMerged \in Nat /\ LastMerged <= Last(FrontsRead) /\ Last(FrontsRead) \in Nat
    BY FrontNumbers, MergedPlace
  <2>2. got.hi \in Nat /\ got.hi <= Last(FrontsRead)
    <3>1. got.hi \in Nat
      BY PayloadInputAssumption DEF Shape, Flit, Places
    <3>2. got.hi <= LastMerged
      BY DEF Behind, UpTo
    <3>. QED
      BY <2>1, <3>1, <3>2
  <2>3. ASSUME NEW w \in WordsSeen
        PROVE  w \in 1 .. Words /\ w <= FrontsRead /\ Ends(w) # {}
    <3>1. w \in 1 .. Words /\ Ends(w) # {} /\ Cut(w) <= got.hi
      BY DEF WordsSeen
    <3>2. First(w) \in Nat /\ Cut(w) \in Nat /\ First(w) <= Cut(w)
      BY <3>1, WhereCut
    <3>3. FrontsRead < w => Last(FrontsRead) < First(w)
      BY <2>1, <3>1, PlacesOfWords
    <3>4. ~(FrontsRead < w)
      BY <2>1, <2>2, <3>1, <3>2, <3>3
    <3>. QED
      BY <2>1, <3>1, <3>4
  <2>4. /\ WordsCounted \in SUBSET (1 .. Words) /\ WordsSeen \in SUBSET (1 .. Words)
        /\ packets = Cardinality(WordsSeen) /\ payloadCount = Cardinality(WordsCounted)
    BY DEF WordsCounted, WordsSeen, Counts
  <2>5. CASE half = "count"
    <3>1. WordsSeen \subseteq WordsCounted \cup {word}
      BY <2>3, <2>5 DEF FrontsRead, WordsCounted, Shape
    <3>2. WordsCounted \cup {word} \in SUBSET (1 .. Words)
      BY <2>1, <2>4, <2>5 DEF Shape
    <3>3. packets <= Cardinality(WordsCounted \cup {word})
      BY <2>4, <3>1, <3>2, SetsOfWords, FS_Subset
    <3>4. /\ Cardinality(WordsCounted \cup {word}) \in {payloadCount, payloadCount + 1}
          /\ payloadCount \in Nat /\ packets \in Nat
      BY <2>4, SetsOfWords
    <3>5. packets <= payloadCount + 1
      BY <3>3, <3>4
    <3>6. ~AllRead
      BY <2>1, <2>5 DEF AllRead, Shape
    <3>. QED
      BY <2>5, <3>5, <3>6 DEF CountsLines
  <2>6. CASE half # "count"
    <3>1. FrontsRead = word - 1 /\ word \in Int
      BY <2>1, <2>6 DEF FrontsRead, Shape
    <3>2. WordsSeen \subseteq WordsCounted
      BY <2>3, <3>1 DEF WordsCounted
    <3>3. packets <= payloadCount /\ payloadCount \in Nat
      <4>1. IsFiniteSet(WordsCounted) /\ Cardinality(WordsCounted) \in Nat
        BY <2>1, <2>4, SetsOfWords
      <4>. QED
        BY <2>4, <3>2, <4>1, FS_Subset
    <3>4. ASSUME AllRead
          PROVE  packets = payloadCount
      <4>1. ASSUME NEW w \in WordsCounted
            PROVE  w \in WordsSeen
        <5>1. w \in 1 .. Words /\ Ends(w) # {}
          BY DEF WordsCounted
        <5>2. Cut(w) <= got.hi
          BY <3>4, <5>1, WhereCut DEF AllRead
        <5>. QED
          BY <5>1, <5>2 DEF WordsSeen
      <4>2. WordsSeen = WordsCounted
        BY <3>2, <4>1
      <4>. QED
        BY <2>4, <4>2
    <3>5. packets <= payloadCount + 0
      BY <3>3
    <3>. QED
      BY <2>6, <3>4, <3>5 DEF CountsLines
  <2>. QED
    BY <2>5, <2>6
<1>. QED
  BY <1>1, IInvHolds, PTL
=============================================================================
