---------------------------- MODULE StringMatcher ----------------------------
(***************************************************************************)
(* The string matcher of sm_kernel.cpp, from payload flits to rule ids     *)
(* (sm.cpp, sm.h, mspm.cpp).  mspmHashCheckStage scans a flit at a time    *)
(* for the ends of patterns, with the flit before as history and the first *)
(* byte of the flit behind it as look-ahead: a flit waits for the next     *)
(* one, unless it ends its flow.  Every pattern length has a stream of     *)
(* hits of its own, on which compactor and mspmHashLookupStageByLen turn   *)
(* them into rule ids; mspmRecombineWidth joins the lengths again and lets *)
(* none of them run ahead into the next packet.                            *)
(*                                                                         *)
(* The length 8 has two tables and two streams: the lanes are the lengths  *)
(* 2..Width and one more of length Width.  An iteration of a kernel is one *)
(* action, but the writes to the lanes, which block one after the other.   *)
(* The compactor of a lane takes the hits out of a wide flit one by one,   *)
(* in any order (Compactor: CompactsPackets).                              *)
(*                                                                         *)
(* A match is by hash, so that false positives are possible: a string with *)
(* the hash and the tag of a pattern is taken for it, and in a slot of     *)
(* several patterns the tag is not looked at, but goes on with the slot's  *)
(* overloaded id (MSPM_CHECKTAG and MSPM_RESOLVE_CONFLICT are both on, as  *)
(* in rapidd_synthesis.py).                                                *)
(***************************************************************************)
EXTENDS Naturals, Sequences, FiniteSets, Bags, FiniteSetsExt

CONSTANTS
  Bytes,         \* the bytes of the payload
  Blank,         \* the byte 0xFF
  Width,         \* MSPM_MASK_WIDTH: the longest pattern
  FlitBytes,     \* bytes of a flit, MSPM_UNROLL * MSPM_MASK_WIDTH
  Patterns,      \* the rules: records of lane, string, fields and rule id
  Hash(_),       \* the hash of a string, and its tag
  HashTag(_),
  Flits,         \* the flits that may arrive: their bytes and field tags (a bound)
  MaxFlits,      \* how many arrive (a bound)
  Depth,         \* depth of the streams
  SameFlow       \* TEST_SAMEFLOW

Lanes     == 2 .. Width + 1
LenOf(n)  == IF n > Width THEN Width ELSE n
Positions == 1 .. FlitBytes

ASSUME StringMatcherAssumption ==
  /\ Blank \in Bytes /\ Width \in Nat \ {0, 1} /\ FlitBytes >= Width
  /\ MaxFlits \in Nat /\ Depth \in Nat \ {0} /\ SameFlow \in BOOLEAN
  /\ \A p \in Patterns : p.lane \in Lanes /\ Len(p.string) = LenOf(p.lane)

VARIABLES
  flits, line,            \* arrived: how many, and the bytes of the packet so far
  held,                   \* the flit that waits for its look-ahead (words_1 ...)
  maskIn, wordLast,       \* history of the scan
  found, todo,            \* the hits of a flit, and the lanes still to be written
  wide,                   \* SmWideKeyMetaPipe and the compactor, per lane
  rids,                   \* SmLookupByLenResultMetaPipe, per lane
  eopWait,                \* mspmRecombineWidth
  owed, alike, given      \* history, packet by packet: what has to come of the
                          \* flits that arrived, what may come, and what came

scan == <<held, maskIn, wordLast, found, todo>>
vars == <<flits, line, scan, wide, rids, eopWait, owed, alike, given>>

Stage == INSTANCE PacketStage WITH taken <- owed

\* A flit as normalize() leaves it, with its end-of-packet mark; and none.
Held   == [flit : Flits, eop : BOOLEAN]
NoFlit == [flit |-> << >>, eop |-> FALSE]

\* The slot of a hash table: the patterns of lane n with this hash.  The tables
\* have all patterns (the generator of the headers is not in the repository).
Entry(n, key) == {p \in Patterns : p.lane = n /\ Hash(p.string) = key}

\* A slot of more than one pattern has an overloaded id, URID_CONFLICT_BIT set,
\* for the list of their rules.
Conflict(slot) == Cardinality(slot) > 1

\* The tag of a slot, of no use with an overloaded id.
SlotTag(slot) == IF Conflict(slot) THEN 0 ELSE HashTag((CHOOSE p \in slot : TRUE).string)

\* What goes on of a hit: the id in the slot, here the rules it stands for, and
\* the tag of the string; and no id.
Word(slot, tag) == [rids |-> {p.rid : p \in slot}, tag |-> tag]
NoWord          == Word({}, 0)

TypeOK ==
  /\ flits \in 0 .. MaxFlits /\ line \in Seq(Bytes)
  /\ held \in Held \cup {NoFlit}
  /\ maskIn \in [1 .. Width -> SUBSET Lanes]
  /\ wordLast \in [1 .. Width -> Bytes]
  /\ todo \subseteq Lanes /\ eopWait \subseteq Lanes
  /\ \A n \in Lanes :
       /\ Len(wide[n]) <= Depth
       /\ \A i \in DOMAIN rids[n] :
            rids[n][i].word.rids \subseteq {p.rid : p \in Patterns} /\ rids[n][i].eop \in BOOLEAN
       /\ Len(rids[n]) <= Depth
  /\ Len(alike) = Len(owed)

\* MSPM_NOHISTORY_MASK: at place j of a flow only lengths up to j can end.
NoHistoryMask == [j \in 1 .. Width |-> {n \in Lanes : LenOf(n) > j}]

Init ==
  /\ flits = 0 /\ line = << >>
  /\ held = NoFlit /\ maskIn = NoHistoryMask /\ wordLast = [j \in 1 .. Width |-> Blank]
  /\ found = [hits |-> [n \in Lanes |-> {}], eop |-> FALSE] /\ todo = {}
  /\ wide = [n \in Lanes |-> << >>] /\ rids = [n \in Lanes |-> << >>]
  /\ eopWait = {}
  /\ Stage!Init /\ alike = <<EmptyBag>>

-----------------------------------------------------------------------------
(***************************************************************************)
(* mspmHashCheck: a pattern of lane n may end at a place when neither the  *)
(* shift-or table nor the bitmap of the lane excludes it.                  *)
(***************************************************************************)
\* MSPM_SHIFTORF_TABLE, generated from the patterns: the lanes of which no
\* pattern has this byte, and the next one behind it, k bytes before its end.
ShiftOr(byte, super, k) ==
  {n \in Lanes :
     /\ k < LenOf(n)
     /\ \A p \in Patterns :
          LET i == LenOf(n) - k
          IN  Len(p.string) = LenOf(n) =>
                p.string[i] # byte \/ (k > 0 /\ p.string[i + 1] # super)}

\* Mutant: the supercharacter of a flit's last byte is not looked at.
SuperNone(bytes, next, q) == IF q = FlitBytes THEN bytes[q] ELSE bytes[q + 1]

\* The supercharacter: the next byte, of the next flit after the last one.
Super(bytes, next, q) == IF q = FlitBytes THEN next ELSE bytes[q + 1]

\* mspmShiftOr: the lanes excluded at the places of a flit, and, behind its
\* end, what it excludes in the next one.
Excluded(bytes, next) ==
  [j \in 1 .. FlitBytes + Width |->
     (IF j <= Width THEN maskIn[j] ELSE {}) \cup
     UNION {ShiftOr(bytes[q], Super(bytes, next, q), j - q) :
              q \in {i \in Positions : i <= j /\ j - i < Width}}]

\* mspmBitmap: the string of lane n that ends at a place, perhaps begun in the
\* word before, is in the table, or another string with its hash is.
Hits(n, bytes, ftag, excluded) ==
  LET data == wordLast \o bytes
      s(j) == SubSeq(data, Width + j - LenOf(n) + 1, Width + j)
  IN  {[pos |-> j, key |-> Hash(s(j)), tag |-> HashTag(s(j)), ftag |-> ftag[j]] :
         j \in {i \in Positions : n \notin excluded[i] /\ Entry(n, Hash(s(i))) # {}}}

-----------------------------------------------------------------------------
(***************************************************************************)
(* mspmHashCheckStage.                                                     *)
(***************************************************************************)
\* The words for the strings that end in the flit, have all of their bytes in the
\* packet, and are as asked.
WordsFor(flit, bytes, Asked(_, _, _)) ==
  LET end(j)    == Len(bytes) - FlitBytes + j
      string(x) == SubSeq(bytes, end(x[2]) - LenOf(x[1]) + 1, end(x[2]))
      places    == {x \in Lanes \X Positions :
                      /\ end(x[2]) >= LenOf(x[1])
                      /\ Asked(x[1], string(x), flit.ftag[x[2]])}
      word(x)   == <<x[1], Word(Entry(x[1], Hash(string(x))), HashTag(string(x)))>>
  IN  [w \in {word(x) : x \in places} |-> Cardinality({x \in places : word(x) = w})]

\* Owed: a pattern, in a field it is wanted in.
Wanted(n, string, field) ==
  \E p \in Patterns : p.lane = n /\ p.string = string /\ field \in p.fields

\* Looks like a pattern: each two bytes are those of a pattern of this length at
\* this place, the hash is that of a pattern, and the tag too, unless the slot
\* has several patterns; the field is one of the slot's.
LooksLike(n, string, field) ==
  /\ \A i \in 1 .. LenOf(n) - 1 :
       \E p \in Patterns : /\ Len(p.string) = LenOf(n)
                          /\ SubSeq(p.string, i, i + 1) = SubSeq(string, i, i + 1)
  /\ \E p, q \in Entry(n, Hash(string)) :
       field \in p.fields /\ (p # q \/ HashTag(p.string) = HashTag(string))

\* Mutant: the scan goes on as within a packet.
MaskAfterKeep(eop, excluded) == [j \in 1 .. Width |-> excluded[FlitBytes + j]]

\* The mask carried on, but not into another flow.
MaskAfter(eop, excluded) ==
  IF eop /\ ~SameFlow THEN NoHistoryMask
  ELSE [j \in 1 .. Width |-> excluded[FlitBytes + j]]

\* The flit held back is scanned, if there is one.
Scan(next) ==
  IF held = NoFlit
  THEN UNCHANGED <<maskIn, wordLast, found, todo>>
  ELSE LET bytes    == held.flit.bytes
           excluded == Excluded(bytes, next)
       IN  /\ found' = [hits |-> [n \in Lanes |-> Hits(n, bytes, held.flit.ftag, excluded)],
                        eop |-> held.eop]
           /\ todo' = Lanes
           /\ maskIn' = MaskAfter(held.eop, excluded)
           /\ wordLast' = SubSeq(bytes, FlitBytes - Width + 1, FlitBytes)

Arrive(flit, eop) ==
  LET bytes == line \o flit.bytes
  IN  /\ todo = {} /\ flits < MaxFlits
      /\ Scan(flit.bytes[1])
      /\ held' = [flit |-> flit, eop |-> eop]
      /\ flits' = flits + 1
      /\ line' = IF eop THEN << >> ELSE bytes
      /\ owed'  = Stage!Add(owed, WordsFor(flit, bytes, Wanted), eop)
      /\ alike' = Stage!Add(alike, WordsFor(flit, bytes, LooksLike), eop)
      /\ UNCHANGED <<wide, rids, eopWait, given>>

\* Mutant: a flit is never let go without the next one.
ReleasesNever == FALSE

\* validTail_1: the last flit of a flow waits for no look-ahead.
Releases == held # NoFlit /\ held.eop /\ ~SameFlow

\* A cycle without a new flit; the look-ahead is whatever byte is left.
Release(next) ==
  /\ todo = {} /\ Releases
  /\ Scan(next)
  /\ held' = NoFlit
  /\ UNCHANGED <<flits, line, wide, rids, eopWait, owed, alike, given>>

\* The lanes are written in turn.
WriteLane ==
  LET n == Min(todo)
  IN  /\ todo # {} /\ Len(wide[n]) < Depth
      /\ wide' = [wide EXCEPT ![n] = Append(@, [hits |-> found.hits[n], eop |-> found.eop])]
      /\ todo' = todo \ {n}
      /\ UNCHANGED <<flits, line, held, maskIn, wordLast, found, rids, eopWait, owed, alike, given>>

-----------------------------------------------------------------------------
(***************************************************************************)
(* compactor and mspmHashLookupStageByLen.                                 *)
(***************************************************************************)
\* Mutant: an overloaded id is held to the tag of its slot.
AcceptsTagged(hit, slot) ==
  /\ hit.tag = SlotTag(slot)
  /\ \E p \in slot : hit.ftag \in p.fields

\* A hit stands if its tag is the slot's or the id there is overloaded, and if
\* the slot has its field.
Accepts(hit, slot) ==
  /\ hit.tag = SlotTag(slot) \/ Conflict(slot)
  /\ \E p \in slot : hit.ftag \in p.fields

\* mspmHashLookupByLen
RidOf(n, hit) ==
  LET slot == Entry(n, hit.key)
  IN  IF Accepts(hit, slot) THEN Word(slot, hit.tag) ELSE NoWord

\* The end of a packet is passed on with or without a rule id.
Passes(word, eop) == word # NoWord \/ eop

\* One word leaves the compactor: hit is it, or none; eop is the mark.
LookupOne(n, word, eop, rest) ==
  /\ Passes(word, eop) => Len(rids[n]) < Depth
  /\ rids' = IF Passes(word, eop)
             THEN [rids EXCEPT ![n] = Append(@, [word |-> word, eop |-> eop])] ELSE rids
  /\ wide' = [wide EXCEPT ![n] = rest \o Tail(@)]
  /\ UNCHANGED <<flits, line, scan, eopWait, owed, alike, given>>

\* The packet's end leaves with its last hit or behind it.
Lookup(n) ==
  /\ wide[n] # << >>
  /\ LET flit == Head(wide[n])
     IN  \/ /\ flit.hits = {}
            /\ LookupOne(n, NoWord, flit.eop, << >>)
         \/ \E hit \in flit.hits :
              LET left == [flit EXCEPT !.hits = @ \ {hit}]
              IN  \/ LookupOne(n, RidOf(n, hit), FALSE, <<left>>)
                  \/ /\ left.hits = {}
                     /\ LookupOne(n, RidOf(n, hit), flit.eop, << >>)

-----------------------------------------------------------------------------
(***************************************************************************)
(* mspmRecombineWidth.                                                     *)
(***************************************************************************)
\* Mutant: a lane is read on after its end of packet.
ReadyAll == {n \in Lanes : rids[n] # << >>}

Ready == {n \in Lanes \ eopWait : rids[n] # << >>}

Recombine ==
  LET wait == eopWait \cup {n \in Ready : Head(rids[n]).eop}
      full == {n \in Ready : Head(rids[n]).word # NoWord}
      all  == wait = Lanes
  IN  /\ Ready # {}
      /\ rids' = [n \in Lanes |-> IF n \in Ready THEN Tail(rids[n]) ELSE rids[n]]
      /\ eopWait' = IF all THEN {} ELSE wait
      /\ given' = Stage!Add(given, SetToBag({<<n, Head(rids[n]).word>> : n \in full}), all)
      /\ UNCHANGED <<flits, line, scan, wide, owed, alike>>

-----------------------------------------------------------------------------
Check == WriteLane \/ \E next \in Bytes : Release(next)

Next ==
  \/ \E flit \in Flits, eop \in BOOLEAN : Arrive(flit, eop)
  \/ Check
  \/ \E n \in Lanes : Lookup(n)
  \/ Recombine

\* The kernels run freely (ap_ctrl_none) and the next stage keeps reading; the
\* flits may stop.
Fairness == /\ WF_vars(Check) /\ WF_vars(Recombine)
            /\ \A n \in Lanes : WF_vars(Lookup(n))

Spec == Init /\ [][Next]_vars /\ Fairness

-----------------------------------------------------------------------------
(***************************************************************************)
(* Properties.                                                             *)
(***************************************************************************)
\* With each packet comes a word for every place where a pattern ends in it: none
\* is missed where a pattern is cut by the end of a flit, whether or not the next
\* flit is there in time, or shares its slot with others.  A false positive is
\* for a string of the same packet that looks like a pattern: none is made up of
\* bytes of two packets, and none leaves with another packet because its lane
\* was faster.
MatchesPackets ==
  /\ Len(given) <= Len(owed)
  /\ \A i \in DOMAIN given : given[i] \sqsubseteq alike[i]
  /\ \A i \in 1 .. Len(given) - 1 : owed[i] \sqsubseteq given[i]

\* What the code's comments do not promise: that no other word comes.
NoFalsePositive == \A i \in DOMAIN given : given[i] \sqsubseteq owed[i]

\* The last flit of a packet does not wait for a flit that may never come, and
\* no lane waits for the others for ever.
EveryPacketMatched == []<>Stage!Drained
=============================================================================
