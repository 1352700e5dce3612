----------------------------- MODULE FieldTagger -----------------------------
(***************************************************************************)
(* The field tagger (rapidd_stages.cpp): two kernels in a row that tag     *)
(* every byte of a log line with the JSON field whose value it belongs to. *)
(* fieldMatchKernel looks for the keys, across words too, and carries the  *)
(* tag on to the next quote, but only to the end of the word;              *)
(* fieldMatchFixOverflowKernel carries it into the words that follow.      *)
(* Neither waits for a word: a cycle without one reads the end-of-packet   *)
(* bit of a word that is not there (84 and 154).                           *)
(***************************************************************************)
EXTENDS Naturals, Sequences

CONSTANTS
  Quote,         \* the byte '"'
  Blank,         \* a byte that is in no key, as 0xFF
  Wild,           \* '*' in a pattern
  Word,          \* bytes of a word, MSPM_UNROLL * MSPM_MASK_WIDTH
  Fields,        \* matchFields: the patterns, all of one length, MAX_FIELD_LENGTH
  Separators,    \* the bytes between a value and the next key
  Inputs,        \* the sequences of words that may arrive (a bound): of every
                 \* byte, whose value it belongs to, as the tag it should get
  Depth,         \* depth of the streams
  StaleEop       \* the values eop may have in a cycle without a word

MaxField == Len(Fields[1])

\* An FTAG, as the set of its bits.
Tag == SUBSET {1, 2}

ASSUME FieldTaggerAssumption ==
  /\ Word \in Nat \ {0} /\ Depth \in Nat \ {0} /\ StaleEop \subseteq BOOLEAN
  /\ Fields # << >> /\ MaxField > 0
  /\ \A f \in DOMAIN Fields : Len(Fields[f]) = MaxField

VARIABLES
  input, next,       \* the words to come: the next one's number
  matched, tagged,   \* the streams behind the two kernels
  history,           \* fieldMatchKernel: the front of matchData
  overflow,          \* fieldMatchFixOverflowKernel: overflowFtag
  out, taken         \* history: the last word that came out, and how many have

vars == <<input, next, matched, tagged, history, overflow, out, taken>>

\* A word on its way, with its place in the input.
WordPack == [nr : Nat, ftag : [1 .. Word -> Tag], hasQuote : BOOLEAN]
NoWord   == [nr |-> 0, ftag |-> [i \in 1 .. Word |-> {}], hasQuote |-> FALSE]

Byte(n, i) == input[n].cells[i].byte

TypeOK ==
  /\ input \in Inputs /\ next \in 1 .. Len(input) + 1
  /\ \A s \in {matched, tagged} :
       Len(s) <= Depth /\ \A k \in DOMAIN s : s[k] \in WordPack /\ s[k].nr < next
  /\ Len(history) = MaxField
  /\ overflow \in Tag
  /\ out \in WordPack /\ taken < next

Init ==
  /\ input \in Inputs /\ next = 1
  /\ matched = << >> /\ tagged = << >>
  /\ history = [i \in 1 .. MaxField |-> Blank]
  /\ overflow = {}
  /\ out = NoWord /\ taken = 0

-----------------------------------------------------------------------------
(***************************************************************************)
(* fieldMatchKernel.                                                       *)
(***************************************************************************)
\* The number of the field, as its two bits.
Bits(f) == {b \in {1, 2} : (f \div b) % 2 = 1}

\* matchField: the tags of the keys that end with the last of these bytes.
MatchField(bytes) ==
  UNION {Bits(f) : f \in {g \in DOMAIN Fields :
           \A j \in 1 .. MaxField : Fields[g][j] \in {Wild, bytes[j]}}}

\* matchData: the last bytes of the word before, and the word.
Data(n) == history \o [i \in 1 .. Word |-> Byte(n, i)]

\* The tag a byte gets by a key that ends right before it.
Own(data, i) == MatchField(SubSeq(data, i, i + MaxField - 1))

\* A quote ends the tag, but not where a key has just ended.
EndsTag(data, i) == Own(data, i) = {} /\ data[MaxField + i] = Quote

\* The tag of byte i - 1, as far as it goes on.
Carried(data) ==
  LET carry[i \in 0 .. Word] ==
        IF i = 0 \/ EndsTag(data, i) THEN {} ELSE Own(data, i) \cup carry[i - 1]
  IN  carry

Match ==
  LET data == Data(next)
      last == input[next].eop
  IN  /\ next <= Len(input) /\ Len(matched) < Depth
      /\ matched' = Append(matched,
           [nr |-> next,
            ftag |-> [i \in 1 .. Word |-> Own(data, i) \cup Carried(data)[i - 1]],
            hasQuote |-> \E i \in 1 .. Word : EndsTag(data, i)])
      /\ history' = IF last THEN [i \in 1 .. MaxField |-> Blank]
                            ELSE SubSeq(data, Word + 1, Word + MaxField)
      /\ next' = next + 1
      /\ UNCHANGED <<input, tagged, overflow, out, taken>>

\* A cycle without a word, of which the end-of-packet bit is read all the same.
MatchNoWord ==
  /\ \E eop \in StaleEop :
       history' = IF eop THEN [i \in 1 .. MaxField |-> Blank] ELSE history
  /\ UNCHANGED <<input, next, matched, tagged, overflow, out, taken>>

-----------------------------------------------------------------------------
(***************************************************************************)
(* fieldMatchFixOverflowKernel.                                            *)
(***************************************************************************)
\* The tag from the words before goes up to the first quote.
Spills(n, i) == \A j \in 1 .. i - 1 : Byte(n, j) # Quote

\* Mutant: a word without a key ends the tag.
OverflowAfterDrop(pack) == IF input[pack.nr].eop THEN {} ELSE pack.ftag[Word]

\* Mutant: the tag is kept when the word has ended it.
OverflowAfterKeep(pack) ==
  IF input[pack.nr].eop THEN {}
  ELSE IF pack.ftag[Word] # {} THEN pack.ftag[Word]
  ELSE overflow

\* What goes on into the next word: the tag of the last byte; or the same tag
\* as before, if nothing in the word ended it.
OverflowAfter(pack) ==
  IF input[pack.nr].eop THEN {}
  ELSE IF pack.hasQuote \/ pack.ftag[Word] # {} THEN pack.ftag[Word]
  ELSE overflow

FixOverflow ==
  LET pack == Head(matched)
  IN  /\ matched # << >> /\ Len(tagged) < Depth
      /\ matched' = Tail(matched)
      /\ tagged' = Append(tagged, [pack EXCEPT !.ftag =
           [i \in 1 .. Word |-> IF Spills(pack.nr, i) THEN @[i] \cup overflow ELSE @[i]]])
      /\ overflow' = OverflowAfter(pack)
      /\ UNCHANGED <<input, next, history, out, taken>>

FixNoWord ==
  /\ matched = << >>
  /\ \E eop \in StaleEop : overflow' = IF eop THEN {} ELSE overflow
  /\ UNCHANGED <<input, next, matched, tagged, history, out, taken>>

\* The next stage takes a word.
Take ==
  /\ tagged # << >>
  /\ tagged' = Tail(tagged)
  /\ out' = Head(tagged) /\ taken' = taken + 1
  /\ UNCHANGED <<input, next, matched, history, overflow>>

-----------------------------------------------------------------------------
Next == Match \/ MatchNoWord \/ FixOverflow \/ FixNoWord \/ Take

\* The kernels run freely (ap_ctrl_none) and the next stage keeps reading.
Fairness == WF_vars(Match) /\ WF_vars(FixOverflow) /\ WF_vars(Take)

Spec == Init /\ [][Next]_vars /\ Fairness

-----------------------------------------------------------------------------
(***************************************************************************)
(* Properties.                                                             *)
(***************************************************************************)
Cells == IF taken = 0 THEN << >> ELSE input[taken].cells

\* Every byte of the value of a field bears the field's tag, wherever key and
\* value are cut into words: a byte without it hides a match from the lookup,
\* and SYSTEM.md allows "no false negatives in the RapidDetect pipeline".
NoMissedTag == \A i \in DOMAIN Cells : Cells[i].value \subseteq out.ftag[i]

\* No byte of another key or value bears a tag: where a value's last quote ends
\* a word, the tag goes on over "commas and spaces until the next field"
\* (rapidd_stages.cpp:128), and the next quote, but no further.
NoStrayTag ==
  \A i \in DOMAIN Cells :
    \/ out.ftag[i] = Cells[i].value
    \/ Cells[i].byte \in Separators \cup {Quote, Blank}
=============================================================================
