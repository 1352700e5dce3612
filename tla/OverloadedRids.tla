--------------------------- MODULE OverloadedRids ---------------------------
(***************************************************************************)
(* The words of the string matcher's result flits (sm.h, sm.cpp).  A word  *)
(* is empty, or a rule id, or, with URID_CONFLICT_BIT set, an overloaded   *)
(* id: the index of a list in the collision table, of which the rules with *)
(* the word's tag are meant.                                               *)
(***************************************************************************)
EXTENDS Naturals, Sequences, Bags, SequencesExt

CONSTANTS
  Width,      \* SM_RESULT_WIDTH, the words of a flit
  Pack,       \* SM_EXPAND_OVERLOADED_PACK, the rule ids of a list taken at once
  Table,      \* the collision table: a sequence of lists of [rid, tag]
  Inputs,     \* the flits that may arrive (a bound)
  MaxFlits    \* how many arrive (a bound)

Words == 1 .. Width

ASSUME OverloadedRidsAssumption ==
  /\ Width \in Nat \ {0} /\ Pack \in 1 .. Width /\ MaxFlits \in Nat
  /\ \A f \in Inputs : Len(f.word) = Width /\ f.eop \in BOOLEAN

None          == [rid |-> 0, conflict |-> FALSE, tag |-> 0]
Rule(r)       == [rid |-> r, conflict |-> FALSE, tag |-> 0]
Overloaded(c, t) == [rid |-> c, conflict |-> TRUE, tag |-> t]
NoWords       == [w \in Words |-> None]

\* The rule ids that a word stands for.
Meant(word) ==
  IF ~word.conflict THEN IF word.rid = 0 THEN << >> ELSE <<word.rid>>
  ELSE LET Matches(entry) == entry.tag = word.tag
           Rid(entry)     == entry.rid
           list           == SelectSeq(Table[word.rid], Matches)
       IN  [i \in DOMAIN list |-> Rid(list[i])]

\* The rule ids that a flit stands for, as a bag.
Expansion(words) == ToBag(FlattenSeq([w \in Words |-> Meant(words[w])]))

\* The words of list c that step k of its expansion puts into a flit: those
\* whose tag is the word's.
Step(word, k) ==
  LET list == Table[word.rid]
  IN  [i \in Words |->
         LET idx == k * Pack + i
         IN  IF i <= Pack /\ idx <= Len(list) /\ list[idx].tag = word.tag
             THEN Rule(list[idx].rid) ELSE None]

HasWord(words) == \E w \in Words : words[w] # None
=============================================================================
