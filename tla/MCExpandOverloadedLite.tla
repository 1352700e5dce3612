------------------------ MODULE MCExpandOverloadedLite ------------------------
(***************************************************************************)
(* ExpandOverloadedLite for TLC.                                           *)
(***************************************************************************)
EXTENDS ExpandOverloadedLite

Flit(words, eop) == [word |-> words, eop |-> eop]

\* No list is a multiple of Pack long: three rules, the last with another tag;
\* one rule; one rule with another tag.
OddLists == << << [rid |-> 2, tag |-> 1], [rid |-> 3, tag |-> 1], [rid |-> 4, tag |-> 2] >>,
               << [rid |-> 5, tag |-> 1] >>,
               << [rid |-> 6, tag |-> 2] >> >>

\* The second list is of Pack rules.
EvenLists == [OddLists EXCEPT ![2] = << [rid |-> 2, tag |-> 2], [rid |-> 5, tag |-> 1] >>]

\* As in MCExpandOverloaded.
SomeWords == { << None, None, None >>,
               << Rule(1), None, Rule(2) >>,
               << None, Rule(1), Overloaded(1, 2) >>,
               << Overloaded(2, 1), None, Overloaded(1, 1) >>,
               << Overloaded(1, 1), Overloaded(2, 1), None >>,
               << None, Overloaded(3, 1), None >> }

SomeFlits == {Flit(words, eop) : words \in SomeWords, eop \in BOOLEAN}
=============================================================================
