-------------------------- MODULE MCExpandOverloaded --------------------------
(***************************************************************************)
(* ExpandOverloaded for TLC: three words in a flit, two taken from a list  *)
(* at once, holes closed by one place.                                     *)
(***************************************************************************)
EXTENDS ExpandOverloaded

\* A list longer than Pack whose last step has no rule with tag 1, one of
\* Pack rules, and one without any rule of tag 1.
Lists == << << [rid |-> 2, tag |-> 1], [rid |-> 3, tag |-> 1], [rid |-> 4, tag |-> 2] >>,
            << [rid |-> 2, tag |-> 2], [rid |-> 5, tag |-> 1] >>,
            << [rid |-> 6, tag |-> 2] >> >>

Flit(words, eop) == [word |-> words, eop |-> eop]

\* No word, plain words only, an overloaded id behind two holes, overloaded
\* ids with a hole between them, and one that stands for no rule; the end of a
\* packet alone, with words, and with an overloaded id that stands for none.
SomeFlits == { Flit(<< None, None, None >>, TRUE),
               Flit(<< Rule(1), None, Rule(2) >>, FALSE),
               Flit(<< None, Rule(1), Overloaded(1, 2) >>, FALSE),
               Flit(<< None, Rule(1), Overloaded(1, 2) >>, TRUE),
               Flit(<< Overloaded(2, 1), None, Overloaded(1, 1) >>, FALSE),
               Flit(<< None, Overloaded(3, 1), None >>, TRUE) }
=============================================================================
