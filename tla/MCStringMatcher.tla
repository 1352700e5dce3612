---------------------------- MODULE MCStringMatcher ----------------------------
(***************************************************************************)
(* StringMatcher for TLC: words and flits of three bytes, patterns of two  *)
(* and three bytes.  "aba" and "zbz" share their middle, so that the       *)
(* shift-or table lets "abz" through, and its hash is that of "aba"; "aba" *)
(* and "bza" occur across two flits only.  In lane 3 "aba" and "aaa" share *)
(* a slot, so that "abz" gets through there with a tag of its own; in lane *)
(* 4 it does not, but "aba" does, which has the hash and tag of "aza".     *)
(***************************************************************************)
EXTENDS StringMatcher

CONSTANTS A, B, Z

Rules == {[lane |-> 2, string |-> <<A, B>>,    fields |-> {0},    rid |-> 1],
          [lane |-> 3, string |-> <<A, B, A>>, fields |-> {0, 1}, rid |-> 2],
          [lane |-> 3, string |-> <<A, A, A>>, fields |-> {0},    rid |-> 3],
          [lane |-> 3, string |-> <<Z, B, Z>>, fields |-> {0, 1}, rid |-> 4],
          [lane |-> 4, string |-> <<B, Z, A>>, fields |-> {0, 1}, rid |-> 2],
          [lane |-> 4, string |-> <<A, Z, A>>, fields |-> {0},    rid |-> 5]}

FirstByte(s) == s[1]
CountOfA(s)  == Cardinality({i \in DOMAIN s : s[i] = A})

SomeFlits == {[bytes |-> <<A, B, Z>>, ftag |-> <<0, 0, 0>>],
              [bytes |-> <<Z, A, B>>, ftag |-> <<0, 0, 1>>],
              [bytes |-> <<Z, B, Z>>, ftag |-> <<0, 0, 0>>]}
=============================================================================
