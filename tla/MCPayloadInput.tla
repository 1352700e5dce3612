---------------------------- MODULE MCPayloadInput ----------------------------
(***************************************************************************)
(* PayloadInput for TLC: three words of three bytes in bursts of one, so   *)
(* that a newline may be anywhere in a word and the last burst is not the  *)
(* whole buffer.                                                           *)
(***************************************************************************)
EXTENDS PayloadInput

\* The loaders (testinit.cpp) write lines no shorter than a word, and a newline
\* at the very end of the buffer, behind whatever padding there is: the last
\* word may have two.
LoaderNewlines ==
  {S \cup {Words * Word} :
     S \in {T \in SUBSET (1 .. Words * Word) :
              \A i, j \in T : i < j => j - i >= Word}}
=============================================================================
