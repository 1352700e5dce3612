---------------------------- MODULE MCFieldTagger ----------------------------
(***************************************************************************)
(* FieldTagger for TLC: words of five bytes, three fields with keys of     *)
(* one or two letters ("bb", "a" and "aa" for syscall, exe and path), and  *)
(* a key of no field.  A line begins at any byte of its first word, has a  *)
(* pair with a string of up to a word and a half, and another pair;        *)
(* another line follows.                                                   *)
(***************************************************************************)
EXTENDS FieldTagger

CONSTANTS A, B, X, Colon, Space

ThreeFields == << <<Quote, B, B, Quote, Colon>>,
                  <<Wild, Quote, A, Quote, Colon>>,
                  <<Quote, A, A, Quote, Colon>> >>

Plain(bytes)     == [i \in DOMAIN bytes |-> [byte |-> bytes[i], value |-> {}]]
Value(bytes, tg) == [i \in DOMAIN bytes |-> [byte |-> bytes[i], value |-> tg]]
Rep(b, n)        == [i \in 1 .. n |-> b]

\* The tags of the keys.
Keys    == {<<B, B>>, <<A>>, <<A, A>>, <<X>>}
TagOf(k) == CASE k = <<B, B>> -> {1} [] k = <<A>> -> {2} [] k = <<A, A>> -> {1, 2}
              [] OTHER -> {}
Strings == {<<Quote>> \o Rep(c, n) \o <<Quote>> : c \in {A, X}, n \in {0, 1, 2, 3, 4, 6}}
Numbers == {Rep(X, n) : n \in {1, 5, 7}}
Pair(k, v) == Plain(<<Quote>> \o k \o <<Quote, Colon>>) \o Value(v, TagOf(k))

\* Cut into words, with Blank behind the end; the last one ends the packet.
Words(cells) ==
  LET fill  == (Word - (Len(cells) % Word)) % Word
      all   == cells \o Plain(Rep(Blank, fill))
      count == Len(all) \div Word
  IN  [n \in 1 .. count |-> [cells |-> SubSeq(all, (n - 1) * Word + 1, n * Word),
                             eop |-> n = count]]

\* A pair at any place of a word, and another pair behind it.
Lines(values) ==
  {Words(Plain(Rep(Blank, off)) \o Pair(k, v) \o Plain(<<Space>>)
           \o Pair(k2, <<Quote, X, Quote>>)) :
     off \in 0 .. Word - 1, k \in Keys \ {<<X>>}, v \in values, k2 \in {<<A>>, <<X>>}}

\* A line that breaks off in a value, and one that begins in one.
Broken == Words(Pair(<<A>>, <<Quote, X, X>>))
Headless == Words(Plain(Rep(X, 3)) \o Pair(<<X>>, <<Quote, X, Quote>>))

\* The three fields of the traces have strings for values.
StringLines == {l \o Headless : l \in Lines(Strings) \cup {Broken}}

\* JSON allows numbers too.
NumberLines == {l \o Headless : l \in Lines(Numbers)}
=============================================================================
