------------------------------ MODULE Compactor ------------------------------
(***************************************************************************)
(* The compactor of compactor.h: wide flits of FanIn words, most of them   *)
(* empty, become flits of FanOut words.  split_pipes sends the words of a  *)
(* flit to FanIn pipes, dropping the empty ones but those of the packet's  *)
(* last flit; for every output a tree of compact_2to1 kernels folds its    *)
(* group of pipes into one; merge_pipes joins the outputs.  Every kernel   *)
(* polls its inputs on its own, so packets stay apart only because each    *)
(* waits for the end-of-packet mark on all its inputs.                     *)
(*                                                                         *)
(* The tree of output o is a heap: pipe 1 leaves it, pipe n is written by  *)
(* the kernel that reads pipes 2n and 2n+1, and pipes Group..2*Group-1 are *)
(* the group's in_pipes.  A kernel's iteration is one action, which waits  *)
(* for room in the pipe it writes.                                         *)
(***************************************************************************)
EXTENDS Naturals, Sequences, FiniteSets, Bags, SequencesExt

CONSTANTS
  FanOut,      \* words of an output flit
  Group,       \* FanIn / FanOut, a power of two of at least 2
  PipeDepth,   \* COMPACTOR_PIPE_DEPTH
  Fills,       \* the sets of lanes an arriving flit may have filled (a bound)
  MaxFlits     \* how many wide flits arrive (a bound)

ASSUME CompactorAssumption ==
  /\ FanOut \in Nat \ {0} /\ Group \in Nat \ {0, 1}
  /\ PipeDepth \in Nat \ {0} /\ MaxFlits \in Nat
  /\ Fills \subseteq SUBSET (1 .. FanOut * Group)

Outputs == 1 .. FanOut
FanIn   == FanOut * Group
Lanes   == 1 .. FanIn
Pipes   == 1 .. 2 * Group - 1
Kernels == 1 .. Group - 1

VARIABLES
  pipe,      \* the streams of the trees: pipe[o][n]
  seenEop,   \* seenEop_0 and seenEop_1 of every compact_2to1
  eop,       \* merge_pipes: the outputs that have seen the end of the packet
  wide,      \* split_pipes: the flit at hand, and the lanes still to be written
  todo,
  flits,     \* how many wide flits have arrived
  hollow,    \* the last flit written has no word and is not the packet's end
  taken, given   \* history: see PacketStage

vars == <<pipe, seenEop, eop, wide, todo, flits, hollow, taken, given>>

Stage == INSTANCE PacketStage

\* A word is named by its packet and lane; 0 stands for an empty one.
Word  == (1 .. MaxFlits) \X Lanes
Empty == <<0, 0>>
Flit  == [word : Word \cup {Empty}, eop : BOOLEAN]

TypeOK ==
  /\ \A o \in Outputs, n \in Pipes :
       pipe[o][n] \in Seq(Flit) /\ Len(pipe[o][n]) <= PipeDepth
  /\ seenEop \in [Outputs -> [Kernels -> [{0, 1} -> BOOLEAN]]]
  /\ eop \in [Outputs -> BOOLEAN]
  /\ wide \in [words : [Lanes -> Word \cup {Empty}], eop : BOOLEAN]
  /\ todo \subseteq Lanes /\ flits \in 0 .. MaxFlits
  /\ hollow \in BOOLEAN
  /\ Len(taken) \in 1 .. MaxFlits + 1 /\ Len(given) \in 1 .. Len(taken)

Init ==
  /\ pipe = [o \in Outputs |-> [n \in Pipes |-> << >>]]
  /\ seenEop = [o \in Outputs |-> [k \in Kernels |-> [i \in {0, 1} |-> FALSE]]]
  /\ eop = [o \in Outputs |-> FALSE]
  /\ wide = [words |-> [i \in Lanes |-> Empty], eop |-> FALSE]
  /\ todo = {} /\ flits = 0
  /\ hollow = FALSE
  /\ Stage!Init

-----------------------------------------------------------------------------
(***************************************************************************)
(* split_pipes.                                                            *)
(***************************************************************************)
\* Mutant: the lane's word is sent only if it is there.
SendsFull(word, last) == word # Empty

\* A lane is sent its word if it has one, and every lane the packet's end.
Sends(word, last) == word # Empty \/ last

\* A flit arrives with some of its words filled, or none, and perhaps the
\* packet's end.
SplitRead(filled, last) ==
  LET words == [i \in Lanes |-> IF i \in filled THEN <<Len(taken), i>> ELSE Empty]
  IN  /\ todo = {} /\ flits < MaxFlits
      /\ wide' = [words |-> words, eop |-> last]
      /\ todo' = {i \in Lanes : Sends(words[i], last)}
      /\ flits' = flits + 1
      /\ taken' = Stage!Add(taken, SetToBag({words[i] : i \in filled}), last)
      /\ UNCHANGED <<pipe, seenEop, eop, hollow, given>>

\* The lanes are written in turn; lane i is a leaf of the tree of its group.
SplitWrite ==
  LET i == CHOOSE j \in todo : \A k \in todo : j <= k
      o == (i - 1) \div Group + 1
      n == Group + ((i - 1) % Group)
  IN  /\ todo # {}
      /\ Len(pipe[o][n]) < PipeDepth
      /\ pipe' = [pipe EXCEPT ![o][n] = Append(@, [word |-> wide.words[i], eop |-> wide.eop])]
      /\ todo' = todo \ {i}
      /\ UNCHANGED <<seenEop, eop, wide, flits, hollow, taken, given>>

-----------------------------------------------------------------------------
(***************************************************************************)
(* compact_2to1: pipe 2n is read before pipe 2n+1, and neither after its   *)
(* end of packet until the other has come to its own.                      *)
(***************************************************************************)
\* Mutant: the first input is read on after its end of packet.
ReadableOn(o, n, i) ==
  pipe[o][2 * n + i] # << >> /\ (i = 1 => ~seenEop[o][n][i])

Readable(o, n, i) ==
  pipe[o][2 * n + i] # << >> /\ ~seenEop[o][n][i]

BothSeen(seen) == seen[0] /\ seen[1]

\* Mutant: a last flit without a word is dropped with its mark.
WritesFull(flit, both) == flit.word # Empty

\* An empty flit is dropped, but if it completes the packet.
Writes(flit, both) == flit.word # Empty \/ both

Compact(o, n) ==
  LET i     == IF Readable(o, n, 0) THEN 0 ELSE 1
      from  == 2 * n + i
      flit  == Head(pipe[o][from])
      seen  == [seenEop[o][n] EXCEPT ![i] = flit.eop]
      both  == BothSeen(seen)
      popped == [pipe EXCEPT ![o][from] = Tail(@)]
  IN  /\ Readable(o, n, 0) \/ Readable(o, n, 1)
      /\ seenEop' = [seenEop EXCEPT ![o][n] = IF both THEN [j \in {0, 1} |-> FALSE] ELSE seen]
      /\ \/ /\ Writes(flit, both)
            /\ Len(pipe[o][n]) < PipeDepth
            /\ pipe' = [popped EXCEPT ![o][n] = Append(@, [flit EXCEPT !.eop = both])]
         \/ /\ ~Writes(flit, both)
            /\ pipe' = popped
      /\ UNCHANGED <<eop, wide, todo, flits, hollow, taken, given>>

-----------------------------------------------------------------------------
(***************************************************************************)
(* merge_pipes: one word of every output that has one.                     *)
(***************************************************************************)
\* Mutant: an output is read on after its end of packet.
ReadyOutputsAll == {o \in Outputs : pipe[o][1] # << >>}

ReadyOutputs == {o \in Outputs : pipe[o][1] # << >> /\ ~eop[o]}

Merge ==
  LET ready  == ReadyOutputs
      word   == [o \in ready |-> Head(pipe[o][1]).word]
      full   == {o \in ready : word[o] # Empty}
      seen   == [o \in Outputs |-> eop[o] \/ (o \in ready /\ Head(pipe[o][1]).eop)]
      all    == \A o \in Outputs : seen[o]
  IN  /\ ready # {}
      /\ pipe' = [o \in Outputs |->
                    IF o \in ready THEN [pipe[o] EXCEPT ![1] = Tail(@)] ELSE pipe[o]]
      /\ eop' = IF all THEN [o \in Outputs |-> FALSE] ELSE seen
      /\ hollow' = (full = {} /\ ~all)
      /\ given' = Stage!Add(given, SetToBag({word[o] : o \in full}), all)
      /\ UNCHANGED <<seenEop, wide, todo, flits, taken>>

-----------------------------------------------------------------------------
Split == SplitWrite \/ \E filled \in Fills, last \in BOOLEAN : SplitRead(filled, last)

Next == Split \/ Merge \/ \E o \in Outputs, n \in Kernels : Compact(o, n)

\* The kernels run freely (ap_ctrl_none) and the next stage keeps reading; the
\* flits may stop.
Fairness == /\ WF_vars(SplitWrite) /\ WF_vars(Merge)
            /\ \A o \in Outputs, n \in Kernels : WF_vars(Compact(o, n))

Spec == Init /\ [][Next]_vars /\ Fairness

-----------------------------------------------------------------------------
(***************************************************************************)
(* Properties.                                                             *)
(***************************************************************************)
\* The words of a packet come out with that packet, none lost, none twice, and
\* its end after all of them, though the words of its last flit race through
\* trees of polling kernels.
CompactsPackets == Stage!Spec

\* split_pipes is never blocked for ever and no packet stays in the trees: a
\* kernel that waits for one input's end of packet gets it, however much backs
\* up behind the other.
EveryPacketLeaves == []<>(todo = {} /\ Stage!Drained)

\* Stage 5 of the string matcher (sm.h): "All 0 SmResultMetaFlits are not
\* forwarded."  Only a flit with the end-of-packet mark may be without a word.
NoEmptyFlit == ~hollow
=============================================================================
