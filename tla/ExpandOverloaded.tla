-------------------------- MODULE ExpandOverloaded --------------------------
(***************************************************************************)
(* mspmExpandOverloadedRid (sm.cpp): overloaded rule ids are replaced by   *)
(* the rules they stand for.  Fork sends the plain ids of a flit past the  *)
(* slow path and the overloaded ones into it; HelperCount works out how    *)
(* many steps each flit needs; HelperWork takes them; Join gives the       *)
(* bypass flits of a packet first, and, if the packet has any overloaded   *)
(* id, then the flits of the slow path up to the packet's end.             *)
(***************************************************************************)
EXTENDS OverloadedRids

CONSTANTS
  Shift,      \* SM_EXPAND_OVERLOADED_SHIFT, how far holes are closed
  PipeDepth   \* EXPOV_PIPE_DEPTH

ASSUME ExpandAssumption == Shift \in 0 .. Width - 1 /\ PipeDepth \in Nat \ {0}

VARIABLES
  \* Fork: what it does next, pktHasORid, the two flits it has made, and how
  \* many flits have arrived
  forkStage, pktHasORid, bypassFlit, slowFlit, inEop, flits,
  \* RidBypassPipe, RidtoHelperPipe, RidHelperCountPipe, RidfromHelperPipe
  bypass, toHelper, counted, fromHelper,
  \* HelperWork: the flit at hand, loopCount, which and k_
  work, loopCount, which, k,
  \* Join: onSlowpath, and the flits read ahead (valid_0, valid_1)
  onSlowpath, ahead0, ahead1,
  taken, given   \* history: see PacketStage

fork   == <<forkStage, pktHasORid, bypassFlit, slowFlit, inEop, flits>>
worker == <<work, loopCount, which, k>>
join   == <<onSlowpath, ahead0, ahead1>>
vars   == <<fork, bypass, toHelper, counted, fromHelper, worker, join, taken, given>>

Stage == INSTANCE PacketStage

NoBypass == [word |-> NoWords, eop |-> FALSE, gotoSlow |-> FALSE]
NoSlow   == [word |-> NoWords, eop |-> FALSE, numORid |-> 0]
NoWork   == [word |-> NoWords, eop |-> FALSE, howmany |-> [w \in Words |-> 0],
             emptyEop |-> FALSE, loopCount |-> 0]

Init ==
  /\ forkStage = "read" /\ pktHasORid = FALSE /\ inEop = FALSE /\ flits = 0
  /\ bypassFlit = NoBypass /\ slowFlit = NoSlow
  /\ bypass = << >> /\ toHelper = << >> /\ counted = << >> /\ fromHelper = << >>
  /\ work = NoWork /\ loopCount = 0 /\ which = 1 /\ k = 0
  /\ onSlowpath = FALSE /\ ahead0 = << >> /\ ahead1 = << >>
  /\ Stage!Init

TypeOK ==
  /\ forkStage \in {"read", "bypass", "helper"}
  /\ pktHasORid \in BOOLEAN /\ inEop \in BOOLEAN /\ flits \in 0 .. MaxFlits
  /\ \A p \in {bypass, toHelper, counted, fromHelper} : Len(p) <= PipeDepth
  /\ loopCount \in Nat /\ which \in Words /\ k \in Nat
  /\ onSlowpath \in BOOLEAN /\ Len(ahead0) <= 1 /\ Len(ahead1) <= 1
  /\ Len(given) \in 1 .. Len(taken)

-----------------------------------------------------------------------------
(***************************************************************************)
(* Fork.                                                                   *)
(***************************************************************************)
\* One round: every word after the first hole moves down by one.
CloseHole(words) ==
  [w \in Words |->
     IF \E v \in 1 .. w : words[v] = None
     THEN IF w = Width THEN None ELSE words[w + 1]
     ELSE words[w]]

PackLeft(words) ==
  LET after[n \in 0 .. Shift] == IF n = 0 THEN words ELSE CloseHole(after[n - 1])
  IN  after[Shift]

\* The end of a packet that has an overloaded id comes from the slow path.
BypassEop(has, eop) == eop /\ ~has

ForkRead(flit) ==
  LET plain == [w \in Words |-> IF flit.word[w].conflict THEN None ELSE flit.word[w]]
      over  == [w \in Words |-> IF flit.word[w].conflict THEN flit.word[w] ELSE None]
      num   == Cardinality({w \in Words : flit.word[w].conflict})
      has   == pktHasORid \/ num > 0
  IN  /\ forkStage = "read" /\ flits < MaxFlits
      /\ flits' = flits + 1
      /\ pktHasORid' = has
      /\ bypassFlit' = [word |-> plain, eop |-> BypassEop(has, flit.eop),
                        gotoSlow |-> has /\ flit.eop]
      /\ slowFlit' = [word |-> PackLeft(over), eop |-> flit.eop, numORid |-> num]
      /\ inEop' = flit.eop
      /\ forkStage' = "bypass"
      /\ taken' = Stage!Add(taken, Expansion(flit.word), flit.eop)
      /\ UNCHANGED <<bypass, toHelper, counted, fromHelper, worker, join, given>>

\* Written if a plain id is in it or the packet ends.
ForkBypass ==
  /\ forkStage = "bypass"
  /\ \/ /\ HasWord(bypassFlit.word) \/ inEop
        /\ Len(bypass) < PipeDepth
        /\ bypass' = Append(bypass, bypassFlit)
     \/ /\ ~HasWord(bypassFlit.word) /\ ~inEop
        /\ UNCHANGED bypass
  /\ forkStage' = "helper"
  /\ UNCHANGED <<pktHasORid, bypassFlit, slowFlit, inEop, flits, toHelper, counted,
                 fromHelper, worker, join, taken, given>>

\* Mutant: the slow path is told of the end only with a last overloaded id.
ToHelperFull == slowFlit.numORid > 0

\* Written if an overloaded id is in it, or to end a packet that had one.
ToHelper == slowFlit.numORid > 0 \/ (pktHasORid /\ inEop)

ForkHelper ==
  /\ forkStage = "helper"
  /\ \/ /\ ToHelper
        /\ Len(toHelper) < PipeDepth
        /\ toHelper' = Append(toHelper, slowFlit)
     \/ /\ ~ToHelper
        /\ UNCHANGED toHelper
  /\ pktHasORid' = (pktHasORid /\ ~inEop)
  /\ forkStage' = "read"
  /\ UNCHANGED <<bypassFlit, slowFlit, inEop, flits, bypass, counted, fromHelper,
                 worker, join, taken, given>>

-----------------------------------------------------------------------------
(***************************************************************************)
(* HelperCount: the steps of every word, and one for every hole before the *)
(* last overloaded id; a flit without any takes one, to carry the end.     *)
(***************************************************************************)
\* Mutant: holes are not counted.
HoleSteps(words, w) == 0

\* A step is spent on a hole if overloaded ids follow it.
SkipSteps(words, w) == IF \E v \in Words : v > w /\ words[v] # None THEN 1 ELSE 0

\* ceil(howmany / SM_EXPAND_OVERLOADED_PACK)
StepsOf(n) == (n + Pack - 1) \div Pack

HelperCount ==
  LET flit    == Head(toHelper)
      empty   == flit.numORid = 0
      howmany == [w \in Words |->
                    IF flit.word[w] # None THEN Len(Table[flit.word[w].rid])
                    ELSE IF empty /\ w = 1 THEN 1 ELSE 0]
      steps   == [w \in Words |->
                    IF howmany[w] > 0 THEN StepsOf(howmany[w]) ELSE SkipSteps(flit.word, w)]
  IN  /\ toHelper # << >> /\ Len(counted) < PipeDepth
      /\ toHelper' = Tail(toHelper)
      /\ counted' = Append(counted,
           [word |-> flit.word, eop |-> flit.eop, howmany |-> howmany,
            emptyEop |-> empty, loopCount |-> FoldLeft(LAMBDA a, b : a + b, 0, steps)])
      /\ UNCHANGED <<fork, bypass, fromHelper, worker, join, taken, given>>

-----------------------------------------------------------------------------
(***************************************************************************)
(* HelperWork: one step of the flit at hand per iteration.                 *)
(***************************************************************************)
WorkRead ==
  /\ loopCount = 0 /\ counted # << >>
  /\ work' = Head(counted)
  /\ counted' = Tail(counted)
  /\ loopCount' = Head(counted).loopCount
  /\ which' = 1 /\ k' = 0
  /\ UNCHANGED <<fork, bypass, toHelper, fromHelper, join, taken, given>>

\* The last step of a flit carries the packet's end.
StepEop == work.eop /\ loopCount = 1

WorkStep ==
  LET words == IF work.emptyEop \/ work.howmany[which] = 0 THEN NoWords
               ELSE Step(work.word[which], k)
      next  == (k + 1) * Pack >= work.howmany[which]
  IN  /\ loopCount > 0
      /\ \/ /\ StepEop \/ HasWord(words)
            /\ Len(fromHelper) < PipeDepth
            /\ fromHelper' = Append(fromHelper, [word |-> words, eop |-> StepEop])
         \/ /\ ~(StepEop \/ HasWord(words))
            /\ UNCHANGED fromHelper
      /\ which' = IF next THEN (which % Width) + 1 ELSE which
      /\ k' = IF next THEN 0 ELSE k + 1
      /\ loopCount' = loopCount - 1
      /\ UNCHANGED <<fork, bypass, toHelper, counted, work, join, taken, given>>

-----------------------------------------------------------------------------
(***************************************************************************)
(* Join.  Both streams are read ahead by one flit.                         *)
(***************************************************************************)
ReadAhead(pipe, ahead) == IF ahead = << >> /\ pipe # << >> THEN <<Head(pipe)>> ELSE ahead
Left(pipe, ahead)      == IF ahead = << >> /\ pipe # << >> THEN Tail(pipe) ELSE pipe

Join ==
  LET a0   == ReadAhead(bypass, ahead0)
      a1   == ReadAhead(fromHelper, ahead1)
      use  == IF onSlowpath THEN a1 ELSE a0
      flit == Head(use)
  IN  /\ bypass' = Left(bypass, ahead0)
      /\ fromHelper' = Left(fromHelper, ahead1)
      /\ IF use = << >> THEN /\ ahead0' = a0 /\ ahead1' = a1
                             /\ UNCHANGED <<onSlowpath, given>>
         ELSE /\ given' = IF HasWord(flit.word) \/ flit.eop
                          THEN Stage!Add(given, Expansion(flit.word), flit.eop) ELSE given
              /\ ahead0' = IF onSlowpath THEN a0 ELSE << >>
              /\ ahead1' = IF onSlowpath THEN << >> ELSE a1
              /\ onSlowpath' = IF onSlowpath THEN ~flit.eop ELSE flit.gotoSlow
      /\ UNCHANGED <<fork, toHelper, counted, worker, taken>>

-----------------------------------------------------------------------------
Fork == (\E flit \in Inputs : ForkRead(flit)) \/ ForkBypass \/ ForkHelper
Work == WorkRead \/ WorkStep

Next == Fork \/ HelperCount \/ Work \/ Join

\* The kernels run freely (ap_ctrl_none) and the next stage keeps reading; the
\* flits may stop.
Fairness == /\ WF_vars(ForkBypass \/ ForkHelper)
            /\ WF_vars(HelperCount) /\ WF_vars(Work) /\ WF_vars(Join)

Spec == Init /\ [][Next]_vars /\ Fairness

-----------------------------------------------------------------------------
(***************************************************************************)
(* Properties.                                                             *)
(***************************************************************************)
\* Every rule that an id of a packet stands for comes out with the packet, once
\* for each such id, and the packet's end after the last of them, whichever of
\* the two paths is ahead.
ExpandsPackets == Stage!Spec

\* Fork comes back for the next flit and every packet gets its end: Join never
\* waits on one path for ever while what would let it change paths is stuck
\* behind the other.  True only while the slow flits of a packet fit in the
\* pipes of the slow path ("can cause deadlocks if sized down", sm_params.h).
EveryPacketEnds == []<>(forkStage = "read" /\ Stage!Drained)
=============================================================================
