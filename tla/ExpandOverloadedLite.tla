------------------------- MODULE ExpandOverloadedLite -------------------------
(***************************************************************************)
(* mspmExpandOverloadedRidLite (sm.cpp), built when SM_EXPAND_OVERLOADED   *)
(* is 1: one kernel that copies the plain ids of every flit to its output  *)
(* (FAST_PATH) and, after a flit with overloaded ids, stops reading until  *)
(* their lists have been written (SLOW_PATH).                              *)
(***************************************************************************)
EXTENDS OverloadedRids

VARIABLES
  pc,                \* what the kernel does next: "read", "write" or "slow"
  outFlit,           \* the flit of the fast path
  ovFlit, numORid,   \* the flit being expanded, and its ids still to expand
  k,                 \* how many steps of the id at hand are done
  flits,             \* how many flits have arrived
  taken, given       \* history: see PacketStage

vars == <<pc, outFlit, ovFlit, numORid, k, flits, taken, given>>

Stage == INSTANCE PacketStage

Init ==
  /\ pc = "read" /\ outFlit = [word |-> NoWords, eop |-> FALSE]
  /\ ovFlit = [word |-> NoWords, eop |-> FALSE] /\ numORid = 0
  /\ k = 0 /\ flits = 0
  /\ Stage!Init

\* "if numORid!=0, slow path will send eop"
FastEop(num, eop) == eop /\ num = 0

FastRead(flit) ==
  LET plain == [w \in Words |-> IF flit.word[w].conflict THEN None ELSE flit.word[w]]
      over  == [w \in Words |-> IF flit.word[w].conflict THEN flit.word[w] ELSE None]
      num   == Cardinality({w \in Words : flit.word[w].conflict})
  IN  /\ pc = "read" /\ flits < MaxFlits
      /\ pc' = "write"
      /\ flits' = flits + 1
      /\ outFlit' = [word |-> plain, eop |-> FastEop(num, flit.eop)]
      /\ ovFlit' = [word |-> over, eop |-> flit.eop]
      /\ numORid' = num
      /\ taken' = Stage!Add(taken, Expansion(flit.word), flit.eop)
      /\ UNCHANGED <<k, given>>

\* "always push outFlit", then the slow path if there is anything to expand.
FastWrite ==
  /\ pc = "write"
  /\ given' = Stage!Add(given, Expansion(outFlit.word), outFlit.eop)
  /\ pc' = IF numORid = 0 THEN "read" ELSE "slow"
  /\ k' = 0
  /\ UNCHANGED <<outFlit, ovFlit, numORid, flits, taken>>

\* The step that carries the end: that of the last id in which the list ends
\* before the step is full.
LastStep(howmany) == numORid = 1 /\ (k + 1) * Pack > howmany

\* One step of the first word left, which is taken off the flit when its list
\* has been written.
Slow ==
  LET w       == CHOOSE v \in Words : ovFlit.word[v] # None
                                      /\ \A u \in 1 .. v - 1 : ovFlit.word[u] = None
      howmany == Len(Table[ovFlit.word[w].rid])
      eop     == ovFlit.eop /\ LastStep(howmany)
      done    == (k + 1) * Pack >= howmany
  IN  /\ pc = "slow"
      /\ given' = Stage!Add(given, Expansion(Step(ovFlit.word[w], k)), eop)
      /\ k' = IF done THEN 0 ELSE k + 1
      /\ ovFlit' = IF done THEN [ovFlit EXCEPT !.word[w] = None] ELSE ovFlit
      /\ numORid' = IF done THEN numORid - 1 ELSE numORid
      /\ pc' = IF done /\ numORid = 1 THEN "read" ELSE "slow"
      /\ UNCHANGED <<outFlit, flits, taken>>

Next == FastWrite \/ Slow \/ \E flit \in Inputs : FastRead(flit)

\* The kernel runs freely (ap_ctrl_none) and the next stage keeps reading; the
\* flits may stop.
Spec == Init /\ [][Next]_vars /\ WF_vars(FastWrite \/ Slow)

-----------------------------------------------------------------------------
\* Every rule that an id of a packet stands for comes out before the packet's
\* end, and not in the next packet.
ExpandsPackets == Stage!Spec

\* "If ovFlit is eop, send eop with last expansion" (sm.cpp): between two flits
\* every packet that has ended on the way in has ended on the way out.
EndIsSent == pc = "read" => Stage!Drained
=============================================================================
