------------------------------- MODULE Steering -------------------------------
(***************************************************************************)
(* How a packet is held back until it is known whether a rule matched in   *)
(* it (io_stages.cpp, stream_primitives.h, rapidd_stages.cpp).             *)
(* payloadSourceKernel sends every flit to the string matcher and to a     *)
(* forward FIFO.  The matcher's result flits go through flagger, which     *)
(* sends one steering bit per packet: at its first hit, or at its end.     *)
(* steerPayload reads the bit and then moves the packet's flits from the   *)
(* forward FIFO to the match path or to the safe path.                     *)
(*                                                                         *)
(* The matcher (sm_kernel) is a FIFO that turns payload flits into result  *)
(* flits, with any hits.  What flagger passes on waits in the next stage   *)
(* for the packet's fingerprint, which is there when the last flit of the  *)
(* packet has gone down the match path (fpMatchStage).                     *)
(***************************************************************************)
EXTENDS Integers, Sequences, FiniteSets

CONSTANTS
  Packets,        \* how many packets arrive (a bound)
  MaxFlits,       \* the longest packet (a bound)
  MatcherDepth,   \* the flits the matcher can hold
  MetaDepth,      \* depth of the result stream
  ForwardDepth,   \* depth of the forward FIFO
  SteerDepth,     \* depth of SteeringPipe
  OutDepth        \* depth of the stream to the next stage

ASSUME SteeringAssumption ==
  /\ Packets \in Nat /\ MaxFlits \in Nat \ {0}
  /\ MatcherDepth \in Nat \ {0} /\ MetaDepth \in Nat \ {0} /\ ForwardDepth \in Nat \ {0}
  /\ SteerDepth \in Nat \ {0} /\ OutDepth \in Nat \ {0}

VARIABLES
  \* payloadSourceKernel: what it does next, and the flit at hand
  srcStage, srcFlit,
  \* the streams
  matcher, meta, forward, steer, out,
  \* flagger: steeringSent, what it does next, and the result flit at hand
  steeringSent, flagStage, result,
  \* steerPayload: its registers and its count of safe packets
  first, flagged, safeCount,
  \* history: the packets with a hit, the last flit on either path, and the
  \* last packet of which the next stage has had every result
  hitPackets, lastMatch, lastSafe, lastResult

source  == <<srcStage, srcFlit>>
flagging == <<steeringSent, flagStage, result>>
steering == <<first, flagged, safeCount, lastMatch, lastSafe>>
vars == <<source, matcher, meta, forward, steer, out, flagging, steering,
          hitPackets, lastResult>>

Flit == [pkt : 0 .. Packets, idx : 0 .. MaxFlits, eop : BOOLEAN]
NoFlit == [pkt |-> 0, idx |-> 0, eop |-> TRUE]
\* A flit of results: whether a rule id is in it, and the end-of-packet mark.
Result == [pkt : 0 .. Packets, hit : BOOLEAN, eop : BOOLEAN]

TypeOK ==
  /\ srcStage \in {"read", "match", "forward"} /\ srcFlit \in Flit
  /\ matcher \in Seq(Flit) /\ Len(matcher) <= MatcherDepth
  /\ meta \in Seq(Result) /\ Len(meta) <= MetaDepth
  /\ forward \in Seq(Flit) /\ Len(forward) <= ForwardDepth
  /\ steer \in Seq(BOOLEAN) /\ Len(steer) <= SteerDepth
  /\ out \in Seq(Result) /\ Len(out) <= OutDepth
  /\ steeringSent \in BOOLEAN /\ result \in Result
  /\ flagStage \in {"read", "out", "steer"}
  /\ first \in BOOLEAN /\ flagged \in BOOLEAN /\ safeCount \in 0 .. Packets
  /\ hitPackets \subseteq 1 .. Packets
  /\ lastMatch \in Flit /\ lastSafe \in Flit /\ lastResult \in 0 .. Packets

Init ==
  /\ srcStage = "read" /\ srcFlit = NoFlit
  /\ matcher = << >> /\ meta = << >> /\ forward = << >>
  /\ steer = << >> /\ out = << >>
  /\ steeringSent = FALSE /\ flagStage = "read"
  /\ result = [pkt |-> 0, hit |-> FALSE, eop |-> FALSE]
  /\ first = TRUE /\ flagged = FALSE /\ safeCount = 0
  /\ hitPackets = {} /\ lastMatch = NoFlit /\ lastSafe = NoFlit /\ lastResult = 0

(***************************************************************************)
(* payloadSourceKernel: a flit is written to the matcher, then to the      *)
(* forward FIFO; either write blocks while the stream is full.             *)
(***************************************************************************)
\* Two flits that follow each other: neighbours of one packet, or the end of
\* one and the start of a later one.
Follows(f, g) ==
  IF f.eop THEN g.idx = 1 /\ g.pkt > f.pkt
           ELSE g.idx = f.idx + 1 /\ g.pkt = f.pkt

SourceRead(eop) ==
  LET flit == IF srcFlit.eop THEN [pkt |-> srcFlit.pkt + 1, idx |-> 1, eop |-> eop]
                             ELSE [srcFlit EXCEPT !.idx = @ + 1, !.eop = eop]
  IN  /\ srcStage = "read"
      /\ srcFlit.eop => srcFlit.pkt < Packets
      /\ flit.idx = MaxFlits => eop
      /\ srcFlit' = flit
      /\ srcStage' = "match"
      /\ UNCHANGED <<matcher, meta, forward, steer, out, flagging, steering,
                     hitPackets, lastResult>>

SourceToMatcher ==
  /\ srcStage = "match" /\ Len(matcher) < MatcherDepth
  /\ matcher' = Append(matcher, srcFlit)
  /\ srcStage' = "forward"
  /\ UNCHANGED <<srcFlit, meta, forward, steer, out, flagging, steering,
                 hitPackets, lastResult>>

\* Mutant: a full forward FIFO loses the flit.
SourceToForwardLossy ==
  /\ srcStage = "forward"
  /\ forward' = IF Len(forward) < ForwardDepth THEN Append(forward, srcFlit) ELSE forward
  /\ srcStage' = "read"
  /\ UNCHANGED <<srcFlit, matcher, meta, steer, out, flagging, steering,
                 hitPackets, lastResult>>

SourceToForward ==
  /\ srcStage = "forward" /\ Len(forward) < ForwardDepth
  /\ forward' = Append(forward, srcFlit)
  /\ srcStage' = "read"
  /\ UNCHANGED <<srcFlit, matcher, meta, steer, out, flagging, steering,
                 hitPackets, lastResult>>

(***************************************************************************)
(* The matcher, as far as its streams show it.                             *)
(***************************************************************************)
\* The end of a packet always makes a result flit; elsewhere a flit may make
\* none (the compactors leave out the empty ones).
Match(hit) ==
  LET flit == Head(matcher)
  IN  /\ matcher # << >> /\ Len(meta) < MetaDepth
      /\ matcher' = Tail(matcher)
      /\ meta' = Append(meta, [pkt |-> flit.pkt, hit |-> hit, eop |-> flit.eop])
      /\ hitPackets' = IF hit THEN hitPackets \union {flit.pkt} ELSE hitPackets
      /\ UNCHANGED <<source, forward, steer, out, flagging, steering, lastResult>>

MatchNothing ==
  /\ matcher # << >> /\ ~Head(matcher).eop
  /\ matcher' = Tail(matcher)
  /\ UNCHANGED <<source, meta, forward, steer, out, flagging, steering,
                 hitPackets, lastResult>>

(***************************************************************************)
(* flagger: one result flit per turn, with up to two blocking writes.      *)
(***************************************************************************)
FlagRead ==
  /\ flagStage = "read" /\ meta # << >>
  /\ result' = Head(meta)
  /\ meta' = Tail(meta)
  /\ flagStage' = "out"
  /\ UNCHANGED <<source, matcher, forward, steer, out, steeringSent, steering,
                 hitPackets, lastResult>>

\* Mutant: a packet's end is passed on only with a hit of its own.
PassesOnHits == result.hit

\* Mutant: every packet's end is passed on.
PassesOnEveryEnd == result.hit \/ result.eop

\* Hits, and the end of a packet that had one before.
PassesOn == result.hit \/ (result.eop /\ steeringSent)

\* The packet's first hit, or its end without one.
SendsBit == (result.hit \/ result.eop) /\ ~steeringSent

FlagOut ==
  /\ flagStage = "out"
  /\ PassesOn => Len(out) < OutDepth
  /\ out' = IF PassesOn THEN Append(out, result) ELSE out
  /\ flagStage' = "steer"
  /\ UNCHANGED <<source, matcher, meta, forward, steer, steeringSent, result,
                 steering, hitPackets, lastResult>>

\* Cleared at the end of a packet.
SteeringSentNext == IF result.eop THEN FALSE ELSE steeringSent \/ result.hit

FlagSteer ==
  /\ flagStage = "steer"
  /\ SendsBit => Len(steer) < SteerDepth
  /\ steer' = IF SendsBit THEN Append(steer, result.hit) ELSE steer
  /\ steeringSent' = SteeringSentNext
  /\ flagStage' = "read"
  /\ UNCHANGED <<source, matcher, meta, forward, out, result, steering,
                 hitPackets, lastResult>>

(***************************************************************************)
(* steerPayload.                                                           *)
(***************************************************************************)
ReadBit ==
  /\ first /\ steer # << >>
  /\ flagged' = Head(steer)
  /\ steer' = Tail(steer)
  /\ first' = FALSE
  /\ UNCHANGED <<source, matcher, meta, forward, out, flagging, safeCount,
                 lastMatch, lastSafe, hitPackets, lastResult>>

\* Mutant: every flit waits for a bit of its own.
NextFirstAlways(eop) == TRUE

\* The next packet waits for the next bit.
NextFirst(eop) == eop

\* Mutant: safe flits, not packets, are counted.
CountsFlit(eop) == 1

\* safe_payload_count += inPayload.eop
CountsPacket(eop) == IF eop THEN 1 ELSE 0

\* A flit goes to the path of its packet, whenever that has room.
SteerFlit ==
  LET flit == Head(forward)
  IN  /\ ~first /\ forward # << >>
      /\ forward' = Tail(forward)
      /\ first' = NextFirst(flit.eop)
      /\ \/ /\ flagged
            /\ lastMatch' = flit
            /\ UNCHANGED <<lastSafe, safeCount>>
         \/ /\ ~flagged
            /\ lastSafe' = flit
            /\ safeCount' = safeCount + CountsPacket(flit.eop)
            /\ UNCHANGED lastMatch
      /\ UNCHANGED <<source, matcher, meta, steer, out, flagging, flagged,
                     hitPackets, lastResult>>

(***************************************************************************)
(* The next stage takes the results of a packet once the packet has come   *)
(* down the match path to its end.                                         *)
(***************************************************************************)
TakeResult ==
  /\ out # << >>
  /\ \/ lastMatch.pkt > Head(out).pkt
     \/ lastMatch.pkt = Head(out).pkt /\ lastMatch.eop
  /\ out' = Tail(out)
  /\ lastResult' = IF Head(out).eop THEN Head(out).pkt ELSE lastResult
  /\ UNCHANGED <<source, matcher, meta, forward, steer, flagging, steering, hitPackets>>

-----------------------------------------------------------------------------
Source  == (\E eop \in BOOLEAN : SourceRead(eop)) \/ SourceToMatcher \/ SourceToForward
Matcher == (\E hit \in BOOLEAN : Match(hit)) \/ MatchNothing
Flagger == FlagRead \/ FlagOut \/ FlagSteer
Steerer == ReadBit \/ SteerFlit

Next == Source \/ Matcher \/ Flagger \/ Steerer \/ TakeResult

\* Every kernel runs freely (ap_ctrl_none), the packets keep coming, and the
\* two paths keep taking flits.
Fairness == /\ WF_vars(Source) /\ WF_vars(Matcher) /\ WF_vars(Flagger)
            /\ WF_vars(Steerer) /\ WF_vars(TakeResult)

Spec == Init /\ [][Next]_vars /\ Fairness

-----------------------------------------------------------------------------
(***************************************************************************)
(* Properties.                                                             *)
(***************************************************************************)
\* A packet goes down the match path only if a rule matched in it, and down
\* the safe path only if none did: the bit and the flits, which travel
\* through different streams, are never out of step.
RightPath ==
  /\ lastMatch.pkt # 0 => lastMatch.pkt \in hitPackets
  /\ lastSafe.pkt \notin hitPackets

\* A packet is never torn between the paths, nor mixed with another.
PacketsWhole ==
  [][/\ lastMatch' # lastMatch => Follows(lastMatch, lastMatch')
     /\ lastSafe' # lastSafe => Follows(lastSafe, lastSafe')]_vars

\* The next stage has results of exactly the packets that came down the match
\* path, in the same order: it pairs the two by their ends of packet.
ResultsInStep ==
  [][lastResult' # lastResult =>
       /\ lastResult' \in hitPackets
       /\ \A p \in lastResult + 1 .. lastResult' - 1 : p \notin hitPackets]_vars

\* The packets the host counts as safe, with those on the match path, are all
\* the packets that were steered.
CountsAll ==
  LET steered == IF lastSafe.pkt > lastMatch.pkt THEN lastSafe ELSE lastMatch
      whole   == IF steered.eop THEN steered.pkt ELSE steered.pkt - 1
  IN  safeCount = whole - Cardinality({p \in hitPackets : p <= whole})

\* Every packet has arrived and left.
Quiet ==
  /\ srcStage = "read" /\ srcFlit.pkt = Packets /\ srcFlit.eop
  /\ matcher = << >> /\ meta = << >> /\ flagStage = "read"
  /\ forward = << >> /\ steer = << >> /\ out = << >> /\ first

\* No wait between the kernels is for ever: a packet's flits in the forward
\* FIFO wait for its bit, which waits for the matcher, which waits for its
\* results to be taken, which wait for the packet's last flit.
AllSteered == <>Quiet
=============================================================================
