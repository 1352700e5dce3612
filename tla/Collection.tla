------------------------------ MODULE Collection ------------------------------
(***************************************************************************)
(* The end of the pipeline and the host that polls it: payloadSinkKernel,  *)
(* payloadWriteKernel, resultSinkKernel, resultWriteKernel (io_stages.cpp) *)
(* and the main loop of host_producer.cpp, which has no results written    *)
(* (SKIP_RULES_WRITE), or that of host.cpp, which has no payload written   *)
(* (SKIP_PAYLOAD_WRITE).                                                   *)
(*                                                                         *)
(* Every packet that is read ends in one of four ways: dropped at the      *)
(* Ethernet side, safe after the string matcher, safe after the second     *)
(* matcher, or a hit.  Dropped packets and hits reach the payload sink     *)
(* through two streams; hits also make a result.  The payload sink's packs *)
(* are written, window by window, into two buffers in turn, which the host *)
(* collects.  The host reads the counts, one register at a time, until all *)
(* packets are accounted for, and then tells the sinks to stop.            *)
(*                                                                         *)
(* A pack is one flit wide (PAYLOAD_WRITE_MULT = 1), and so is a result    *)
(* write (IO_WRITE_MULT = 1).                                              *)
(***************************************************************************)
EXTENDS Integers, Sequences, SequencesExt, FiniteSetsExt, Functions

CONSTANTS
  FlitsOf,      \* the packets: how many flits each one has at the payload sink
  PipeDepth,    \* depth of the streams between sinks and write kernels
  MaxPacks,     \* the packs that max_size words make
  Fragile       \* the packets that may lose or repeat flits if dropped (a bound)

ASSUME CollectionAssumption ==
  /\ FlitsOf \in Seq(Nat \ {0})
  /\ PipeDepth \in Nat \ {0} /\ MaxPacks \in Nat \ {0}
  /\ Fragile \subseteq 1 .. Len(FlitsOf)

Packet == 1 .. Len(FlitsOf)

VARIABLES
  \* the pipeline: packets read, whether the source is idle, the packets
  \* that have left, and the counts of the other ends
  sent, sourceIdle, left, dropped, smSafe, nfSafe,
  \* history: how flits of dropped packets fared that did not arrive just once
  mangled,
  \* the streams into the sinks
  hostPipe, overflowPipe, resultPipe,
  \* payloadSinkKernel
  newPacket, whichPipe, payloadCount, sinkDone, sinkSeen,
  \* payloadWriteKernel: its stream, its run and whether that has been full, the
  \* two buffers, and the done and overflow bits of their headers
  packPipe, writing, overflow, target, memory, header,
  \* resultSinkKernel and resultWriteKernel
  resultCount, resultSeen, tracePipe, tracing, trace,
  \* the two stop registers
  payloadStop, resultStop,
  \* the host: which program, its place, the next register, what it read, what it
  \* has decided, what it collected, and (history) whether an overflow bit was in
  \* a header that it read
  program, pc, register, seen, payloadStopped, rulesStopped, done, collected, warned

pipeline   == <<sent, sourceIdle, left, dropped, smSafe, nfSafe, mangled>>
streams    == <<hostPipe, overflowPipe, resultPipe>>
payloadSink == <<newPacket, whichPipe, payloadCount, sinkDone, sinkSeen>>
writer     == <<writing, overflow, target, memory, header>>
resultSink == <<resultCount, resultSeen>>
tracer     == <<tracing, trace>>
stops      == <<payloadStop, resultStop>>
host       == <<program, pc, register, seen, payloadStopped, rulesStopped, done, collected,
                warned>>
vars == <<pipeline, streams, payloadSink, packPipe, writer, resultSink, tracePipe,
          tracer, stops, host>>

Flit == {f \in [pkt : Packet, idx : Nat \ {0}, eop : BOOLEAN] :
           f.idx <= FlitsOf[f.pkt] /\ (f.eop <=> f.idx = FlitsOf[f.pkt])}
FlitsOfPacket(p) == [i \in 1 .. FlitsOf[p] |-> [pkt |-> p, idx |-> i, eop |-> i = FlitsOf[p]]]

\* A pack that carries no flit carries the end mark, and the like for results.
Nothing == [pkt |-> 0, idx |-> 0, eop |-> FALSE]
Pack == [data : Flit, done : BOOLEAN] \union [data : {Nothing}, done : {TRUE}]
ResultWrite == [pkt : {0} \union Packet, terminate : BOOLEAN]

\* The registers in the order in which the host reads them.
Registers == <<"source", "rules", "payload", "dropped", "sent", "smSafe",
               "nfSafe", "resultCount", "payloadCount">>

Unread == [r \in Range(Registers) |-> IF r \in {"source", "rules", "payload"} THEN FALSE ELSE 0]

TypeOK ==
  /\ sent \in 0 .. Len(FlitsOf) /\ sourceIdle \in BOOLEAN /\ left \in 0 .. sent
  /\ dropped \in 0 .. sent /\ smSafe \in 0 .. sent /\ nfSafe \in 0 .. sent
  /\ hostPipe \in Seq(Flit) /\ overflowPipe \in Seq(Flit) /\ resultPipe \in Seq(Packet)
  /\ mangled \subseteq {"lost", "endLost", "repeated"}
  /\ newPacket \in BOOLEAN /\ whichPipe \in BOOLEAN /\ payloadCount \in Nat
  /\ sinkDone \in BOOLEAN /\ sinkSeen \in BOOLEAN
  /\ packPipe \in Seq(Pack) /\ Len(packPipe) <= PipeDepth
  /\ writing \in BOOLEAN /\ target \in {0, 1}
  /\ memory \in [{0, 1} -> Seq(Flit)]
  /\ overflow \in BOOLEAN
  /\ header \in [{0, 1} -> [done : BOOLEAN, overflow : BOOLEAN]]
  /\ resultCount \in 0 .. sent /\ resultSeen \in BOOLEAN
  /\ tracePipe \in Seq(ResultWrite) /\ Len(tracePipe) <= PipeDepth
  /\ tracing \in BOOLEAN /\ trace \in Seq({0} \union Packet)
  /\ payloadStop \in BOOLEAN /\ resultStop \in BOOLEAN
  /\ program \in {"host_producer", "host"} /\ warned \in BOOLEAN
  /\ pc \in {"collect", "read", "poll", "stopPayload", "stopRules", "end"}
  /\ register \in 1 .. Len(Registers)
  /\ DOMAIN seen = Range(Registers)
  /\ payloadStopped \in BOOLEAN /\ rulesStopped \in BOOLEAN /\ done \in BOOLEAN
  /\ collected \in Seq(Flit)

Init ==
  /\ sent = 0 /\ sourceIdle = FALSE /\ left = 0
  /\ dropped = 0 /\ smSafe = 0 /\ nfSafe = 0 /\ mangled = {}
  /\ hostPipe = << >> /\ overflowPipe = << >> /\ resultPipe = << >>
  /\ newPacket = TRUE /\ whichPipe = FALSE /\ payloadCount = 0
  /\ sinkDone = FALSE /\ sinkSeen = FALSE
  /\ packPipe = << >> /\ writing = TRUE /\ target = 0
  /\ memory = [b \in {0, 1} |-> << >>]
  /\ overflow = FALSE
  /\ header = [b \in {0, 1} |-> [done |-> FALSE, overflow |-> FALSE]]
  /\ resultCount = 0 /\ resultSeen = FALSE
  /\ tracePipe = << >> /\ tracing = TRUE /\ trace = << >>
  /\ payloadStop = FALSE /\ resultStop = FALSE
  /\ program \in {"host_producer", "host"} /\ warned = FALSE
  /\ pc = IF program = "host" THEN "poll" ELSE "collect"
  /\ register = 1
  /\ seen = Unread
  /\ payloadStopped = FALSE /\ rulesStopped = FALSE /\ done = FALSE
  /\ collected = << >>

(***************************************************************************)
(* The pipeline, as far as its counts and streams show it.                 *)
(***************************************************************************)
Send ==
  /\ sent < Len(FlitsOf)
  /\ sent' = sent + 1
  /\ UNCHANGED <<sourceIdle, left, dropped, smSafe, nfSafe, mangled, streams, payloadSink,
                 packPipe, writer, resultSink, tracePipe, tracer, stops, host>>

SourceEnds ==
  /\ sent = Len(FlitsOf) /\ ~sourceIdle
  /\ sourceIdle' = TRUE
  /\ UNCHANGED <<sent, left, dropped, smSafe, nfSafe, mangled, streams, payloadSink,
                 packPipe, writer, resultSink, tracePipe, tracer, stops, host>>

\* What a full overflow stream (write_nb) can leave of a packet's flits.
Losses(flits) ==
  {kept \in SeqOf(Range(flits), Len(flits)) :
     \A i, j \in DOMAIN kept : i < j => kept[i].idx < kept[j].idx} \ {flits}

\* What there is of them if those from the i-th to the j-th come a second time.
Repeats(flits) ==
  UNION {{SubSeq(flits, 1, j) \o SubSeq(flits, i, Len(flits)) : i \in 1 .. j} :
           j \in DOMAIN flits}

\* A dropped packet is counted and its flits go to the overflow stream.  Some of
\* them may be lost there, and sometimes "a fragment of a packet repeats into the
\* overflow pipe" (host_producer.cpp:414).
Drop ==
  LET flits == FlitsOfPacket(left + 1)
  IN  /\ dropped' = dropped + 1
      /\ \/ overflowPipe' = overflowPipe \o flits /\ UNCHANGED mangled
         \/ /\ left + 1 \in Fragile
            /\ \E kept \in Losses(flits) :
                 /\ overflowPipe' = overflowPipe \o kept
                 /\ mangled' = mangled \union (IF kept # << >> /\ Last(kept).eop
                                               THEN {"lost"} ELSE {"lost", "endLost"})
         \/ /\ left + 1 \in Fragile
            /\ \E again \in Repeats(flits) :
                 /\ overflowPipe' = overflowPipe \o again
                 /\ mangled' = mangled \union {"repeated"}
      /\ UNCHANGED <<smSafe, nfSafe, hostPipe, resultPipe>>

\* A packet without hits is counted by one of the two steering kernels.
Safe ==
  /\ \/ smSafe' = smSafe + 1 /\ UNCHANGED nfSafe
     \/ nfSafe' = nfSafe + 1 /\ UNCHANGED smSafe
  /\ UNCHANGED <<dropped, mangled, streams>>

\* A hit makes a result and goes on to the payload sink.
Hit ==
  /\ hostPipe' = hostPipe \o FlitsOfPacket(left + 1)
  /\ resultPipe' = Append(resultPipe, left + 1)
  /\ UNCHANGED <<dropped, smSafe, nfSafe, mangled, overflowPipe>>

\* The packets are numbered as they leave.
Leave ==
  /\ left < sent
  /\ left' = left + 1
  /\ Drop \/ Safe \/ Hit
  /\ UNCHANGED <<sent, sourceIdle, payloadSink, packPipe, writer, resultSink, tracePipe,
                 tracer, stops, host>>

(***************************************************************************)
(* payloadSinkKernel: one turn of its loop.                                *)
(***************************************************************************)
\* The last lines of a turn: the count is published and the register read.
SinkEnds(count, hasWritten) ==
  LET seenNow == IF hasWritten THEN sinkDone ELSE sinkSeen
  IN  /\ payloadCount' = count
      /\ sinkDone' = payloadStop
      /\ sinkSeen' = (payloadStop /\ seenNow)

CountsEnd(flit) == IF flit.eop THEN 1 ELSE 0

\* What a turn does with a flit it has read.
SinkPacks(flit) ==
  /\ Len(packPipe) < PipeDepth
  /\ packPipe' = Append(packPipe, [data |-> flit, done |-> sinkDone])
  /\ newPacket' = flit.eop
  /\ SinkEnds(payloadCount + CountsEnd(flit), TRUE)
  /\ UNCHANGED <<pipeline, resultPipe, writer, resultSink, tracePipe, tracer, stops, host>>

\* The stream of hits is tried first, at the start of a packet or within one
\* of its own.
SinkTakesHit ==
  /\ newPacket \/ ~whichPipe
  /\ hostPipe # << >>
  /\ SinkPacks(Head(hostPipe))
  /\ hostPipe' = Tail(hostPipe)
  /\ whichPipe' = FALSE
  /\ UNCHANGED overflowPipe

\* Mutant: the overflow stream is tried whenever the other has nothing.
TriesOverflowAnytime == TRUE

TriesOverflow == newPacket \/ whichPipe

\* At the start of a packet the hits had no flit to show (which may still be
\* on its way), or a packet of the overflow stream is under way.
SinkTakesDropped ==
  /\ TriesOverflow
  /\ overflowPipe # << >>
  /\ SinkPacks(Head(overflowPipe))
  /\ overflowPipe' = Tail(overflowPipe)
  /\ whichPipe' = TRUE
  /\ UNCHANGED hostPipe

\* A turn that finds no flit writes the end mark, once.
SinkTakesNothing ==
  LET writes == sinkDone /\ ~sinkSeen
  IN  /\ writes => Len(packPipe) < PipeDepth
      /\ packPipe' = IF writes THEN Append(packPipe, [data |-> Nothing, done |-> TRUE])
                               ELSE packPipe
      /\ SinkEnds(payloadCount, writes)
      /\ whichPipe' = (whichPipe /\ ~newPacket)
      /\ UNCHANGED <<pipeline, streams, newPacket, writer, resultSink, tracePipe, tracer,
                     stops, host>>

(***************************************************************************)
(* payloadWriteKernel: a run reads packs until its cycles are over or the  *)
(* end mark arrives, and then writes the header.                           *)
(***************************************************************************)
\* host.cpp has nothing written, and the run then lasts until the end mark.
SkipWrite == program = "host"

Full == ~SkipWrite /\ Len(memory[target]) >= MaxPacks

\* The header is written, and the kernel is idle.
WindowEnds(isDone, isOver) ==
  /\ header' = [header EXCEPT ![target] = [done |-> isDone, overflow |-> isOver]]
  /\ writing' = FALSE

\* Mutant: a pack is also thrown away by a run that has just room for it.
ThrownEarly == SkipWrite \/ Len(memory[target]) + 1 >= MaxPacks

\* Is a pack that is read now thrown away?
Thrown == SkipWrite \/ Full

\* The pack with the end mark is not written, and no pack by a full run.
WritePack ==
  LET pack == Head(packPipe)
  IN  /\ writing /\ packPipe # << >>
      /\ packPipe' = Tail(packPipe)
      /\ overflow' = (overflow \/ Full)
      /\ \/ pack.done /\ WindowEnds(TRUE, overflow') /\ UNCHANGED memory
         \/ /\ ~pack.done
            /\ memory' = IF Thrown THEN memory
                         ELSE [memory EXCEPT ![target] = Append(@, pack.data)]
            /\ UNCHANGED <<writing, header>>
      /\ UNCHANGED <<pipeline, streams, payloadSink, target, resultSink, tracePipe,
                     tracer, stops, host>>

\* The cycles of a run are over.  It reads in every cycle, so it does not pass
\* over a pack that waits from its start to its end.  A full run that has had a
\* cycle more has set its overflow bit.
CyclesOver ==
  /\ writing /\ ~SkipWrite
  /\ packPipe = << >> \/ memory[target] # << >>
  /\ overflow' \in {overflow, overflow \/ Full}
  /\ WindowEnds(FALSE, overflow')
  /\ UNCHANGED <<pipeline, streams, payloadSink, packPipe, target, memory,
                 resultSink, tracePipe, tracer, stops, host>>

(***************************************************************************)
(* resultSinkKernel and resultWriteKernel.                                 *)
(***************************************************************************)
SinkResult ==
  /\ resultPipe # << >> /\ Len(tracePipe) < PipeDepth
  /\ resultPipe' = Tail(resultPipe)
  /\ tracePipe' = Append(tracePipe, [pkt |-> Head(resultPipe), terminate |-> resultStop])
  /\ resultCount' = resultCount + 1
  /\ resultSeen' = (resultSeen /\ resultStop)
  /\ UNCHANGED <<pipeline, hostPipe, overflowPipe, payloadSink, packPipe, writer, tracer,
                 stops, host>>

\* Mutant: without a result there is no end mark.
SinkNoResultEnd == FALSE /\ UNCHANGED vars

SinkResultEnd ==
  /\ resultStop /\ ~resultSeen /\ Len(tracePipe) < PipeDepth
  /\ tracePipe' = Append(tracePipe, [pkt |-> 0, terminate |-> TRUE])
  /\ resultSeen' = TRUE
  /\ UNCHANGED <<pipeline, streams, payloadSink, packPipe, writer, resultCount, tracer,
                 stops, host>>

\* host_producer.cpp only has the results read.
SkipResults == program = "host_producer"

WriteResult ==
  /\ tracing /\ tracePipe # << >>
  /\ tracePipe' = Tail(tracePipe)
  /\ trace' = IF SkipResults THEN trace ELSE Append(trace, Head(tracePipe).pkt)
  /\ tracing' = ~Head(tracePipe).terminate
  /\ UNCHANGED <<pipeline, streams, payloadSink, packPipe, writer, resultSink, stops, host>>

(***************************************************************************)
(* The main loop of host_producer.cpp.  That of host.cpp collects nothing, *)
(* stops both sinks when both sums agree, and then waits for both write    *)
(* kernels.                                                                *)
(***************************************************************************)
\* Is there something the host still waits for?
LoopCondition ==
  ~rulesStopped' \/ ~seen["rules"] \/ ~payloadStopped \/ ~seen["payload"]

OtherBuffer == 1 - target

\* When the write kernel is idle it is started again on the other buffer.
StartWindow ==
  /\ pc = "collect" /\ ~writing
  /\ writing' = TRUE /\ target' = OtherBuffer /\ overflow' = FALSE
  /\ pc' = "read"
  /\ UNCHANGED <<pipeline, streams, payloadSink, packPipe, memory, header, resultSink,
                 tracePipe, tracer, stops, program, register, seen, payloadStopped,
                 rulesStopped, done, collected, warned>>

\* The buffer of the last run is read while the kernel writes the other one.  Its
\* words stay there, beyond those that its next header counts.
ReadBuffer ==
  LET last == 1 - target
  IN  /\ pc = "read"
      /\ done' = header[last].done
      /\ warned' = (warned \/ header[last].overflow)
      /\ collected' = collected \o memory[last]
      /\ memory' = [memory EXCEPT ![last] = << >>]
      /\ pc' = "poll"
      /\ UNCHANGED <<pipeline, streams, payloadSink, packPipe, writing, overflow, target,
                     header, resultSink, tracePipe, tracer, stops, program, register, seen,
                     payloadStopped, rulesStopped>>

RegisterValue(r) ==
  CASE r = "source"       -> sourceIdle
    [] r = "rules"        -> ~tracing
    [] r = "payload"      -> ~writing
    [] r = "dropped"      -> dropped
    [] r = "sent"         -> sent
    [] r = "smSafe"       -> smSafe
    [] r = "nfSafe"       -> nfSafe
    [] r = "resultCount"  -> resultCount
    [] r = "payloadCount" -> payloadCount

\* Whether what is read from register r can make a difference: the counts do
\* once the source is idle, and until the sinks have been stopped.  host.cpp
\* reads the write kernels only after that.
Matters(r, idle) ==
  CASE r = "source"       -> ~payloadStopped \/ ~rulesStopped
    [] r = "rules"        -> rulesStopped
    [] r = "payload"      -> program = "host_producer" \/ payloadStopped
    [] r = "payloadCount" -> idle /\ ~payloadStopped
    [] r \in {"dropped", "resultCount"} -> idle /\ ~rulesStopped
    [] OTHER              -> idle

\* The host reads one register at a time, and the pipeline moves on in between.
\* Reads that make no difference are left out.
ReadRegister ==
  LET r == Registers[register]
      later == {k \in register + 1 .. Len(Registers) :
                  Matters(Registers[k], seen["source"] \/ (r = "source" /\ sourceIdle))}
  IN  /\ pc = "poll"
      /\ seen' = IF Matters(r, TRUE) THEN [seen EXCEPT ![r] = RegisterValue(r)] ELSE seen
      /\ IF later # {}
         THEN register' = Min(later) /\ UNCHANGED pc
         ELSE register' = 1 /\ pc' = "stopPayload"
      /\ UNCHANGED <<pipeline, streams, payloadSink, packPipe, writer, resultSink, tracePipe,
                     tracer, stops, program, payloadStopped, rulesStopped, done,
                     collected, warned>>

\* Mutant: the host does not count on more packets than were sent.
PayloadAccountedExactly ==
  /\ seen["source"]
  /\ seen["sent"] = seen["smSafe"] + seen["nfSafe"] + seen["payloadCount"]

\* Mutant: the host does not wait for the source to be idle.
PayloadAccountedEarly ==
  seen["sent"] <= seen["smSafe"] + seen["nfSafe"] + seen["payloadCount"]

\* Is every packet accounted for at the payload sink?
PayloadAccounted ==
  /\ seen["source"]
  /\ seen["sent"] <= seen["smSafe"] + seen["nfSafe"] + seen["payloadCount"]

\* Is every packet that was not dropped accounted for at the rules sink?
ResultsAccounted ==
  /\ seen["source"]
  /\ seen["sent"] - seen["dropped"] = seen["smSafe"] + seen["nfSafe"] + seen["resultCount"]

\* Mutant: host.cpp stops when the payload sink's sum agrees.
StopsPayloadAlone == PayloadAccounted

\* host.cpp stops the payload sink only when both sums agree.
StopsPayload == PayloadAccounted /\ (program = "host" => ResultsAccounted)

StopPayload ==
  /\ pc = "stopPayload"
  /\ IF ~payloadStopped /\ StopsPayload
     THEN payloadStop' = TRUE /\ payloadStopped' = TRUE
     ELSE UNCHANGED <<payloadStop, payloadStopped>>
  /\ pc' = "stopRules"
  /\ UNCHANGED <<pipeline, streams, payloadSink, packPipe, writer, resultSink, tracePipe,
                 tracer, resultStop, program, register, seen, rulesStopped, done, collected,
                 warned>>

\* The rules sink next; host.cpp does not ask again.
StopsRules == IF program = "host" THEN payloadStopped ELSE ResultsAccounted

\* The last lines of the loop, and its condition.  Every register is read again
\* before it is used again.
StopRules ==
  /\ pc = "stopRules"
  /\ IF ~rulesStopped /\ StopsRules
     THEN resultStop' = TRUE /\ rulesStopped' = TRUE
     ELSE UNCHANGED <<resultStop, rulesStopped>>
  /\ pc' = IF ~LoopCondition THEN "end"
           ELSE IF done \/ program = "host" THEN "poll" ELSE "collect"
  /\ seen' = Unread
  /\ UNCHANGED <<pipeline, streams, payloadSink, packPipe, writer, resultSink, tracePipe,
                 tracer, payloadStop, program, register, payloadStopped, done, collected,
                 warned>>

-----------------------------------------------------------------------------
Arrive      == Send \/ SourceEnds
PayloadSink == SinkTakesHit \/ SinkTakesDropped \/ SinkTakesNothing
ResultSink  == SinkResult \/ SinkResultEnd
Host        == StartWindow \/ ReadBuffer \/ ReadRegister \/ StopPayload \/ StopRules

Next == Arrive \/ Leave \/ PayloadSink \/ WritePack \/ CyclesOver \/ ResultSink
          \/ WriteResult \/ Host

\* The kernels run freely, the source reads to its end, packets leave the
\* pipeline, and a flit that waits at a sink shows up there.  What can only be
\* done a finite number of times needs no fairness of its own.
Progress ==
  \/ Arrive \/ Leave \/ SinkTakesHit \/ SinkTakesDropped \/ WritePack
  \/ ResultSink \/ WriteResult

Fairness ==
  /\ WF_vars(Progress) /\ WF_vars(SinkTakesNothing) /\ WF_vars(CyclesOver)
  /\ WF_vars(Host)

Spec == Init /\ [][Next]_vars /\ Fairness

-----------------------------------------------------------------------------
(***************************************************************************)
(* Properties.                                                             *)
(***************************************************************************)
\* The flits of sequence s are whole packets, one after the other.
Whole(s) ==
  /\ \A i \in 1 .. Len(s) - 1 :
       IF s[i].eop THEN s[i + 1].idx = 1
                   ELSE s[i + 1].pkt = s[i].pkt /\ s[i + 1].idx = s[i].idx + 1
  /\ s # << >> => s[1].idx = 1

\* The flits in the stream to the write kernel; its last pack may carry nothing
\* but the end mark.
InPackPipe ==
  LET n == IF packPipe # << >> /\ Last(packPipe).data = Nothing
           THEN Len(packPipe) - 1 ELSE Len(packPipe)
  IN  [i \in 1 .. n |-> packPipe[i].data]

\* What the sink has packed: what the host has collected, the buffer it is about
\* to read, the one under way, and the stream.
Packed ==
  collected \o (IF pc = "read" THEN memory[1 - target] ELSE << >>)
    \o memory[target] \o InPackPipe

EndsOfPackets(s) == Cardinality({i \in 1 .. Len(s) : s[i].eop})

\* Has a run set its overflow bit?
Overflowed == warned \/ overflow \/ \E b \in {0, 1} : header[b].overflow

\* Has a fragment of a dropped packet come twice?
Repeated == "repeated" \in mangled

\* Until a fragment is repeated, and unless an overflow bit says that a run was
\* full: what has been packed is what the sink has counted, each flit once over
\* the changes of the buffers; and the packets of the two streams are not mixed
\* unless a full overflow stream has lost a part of one.
CollectedWhole ==
  SkipWrite \/ Overflowed \/ Repeated \/
    /\ EndsOfPackets(Packed) = payloadCount
    /\ IsInjective(Packed)
    /\ mangled = {} => Whole(Packed)

\* The sinks are told to stop only when no packet is under way any more,
\* though the host reads the counts one by one while they move.  Where a fragment
\* was repeated the payload sink may be stopped before (StopsAlwaysFinal).
StopsAreFinal ==
  /\ payloadStop /\ ~Repeated =>
       /\ sourceIdle /\ left = sent /\ hostPipe = << >> /\ overflowPipe = << >>
       /\ newPacket
  /\ resultStop => sourceIdle /\ left = sent /\ resultPipe = << >>

\* The same without the exception: the sum of host_producer.cpp:415-417 and
\* host.cpp:277-278 is reached only when all packets are accounted for.
StopsAlwaysFinal == payloadStop => left = sent /\ hostPipe = << >> /\ overflowPipe = << >>

\* The packets whose ends the host has.
Received == {p \in Packet : \E i \in 1 .. Len(collected) : collected[i].pkt = p /\ collected[i].eop}

\* When the host sees the end mark it has every packet that was not safe, or it
\* has read a header that says a run was full, or a fragment was repeated.
DoneMeansAll ==
  done /\ ~Repeated =>
    warned \/ Cardinality(Received) = Len(FlitsOf) - smSafe - nfSafe

\* The host leaves out the overflow bit (host_producer.cpp:314 looks at the done
\* bit only), as if the end mark were enough.
DoneIsEnough ==
  done /\ ~Repeated => Cardinality(Received) = Len(FlitsOf) - smSafe - nfSafe

\* When the host leaves its loop no result is left in the stream, and every one
\* has been written if the host has them written at all.
ResultsWritten ==
  pc = "end" =>
    /\ tracePipe = << >>
    /\ ~SkipResults => Cardinality({i \in 1 .. Len(trace) : trace[i] # 0})
                          + dropped + smSafe + nfSafe = Len(FlitsOf)

\* When host_producer leaves its loop it has every packet that was not safe.
AllCollected ==
  pc = "end" /\ ~SkipWrite /\ mangled = {} =>
    Cardinality(Received) = Len(FlitsOf) - smSafe - nfSafe

\* The host leaves its loop, also if a fragment is repeated, unless the end of a
\* dropped packet is lost.
HostEnds == <>(pc = "end" \/ "endLost" \in mangled)

\* The same without the exception.
HostAlwaysEnds == <>(pc = "end")
=============================================================================
