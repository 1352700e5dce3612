----------------------------- MODULE HostPipeline -----------------------------
(***************************************************************************)
(* The host side of the pipeline: the main loop of host_producer.cpp,      *)
(* which takes the log lines the FPGA flagged out of DMA chunks and packs  *)
(* them into buffers for the worker threads of hyperscan_consumer.cpp.     *)
(*                                                                         *)
(* A buffer is BufferSize words: for each line a metadata word (its event  *)
(* index and its length) and its words, then a zero; a buffer that starts  *)
(* with zero ends the worker.  Each worker has a ring of N buffers, which  *)
(* the producer fills in turn.  The rings are those of RingBuffer; their   *)
(* mutexes and condition variables are in BoundedBuffer, whose proofs let  *)
(* a buffer be written and read here without regard to the other thread.   *)
(*                                                                         *)
(* payloadWriteKernel cuts the stream of lines into chunks: it stops after *)
(* a number of cycles, wherever that falls, or with the done flit, which   *)
(* may come in a chunk of its own.  Two steps of the producer spoil what   *)
(* the workers get, and the history variable `spoilt' remembers them: it   *)
(* goes back to the front of a line that came with an earlier chunk, and   *)
(* it pushes a buffer without a line, as the line does not fit.            *)
(***************************************************************************)
EXTENDS RingBuffer, SequencesExt

CONSTANTS
  NumThreads,      \* num_threads, the workers and their rings
  BufferSize,      \* BUFFER_SIZE, the words of a buffer
  PackWidth,       \* PAYLOAD_WRITE_WIDTH, the words of a DMA pack
  LinePacks,       \* the flagged lines: how many packs each one takes
  MaxChunk         \* the most packs of a chunk (a bound)

ASSUME HostAssumption ==
  /\ N > 2 /\ NumThreads \in Nat \ {0}
  /\ BufferSize \in Nat \ {0, 1} /\ PackWidth \in Nat \ {0} /\ MaxChunk \in Nat \ {0}
  /\ LinePacks \in Seq(Nat \ {0})

Thread == 0 .. NumThreads - 1
Line == 1 .. Len(LinePacks)

(***************************************************************************)
(* Words.  A word of a line is its line and its place; only the last one   *)
(* has '\n' in its top byte.  Line l has the event index l - 1.            *)
(***************************************************************************)
LineLength(l) == LinePacks[l] * PackWidth
WordsOf(l) == [p \in 1 .. LineLength(l) |-> [kind |-> "data", line |-> l, at |-> p]]
Stream == FlattenSeq([l \in Line |-> WordsOf(l)])

\* The words of the stream up to the end of line l.
Behind[l \in 0 .. Len(LinePacks)] ==
  IF l = 0 THEN 0 ELSE Behind[l - 1] + LineLength(l)

Zero == [kind |-> "zero", line |-> 0, at |-> 0]
\* What lies before the chunk's data: the chunk's own header, and before that
\* memory of another use, which may look like the end of a line.
Junk(ends) == [kind |-> "junk", line |-> 0, at |-> IF ends THEN 1 ELSE 0]
Metadata(event, length) == [kind |-> "meta", line |-> event, at |-> length]

IsEndOfLine(word) ==
  \/ word.kind = "data" /\ word.at = LineLength(word.line)
  \/ word = Junk(TRUE)

VARIABLES
  \* the producer: its place, the buffer it fills, and its indices into it
  pc, bufIdx, lineLength, startIndex, currentIndex, eventIndex,
  \* the chunk at hand: words of the stream before it, its words, the done
  \* flag, and the producer's index into payload_host
  base, chunk, done, payloadIndex,
  \* the sentinels sent so far
  sentinels,
  \* the rings and their slots
  rings, slots,
  \* the workers: their places and what they scanned
  wpc, scanned,
  \* history: the producer went back to before the chunk, or pushed a buffer
  \* without a line
  spoilt

producer == <<bufIdx, lineLength, startIndex, currentIndex, eventIndex>>
input    == <<base, chunk, done>>
vars == <<pc, producer, input, payloadIndex, sentinels, rings, slots, wpc, scanned, spoilt>>

TypeOK ==
  /\ pc \in {"chunk", "loop", "peek", "copy", "sentinel", "done"}
  /\ bufIdx \in Thread /\ eventIndex \in Nat
  /\ lineLength \in 0 .. BufferSize
  /\ startIndex \in 0 .. BufferSize /\ currentIndex \in 1 .. BufferSize + 1
  /\ base \in 0 .. Len(Stream) /\ chunk \in 0 .. Len(Stream) - base
  /\ done \in BOOLEAN /\ payloadIndex \in Int
  /\ sentinels \in 0 .. NumThreads /\ spoilt \in BOOLEAN
  /\ \A t \in Thread :
       /\ rings[t] \in Ring
       /\ \A i \in Index : DOMAIN slots[t][i] = 0 .. BufferSize - 1
       /\ wpc[t] \in {"peek", "pop", "exited"}

Init ==
  /\ pc = "chunk"
  /\ bufIdx = 0 /\ lineLength = 0 /\ startIndex = 0 /\ currentIndex = 1
  /\ eventIndex = 0
  /\ base = 0 /\ chunk = 0 /\ done = FALSE /\ payloadIndex = PackWidth
  /\ sentinels = 0
  /\ rings = [t \in Thread |-> NewRing]
  /\ slots = [t \in Thread |-> [i \in Index |-> [j \in 0 .. BufferSize - 1 |-> Zero]]]
  /\ wpc = [t \in Thread |-> "peek"]
  /\ scanned = [t \in Thread |-> << >>]
  /\ spoilt = FALSE

(***************************************************************************)
(* The producer.                                                           *)
(***************************************************************************)
\* Words a chunk may have: packs of what is left of the stream, wherever in a
\* line they begin and end.
ChunkSizes ==
  {n \in {PackWidth * k : k \in 0 .. MaxChunk} : n <= Len(Stream) - (base + chunk)}

\* The next chunk is read once payloadWriteKernel is done with it.  The done
\* flit comes behind every line, in the chunk with the last of them or in a
\* later one.  A chunk with neither data nor done leaves everything as it is.
ReadChunk(n, last) ==
  /\ pc = "chunk"
  /\ n > 0 \/ last
  /\ last => base + chunk + n = Len(Stream)
  /\ base' = base + chunk /\ chunk' = n /\ done' = last
  /\ payloadIndex' = PackWidth
  /\ pc' = "loop"
  /\ UNCHANGED <<producer, sentinels, rings, slots, wpc, scanned, spoilt>>

\* payload_host[i / PAYLOAD_WRITE_WIDTH].words[i % PAYLOAD_WRITE_WIDTH]: a word
\* of the data, of the header, or (the index wraps below 0) of what is before it.
SourceWords(i) ==
  IF i \in PackWidth .. PackWidth + chunk - 1 THEN {Stream[base + i - PackWidth + 1]}
  ELSE IF i >= 0 THEN {Junk(FALSE)} ELSE {Junk(FALSE), Junk(TRUE)}

\* The condition of the copy loop; the index is unsigned, so that one before
\* the data is beyond it.
InChunk(i) == i >= PackWidth /\ i - PackWidth < chunk

\* Mutant: the stale words of the slot's last use are left behind the lines.
TerminatedAtZero(buf) ==
  IF startIndex = 0 THEN [buf EXCEPT ![0] = Zero] ELSE buf

\* Mutant: the last buffer, which is not full, is not pushed.
AtEndNever(i) == FALSE

\* The last word of the payload was copied.
AtEnd(i) == done /\ ~InChunk(i)

\* A buffer with a zero where the next line would start, unless it is full to
\* the last word.
Terminated(buf) ==
  IF startIndex < BufferSize THEN [buf EXCEPT ![startIndex] = Zero] ELSE buf

\* The slot that peek_front gave the producer.
FrontSlot == rings[bufIdx].tail

BufferFull == currentIndex > BufferSize - 1

\* The buffer is full in the middle of a line (or of nothing): it is pushed
\* with the lines it holds and the line starts again in the next ring's.
NextBuffer ==
  /\ pc = "loop" /\ InChunk(payloadIndex)
  /\ BufferFull
  /\ slots' = [slots EXCEPT ![bufIdx][FrontSlot] = Terminated(@)]
  /\ rings' = [rings EXCEPT ![bufIdx] = PushFront(@)]
  /\ bufIdx' = (bufIdx + 1) % NumThreads
  /\ payloadIndex' = payloadIndex - lineLength
  /\ spoilt' = (spoilt \/ startIndex = 0 \/ payloadIndex' < PackWidth)
  /\ lineLength' = 0 /\ startIndex' = 0 /\ currentIndex' = 1
  /\ pc' = "peek"
  /\ UNCHANGED <<eventIndex, input, sentinels, wpc, scanned>>

\* peek_front of the next ring.
PeekFront ==
  /\ pc = "peek" /\ ~rings[bufIdx].full
  /\ pc' = "copy"
  /\ UNCHANGED <<producer, input, payloadIndex, sentinels, rings, slots, wpc, scanned, spoilt>>

\* One word is copied.  The last one of a line brings the line's metadata,
\* and the last one of the payload the last push.
CopyWord ==
  \E word \in SourceWords(payloadIndex) :
  LET eol  == IsEndOfLine(word)
      length == lineLength + 1
      start  == IF eol THEN currentIndex + 1 ELSE startIndex
      copied == [slots[bufIdx][FrontSlot] EXCEPT ![currentIndex] = word]
      full   == IF eol THEN [copied EXCEPT ![startIndex] = Metadata(eventIndex, length)]
                       ELSE copied
      last   == AtEnd(payloadIndex + 1)
  IN  /\ \/ pc = "copy"
         \/ pc = "loop" /\ InChunk(payloadIndex) /\ ~BufferFull
      /\ payloadIndex' = payloadIndex + 1
      /\ lineLength' = IF eol THEN 0 ELSE length
      /\ startIndex' = start
      /\ currentIndex' = currentIndex + (IF eol THEN 2 ELSE 1)
      /\ eventIndex' = eventIndex + (IF eol THEN 1 ELSE 0)
      /\ slots' = [slots EXCEPT ![bufIdx][FrontSlot] =
                     IF last /\ start < BufferSize THEN [full EXCEPT ![start] = Zero]
                                                   ELSE full]
      /\ rings' = IF last THEN [rings EXCEPT ![bufIdx] = PushFront(@)] ELSE rings
      /\ pc' = IF last THEN "sentinel" ELSE "loop"
      /\ UNCHANGED <<bufIdx, input, sentinels, wpc, scanned, spoilt>>

\* The chunk is used up.  After the last one the producer waits for the
\* kernels to finish and leaves its loop.
EndOfChunk ==
  /\ pc = "loop" /\ ~InChunk(payloadIndex)
  /\ pc' = IF done THEN "sentinel" ELSE "chunk"
  /\ UNCHANGED <<producer, input, payloadIndex, sentinels, rings, slots, wpc, scanned, spoilt>>

\* Mutant: one worker is not told.
SendSentinelToAllButOne ==
  /\ pc = "sentinel" /\ sentinels < NumThreads
  /\ ~rings[sentinels].full
  /\ slots' = [slots EXCEPT ![sentinels][rings[sentinels].tail][0] = Zero]
  /\ rings' = [rings EXCEPT ![sentinels] = IF sentinels = 0 THEN @ ELSE PushFront(@)]
  /\ sentinels' = sentinels + 1
  /\ pc' = IF sentinels + 1 = NumThreads THEN "done" ELSE "sentinel"
  /\ UNCHANGED <<producer, input, payloadIndex, wpc, scanned, spoilt>>

\* An empty buffer for each worker.
SendSentinel ==
  /\ pc = "sentinel" /\ sentinels < NumThreads
  /\ ~rings[sentinels].full
  /\ slots' = [slots EXCEPT ![sentinels][rings[sentinels].tail][0] = Zero]
  /\ rings' = [rings EXCEPT ![sentinels] = PushFront(@)]
  /\ sentinels' = sentinels + 1
  /\ pc' = IF sentinels + 1 = NumThreads THEN "done" ELSE "sentinel"
  /\ UNCHANGED <<producer, input, payloadIndex, wpc, scanned, spoilt>>

(***************************************************************************)
(* A worker.                                                               *)
(***************************************************************************)
\* The events of a buffer, each with its words, from index 0 to the zero or
\* the end.  A word that is no metadata read as such is an event of its own.
EventsOf(buf) ==
  LET from[i \in 0 .. 2 * BufferSize + 1] ==
        IF i >= BufferSize \/ buf[i] = Zero THEN << >>
        ELSE IF buf[i].kind # "meta" THEN <<[index |-> -1, words |-> << >>]>>
        ELSE LET n == buf[i].at
             IN  <<[index |-> buf[i].line, words |-> [j \in 1 .. n |-> buf[i + j]]]>>
                   \o from[i + n + 1]
  IN  from[0]

\* The slot peek_back returns.
ScannedSlot(t) == rings[t].head

\* peek_back, and the scan of every event of the buffer.
Scan(t) ==
  LET buf == slots[t][ScannedSlot(t)]
  IN  /\ wpc[t] = "peek" /\ ~rings[t].empty
      /\ buf[0] # Zero
      /\ scanned' = [scanned EXCEPT ![t] = @ \o EventsOf(buf)]
      /\ wpc' = [wpc EXCEPT ![t] = "pop"]
      /\ UNCHANGED <<pc, producer, input, payloadIndex, sentinels, rings, slots, spoilt>>

\* peek_back returns an empty buffer: the worker ends, without a pop.
Exit(t) ==
  /\ wpc[t] = "peek" /\ ~rings[t].empty
  /\ slots[t][ScannedSlot(t)][0] = Zero
  /\ wpc' = [wpc EXCEPT ![t] = "exited"]
  /\ UNCHANGED <<pc, producer, input, payloadIndex, sentinels, rings, slots, scanned, spoilt>>

\* Mutant: every buffer is scanned twice.
PopTooLate(t) ==
  /\ wpc[t] = "pop"
  /\ rings' = [rings EXCEPT ![t] = IF @.full THEN PopBack(@) ELSE @]
  /\ wpc' = [wpc EXCEPT ![t] = "peek"]
  /\ UNCHANGED <<pc, producer, input, payloadIndex, sentinels, slots, scanned, spoilt>>

\* pop_back
Pop(t) ==
  /\ wpc[t] = "pop"
  /\ rings' = [rings EXCEPT ![t] = PopBack(@)]
  /\ wpc' = [wpc EXCEPT ![t] = "peek"]
  /\ UNCHANGED <<pc, producer, input, payloadIndex, sentinels, slots, scanned, spoilt>>

-----------------------------------------------------------------------------
Produce == \/ \E n \in ChunkSizes, last \in BOOLEAN : ReadChunk(n, last)
           \/ NextBuffer \/ PeekFront \/ CopyWord \/ EndOfChunk \/ SendSentinel
Work(t) == Scan(t) \/ Exit(t) \/ Pop(t)

Finished == pc = "done" /\ \A t \in Thread : wpc[t] = "exited"

\* The producer has returned from main.
ProducerGone == pc = "done" /\ UNCHANGED vars

Next == Produce \/ (\E t \in Thread : Work(t)) \/ ProducerGone

\* The operating system runs every runnable thread, and the FPGA delivers the
\* payload and its done flit.
Fairness == WF_vars(Produce) /\ \A t \in Thread : WF_vars(Work(t))

Spec == Init /\ [][Next]_vars /\ Fairness

-----------------------------------------------------------------------------
(***************************************************************************)
(* Properties.                                                             *)
(***************************************************************************)
\* An event is one whole flagged line under its own index: no torn line, no
\* stale words of the slot's last use, no metadata where there is none.
IsWhole(e) == e.index + 1 \in Line /\ e.words = WordsOf(e.index + 1)

\* Every event the regular expressions are run over is whole, wherever chunks
\* and buffers cut the lines, until a buffer cuts a line that came with an
\* earlier chunk or that is too long for it.
EventsWhole == ~spoilt => \A t \in Thread : \A e \in Range(scanned[t]) : IsWhole(e)

\* The same without the exception: the line "at the last read line's beginning"
\* of host_producer.cpp:335 is always found again.
EventsAlwaysWhole == \A t \in Thread : \A e \in Range(scanned[t]) : IsWhole(e)

\* No event is scanned twice, and a worker meets its events in their order,
\* also after the producer has gone astray.
OnceInOrder ==
  /\ \A t \in Thread : \A i, j \in DOMAIN scanned[t] :
       i < j => scanned[t][i].index < scanned[t][j].index
  /\ \A t, u \in Thread : t # u =>
       \A e \in Range(scanned[t]), f \in Range(scanned[u]) : e.index # f.index

\* A buffer that holds events is never left to a worker that has ended.
Pending(t) ==
  {i \in Index : \E k \in 0 .. N - 1 :
      /\ i = Wrap(rings[t].head + k)
      /\ \A j \in 0 .. k : ~rings[t].empty /\ (j > 0 => Wrap(rings[t].head + j) # rings[t].tail)}

NothingAfterExit ==
  \A t \in Thread : wpc[t] = "exited" => \A i \in Pending(t) : slots[t][i][0] = Zero

\* A worker ends at the end sentinel, not before.
ExitAtSentinel == \A t \in Thread : wpc[t] = "exited" => t < sentinels

ScannedLines == UNION {{e.index + 1 : e \in Range(scanned[t])} : t \in Thread}

\* When producer and workers have ended, every flagged line was scanned.
AllScanned == Finished => ScannedLines = Line

\* The place that the lines behind line l take in a buffer.
TailSize(l) == (Behind[Len(LinePacks)] - Behind[l]) + (Len(LinePacks) - l)

\* Unless the producer went astray every line is scanned, but for the last
\* ones if the done flit came in a chunk without data; and those are no more
\* than one buffer's.
OnlyATailIsLost ==
  Finished /\ ~spoilt =>
    \E k \in 0 .. Len(LinePacks) :
      /\ ScannedLines = 1 .. k
      /\ chunk > 0 => k = Len(LinePacks)
      /\ TailSize(k) <= BufferSize

\* The producer always sends its sentinels and every worker ends: the rings,
\* which fill up and empty against each other, never block them for good.
AllEnd == <>Finished
=============================================================================
