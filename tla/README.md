# RapidDetect in TLA+

RapidDetect finds the lines of a log stream that a set of Sigma-like rules flags. An FPGA pipeline
(Vitis HLS C++, `src/hardware`) filters the lines at 200 Gbps; two host processes (`src/software`) take
the lines that are left and run Hyperscan over them. SYSTEM.md promises "no false negatives" (:49) and
that the host processes "all events flagged by the FPGA" (:7). What stands between the code and that
promise is mostly not string matching but moving things: some forty kernels that poll bounded streams
without knowing of each other, a credit scheme that drops packets, two processes and their threads
around shared memory, and a host that decides when everything is over by reading counters one at a time.
That is what is modelled here.

Contents: 1 the system · 2 the plan · 3 the modules · 4 the runs · 5 bounds · 6 fairness · 7 proofs ·
8 findings · 9 limits.

## 1. The system

Paths are below `src/`. "Packet" is one log line in the pipeline, "flit" one word of a stream, `eop` the
mark on a packet's last flit.

```
 Ethernet/DMA        payloadRead, mergePipes, Ethernet loop
      │                        │
      └──── dropPacketKernel ──┴── overflow pipe ───────────────┐
                   │ credits                                     │
              passthrough                                        │
                   │                                             │
            payloadSource ──► sm_kernel (string matcher)         │
                   │               │ hash check, compactors,     │
             forward FIFO          │ lookup, recombine,          │
                   │               │ downshift, expand           │
                   │            flagger ──► rule ids             │
                   ▼  steer bit ◄──┘            │                │
             steerPayload ─► safe (counted)     │                │
                   ▼                            ▼                │
              nf_kernel: hash check, fpAccumulate, fpMatch       │
                   │                            │                │
             steerPayload ◄── flagger ──► resultSink ► write     │
                   ▼                                             │
              payloadSink ◄──────────────────────────────────────┘
                   ▼
         payloadWriteKernel ═ DMA ═► host_producer ═ shared rings ═► hyperscan_consumer threads
                                     (polls counters and idle bits)
```

| Component (code) | State | Operations | Interacts with | Hard behaviour | What makes it correct | Module |
|---|---|---|---|---|---|---|
| bounded_buffer (`software/include/bounded_buffer.h`) | head, tail, full and empty flags, slots | peek/push at the front, peek/pop at the back | mutex and two condition variables between two processes | slots are used outside the mutex; notify after unlock | FIFO, no race on a slot, no lost wakeup | `RingBuffer`, `BoundedBuffer`, `BoundedQueue` |
| Ethernet ingress (`hardware/src/io_stages.cpp` 290-400) | credits, drop, next_drop, counts | one cycle with or without a flit; pass a flit on and return a credit | no backpressure on one side, bounded FIFOs on the other | late credits, unnoticed failed writes | whole packets, no flit lost, counts agree | `DropPacket` |
| payload input (`io_stages.cpp` 1-290) | two pipes of line ends and starts, the frame and throttle counters | split at newlines, put in order, send in frames, find the line ends again | the ingress, the link | order of two pipes; an end of packet that is found twice, by two kernels | words in order, one eop per line, counts agree | `PayloadInput` |
| steering (`io_stages.cpp`, `stream_primitives.h`, `rapidd_stages.cpp`) | steeringSent, first, flagged, a count | duplicate, flag, steer | matcher, forward FIFO, next stage | a circle of waits; bit and flits on different streams | right path, results in step, no deadlock | `Steering` |
| compactor (`compactor.h`) | seenEop per kernel | split, 2-to-1, merge | trees of streams | kernels that poll on their own | nothing crosses a packet boundary | `Compactor` |
| overloaded rule ids (`sm.cpp` 360-800) | Fork/HelperCount/HelperWork/Join registers | fork, count, step, join | two paths of different speed | changing paths; counting steps twice | every rule once, with its packet | `ExpandOverloaded`, `ExpandOverloadedLite` |
| string matcher: hash check, lookup, recombine (`sm.cpp`, `mspm.cpp`) | look-ahead flit, barriers | scan, look up, recombine | compactors | the last flit must not wait for the next | all true hits, no false ones but by hash, eop not held back | `StringMatcher` |
| second matcher (`nf.cpp`) | fp, barrierWait, one fingerprint | check, accumulate, match | rule ids from the string matcher | two streams tied by order only | own fingerprint, all rule ids | `FingerprintMatch` |
| field tagger (`rapidd_stages.cpp` 20-175) | history, overflow tag | match, fix the overflow | hash check | keys and values across words; kernels that run without a word | the tag of each byte | `FieldTagger` |
| collection (`io_stages.cpp` 500-720, `host_producer.cpp` main loop) | counts, stop registers, two buffers | sink, write a window, poll, stop | host registers, DMA | registers read one by one; kernels start and stop | nothing lost, stops are final | `Collection` |
| host_producer, hyperscan_consumer | buffers, indices, rings | copy words, push, sentinel; peek, scan, pop | rings; DMA chunks cut anywhere | lines over chunk and buffer ends | each event scanned once, whole | `HostPipeline` |
| host.cpp | as host_producer's loop | poll, stop | registers | sums of different moments | as collection | `Collection`, as its second program |
| link bring-up (`dcmac_common.cpp`) | Ethernet core registers | reset, poll | hardware | order of resets | no reset before ready, the poll ends | `LinkReset` |
| qdma and register helpers, timers, argument parsing | - | I/O | - | - | - | not modelled |
| simulation test bench, table generators, AVED, tables | - | - | - | - | - | not modelled |

The hazards this inventory found, each at its line and with the properties that watch over it, are in
`PROJECT.json`. They are of five kinds: order between streams that are tied by nothing but order
(compactor, steering, fingerprints, expansion), circles of waits between bounded streams (steering,
expansion, compactor), counts and credits at their limits (ingress, ring, helper steps), values read at
different moments (polling, look-ahead), and long protocols with an odd corner (host buffers, end of run).

## 2. The plan

Order: what can lose or tear events first, from both ends of the data path towards its middle.

1. *Done.* `RingBuffer`, `BoundedBuffer`, `BoundedQueue` with proofs: the one structure two processes share.
2. *Done.* `DropPacket` with proofs: where packets are dropped on purpose.
3. *Done.* `HostPipeline` (uses `RingBuffer`): lines, chunks, buffers, sentinels, workers.
4. *Done.* `Steering`: the circle of waits.
5. *Done.* `Collection`: sinks, write kernels, and the host's polling.
6. *Done.* `PacketStage` (abstract) and its implementations `Compactor`, `ExpandOverloaded`,
   `ExpandOverloadedLite`; `FingerprintMatch`.
7. *Done.* `PayloadInput`: splitting lines, `mergePipesKernel`, the way over the Ethernet link.
8. *Done.* `StringMatcher`: look-ahead and sameflow, shift-or, hash lookup with slots of several patterns,
   recombination.
9. *Done.* `FieldTagger`; `LinkReset`; `host.cpp`'s loop as the second program of `Collection`, with the
   write kernels' size limit.
10. *Done.* Proofs about `Steering`.
11. *Done.* Proofs about `Collection`, `PayloadInput`, `FingerprintMatch`, and the rest of `DropPacket`; proof
    that `Compactor` implements `PacketStage`.
12. *Done.* Proofs about `HostPipeline`, for chunks that are cut anywhere.

Left: the pattern hashing of the second matcher (`nfpm.cpp`, the scheme of `StringMatcher` with another
hash and fingerprints); one composition of all stages of the match path (together they are beyond TLC); proofs that the expansion
refines `PacketStage`, along the lines of `Compactor_proofs`, and about `StringMatcher` and `FieldTagger`.

Abstract specifications: `BoundedQueue` (a bounded FIFO) for the ring, `PacketStage` (ids of a packet
leave with that packet, before its end) for the compactor and the expansion.

## 3. The modules

Names follow the code. A kernel's iteration is one action when it makes at most one blocking write (the
action then waits for room); a kernel that can stop between two blocking operations has a place variable
and one action for each part. Data is reduced to what properties tell apart: a flit is its packet, its
position and `eop`; a rule id is a small value.

**RingBuffer / BoundedBuffer / BoundedQueue.** `Ring` is the record of `m_head`, `m_tail`, `m_full`,
`m_empty`; `PushFront` and `PopBack` are the code under the mutex. In `BoundedBuffer` each thread goes
through peek, two steps on the slot outside the mutex, commit, notify. `waiting` holds the threads in
`cond.wait`, with spurious wakeups. `BoundedQueue` is the abstract FIFO, `ImplementsQueue` the refinement.

**DropPacket.** `CycleWithFlit` and `CycleWithout` are one cycle of `dropPacketKernel`, written as the
code orders it: next_drop from the old credits, then the credit update, with `uint16_t` width.
`passthroughKernel` is three steps (read, write, credit) since either write can block. History variables
count what a full stream refused (`lostFlits`, `lostOverflow`).

**HostPipeline.** Words of lines are `[line, at]`, packed into buffers exactly as `host_producer.cpp`
indexes them (`startIndex`, `currentIndex`, `payloadIndex`, which is unsigned in the code). A line is what lies
between two ends of line in what payloadWriteKernel wrote; what a full run of that kernel throws away is
`Collection`'s. `ReadChunk` takes any number of packs as a chunk, within a line or not, since the write kernel
stops at any cycle (`io_stages.cpp:666`); the done flit comes with the last data or in a chunk without any
(630-642). Workers parse a buffer as `hyperscan_consumer.cpp` does. Two steps of the producer spoil what the
workers get: it goes back to the front of a line that came with an earlier chunk, where the index wraps
and words that are no data are read (`Junk`), or it pushes a buffer without a line, since the line
does not fit. The history variable `spoilt` remembers that one was taken, and nothing is cut off there: the model
goes on as the code does.

**Steering.** `payloadSourceKernel`, `flagger` and `steerPayload`, each with its blocking steps; the
matcher is a FIFO that turns flits into results, and `TakeResult` is the next stage, which cannot take a
result before the packet has arrived. sm2nf, nf2host and smSteerPayload are wirings of this module.

**Collection.** The sinks and the write kernels with runs that start and end (`writing`, `target`), and
the host's loop register by register (`ReadRegister`), with both stop rules and the loop condition.
Reads whose value cannot influence what follows are skipped (`Matters`), which changes no decision.
`program` is one of the two hosts: host_producer, which has results read but not written
(`SkipResults`, SKIP_RULES_WRITE in `host_producer.cpp:65`), or host.cpp, which has the payload read but not
written (`SkipWrite`), stops both sinks at once and then waits for the write kernels. A run of the write kernel
has room for `MaxPacks` packs and throws away what comes after them, with the overflow bit of its header; `warned`
is history: such a header was read. A dropped packet that is in `Fragile` may lose any of its flits at a full
overflow stream (`write_nb`, `io_stages.cpp:327`), or have a fragment come there twice: two comments say so
("[BUG] Sometimes a fragment of a packet repeats into the overflow pipe", `host_producer.cpp:414`,
`host.cpp:276`), and since the cause is not known `Repeats` is any fragment. The history `mangled` says
which of this has happened. The streams into the sinks have no bound of their own: no property is about their
being full, and what the sinks do not take after a stop too early are the few packets that the repeats counted for.

**PacketStage.** `taken` and `given` are sequences of bags, one per packet. A step takes in more of the
packet at hand or gives some of what is owed; a packet's end is given only with all that is owed.

**Compactor.** `split_pipes`, a heap of `compact_2to1` kernels per output, `merge_pipes`, for any power of
two `Group`. Implements `PacketStage`.

**OverloadedRids / ExpandOverloaded / ExpandOverloadedLite.** Fork, HelperCount, HelperWork, Join with
their four pipes, and the one-kernel variant; the collision table is a constant. Both implement
`PacketStage`, where an overloaded id obliges to give the rules of its list with its tag.

**FingerprintMatch.** Lanes of hits with a barrier (`barrierWait`), and the meeting of fingerprint and
rule ids (`getNextFp`, `fpValid`, `ridValid`). Not stated through `PacketStage` because what is owed
depends on a payload that may still be on its way when the ids are taken in.

**PayloadInput.** From the trace in memory to packets behind the link. Bytes are known by their place in
the buffer, a flit is an interval of places, and the buffer is the set of the places of its newlines.
`ReadRest`, `ReadFront`, `ReadCount` are the three parts of an iteration of `payloadReadKernel`; `Merge`,
`SendCycle` (with throttle, period and frames) and `ReceiveFlit` one iteration each of the kernels
behind it. The Ethernet core is an ordered stream that loses nothing.

**FieldTagger.** `Match` is an iteration of `fieldMatchKernel` on a word of bytes with its history,
`FixOverflow` one of the kernel that carries a tag into the words behind. `MatchNoWord` and `FixNoWord`
are the iterations without a word, which read the end-of-packet bit of a variable that was not filled
in: `StaleEop` is the set of values it may have. The inputs carry, for every byte, the tag it should get.

**StringMatcher.** `Arrive` and `Release` are an iteration of `mspmHashCheckStage` with and without a new
flit (the flit held back is scanned with the first byte behind it), `WriteLane` its writes to the eight
lengths (here 2..Width, the longest with two tables). `Lookup` is a lane's compactor and lookup, `Recombine`
the barrier over the lanes. Patterns, hash and the tag of the hash are constants; `ShiftOr` is what the
generator makes of the patterns. The build modelled is that of `rapidd_synthesis.py`, with MSPM_CHECKTAG and
MSPM_RESOLVE_CONFLICT set: a slot of one pattern asks for the pattern's tag, a slot of several has an overloaded
id and asks for none (`mspm.cpp:659`), and the id goes on with the string's tag (`Word`), which is what the
expansion tells the patterns apart by. So there are false positives, as `mspm.cpp:208-212` and `mspm.h:102-105`
say. Two histories say what is right, by the definition of a match, without masks or tables or the flits'
ends: `owed`, the words for the patterns in a packet, and `alike`, those for all of its strings that look
like a pattern to shift-or table, hash and tag. `MatchesPackets` has what comes between the two, packet by packet.

**LinkReset.** `Program` is `reset_procedure` as a list of register writes and polls, run for channel 0 and
then for channel 1; `Locks`, `FaultClears`, `Aligns` and `Falls` say how the cores behind the registers
come up and fall (external, with a cable between the two ports).

## 4. The runs

The runs listed in `PROJECT.json`. "Violated" runs check one property, a sentence of the repository, which
the code does not keep; see 8.

| Run | Question | Result |
|---|---|---|
| bounded_buffer | flags exact, slots never shared, reads whole and ordered, no lost wakeup, all delivered, FIFO | holds |
| drop_packet | credits conserved, admitted packets fit and stay whole, counts agree, credits come home | holds |
| host_pipeline | lines whole until the producer goes astray, none twice, only a tail lost to a done mark alone, all end | holds |
| steering | right path, whole packets, results in step, everything steered | holds |
| collection | both hosts, with losses and repeats at the overflow stream: nothing mixed or lost but for these or if a header warns, stops are final, no result left, the host ends | holds |
| compactor | words leave with their packet, every packet leaves | holds |
| expand | expansion keeps packets together, every packet ends | holds |
| fingerprint | ids measured against their own packet's fingerprint, every packet answered | holds |
| payload_input | the buffer comes off the link in order, its lines as packets, counted alike on both sides | holds |
| field_tagger | every byte of a field's value bears its tag, and no other byte does | holds |
| string_matcher | each packet with the ids of the patterns in it, no other but of its own strings with a pattern's hash, the last flit not held back | holds |
| link_reset | are both halves of the transceiver up before the transmitter is reset? | violated |

Further configurations are kept beside them, for the same modules under other circumstances. They are run
by hand (`tlc -config <file> <module>`):

| Configuration | Question | Result |
|---|---|---|
| MCHostPipelineDone | every line scanned, with a done mark alone? | AllScanned violated |
| MCCollectionLeft | has host_producer everything when it leaves its loop? | AllCollected violated |
| MCCollectionFull | is the end mark enough to know that all was written? | DoneIsEnough violated |
| MCCollectionLost | does the host end if a full overflow stream has lost an end of packet? | HostAlwaysEnds violated |
| MCExpandOverloadedLite | the one-kernel expansion, lists no multiple of PACK | holds |
| MCFieldTaggerStale | the bit that was not filled in may have either value | NoMissedTag violated |
| MCLinkResetUp | bring-up with channel 1's MAC up beforehand: is the link up, does it end? | holds |
| MCLinkResetCold | does the bring-up end if channel 1's MAC may be in reset? | BringUpEnds violated |

Others differ from a configuration that is there by a line or two:

| Change | Question | Result |
|---|---|---|
| MCDropPacket.cfg with MaxFlits = 3 | a packet of Threshold flits: does an admitted packet fit? | NoFlitLost violated |
| MCDropPacket.cfg with OverflowLossDetected as the invariant | is a loss at the overflow pipe seen in the counts? | violated |
| MCExpandOverloadedLite.cfg with Table <- EvenLists | the one-kernel expansion with a list of exactly PACK rules | EndIsSent violated |
| MCHostPipeline.cfg with EventsAlwaysWhole as the invariant | events whole, also of lines that are cut by a chunk and then by a buffer? | violated |
| MCCollectionLost.cfg with StopsAlwaysFinal as the invariant | is the payload sink stopped last, also if a fragment is repeated? | violated |
| MCStringMatcher.cfg with NoFalsePositive as the invariant | no ids but those of the patterns in the packet? | violated |
| MCHostPipeline.cfg with LinePacks <- LongLine, ExitAtSentinel as the invariant | a line longer than a buffer: do workers end at the sentinel only? | violated |
| MCCompactor.cfg with NoEmptyFlit as the invariant, MaxFlits = 3, Group = 2 | are flits without words dropped? | violated |
| MCFieldTagger.cfg with Inputs <- NumberLines | values that are numbers | NoStrayTag violated |

Every property of a passing run has a mutant in `PROJECT.json`: a plausible slip in one definition that
makes TLC find the property violated under the same configuration. The mutants are the definitions whose
comment begins with "Mutant".

## 5. Bounds

| Model | Bounds | Why enough |
|---|---|---|
| BoundedBuffer | ring of 3, 7 items | the ring wraps more than twice; full and empty both happen in either phase |
| DropPacket | FIFO 5, threshold 3, packets of 1-2 flits, 5 of them, overflow 2, credits mod 16 | two packets fit, the third is dropped, the FIFO drains and lets in again; overflow fills; modulus above the capacity as in the code (2^16 > 2048) |
| HostPipeline | 2 workers, rings of 3, buffers of 6 words, packs of one word, chunks of up to 4, 12 lines of 1-3 packs (17 of one in MCHostPipelineDone) | every slot is used twice or more; lines are cut off by buffers, by chunks and by both in every way, and the producer goes astray |
| Steering | 3 packets of up to 3 flits, all depths 1, the forward FIFO 2 | depths are at their least: with a forward FIFO of 1 the circle of waits closes (a packet of 3 flits needs 2), which is the code's need for the FIFO to hold a packet |
| Collection | packets of 2 and 1 flits, every fate, the second with every loss and repeat at the overflow stream, pipes of 1, runs of 2 packs | two packets make order and mixing visible; runs of the write kernel may be cut at any point and any number of times; three flits fill a run of two packs, or need two runs; a repeat makes a stop too early possible. The safety properties also hold with `Fragile = {1}`, the packet of two flits (2,416,136 states, by hand) |
| Compactor | 2 outputs, each a tree of 2 levels, 2 flits, pipes of 1 | two flits are one packet or two, and the second may run into the trees while the first is in any of them; a kernel of the second level is fed by kernels, both outputs meet at the end |
| Expand | 3 words, lists of 2-3 rules, 4 flits, pipes of 1 | lists below, at and above PACK, holes before and between ids, packets with and without overloaded ids |
| FingerprintMatch | 2 lanes, 2 rules, 2 packets, 3 flits of each kind | a lane can be a packet ahead of another, ids can be ahead of payload and behind |
| PayloadInput | 3 words of 3 bytes, every set of newlines the loaders can write, bursts of 1, depth 1, frames of 2, period 3, throttle 0, 1, 3 | a newline at every place of a word and none; first, middle and last word; a frame that is full and one that the end of the buffer closes; throttle none, some, all |
| FieldTagger | words of 5 bytes, keys of 1-2 letters, a pair at any place, values of 0-6 letters: 331 inputs | key and value are cut by the end of a word in every way, a value may go over two ends |
| StringMatcher | flits and words of 3 bytes, 3 flits in any cut into packets, patterns of 2 and 3 bytes, one slot of two | patterns that need the flit before, the byte behind, and the tag of the hash to be told apart; strings that get through by hash and tag, or by a slot of several patterns |
| LinkReset | two channels | as the code has it |

Bounds on the environment (`Items`, `Packets`, `MaxFlits`, `MaxChunk`, `Fills`, `Inputs`) are constants
with a comment that says so. Where a run says `CHECK_DEADLOCK FALSE` it is because arrivals end; a
liveness property of the same module then says that nothing else stops.

## 6. Fairness

Kernels are built with `ap_ctrl_none`: they start by themselves and run for ever, a stalled stream
operation goes on as soon as it can. So every kernel has weak fairness on its own steps. The arrival of
flits has none where the property can do without (compactor, expansion, fingerprints, string matcher), so the system may
fall silent at any point and must still finish what it has; `Steering`, `Collection`, `HostPipeline` and
`PayloadInput` assume that the log is read to its end, as the source kernels do. Host threads are weakly fair (the
operating system runs a runnable thread); no fairness is given to spurious wakeups. In `Collection` weak fairness
is on four things: the host, the end of a run's cycles, the sink's turn without a flit, and all else together
(`Progress`), each step of which can be taken a finite number of times only. That makes the sink's
non-blocking reads see a waiting flit in the end: it is delayed by latency, never for ever. In
`LinkReset` a core that can come up does, in the end. No strong fairness is used anywhere.

## 7. Proofs

Checked by TLAPS for every value of the constants that meets the modules' assumptions.

**BoundedBuffer_proofs** (assumes `N > 1` and `Items \in Nat`). `IInv` is TypeOK, FlagsExact (head, tail and
flags all follow from the number of items in flight), SlotsInOrder (the slots from head on hold the next
items in order, except what the producer is about to overwrite), ProducerInv and ConsumerInv (a thread's
pointer is the tail or head as long as it holds one, and what it has written or read so far), and WaitInv
(what a sleeping thread may rely on). FlagsExact alone is not inductive for reads: that a read is whole
needs SlotsInOrder, and that needs slot exclusion, which follows from FlagsExact and the pointers.
Theorems: `TypeCorrect`, `FlagsAreExact`, `NoSlotRace`, `ReadsAreWhole`, `WakeupsAreNotLost` and
`Implementation`: the initial states and steps of the ring map to those of `BoundedQueue`.

How many elements of a sequence are in a set (`CountIn`: what an append, a tail or a concatenation does to it)
is what DropPacket_proofs and Collection_proofs count ends of packets with; streams as paths (`Path`: what a write
or a read does to one) are what FingerprintMatch_proofs and Compactor_proofs rest on. Each begins with the lemmas
it needs of these.

**DropPacket_proofs** (assumes `DropAssumption`; all theorems but the first also `MaxFlits < Threshold`).
`DInv` is TypeOK, CreditsConserved, NoFlitLost and `Reserve`: in a packet that has been let in, credits
are at least Threshold - 1 less the flits that have come, and so is the reserve behind a false next_drop.
The "- 1" is the cycle by which next_drop is late; it is why a packet of Threshold flits does not fit
(MCDropPacket.cfg with MaxFlits = 3) and why the theorem needs the assumption. Theorems: `TypeCorrect` (every
length), `CreditConservation`, `AdmittedPacketsFit`, `PacketsStayWhole` (WholePackets) and
`CountsAlwaysAgree` (CountsAgree). Both of the last need that no admitted flit is lost: a hole in a packet
would be seen by the first, a lost end by the second. WholePackets is strengthened by where the packet at
hand stands: the last flit downstream is the one before it, or the end of an earlier packet.

**HostPipeline_proofs** (assumes `HostAssumption`: any number of workers, rings and buffers of any size, any lines,
any number of packs in a chunk). Two definitions of the model are recursions over data: `Stream` flattens the sequence of lines, and
`EventsOf` goes through a buffer from one line's metadata to the next. What they compute is shown first, by an
induction in first-order form: a set of numbers that has 0 and with every number the next one has them all
(`Induction`, from the well-foundedness of `<`), used with the set of the n for which the claim holds. `Behind[l]`
is the number of words up to line l, so that line l is the words of the stream behind `Behind[l - 1]` (StreamIs),
and a buffer in which the lines behind a up to b lie one after the other, each behind its metadata, and then a
zero or the buffer's end, gives the events of just these lines, whatever lies behind (EventsFound).
`IInv` is Shape (types, and each ring's flags tell how many buffers are in it) and that there are `first`, the
lines before the buffer at hand, and for each worker `deal`, the intervals of lines that were pushed to it, with
ProducerRight (the producer's indices are those of a place in the stream and of a place in the buffer, which holds
the lines behind `first` and a part of the next one, wherever the chunk ends), DealRight (each worker's intervals
rise, no line is in two, and together they are the lines up to `first`), RingRight (the buffers in a ring are the
last of its intervals, in order, with the sentinel behind them once it was sent) and ScanRight (what a worker
scanned are the intervals before those). EventsWhole alone is not inductive: that a slot's earlier contents are never
read needs that its lines end with a zero or with the buffer, which is ProducerRight; that no line is read twice
when the producer rewinds needs that what it rewinds to is the line behind the ones it pushes. The invariant of
the system is `SInv`, IInv unless `spoilt`: nothing is assumed about where chunks end, how long lines are or how the
done mark comes. What a `spoilt` state still keeps is the types (`TypeCorrect` has an invariant of its own, Form, which
holds also after the producer has gone astray). TLC checked `IInv` first, with
the `first` and `deal` that histories of the pushes give. Theorems: `TypeCorrect`, `LinesAreWhole` (EventsWhole),
`LinesOnceInOrder` (OnceInOrder, unless spoilt; that it holds also then is left to TLC), `LostLinesAreTheLast`
(OnlyATailIsLost) and `NoneAfterTheEnd` (ExitAtSentinel and NothingAfterExit, unless spoilt). That the
exceptions are needed the configurations of 4 show.

**Collection_proofs** (assumes `CollectionAssumption`: any fates, lengths and depths, any room of a buffer, both
host programs). The hard question is why the host may stop the sinks on the strength of counts it read one
at a time, while they moved. The invariant has layers, each preserved on the strength of those before it:
Shape (types); HostView (what has been read is at most what is there now, and what was read of the source
is final once it was seen idle); Counted (each packet that has left the pipeline was dropped, is safe, or has its
result counted or on the way, `Tallied`; and unless a fragment was repeated it is safe, counted by the payload
sink, or has its end on the way to it, `Accounts`); Stops. The argument of the last: the counts that were read add
up to all packets; each is at most its true value, and the true values add up to no more than all packets;
so each is its true value, and nothing is under way. A repeated end of packet breaks just this for
the payload sink's sum (StopsAlwaysFinal), but not for the rules sink's. Where ends of packets are lost the sum falls
behind for good, and the stop is never given: safe, but it does not end (MCCollectionLost.cfg). Above these are
Marks (the results' end mark is behind every result) and, unless a fragment was repeated (`Held`), Drained
(the payload's end mark is behind every pack; a buffer with the end mark, or with an overflow bit not yet
read, is the one the host reads next; and a buffer that was read is empty) and Flow (flits between the sink and the
host are all different, and their ends as many as the sink has counted). With no packet mangled there is
Order (they are whole packets, in the sink's order of taking, through the pipe and over any change of the two
buffers). DoneMeansAll needs Drained and Flow: the host has at its end mark what the sink took because
nothing else is left that could hold a flit, and so many ends are so many packets because they are different.
Theorems: `TypeCorrect`, `StopsAreLast` (StopsAreFinal), `ResultsComplete` (ResultsWritten), `DoneHasAll`
(DoneMeansAll), `PacketsCollectedWhole` (CollectedWhole). None has an assumption on what the overflow
stream loses or repeats: the exceptions are in the properties.

**PayloadInput_proofs** (assumes `PayloadInputAssumption`: any buffer, word, depth, frame and throttle). A word with
a newline leaves the reader as two flits on two streams, which the merger must put together by a bit that
travels with the first. `IInv` is Shape; Fronts and Backs (the two streams hold, without a gap, the fronts
of the words up to the last one read and the rests of those that have one, so that a rest that is due is the
one whose front has just gone on); Line (what the merger has written is, from stream to stream up to the
counter behind the link, the bytes of the buffer one after the other, and an end of packet found anew is one
that was there before: a flit holds a newline only if its last byte is one); Behind (how far the reader is
ahead) and Counts (either count is the number of words with a newline on its side of the link). Theorems:
`TypeCorrect`, `ArrivesInOrder` (LinesInOrder, an action property), `CountsAgreeAtTheEnd` (CountsLines).

**FingerprintMatch_proofs** (assumes `FingerprintAssumption`: any lanes, rules, fingerprints and depths). Neither
the lanes nor the two streams that meet in fpMatchStage carry the number of a packet. A stream is read as a
path: each flit leads from what has been told of a packet, with the packet's number, to what has been told
with it, and an end of packet leads on to the next packet with nothing told. `HitLinks` and `RidLinks` say
which flit may lead where: an end of packet only from all the hits, or ids, that this packet has.
The links say nothing of the streams' contents, so they stay when more packets arrive. `IInv` is
Shape (types); Prints (the fingerprints from fpMatchStage back to the pipe are those of consecutive packets);
LanesRight (each lane is a path from what fpAccumulateStage has gathered of it, or from the next packet if
the lane waits at the barrier, to what the checker has found, less a flit it has still to write); Answered
(rids is a path from the ids that have been matched, `b` in `Matched`, to those that have arrived; of the
packet at hand the supported part of `b` has been given, of every earlier packet that of all its ids).
OwnFingerprint alone is not inductive: that a fingerprint is complete when the last lane ends needs
LanesRight, that it belongs to the ids at hand needs Prints. Theorems: `TypeCorrect`, `OwnPrints`
(OwnFingerprint).

**Compactor_proofs** (assumes `CompactorAssumption`: any number of outputs, trees of any size, pipes of any depth,
flits filled in any way). A place in a packet's words is the packet's number and how many words of each lane have
passed. Every pipe of every tree is a path from the place up to which it has been read to the place up to
which it has been written, and `Links` says which flit may lead where: a word only if it belongs to a lane
that goes through this pipe and is still owed there (`Share`), an end of packet only from all of the pipe's
share, on to the next packet with nothing. `IInv` is Shape (types) and that there are such places (`Streams`)
with KernelRight (the two inputs of a compact_2to1 have been read up to places of one packet, the one whose
end has been seen up to that end, and their sum is the place up to which the output has been written),
LaneRight (the pipe of a lane has been written up to all that was taken in, less the flit that split_pipes
still has to write) and GivenRight (the trees have been read up to places of one packet, whose sum is what
has been given). That the sum of two shares is the share of the pipe above needs the shape of the tree: a
kernel is on the way from a lane's leaf to the root exactly if one of its two inputs is, and never both are.
`Up` is that way as a least set, which spares an induction over the heap; that no pipe
lies on it between a pipe and the next one (UpHalves) is shown from that. Where a packet's words race its
end through the trees, KernelRight keeps them apart: an end is written when both inputs stand at
theirs, and both are read on from there. Theorems: `TypeCorrect`, `Implementation` (CompactsPackets:
the initial states map to those of `PacketStage`, a flit read by split_pipes to `Take`, an iteration of
merge_pipes to `Give`, every other step to a stutter). The invariant was not model-checked first: its places
are functions of counts, which TLC would have to guess; CompactsPackets itself is checked by the run.

**Steering_proofs** (assumes `SteeringAssumption`: every depth, every length, every number of packets).
The bits and the flits of a packet go around the matcher on two ways that know nothing of each other,
and meet by order alone. `SInv` makes this order a count: from the last flit that was steered follows the
packet at hand in steerPayload (`AtHand`), from it and the length of SteeringPipe the packet whose bit is
sent next (`Unsent`), from it and steeringSent the packet in flagger (`InFlagger`, `Unread`), and behind
it the packets in the matcher's streams (`InOrder`). On this rest BitsRight (each bit says whether its
packet has a hit), FlagRight (a packet whose bit has not been sent has its hits still on their way, so
that the bit sent at its end is not premature), OutRight (the ends of packets with hits have left, are on
their way or are to come), LanesRight, ForwardRight and StreamsRight. RightPath alone is not inductive:
that the bit at the head of the pipe is that of the flit at the head of the FIFO needs all of them.
Theorems: `TypeCorrect`, `SteeringIsRight` (RightPath), `EveryPacketCounted` (CountsAll), `NoTornPacket`
(PacketsWhole), `ResultsKeepStep` (ResultsInStep). They hold for every depth, also for depths at which the
kernels stop: that they do not is AllSteered, which is model-checked.

Type correctness is an invariant of two runs and a theorem of eight modules; the other modules state `TypeOK`
too, for runs by hand.

Only model-checked:
- everything under fairness, and ENABLED (`NoLostWakeup` is a safety property and is proved; that each thread
  then goes on is not);
- the two invariants of `FieldTagger`: a word's tags are a recursion over its bytes, and what they should be
  is part of the input, which the configuration gives;
- the refinement of `PacketStage` by the expansion, and the invariant of `StringMatcher`;
- that `HostPipeline` scans no line twice also after the producer has gone astray.

## 8. Findings

The first is the run of kind "violation"; `PROJECT.json` quotes the sentence. The others come from the
configurations run by hand.

1. `dcmac_common.cpp:149` "Wait for both GT reset done and DCMAC reset done to be set": the loop ends when
   either bit is set, and the transmitter is reset while the other half is still coming up (in
   link_reset's trace it is the transmitter's own). The two polls that follow make up for it (MCLinkResetUp).
2. `io_stages.cpp:339` next_drop is a cycle late: a packet of exactly `ETH_BURST_SIZE * 4` flits can be let
   in on one credit too few and loses its last flit, unnoticed (NoFlitLost, MaxFlits = 3).
3. `host_producer.cpp:375` a done mark in a chunk without data leaves the last buffer unpushed, and the
   sentinel overwrites it, so that its lines are never scanned (MCHostPipelineDone).
4. `host_producer.cpp:336` a line that is cut by a chunk and then by a buffer rewinds before the chunk: the
   unsigned index wraps, and the worker gets words that are no data (EventsAlwaysWhole).
5. `host_producer.cpp:299` the loop condition does not ask whether the last buffer has been read
   (MCCollectionLeft).
6. `io_stages.cpp:327` losses at the overflow pipe are said to be visible in the numbers (326); only packet
   ends are counted, so the loss of any other flit is not (OverflowLossDetected).
7. `host_producer.cpp:329` a line longer than a buffer makes an empty buffer, which is the sentinel
   (ExitAtSentinel, LinePacks <- LongLine).
8. `compactor.h:248` flits without words are forwarded, although sm.h:262 says they are not; Join drops
   them again, sm.cpp:492 (NoEmptyFlit).
9. `sm.cpp:783` the Lite expansion never ends a packet whose last list is a multiple of PACK long, although
   784 says "send eop with last expansion" (EndIsSent, Table <- EvenLists).
10. `rapidd_stages.cpp:100` and 157 read the end-of-packet bit of a word in cycles without one. The
    variable is uninitialised there: if it is set, history or carried tag are cleared in the middle of a
    line and the bytes behind lose their tag, against SYSTEM.md:49 "no false negatives"
    (MCFieldTaggerStale).
11. `rapidd_stages.cpp:131` the tag of a value goes on to the next quote; a number has none, so the tag
    runs on over the next key (NoStrayTag with `NumberLines`). This makes hits more, never fewer.
12. `io_stages.cpp:675` a full run throws packs away and says so in the overflow bit of its header (694);
    `host_producer.cpp:314` reads the done bit only (MCCollectionFull).
13. `host_producer.cpp:424` the stop rules need the counts to agree. If a full overflow stream loses the
    last flit of a packet (`io_stages.cpp:333`), they never do, and neither host ends (HostAlwaysEnds, MCCollectionLost).
14. `DCMAC.md:258` "Unidirectional loopback (Ch 0 TX &rarr; Ch 1 RX) sequentially resets Ch 0 first,
    satisfying this requirement." That is so for channel 1's receiver. The poll of
    channel 0's own receiver needs channel 1's transmitter, which is reset later: if that is down
    beforehand, the poll never ends (MCLinkResetCold; DCMAC.md:259 has the order as it is).

Observations that are no findings, since the code says them. `host_producer.cpp:414` and `host.cpp:276`: a fragment
sometimes repeats into the overflow pipe, and "greater than lets the code complete". It does (HostEnds), but
an end of packet counted twice lets the sum agree while another packet is still under way: the payload sink is
then told to stop before it has everything (StopsAlwaysFinal). `mspm.cpp:208` and `mspm.h:102`: a string with
the hash and tag of a pattern is taken for it (NoFalsePositive).
With `EXPOV_PIPE_DEPTH` 1 and a packet of five
flits with overloaded ids, `EveryPacketEnds` fails, as `sm_params.h:100` warns ("can cause deadlocks if
sized down"). Nothing in the code ties the depth to the length of a packet.
Another: a throttle below 1 / `THROTTLE_PERIOD_LENGTH` is rounded to a count of 0 (host.cpp:233), and
nothing is ever sent; `BufferArrives` therefore asks for a count above 0.

## 9. Limits

- Contents are abstract: which patterns hit, what a hash is, how a line's bytes are laid out, the position
  and sequence numbers that travel with results. Where a table decides control (collision lists), it is a constant.
- One iteration of a pipelined loop is one step. The real pipeline overlaps iterations; their effects on
  streams stay in order, which is what is modelled.
- `Collection` leaves out packs wider than a flit and the size of the result buffer; `HostPipeline`
  leaves out `hs_scan`, the merge of the logs and the removal of the shared memory.
- `FingerprintMatch` leaves out the second fingerprint (`NFPM_CHECK_FPALT`) and the look-ahead of the hash check.
- `StringMatcher` has the compactor of a lane as a choice of the next hit (what `Compactor` shows of it), and
  leaves out sequence and position numbers. `PayloadInput` has the Ethernet core as an ordered stream.
  `FieldTagger` knows no escaped quotes: neither does the code.
- Not modelled: `nfpm.cpp`, the pattern hashing of the second matcher. Its scan is that of `StringMatcher`
  with other tables; in `FingerprintMatch` what hits is a free choice.
- The other components not modelled are marked so in `PROJECT.json`, each with its reason there.
