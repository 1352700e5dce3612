----------------------------- MODULE PayloadInput -----------------------------
(***************************************************************************)
(* How a trace gets onto the Ethernet link and off it (io_stages.cpp).     *)
(* payloadReadKernel reads a buffer word by word.  A word with a newline   *)
(* is cut behind it: the front goes to the main stream as the end of a     *)
(* packet, the rest goes to a stream of its own, and mergePipesKernel puts *)
(* it back behind the front.  convertToEthernetKernel sends the flits in   *)
(* frames, no more in a period than the host's throttle allows;            *)
(* convertFromEthernetKernel finds the ends of packet again by the         *)
(* newlines.                                                               *)
(*                                                                         *)
(* A byte is known by its place in the buffer, so a flit is an interval of *)
(* places; its other bytes are 0xFF.  The link between the two kernels     *)
(* (the Ethernet core) passes flits on in order and loses none.  An        *)
(* iteration of a kernel is one action, which waits for room in the        *)
(* streams it writes with a blocking write.                                *)
(***************************************************************************)
EXTENDS Naturals, Sequences, FiniteSets, FiniteSetsExt

CONSTANTS
  Word,        \* bytes of a word, MSPM_UNROLL * MSPM_MASK_WIDTH
  Words,       \* words of the buffer (a bound)
  Burst,       \* words of a burst, IO_READ_BURST
  Newlines,    \* the sets of places a buffer may have its newlines at (a bound)
  Depth,       \* depth of every stream
  FrameFlits,  \* ETH_BURST_SIZE
  Period,      \* THROTTLE_PERIOD_LENGTH
  Throttles    \* the throttle counts the host may set

ASSUME PayloadInputAssumption ==
  /\ Word \in Nat \ {0} /\ Words \in Nat \ {0} /\ Burst \in 1 .. Words
  /\ Depth \in Nat \ {0} /\ FrameFlits \in Nat \ {0} /\ Period \in Nat \ {0}
  /\ Throttles \subseteq 0 .. Period
  /\ Newlines \subseteq SUBSET (1 .. Words * Word)

VARIABLES
  newlines,                         \* the buffer: the places of its newlines
  word, half, payloadCount,         \* payloadReadKernel; PayloadCount is a register
  main, split, merged, wire, flits, \* the streams
  wPack, wasSwitchPipe,             \* mergePipesKernel: its two registers
  held, period, sent, allowed, inFrame,   \* convertToEthernetKernel
  throttle,                         \* the ThrottleCount register
  got, packets, frameOpen           \* history: the last flit out, the ends of
                                    \* packet out, the last flit on the link

reader  == <<newlines, word, half, payloadCount>>
merger  == <<wPack, wasSwitchPipe>>
sender  == <<held, period, sent, allowed, inFrame, throttle, frameOpen>>
vars == <<reader, main, split, merged, wire, flits, merger, sender, got, packets>>

Places == 0 .. Words * Word
\* The bytes lo..hi of the buffer; lo > hi in the flit that is none.
Flit == [lo : 1 .. Words * Word + 1, hi : Places, eop : BOOLEAN,
         switchPipe : BOOLEAN, hasQuote : BOOLEAN]
None == [lo |-> 1, hi |-> 0, eop |-> FALSE, switchPipe |-> FALSE, hasQuote |-> FALSE]

TypeOK ==
  /\ newlines \in Newlines
  /\ word \in 1 .. Words + 1 /\ half \in {"split", "main", "count"}
  /\ payloadCount \in 0 .. Words
  /\ \A s \in {main, split, merged, wire, flits} : s \in Seq(Flit) /\ Len(s) <= Depth
  /\ wPack \in [{0, 1} -> Flit \cup {None}] /\ wasSwitchPipe \in BOOLEAN
  /\ held \in Flit \cup {None} /\ period \in 0 .. Period - 1
  /\ sent \in 0 .. 2 * Period /\ allowed \in 0 .. Period /\ inFrame \in 0 .. FrameFlits - 1
  /\ throttle \in Throttles /\ frameOpen \in BOOLEAN
  /\ got \in Flit \cup {None} /\ packets \in 0 .. Words

Init ==
  /\ newlines \in Newlines /\ throttle \in Throttles
  /\ word = 1 /\ half = "split" /\ payloadCount = 0
  /\ main = << >> /\ split = << >> /\ merged = << >> /\ wire = << >> /\ flits = << >>
  /\ wPack = [i \in {0, 1} |-> None] /\ wasSwitchPipe = FALSE
  /\ held = None /\ period = 0 /\ sent = 0 /\ allowed = Period /\ inFrame = 0
  /\ got = None /\ packets = 0 /\ frameOpen = FALSE

Room(s) == Len(s) < Depth

-----------------------------------------------------------------------------
(***************************************************************************)
(* payloadReadKernel: of a word with a newline, first the rest behind the  *)
(* last newline, if there is any, then the front.                          *)
(***************************************************************************)
First(w) == (w - 1) * Word + 1
Last(w)  == w * Word
Ends(w)  == newlines \cap First(w) .. Last(w)

\* Mutant: the word is cut at its first newline.
CutFirst(w) == IF Ends(w) = {} THEN Last(w) ELSE Min(Ends(w))

\* eop_idx; the whole word if it has no newline.
Cut(w) == IF Ends(w) = {} THEN Last(w) ELSE Max(Ends(w))

\* There are bytes after the end of packet.
Rest(w) == Cut(w) # Last(w)

ReadRest ==
  /\ word <= Words /\ half = "split"
  /\ Rest(word) => Room(split)
  /\ split' = IF Rest(word)
              THEN Append(split, [None EXCEPT !.lo = Cut(word) + 1, !.hi = Last(word)])
              ELSE split
  /\ half' = "main"
  /\ UNCHANGED <<newlines, word, payloadCount, main, merged, wire, flits, merger, sender,
                 got, packets>>

\* hasQuote marks the words of the last burst.
InLastBurst(w) == w > Words - Burst

ReadFront ==
  /\ word <= Words /\ half = "main" /\ Room(main)
  /\ main' = Append(main, [lo |-> First(word), hi |-> Cut(word), eop |-> Ends(word) # {},
                           switchPipe |-> Rest(word), hasQuote |-> InLastBurst(word)])
  /\ half' = "count"
  /\ UNCHANGED <<newlines, word, payloadCount, split, merged, wire, flits, merger, sender,
                 got, packets>>

ReadCount ==
  /\ half = "count"
  /\ payloadCount' = IF Ends(word) # {} THEN payloadCount + 1 ELSE payloadCount
  /\ word' = word + 1 /\ half' = "split"
  /\ UNCHANGED <<newlines, main, split, merged, wire, flits, merger, sender, got, packets>>

-----------------------------------------------------------------------------
(***************************************************************************)
(* mergePipesKernel: both registers are filled when they are free; the one *)
(* that is due is written.                                                 *)
(***************************************************************************)
\* Mutant: the rest of a word is written as soon as it is there.
DueAny(pack) == IF pack[1] # None THEN 1 ELSE 0

Due(pack) == IF wasSwitchPipe THEN 1 ELSE 0

Merge ==
  LET pack == [i \in {0, 1} |->
                 LET s == IF i = 0 THEN main ELSE split
                 IN  IF wPack[i] = None /\ s # << >> THEN Head(s) ELSE wPack[i]]
      due  == Due(pack)
      out  == pack[due]
  IN  /\ main'  = IF wPack[0] = None /\ main # << >> THEN Tail(main) ELSE main
      /\ split' = IF wPack[1] = None /\ split # << >> THEN Tail(split) ELSE split
      /\ \/ /\ out # None /\ Room(merged)
            /\ merged' = Append(merged, out)
            /\ wPack' = [pack EXCEPT ![due] = None]
            /\ wasSwitchPipe' = (due = 0 /\ out.switchPipe)
         \/ /\ out = None
            /\ wPack' = pack
            /\ UNCHANGED <<merged, wasSwitchPipe>>
      /\ UNCHANGED <<reader, wire, flits, sender, got, packets>>

-----------------------------------------------------------------------------
(***************************************************************************)
(* convertToEthernetKernel: one cycle, in which nothing blocks.            *)
(***************************************************************************)
\* A frame ends when it is full and at the end of the buffer.
Closes(pack, n) == n = 0 \/ pack.hasQuote

\* Mutant: the count of a period is never cleared.
SentAfterNever(n, p) == n

\* The count starts again with the period.
SentAfter(n, p) == IF p = 0 THEN 0 ELSE n

SendCycle ==
  LET pack  == IF held = None /\ merged # << >> THEN Head(merged) ELSE held
      tick  == (period + 1) % Period
      next  == (inFrame + 1) % FrameFlits
      sends == pack # None /\ sent < allowed /\ Room(wire)
  IN  /\ merged' = IF held = None /\ merged # << >> THEN Tail(merged) ELSE merged
      /\ period' = tick
      /\ wire' = IF sends THEN Append(wire, pack) ELSE wire
      /\ held' = IF sends THEN None ELSE pack
      /\ inFrame' = IF sends THEN next ELSE inFrame
      /\ frameOpen' = IF sends THEN ~Closes(pack, next) ELSE frameOpen
      /\ sent' = SentAfter(IF sends THEN sent + 1 ELSE sent, tick)
      /\ allowed' = throttle
      /\ UNCHANGED <<reader, main, split, flits, merger, throttle, got, packets>>

(***************************************************************************)
(* convertFromEthernetKernel, and the stage behind it.                     *)
(***************************************************************************)
\* Any newline in the flit makes it an end of packet.
FindsEop(lo, hi) == newlines \cap lo .. hi # {}

ReceiveFlit ==
  LET flit == Head(wire)
  IN  /\ wire # << >> /\ Room(flits)
      /\ wire' = Tail(wire)
      /\ flits' = Append(flits, [None EXCEPT !.lo = flit.lo, !.hi = flit.hi,
                                             !.eop = FindsEop(flit.lo, flit.hi)])
      /\ UNCHANGED <<reader, main, split, merged, merger, sender, got, packets>>

TakeFlit ==
  /\ flits # << >>
  /\ flits' = Tail(flits)
  /\ got' = Head(flits)
  /\ packets' = IF got'.eop THEN packets + 1 ELSE packets
  /\ UNCHANGED <<reader, main, split, merged, wire, merger, sender>>

-----------------------------------------------------------------------------
Reader == ReadRest \/ ReadFront \/ ReadCount

Next == Reader \/ Merge \/ SendCycle \/ ReceiveFlit \/ TakeFlit

\* payloadReadKernel runs until the buffer is read, the others freely
\* (ap_ctrl_none), and the next stage reads every cycle.
Fairness == /\ WF_vars(Reader) /\ WF_vars(Merge) /\ WF_vars(SendCycle)
            /\ WF_vars(ReceiveFlit) /\ WF_vars(TakeFlit)

Spec == Init /\ [][Next]_vars /\ Fairness

-----------------------------------------------------------------------------
(***************************************************************************)
(* Properties.                                                             *)
(***************************************************************************)
\* The flits that come off the link are the buffer in its order, no byte lost
\* or repeated though the two halves of a word travel through two streams, and
\* a flit is an end of packet just when its last byte is a newline: a packet is
\* a line, or the lines whose newlines are in one word.
LinesInOrder ==
  [][got' # got => /\ got'.lo = got.hi + 1
                   /\ got'.eop <=> got'.hi \in newlines]_vars

\* The buffer has been read, and its last flit has come off the link.
AllRead == word > Words /\ got.hi = Words * Word

\* The host compares PayloadCount with the packets counted behind the link,
\* where the ends of packet are found anew: PayloadCount is behind them by no
\* more than the word at hand, and the same when the buffer has arrived.
CountsLines == /\ packets <= payloadCount + (IF half = "count" THEN 1 ELSE 0)
               /\ AllRead => packets = payloadCount

\* With a throttle above zero the whole buffer arrives, its last frame closed.
BufferArrives == throttle > 0 => <>[](AllRead /\ ~frameOpen)
=============================================================================
