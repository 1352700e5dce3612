------------------------------ MODULE DropPacket ------------------------------
(***************************************************************************)
(* The ingress of the FPGA pipeline (fromEthernetKernel in io_stages.cpp). *)
(* dropPacketKernel takes one flit of a log line per cycle and must take   *)
(* it: the Ethernet side has no backpressure.  It sends whole packets to a *)
(* FIFO (intermediate_buffer) or, when credits run short at the start of a *)
(* packet, to the overflow pipe that bypasses the pipeline.                *)
(* passthroughKernel moves the FIFO's flits on and returns a credit for    *)
(* each.  payloadDownshift drains the overflow pipe.                       *)
(*                                                                         *)
(* One iteration of a kernel's pipelined loop is one action, except that   *)
(* passthroughKernel can stall at either of its two blocking writes.       *)
(***************************************************************************)
EXTENDS Integers, Sequences, FiniteSets

CONSTANTS
  Capacity,          \* depth of intermediate_buffer, the initial credits (2048)
  OverflowCapacity,  \* depth of intermediate_overflow_pipe (2048)
  CreditDepth,       \* depth of credit_pipe (DFLT_PIPE_DEPTH)
  Threshold,         \* ETH_BURST_SIZE * 4, the credits a packet is let in with
  CreditModulus,     \* credits is a uint16_t: 2^16
  MaxFlits,          \* the longest packet, in flits (the environment's bound)
  Packets            \* how many packets arrive (a bound)

ASSUME DropAssumption ==
  /\ Capacity \in Nat /\ Threshold \in Nat \ {0} /\ Threshold <= Capacity
  /\ CreditModulus \in Nat /\ Capacity < CreditModulus
  /\ OverflowCapacity \in Nat \ {0} /\ CreditDepth \in Nat \ {0}
  /\ MaxFlits \in Nat \ {0} /\ Packets \in Nat

VARIABLES
  \* dropPacketKernel's registers
  drop, nextDrop, newPacket, credits, droppedCount, totalCount,
  \* the streams
  buffer,       \* intermediate_buffer
  overflow,     \* intermediate_overflow_pipe
  creditPipe,   \* how many credits are in credit_pipe
  \* passthroughKernel: what it does next, and the flit it has read
  stage, held,
  \* history: flits of the current packet so far, packets and flits seen
  \* downstream of the two streams, flits a full stream refused
  arrived, lastOut, forwarded, bypassed, lostFlits, lostOverflow

kernel  == <<drop, nextDrop, newPacket, credits, droppedCount, totalCount>>
history == <<arrived, lastOut, forwarded, bypassed, lostFlits, lostOverflow>>
vars == <<kernel, buffer, overflow, creditPipe, stage, held, history>>

\* A flit: its packet, its place in the packet, and the end-of-packet mark.
Flit == [pkt : 0 .. Packets, idx : 0 .. MaxFlits, eop : BOOLEAN]
NoFlit == [pkt |-> 0, idx |-> 0, eop |-> TRUE]

TypeOK ==
  /\ drop \in BOOLEAN /\ nextDrop \in BOOLEAN /\ newPacket \in BOOLEAN
  /\ credits \in 0 .. CreditModulus - 1
  /\ totalCount \in 0 .. Packets /\ droppedCount \in 0 .. totalCount
  /\ buffer \in Seq(Flit) /\ Len(buffer) <= Capacity
  /\ overflow \in Seq(Flit) /\ Len(overflow) <= OverflowCapacity
  /\ creditPipe \in 0 .. CreditDepth
  /\ stage \in {"read", "write", "credit"}
  /\ held \in Flit /\ lastOut \in Flit
  /\ arrived \in 0 .. MaxFlits - 1
  /\ forwarded \in Nat /\ bypassed \in Nat
  /\ lostFlits \in Nat /\ lostOverflow \in Nat

Init ==
  /\ drop = FALSE /\ nextDrop = FALSE /\ newPacket = TRUE
  /\ credits = Capacity
  /\ droppedCount = 0 /\ totalCount = 0
  /\ buffer = << >> /\ overflow = << >> /\ creditPipe = 0
  /\ stage = "read" /\ held = NoFlit
  /\ arrived = 0 /\ lastOut = NoFlit
  /\ forwarded = 0 /\ bypassed = 0 /\ lostFlits = 0 /\ lostOverflow = 0

(***************************************************************************)
(* dropPacketKernel.                                                       *)
(***************************************************************************)
\* Mutants: next_drop waits for the last credit; a credit read in the cycle
\* of a write is forgotten.
UpdateCreditsToTheLast(wrote) ==
  LET read == IF creditPipe > 0 THEN 1 ELSE 0
  IN  /\ nextDrop' = (credits = 0)
      /\ creditPipe' = creditPipe - read
      /\ credits' = (credits - wrote + read) % CreditModulus

UpdateCreditsOneAtATime(wrote) ==
  LET read == IF creditPipe > 0 THEN 1 ELSE 0
  IN  /\ nextDrop' = (credits < Threshold)
      /\ creditPipe' = creditPipe - read
      /\ credits' = (IF wrote = 1 THEN credits - 1 ELSE credits + read) % CreditModulus

\* The end of every cycle: next_drop looks at the credits as they were when
\* the cycle began, then the credits are updated by what was written and by
\* at most one credit read from credit_pipe.
UpdateCredits(wrote) ==
  LET read == IF creditPipe > 0 THEN 1 ELSE 0
  IN  /\ nextDrop' = (credits < Threshold)
      /\ creditPipe' = creditPipe - read
      /\ credits' = (credits - wrote + read) % CreditModulus

\* Mutant: dropped_count looks at next_drop.
EndOfFlitCountsNext(eop, dropping) ==
  /\ newPacket' = eop
  /\ arrived' = IF eop THEN 0 ELSE arrived + 1
  /\ totalCount' = IF eop THEN totalCount + 1 ELSE totalCount
  /\ droppedCount' = IF eop /\ nextDrop THEN droppedCount + 1 ELSE droppedCount

\* Counters, and the start of the next packet, at the end of a packet.
EndOfFlit(eop, dropping) ==
  /\ newPacket' = eop
  /\ arrived' = IF eop THEN 0 ELSE arrived + 1
  /\ totalCount' = IF eop THEN totalCount + 1 ELSE totalCount
  /\ droppedCount' = IF eop /\ dropping THEN droppedCount + 1 ELSE droppedCount

\* Mutant: a stream without a bound.
WriteNbUnbounded(stream, depth, flit) == Append(stream, flit)

\* write_nb: a full stream refuses the flit.
WriteNb(stream, depth, flit) ==
  IF Len(stream) < depth THEN Append(stream, flit) ELSE stream

\* The flit that arrives in this cycle, the last of its packet or not.
ArrivingFlit(eop) == [pkt |-> totalCount + 1, idx |-> arrived + 1, eop |-> eop]

\* Mutant: the decision is taken anew for every flit.
DroppingPerFlit == nextDrop

\* At the start of a packet drop is next_drop, then it stays for the packet.
Dropping == IF newPacket THEN nextDrop ELSE drop

\* A flit of a packet that is let in; "wrote" is set whether it fits or not.
Admit(eop) ==
  LET flit == ArrivingFlit(eop)
  IN  /\ ~Dropping
      /\ drop' = FALSE
      /\ buffer' = WriteNb(buffer, Capacity, flit)
      /\ lostFlits' = IF Len(buffer) < Capacity THEN lostFlits ELSE lostFlits + 1
      /\ UpdateCredits(1)
      /\ EndOfFlit(eop, FALSE)
      /\ UNCHANGED <<overflow, lostOverflow>>

\* A flit of a packet that is dropped from the pipeline.
Divert(eop) ==
  LET flit == ArrivingFlit(eop)
  IN  /\ Dropping
      /\ drop' = TRUE
      /\ overflow' = WriteNb(overflow, OverflowCapacity, flit)
      /\ lostOverflow' = IF Len(overflow) < OverflowCapacity
                         THEN lostOverflow ELSE lostOverflow + 1
      /\ UpdateCredits(0)
      /\ EndOfFlit(eop, TRUE)
      /\ UNCHANGED <<buffer, lostFlits>>

CycleWithFlit(eop) ==
  /\ totalCount < Packets
  /\ arrived + 1 = MaxFlits => eop
  /\ Admit(eop) \/ Divert(eop)
  /\ UNCHANGED <<stage, held, lastOut, forwarded, bypassed>>

\* No flit in this cycle.
IdleCycle ==
  /\ UpdateCredits(0)
  /\ UNCHANGED <<drop, newPacket, droppedCount, totalCount, buffer, overflow,
                 stage, held, history>>

(***************************************************************************)
(* passthroughKernel.                                                      *)
(***************************************************************************)
ReadBuffer ==
  /\ stage = "read" /\ buffer # << >>
  /\ held' = Head(buffer)
  /\ buffer' = Tail(buffer)
  /\ stage' = "write"
  /\ UNCHANGED <<kernel, overflow, creditPipe, history>>

\* PayloadOutPipe.write(flit), whenever the pipeline downstream has room.
WriteOut ==
  /\ stage = "write"
  /\ lastOut' = held
  /\ forwarded' = IF held.eop THEN forwarded + 1 ELSE forwarded
  /\ stage' = "credit"
  /\ UNCHANGED <<kernel, buffer, overflow, creditPipe, held,
                 arrived, bypassed, lostFlits, lostOverflow>>

\* Mutant: one credit per packet.
ReturnCreditPerPacket ==
  /\ stage = "credit" /\ creditPipe < CreditDepth
  /\ creditPipe' = IF held.eop THEN creditPipe + 1 ELSE creditPipe
  /\ stage' = "read"
  /\ UNCHANGED <<kernel, buffer, overflow, held, history>>

\* CreditPipe.write(true), when credit_pipe has room.
ReturnCredit ==
  /\ stage = "credit" /\ creditPipe < CreditDepth
  /\ creditPipe' = creditPipe + 1
  /\ stage' = "read"
  /\ UNCHANGED <<kernel, buffer, overflow, held, history>>

\* payloadDownshift takes a flit of a dropped packet, which payloadSinkKernel
\* counts when it is the last one.
DrainOverflow ==
  /\ overflow # << >>
  /\ overflow' = Tail(overflow)
  /\ bypassed' = IF Head(overflow).eop THEN bypassed + 1 ELSE bypassed
  /\ UNCHANGED <<kernel, buffer, creditPipe, stage, held,
                 arrived, lastOut, forwarded, lostFlits, lostOverflow>>

-----------------------------------------------------------------------------
DropKernel == (\E eop \in BOOLEAN : CycleWithFlit(eop)) \/ IdleCycle
Passthrough == ReadBuffer \/ WriteOut \/ ReturnCredit

Next == DropKernel \/ Passthrough \/ DrainOverflow

\* Every kernel runs freely (ap_ctrl_none) and the pipeline downstream keeps
\* taking flits; no packet is owed to the system, not even the rest of one.
Fairness == WF_vars(IdleCycle) /\ WF_vars(Passthrough) /\ WF_vars(DrainOverflow)

Spec == Init /\ [][Next]_vars /\ Fairness

-----------------------------------------------------------------------------
(***************************************************************************)
(* Properties.                                                             *)
(***************************************************************************)
\* The flits that left intermediate_buffer but whose credit is not yet sent.
InPassthrough == IF stage = "read" THEN 0 ELSE 1

\* Every credit is in exactly one place: spendable, standing for a flit in
\* the FIFO or in passthroughKernel, or on its way back in credit_pipe.
CreditsConserved ==
  credits + Len(buffer) + InPassthrough + creditPipe = Capacity

\* A packet that is let in fits: no flit of it meets a full FIFO.
NoFlitLost == lostFlits = 0

\* Two flits that follow each other on a stream are neighbours of one packet,
\* or the end of a packet and the start of a later one.
Follows(f, g) ==
  IF f.eop THEN g.idx = 1 /\ g.pkt > f.pkt
           ELSE g.idx = f.idx + 1 /\ g.pkt = f.pkt

\* The last flit that passthroughKernel passed on and what is behind it.
Downstream ==
  <<lastOut>> \o (IF stage = "write" THEN <<held>> ELSE << >>) \o buffer

\* What passthroughKernel passes on, and what is still behind it, is a
\* sequence of whole packets, never a packet with a hole or with flits of a
\* dropped one between.
WholePackets ==
  \A i \in 1 .. Len(Downstream) - 1 : Follows(Downstream[i], Downstream[i + 1])

EndsOfPackets(s) == Cardinality({i \in 1 .. Len(s) : s[i].eop})

\* The counters the host subtracts to know how many results to wait for:
\* total less dropped is the number of packets that went, or will go, into
\* the pipeline.
CountsAgree ==
  totalCount - droppedCount =
    forwarded + EndsOfPackets(buffer)
      + (IF stage = "write" /\ held.eop THEN 1 ELSE 0)

\* No credit leaks: when traffic has stopped every credit comes home, and the
\* next packet will be let in.
CreditsReturn == <>[](credits = Capacity /\ ~nextDrop)

\* The comment at the overflow write: "If overflow pipe is backpressured we
\* can't do much (numbers will not match so we will be able to detect it)".
\* Between packets, with the overflow pipe drained, a lost flit shows as a
\* packet that was counted as dropped but never came out.
OverflowLossDetected ==
  newPacket /\ overflow = << >> /\ lostOverflow > 0 => bypassed # droppedCount
=============================================================================
