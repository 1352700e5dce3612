------------------------------ MODULE LinkReset ------------------------------
(***************************************************************************)
(* The bring-up of the two Ethernet channels (dcmac_common.cpp), which     *)
(* host.cpp and host_producer.cpp do first: reset_procedure(0), then       *)
(* reset_procedure(1).  Each resets the transceiver, the transmitter and   *)
(* the receiver of its channel by writing registers, and polls for each to *)
(* come up.  A cable joins the two ports, so a receiver hears the other    *)
(* channel's transmitter.  The program sends on channel 0 and receives on  *)
(* channel 1.                                                              *)
(*                                                                         *)
(* Registers that are written to all six lanes are one; the cores come up  *)
(* when they may (external), and what has come up falls with what it       *)
(* rests on.                                                               *)
(***************************************************************************)
EXTENDS Naturals, Sequences

CONSTANT Down     \* the channels whose MAC may be held in reset beforehand

Channels == {0, 1}
Peer(c)  == 1 - c

TxResets == {"txCore", "txPort", "txFlush"}
RxResets == {"rxCore", "rxPort", "rxFlush"}

VARIABLES
  channel, step,   \* the program: its channel, and its step in Program
  asserted,        \* the resets that are asserted, by channel
  gt,              \* GPIO_MONITOR: the reset-done bits of the transceiver
  fault,           \* c0_stat_tx_local_fault
  rx               \* c0_stat_rx_aligned and c0_stat_rx_status, if set

vars == <<channel, step, asserted, gt, fault, rx>>

\* The steps of reset_procedure, in their order.
Assert(r)  == [op |-> "assert", reg |-> r]
Release(r) == [op |-> "release", reg |-> r]
Poll(r)    == [op |-> "poll", reg |-> r]

ResetGt == <<Assert("gt"), Release("gt"), Poll("gt")>>
ResetTx == <<Assert("txCore"), Assert("txPort"), Assert("txFlush"),
             Release("txPort"), Release("txCore"), Poll("tx"), Release("txFlush")>>
ResetRx == <<Assert("rxCore"), Assert("rxPort"), Assert("rxFlush"),
             Release("rxCore"), Release("rxFlush"), Release("rxPort"), Poll("rx")>>
Program == ResetGt \o ResetTx \o ResetRx

Init ==
  /\ channel = 0 /\ step = 1
  /\ \E down \in SUBSET Down :
       /\ asserted = [c \in Channels |-> IF c \in down THEN TxResets \cup RxResets ELSE {}]
       /\ fault = [c \in Channels |-> c \in down]
  /\ gt = [c \in Channels |-> {"tx", "rx"}]
  /\ rx = [c \in Channels |-> {}]

TypeOK ==
  /\ channel \in 0 .. 2 /\ step \in 1 .. Len(Program)
  /\ asserted \in [Channels -> SUBSET ({"gt"} \cup TxResets \cup RxResets)]
  /\ gt \in [Channels -> SUBSET {"tx", "rx"}]
  /\ fault \in [Channels -> BOOLEAN]
  /\ rx \in [Channels -> SUBSET {"aligned", "status"}]

-----------------------------------------------------------------------------
(***************************************************************************)
(* The cores (external).                                                   *)
(***************************************************************************)
\* The channel's stream is on the cable; the flush reset holds only data back.
Sends(c) == "tx" \in gt[c] /\ asserted[c] \cap {"txCore", "txPort"} = {}

\* A receiver locks on to the stream of the other transceiver, and aligns to
\* the stream of the other MAC.
CanLock(c, bit) == "gt" \notin asserted[c] /\ (bit = "rx" => "tx" \in gt[Peer(c)])
CanAlign(c)     == "rx" \in gt[c] /\ asserted[c] \cap RxResets = {} /\ Sends(Peer(c))

Locks(c, bit) ==
  /\ CanLock(c, bit) /\ bit \notin gt[c]
  /\ gt' = [gt EXCEPT ![c] = @ \cup {bit}]
  /\ UNCHANGED <<channel, step, asserted, fault, rx>>

FaultClears(c) ==
  /\ Sends(c) /\ fault[c]
  /\ fault' = [fault EXCEPT ![c] = FALSE]
  /\ UNCHANGED <<channel, step, asserted, gt, rx>>

Aligns(c, bit) ==
  /\ CanAlign(c) /\ bit \notin rx[c]
  /\ bit = "status" => "aligned" \in rx[c]
  /\ rx' = [rx EXCEPT ![c] = @ \cup {bit}]
  /\ UNCHANGED <<channel, step, asserted, gt, fault>>

\* After a reset what rested on it is gone: the transceiver's bits and the other
\* receiver's lock, the transmitter's stream, the alignment.
Falls ==
  /\ gt' = [c \in Channels |->
              IF "gt" \in asserted'[c] THEN {}
              ELSE IF "gt" \in asserted'[Peer(c)] THEN gt[c] \ {"rx"} ELSE gt[c]]
  /\ fault' = [c \in Channels |-> fault[c] \/ ~Sends(c)']
  /\ rx' = [c \in Channels |-> IF CanAlign(c)' THEN rx[c] ELSE {}]

-----------------------------------------------------------------------------
(***************************************************************************)
(* The program.                                                            *)
(***************************************************************************)
At == Program[step]

Goes ==
  IF step < Len(Program) THEN step' = step + 1 /\ UNCHANGED channel
                         ELSE step' = 1 /\ channel' = channel + 1

Write ==
  /\ channel \in Channels /\ At.op # "poll"
  /\ asserted' = [asserted EXCEPT ![channel] =
                    IF At.op = "assert" THEN @ \cup {At.reg} ELSE @ \ {At.reg}]
  /\ Falls /\ Goes

\* (read_val & 0b110) == 0 keeps it waiting: one bit is enough.
GtUp(c) == gt[c] # {}

FaultGone(c) == ~fault[c]

RxUp(c) == rx[c] = {"aligned", "status"}

\* What ends the polling loop that the host is in.
SeesUp(c) ==
  CASE At.reg = "gt" -> GtUp(c)
    [] At.reg = "tx" -> FaultGone(c)
    [] At.reg = "rx" -> RxUp(c)

\* A poll that does not see it is repeated.
PollUp ==
  /\ channel \in Channels /\ At.op = "poll"
  /\ SeesUp(channel)
  /\ Goes
  /\ UNCHANGED <<asserted, gt, fault, rx>>

Host == Write \/ PollUp

ComesUp(c) ==
  \/ \E bit \in {"tx", "rx"} : Locks(c, bit)
  \/ FaultClears(c)
  \/ \E bit \in {"aligned", "status"} : Aligns(c, bit)

Next == Host \/ \E c \in Channels : ComesUp(c)

\* The program runs on, and a core that can come up does.
Spec == Init /\ [][Next]_vars /\ WF_vars(Host) /\ \A c \in Channels : WF_vars(ComesUp(c))

-----------------------------------------------------------------------------
(***************************************************************************)
(* Properties.                                                             *)
(***************************************************************************)
\* dcmac_common.cpp:149: "Wait for both GT reset done and DCMAC reset done to be
\* set", and DCMAC.md:192 likewise: the transmitter and the receiver are reset
\* after both halves of the channel's transceiver have come up.
BothHalvesUp ==
  \A c \in Channels : channel = c /\ step > Len(ResetGt) => gt[c] = {"tx", "rx"}

\* When the program goes on, the direction that it uses is up: the two polls
\* that follow make up for the first, and the reset of channel 1 leaves what
\* channel 0 sends alone.
LinkUp ==
  channel = 2 =>
    /\ Sends(0) /\ ~fault[0] /\ "txFlush" \notin asserted[0]
    /\ rx[1] = {"aligned", "status"}

\* The bring-up ends.  It does not if the other channel's transmitter may be
\* down while channel 0 polls its receiver (DCMAC.md:259).
BringUpEnds == <>(channel = 2)
=============================================================================
