----------------------------- MODULE PacketStage -----------------------------
(***************************************************************************)
(* What every stage of the match path promises, whatever it does to the    *)
(* flits: the rule ids taken in with a packet come out with that packet,   *)
(* each as often as it is owed, before the packet's end-of-packet mark,    *)
(* and the packets come out in order, one mark for each.  How the ids are  *)
(* spread over flits, and their order inside a packet, is left open.       *)
(*                                                                         *)
(* Both histories are sequences of bags, one bag per packet; the last bag  *)
(* is of the packet whose end has not passed yet.                          *)
(***************************************************************************)
EXTENDS Naturals, Sequences, Bags

VARIABLES taken,   \* what each packet's flits, as taken in, oblige to give
          given    \* what has been given, packet by packet

vars == <<taken, given>>

Init == /\ taken = <<EmptyBag>>
        /\ given = <<EmptyBag>>

\* More of the packet at hand, and perhaps its end.
Grows(old, new) ==
  LET n == Len(old)
  IN  /\ Len(new) \in {n, n + 1}
      /\ \A i \in 1 .. n - 1 : new[i] = old[i]
      /\ old[n] \sqsubseteq new[n]
      /\ Len(new) = n + 1 => new[n + 1] = EmptyBag

Take == /\ Grows(taken, taken')
        /\ UNCHANGED given

\* Only what is owed, and the end only when nothing is owed any more.
Give == LET n == Len(given)
        IN  /\ Grows(given, given')
            /\ given'[n] \sqsubseteq taken[n]
            /\ Len(given') = n + 1 => Len(taken) > n /\ given'[n] = taken[n]
            /\ UNCHANGED taken

Next == Take \/ Give

Spec == Init /\ [][Next]_vars

\* How a history grows by a flit: its ids, and its end-of-packet mark.
Add(history, ids, eop) ==
  LET n == Len(history)
      h == [history EXCEPT ![n] = @ (+) ids]
  IN  IF eop THEN Append(h, EmptyBag) ELSE h

\* The packets that ended on the way in have ended on the way out.
Drained == Len(given) = Len(taken)
=============================================================================
