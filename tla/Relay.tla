------------------------------- MODULE Relay --------------------------------
(***************************************************************************)
(* What every stage between the antenna of the node and a viewer promises  *)
(* to each of its receivers: what comes out went in before, and the last   *)
(* item that came out never gives way to an earlier one.  Anything may be  *)
(* lost.  The last item coming out again leaves it the last one, and is no *)
(* step of a relay.  The n-th item that goes in is the number n.           *)
(***************************************************************************)
EXTENDS Naturals

CONSTANT Receiver

VARIABLES
  sent,   \* items that went in
  shown   \* for each receiver the last item that came out, 0 before the first

Init == sent = 0 /\ shown = [r \in Receiver |-> 0]

Produce == sent' = sent + 1 /\ UNCHANGED shown

Deliver(r) ==
  /\ \E item \in (shown[r] + 1)..sent : shown' = [shown EXCEPT ![r] = item]
  /\ UNCHANGED sent

Next == Produce \/ \E r \in Receiver : Deliver(r)

Spec == Init /\ [][Next]_<<sent, shown>>
=============================================================================
