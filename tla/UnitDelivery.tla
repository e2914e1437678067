---------------------------- MODULE UnitDelivery ----------------------------
(***************************************************************************)
(* What the receiving loop owes the decoder: the coded units of the stream *)
(* (an SPS, an aggregate, a slice, a picture sent in fragments) reach the  *)
(* queue whole, each at most once and in stream order.  Units may be       *)
(* missing: the stream is not recorded before the first SPS.               *)
(***************************************************************************)
EXTENDS Naturals, Sequences

CONSTANT Units  \* the numbers of the units, in stream order

VARIABLE delivered  \* the units put into the queue so far

Init == delivered = << >>

Later(u) == \A i \in 1..Len(delivered) : delivered[i] < u

Deliver(u) ==
  /\ Later(u)
  /\ delivered' = Append(delivered, u)

Next == \E u \in Units : Deliver(u)

Spec == Init /\ [][Next]_delivered
=============================================================================
