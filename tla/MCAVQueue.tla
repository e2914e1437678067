----------------------------- MODULE MCAVQueue -----------------------------
(***************************************************************************)
(* Values for AVQueue.  Costs are scaled down: the limit of 10 MB becomes  *)
(* a few units and a packet costs one or two, so that a put meets the      *)
(* limit with a handful of cells.                                          *)
(***************************************************************************)
EXTENDS AVQueue, TLC

CONSTANTS p1, p2

MCPackets == {p1, p2}
MCCost == (p1 :> 1) @@ (p2 :> 2)
=============================================================================
