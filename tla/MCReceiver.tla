----------------------------- MODULE MCReceiver -----------------------------
(***************************************************************************)
(* The senders and networks that Receiver is checked with.                 *)
(***************************************************************************)
EXTENDS Receiver, TLC

Symmetric == Permutations(Widths)

Network(sends, from, size, wrong, times) ==
  [kinds |-> sends, first |-> from, size |-> size, faults |-> wrong,
   budget |-> times]

\* Aggregates that begin with an SPS.
Plain == Kinds \ {"mix"}

\* Nothing is lost, and the numbers wrap early.
InOrder == {Network(Kinds, SeqSpace - 1, 1, {"timeout", "overrun", "open", "memory"}, 2)}

\* Packets are lost, doubled and swapped, or cut off; number 0 is not reached.
Faulty == {Network(Plain, 1, 2, {"loss", "dup", "swap", "timeout"}, 2),
           Network(Plain, 1, 1, {"loss", "runt", "timeout"}, 2)}

\* Fragments without payload; aggregates of all kinds.
Sparse == {Network({"stap", "mix", "fu"}, 1, 2, {"empty", "loss", "timeout"}, 2)}

MCNetworks == InOrder \cup Faulty \cup Sparse

\* One packet is lost, early or just after number 0.
MCLossy    == {Network(Plain, 1, 2, {"loss"}, 1)}
MCWrapping == {Network(Plain, SeqSpace - 3, 2, {"loss"}, 1)}

\* Nothing goes wrong, but an aggregate can begin with another unit.
MCMixed == {Network({"mix", "slice"}, 1, 1, {}, 0)}
=============================================================================
