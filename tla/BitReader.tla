----------------------------- MODULE BitReader -----------------------------
(***************************************************************************)
(* The bit reader of src/sps_pps.c: get_1bit, get_bits, the Exp-Golomb     *)
(* codes and the removal of emulation prevention bytes, as functions of    *)
(* the buffer and the bit position.  A read returns what get_bit_context   *)
(* becomes and the value read.                                             *)
(*                                                                         *)
(* Only for data in which the reader stays: get_1bit does not compare the  *)
(* position with the size, and nothing is said of what it reads past it.   *)
(***************************************************************************)
EXTENDS Integers, Sequences

CONSTANT MaxLen  \* MAX_LEN, the most bits get_bits returns

ASSUME BitReaderAssumption == MaxLen \in Nat \ {0}

\* get_bit_context: cur_bit_pos is bit_pos % 8 and total_bit 8 * Len(buf).
Context(buf, pos) == [buf |-> buf, bit_pos |-> pos]

Total(c) == 8 * Len(c.buf)

\* Bit k of a buffer, the most significant of a byte first.
Bit(buf, k) == (buf[k \div 8 + 1] \div 2^(7 - (k % 8))) % 2

\* The number a sequence of bits stands for.
Number(bits) ==
  LET upTo[i \in 0..Len(bits)] ==
        IF i = 0 THEN 0 ELSE 2 * upTo[i - 1] + bits[i]
  IN upTo[Len(bits)]

Moved(c, n) == [c EXCEPT !.bit_pos = @ + n]

Get1Bit(c) == [val |-> Bit(c.buf, c.bit_pos), ctx |-> Moved(c, 1)]

\* How many of the n bits asked for are read.
Granted(c, n) ==
  LET m == IF n > MaxLen THEN MaxLen ELSE n
  IN IF c.bit_pos + m > Total(c) THEN Total(c) - c.bit_pos ELSE m

\* The bits of n that are in the first of five bytes: there the result is put
\* together from the other four.
Dropped(c, n) ==
  IF (c.bit_pos % 8) + n > 32 THEN 8 - (c.bit_pos % 8) ELSE 0

GetBits(c, n) ==
  LET m == Granted(c, n)
      bits == [i \in 1..m |-> IF i <= Dropped(c, m) THEN 0
                              ELSE Bit(c.buf, c.bit_pos + i - 1)]
  IN [val |-> Number(bits), ctx |-> Moved(c, m)]

-----------------------------------------------------------------------------
(* parse_ue and parse_se.                                                   *)

\* The zeros before the next 1.
LeadingZeros(c) ==
  CHOOSE k \in 0..Total(c) - c.bit_pos :
    /\ Bit(c.buf, c.bit_pos + k) = 1
    /\ \A i \in 0..k - 1 : Bit(c.buf, c.bit_pos + i) = 0

ParseUe(c) ==
  LET zeros == LeadingZeros(c)
      rest  == GetBits(Moved(c, zeros + 1), zeros)
  IN [val |-> 2^zeros - 1 + rest.val, ctx |-> rest.ctx]

\* 0, 1, -1, 2, -2, ...
Signed(k) == IF k % 2 = 1 THEN (k + 1) \div 2 ELSE -((k + 1) \div 2)

ParseSe(c) ==
  LET code == ParseUe(c)
  IN [val |-> Signed(code.val), ctx |-> code.ctx]

-----------------------------------------------------------------------------
(* de_emulation_prevention.                                                 *)

\* Mutant: the byte before the 03 goes, not the 03.
ShiftedEarly(bytes, k) ==
  [j \in 1..Len(bytes) |->
     IF j >= k /\ j < Len(bytes) THEN bytes[j + 1] ELSE bytes[j]]

\* The byte at 0-based index k is overwritten by those after it; the last one
\* stays where it is.
Shifted(bytes, k) ==
  [j \in 1..Len(bytes) |->
     IF j > k /\ j < Len(bytes) THEN bytes[j + 1] ELSE bytes[j]]

\* One round of the loop.
Unescaped(b, i) ==
  IF b.bytes[i + 1] = 0 /\ b.bytes[i + 2] = 0 /\ b.bytes[i + 3] = 3
    THEN [bytes |-> Shifted(b.bytes, i + 2), size |-> b.size - 1]
    ELSE b

\* The loop runs to the end of the buffer as it was before any removal.
LoopEnd(bytes) == IF Len(bytes) < 3 THEN 0 ELSE Len(bytes) - 2

\* The buffer after the first i rounds.
Unescaping(bytes) ==
  LET after[i \in 0..LoopEnd(bytes)] ==
        IF i = 0 THEN [bytes |-> bytes, size |-> Len(bytes)]
                 ELSE Unescaped(after[i - 1], i - 1)
  IN after

DeEmulated(bytes) ==
  LET last == Unescaping(bytes)[LoopEnd(bytes)]
  IN SubSeq(last.bytes, 1, last.size)
=============================================================================
