------------------------------- MODULE Base64 -------------------------------
(***************************************************************************)
(* base64_encode and base64_decode of src/base64.c, as functions.  A       *)
(* character is its place in base[]: 0 to 63, and 64 for the "=" that      *)
(* fills the last group.                                                   *)
(***************************************************************************)
EXTENDS Integers, Sequences, FiniteSets

Fill == 64

\* Item i of a sequence counted from 0; 0 behind its first n items.
Item(s, n, i) == IF i < n THEN s[i + 1] ELSE 0

-----------------------------------------------------------------------------
\* Three bytes give four characters, as many of them as temp + 1 from data.
Encoded(data) ==
  LET n == Len(data)
      Three(g) == 65536 * Item(data, n, 3 * g) + 256 * Item(data, n, 3 * g + 1)
                    + Item(data, n, 3 * g + 2)
      Char(g, i) == IF n - 3 * g < i THEN Fill ELSE (Three(g) \div 64^(3 - i)) % 64
  IN [k \in 1..4 * ((n + 2) \div 3) |-> Char((k - 1) \div 4, (k - 1) % 4)]

-----------------------------------------------------------------------------
EqualCount(text) ==
  Cardinality({k \in Len(text) - 2..Len(text) : text[k] = Fill})

\* What is returned as the length is 1 to 4 more than that of the data.
RetLen(text) ==
  3 * (Len(text) \div 4)
    + (CASE EqualCount(text) = 1 -> 3 [] EqualCount(text) = 2 -> 2 [] OTHER -> 1)

\* Mutant: the bits of a group that is not full are not shifted up.
PreparedLow(text, n, g) ==
  LET Char(i) == Item(text, n, 4 * g + i)
      full == ((Char(0) * 64 + Char(1)) * 64 + Char(2)) * 64 + Char(3)
  IN IF n - 4 * g >= 4 THEN full ELSE full \div 64^(4 * (g + 1) - n)

\* The bits of the four characters of a group, those that fill it left out.
Prepared(text, n, g) ==
  LET Char(i) == Item(text, n, 4 * g + i)
  IN ((Char(0) * 64 + Char(1)) * 64 + Char(2)) * 64 + Char(3)

\* out_data, cleared and then written: a group gives as many bytes as it has
\* characters, and at most three.
Decoded(text) ==
  LET n == Len(text) - EqualCount(text)
      Out(g, i) == IF n - 4 * g > i
                     THEN (Prepared(text, n, g) \div 256^(2 - i)) % 256 ELSE 0
  IN [k \in 1..RetLen(text) |-> Out((k - 1) \div 3, (k - 1) % 3)]
=============================================================================
