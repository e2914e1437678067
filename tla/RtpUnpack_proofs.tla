-------------------------- MODULE RtpUnpack_proofs --------------------------
(***************************************************************************)
(* Proofs about RtpUnpack: whatever sendings a stream has, of any number   *)
(* and length, what is queued is what was sent, and no copy leaves its     *)
(* buffers, if the sendings fit.                                           *)
(*                                                                         *)
(* First what each kind of datagram is made, then what is left to receive  *)
(* when some was received, then the invariant: which sending is at work,   *)
(* which of its datagrams, and what av_packet has of it.  What is said of  *)
(* sequences of sequences there is from Coding_proofs.                     *)
(***************************************************************************)
EXTENDS RtpUnpack, Coding_proofs, SequenceTheorems

\* Ends, which is defined by recursion, has the steps it is defined with.
LEMMA EndsDef ==
  ASSUME NEW cuts \in Seq(Nat)
  PROVE  /\ Ends(cuts) \in [0..Len(cuts) -> Nat] /\ Ends(cuts)[0] = 1
         /\ \A i \in 1..Len(cuts) : Ends(cuts)[i] = Ends(cuts)[i - 1] + cuts[i]
<1>0. \E n : n = Len(cuts)  OBVIOUS
<1>1. PICK n : n = Len(cuts)  BY <1>0
<1>2. n \in Nat /\ \A i \in 1..n : cuts[i] \in Nat  BY <1>1
<1> DEFINE step == [i \in 1..n |-> [s \in Nat |-> s + cuts[i]]]
           IsEnds(f) == f = [i \in 0..n |-> IF i = 0 THEN 1 ELSE f[i - 1] + cuts[i]]
<1>3. \A i \in 1..n, s \in Nat : step[i][s] = s + cuts[i] /\ step[i][s] \in Nat
  BY <1>2
<1> HIDE DEF step
<1>4. PICK f : IsFold(f, 1, step, n, Nat)
  <2>1. StepsIn(step, n, Nat)  BY <1>3 DEF StepsIn
  <2> HIDE DEF IsEnds
  <2> QED  BY <1>2, <2>1, FoldExists
<1>5. f \in [0..n -> Nat] /\ f[0] = 1 /\ \A i \in 1..n : f[i] = step[i][f[i - 1]]
  BY <1>4 DEF IsFold
<1>6. ASSUME NEW i \in 1..n PROVE f[i] = f[i - 1] + cuts[i]
  <2> i - 1 \in 0..n  BY <1>2
  <2> QED  BY <1>3, <1>5
<1>7. IsEnds(f)
  <2>1. \A i \in 0..n : i = 0 \/ i \in 1..n  BY <1>2
  <2>2. \A i \in 0..n : f[i] = IF i = 0 THEN 1 ELSE f[i - 1] + cuts[i]
    BY <2>1, <1>5, <1>6
  <2> QED  BY <2>2, <1>5
<1>8. IsEnds(Ends(cuts))
  <2>1. Ends(cuts) = CHOOSE g : IsEnds(g)  BY <1>1 DEF Ends
  <2> HIDE DEF IsEnds
  <2> QED  BY <2>1, <1>7
<1>9. \E e : e = Ends(cuts)  OBVIOUS
<1>10. PICK e : e = Ends(cuts)  BY <1>9
<1>11. e = [i \in 0..n |-> IF i = 0 THEN 1 ELSE e[i - 1] + cuts[i]]
  BY <1>8, <1>10
<1>12. \A i \in 0..n : e[i] = IF i = 0 THEN 1 ELSE e[i - 1] + cuts[i]
  BY <1>11
<1>13. e[0] = 1 /\ \A i \in 1..n : e[i] = e[i - 1] + cuts[i]
  BY <1>2, <1>12
<1> DEFINE A == {i \in Nat : i <= n => e[i] \in Nat}
<1>14. 0 \in A  BY <1>13
<1>15. ASSUME NEW i \in Nat, i \in A PROVE i + 1 \in A
  <2> SUFFICES ASSUME i + 1 <= n PROVE e[i + 1] \in Nat  OBVIOUS
  <2> i + 1 \in 1..n /\ (i + 1) - 1 = i  BY <1>2
  <2>1. e[i + 1] = e[i] + cuts[i + 1]  BY <1>13
  <2>2. i <= n  BY <1>2
  <2>3. e[i] \in Nat /\ cuts[i + 1] \in Nat  BY <1>15, <2>2, <1>2
  <2> QED  BY <2>1, <2>3
<1> HIDE DEF A
<1>16. \A i \in Nat : i \in A  BY <1>14, <1>15, CountUp
<1>17. \A i \in 0..n : e[i] \in Nat  BY <1>16, <1>2 DEF A
<1>18. e \in [0..n -> Nat]  BY <1>11, <1>17
<1> QED  BY <1>1, <1>10, <1>13, <1>18

\* No fragment ends behind the last.
LEMMA EndsGrow ==
  ASSUME NEW cuts \in Seq(Nat), NEW k \in 0..Len(cuts)
  PROVE  Ends(cuts)[k] \in Nat /\ 1 <= Ends(cuts)[k]
           /\ Ends(cuts)[k] <= Ends(cuts)[Len(cuts)]
<1>0. PICK n : n = Len(cuts)  OBVIOUS
<1>1. PICK e : e = Ends(cuts)  OBVIOUS
<1>2. /\ n \in Nat /\ e \in [0..n -> Nat] /\ e[0] = 1
      /\ \A i \in 1..n : e[i] = e[i - 1] + cuts[i]
      /\ \A i \in 1..n : cuts[i] \in Nat
  <2> \A i \in 1..n : cuts[i] \in Nat  BY <1>0
  <2> QED  BY SMTT(30), <1>0, <1>1, EndsDef
<1> DEFINE A == {i \in Nat : i <= n => 1 <= e[i] /\ \A j \in 0..i : e[j] <= e[i]}
<1>3. 0 \in A  BY <1>2
<1>4. ASSUME NEW i \in Nat, i \in A PROVE i + 1 \in A
  <2> SUFFICES ASSUME i + 1 <= n
               PROVE  1 <= e[i + 1] /\ \A j \in 0..i + 1 : e[j] <= e[i + 1]
    OBVIOUS
  <2>1. i + 1 \in 1..n /\ (i + 1) - 1 = i /\ i \in 0..n  BY <1>2
  <2>0. e[i] \in Nat /\ cuts[i + 1] \in Nat /\ e[i + 1] = e[(i + 1) - 1] + cuts[i + 1]
    BY <1>2, <2>1
  <2>2. e[i + 1] = e[i] + cuts[i + 1] /\ e[i] \in Nat /\ cuts[i + 1] \in Nat
    BY <2>0, <2>1
  <2>3. 1 <= e[i] /\ \A j \in 0..i : e[j] <= e[i]  BY <1>4, <2>1
  <2>4. ASSUME NEW j \in 0..i + 1 PROVE e[j] <= e[i + 1]
    <3>1. CASE j = i + 1  BY <3>1, <2>2
    <3>2. CASE j # i + 1
      <4> j \in 0..i BY <3>2
      <4> j \in 0..n BY <1>2
      <4> e[j] <= e[i] /\ e[j] \in Nat BY <2>3, <1>2
      <4> QED  BY <2>2
    <3> QED  BY <3>1, <3>2
  <2> QED  BY <2>2, <2>3, <2>4
<1> HIDE DEF A
<1>5. \A i \in Nat : i \in A  BY <1>3, <1>4, CountUp
<1>6. k \in Nat /\ k <= n /\ n <= n /\ k \in 0..n  BY <1>0, <1>2
<1>7. 1 <= e[k] /\ e[k] <= e[n] /\ e[k] \in Nat
  BY <1>2, <1>5, <1>6 DEF A
<1> QED  BY <1>7, <1>0, <1>1

-----------------------------------------------------------------------------
(* Sequences of numbers.                                                    *)

\* A length is a number.
LEMMA Lens == \A s \in Seq(Int) : Len(s) \in Nat
OBVIOUS

\* What is a sequence of bytes is one of numbers.
LEMMA Octets ==
  \A s \in Seq(0..255) : s \in Seq(Int) /\ Len(s) \in Nat /\ (s # << >> => s[1] \in 0..255)
<1> SUFFICES ASSUME NEW s \in Seq(0..255)
             PROVE  s \in Seq(Int) /\ Len(s) \in Nat /\ (s # << >> => s[1] \in 0..255)
  OBVIOUS
<1>1. 0..255 \subseteq Int  OBVIOUS
<1>2. s \in Seq(Int)  BY <1>1, SeqMonotonic
<1>3. ASSUME s # << >> PROVE s[1] \in 0..255
  <2> Len(s) \in Nat \ {0}  BY <1>3, EmptySeq
  <2> 1 \in 1..Len(s)  OBVIOUS
  <2> QED  BY ElementOfSeq
<1> QED  BY <1>2, <1>3

\* Where the items of two sequences are when one is put behind the other.
LEMMA Cats ==
  \A s, t \in Seq(Int) :
    /\ s \o t \in Seq(Int) /\ Len(s \o t) = Len(s) + Len(t)
    /\ \A i \in 1..Len(s) : (s \o t)[i] = s[i]
    /\ \A i \in 1..Len(t) : (s \o t)[Len(s) + i] = t[i]
OBVIOUS

\* Three sequences in a row.
LEMMA CatAssoc == \A s, t, u \in Seq(Int) : (s \o t) \o u = s \o (t \o u)
BY SMTT(30), ConcatAssociative

\* What a start code adds.
LEMMA Coding ==
  \A s \in Seq(Int) : /\ StartCode \o s \in Seq(Int) /\ Len(StartCode \o s) = 4 + Len(s)
                      /\ StartCode \o s # << >>
<1>1. PICK c : c = StartCode  OBVIOUS
<1>2. c \in Seq(Int) /\ Len(c) = 4  BY <1>1 DEF StartCode
<1>3. ASSUME NEW s \in Seq(Int)
      PROVE  c \o s \in Seq(Int) /\ Len(c \o s) = 4 + Len(s) /\ c \o s # << >>
  <2>1. c \o s \in Seq(Int) /\ Len(c \o s) = Len(c) + Len(s)  BY <1>2, Cats
  <2>2. Len(s) \in Nat  OBVIOUS
  <2>3. Len(c \o s) = 4 + Len(s) /\ Len(c \o s) # 0  BY <1>2, <2>1, <2>2
  <2> QED  BY <2>1, <2>3, EmptySeq
<1> QED  BY <1>1, <1>3, Zenon

\* The items of a part of a sequence.
LEMMA Slices ==
  \A s \in Seq(Int) : \A m \in 1..Len(s) + 1 : \A n \in m - 1..Len(s) :
    /\ SubSeq(s, m, n) \in Seq(Int) /\ Len(SubSeq(s, m, n)) = n - m + 1
    /\ \A i \in 1..n - m + 1 : SubSeq(s, m, n)[i] = s[m + i - 1]
<1> SUFFICES ASSUME NEW s \in Seq(Int), NEW m \in 1..Len(s) + 1, NEW n \in m - 1..Len(s)
             PROVE  /\ SubSeq(s, m, n) \in Seq(Int) /\ Len(SubSeq(s, m, n)) = n - m + 1
                    /\ \A i \in 1..n - m + 1 : SubSeq(s, m, n)[i] = s[m + i - 1]
  OBVIOUS
<1>1. m \in Int /\ n \in Int /\ \A i \in m..n : s[i] \in Int  OBVIOUS
<1>2. /\ SubSeq(s,m,n) \in Seq(Int)
      /\ Len(SubSeq(s,m,n)) = IF m<=n THEN n-m+1 ELSE 0
      /\ \A i \in 1 .. n-m+1 : SubSeq(s,m,n)[i] = s[m+i-1]
  BY <1>1, SubSeqProperties
<1> QED  BY <1>2

\* Two parts that meet.
LEMMA Adjacent ==
  \A s \in Seq(Int) : \A k \in 0..Len(s) : \A n \in k..Len(s) :
    SubSeq(s, 1, k) \o SubSeq(s, k + 1, n) = SubSeq(s, 1, n)
<1> SUFFICES ASSUME NEW s \in Seq(Int), NEW k \in 0..Len(s), NEW n \in k..Len(s)
             PROVE  SubSeq(s, 1, k) \o SubSeq(s, k + 1, n) = SubSeq(s, 1, n)
  OBVIOUS
<1>1. 1 \in 1..Len(s) + 1 /\ k \in 1 - 1..Len(s)  OBVIOUS
<1> QED  BY <1>1, ConcatAdjacentSubSeq

\* Sequences with the same items are the same.
LEMMA Equals ==
  \A s, t \in Seq(Int) :
    Len(s) = Len(t) /\ (\A i \in 1..Len(s) : s[i] = t[i]) => s = t
BY SeqEqual

\* What is read inside the payload is a part of it.
LEMMA BytesAreSlice ==
  \A p \in Seq(Int) : \A i \in 0..Len(p) : \A n \in 0..Len(p) - i :
    Bytes(p, i, n) = SubSeq(p, i + 1, i + n)
<1> SUFFICES ASSUME NEW p \in Seq(Int), NEW i \in 0..Len(p), NEW n \in 0..Len(p) - i
             PROVE  Bytes(p, i, n) = SubSeq(p, i + 1, i + n)
  OBVIOUS
<1>1. /\ i + 1 \in 1..Len(p) + 1 /\ i + n \in (i + 1) - 1..Len(p)
      /\ (i + n) - (i + 1) + 1 = n /\ n \in Nat
  OBVIOUS
<1>2. /\ SubSeq(p, i + 1, i + n) \in Seq(Int) /\ Len(SubSeq(p, i + 1, i + n)) = n
      /\ \A k \in 1..n : SubSeq(p, i + 1, i + n)[k] = p[(i + 1) + k - 1]
  BY <1>1, Slices
<1>3. \A k \in 1..n : Byte(p, i + k - 1) = p[(i + 1) + k - 1] /\ Byte(p, i + k - 1) \in Int
  BY DEF Byte
<1>4. /\ Bytes(p, i, n) \in Seq(Int) /\ Len(Bytes(p, i, n)) = n
      /\ \A k \in 1..n : Bytes(p, i, n)[k] = Byte(p, i + k - 1)
  <2>1. Bytes(p, i, n) \in [1..n -> Int]  BY <1>3 DEF Bytes
  <2>2. \A k \in 1..n : Bytes(p, i, n)[k] = Byte(p, i + k - 1)  BY DEF Bytes
  <2> HIDE DEF Bytes
  <2>3. \A f \in [1..n -> Int] : f \in Seq(Int) /\ Len(f) = n  BY <1>1
  <2> QED  BY <2>1, <2>2, <2>3
<1>5. \A k \in 1..n : Bytes(p, i, n)[k] = SubSeq(p, i + 1, i + n)[k]
  BY <1>2, <1>3, <1>4
<1> QED  BY <1>2, <1>4, <1>5, Equals

-----------------------------------------------------------------------------
(* What UnpackRTPH264 makes of the datagrams of a sender.                   *)

\* Two bytes and the rest.
LEMMA TwoBytes ==
  ASSUME NEW x \in Int, NEW y \in Int, NEW s \in Seq(Int)
  PROVE  /\ <<x, y>> \o s \in Seq(Int) /\ Len(<<x, y>> \o s) = 2 + Len(s)
         /\ Byte(<<x, y>> \o s, 0) = x /\ Byte(<<x, y>> \o s, 1) = y
         /\ Bytes(<<x, y>> \o s, 2, Len(<<x, y>> \o s) - 2) = s
<1>0. PICK p : p = <<x, y>> \o s  OBVIOUS
<1> DEFINE h == <<x, y>>
<1>1. h \in Seq(Int) /\ Len(h) = 2 /\ h[1] = x /\ h[2] = y  OBVIOUS
<1>2. p = h \o s  BY <1>0
<1> HIDE DEF h
<1>3. /\ p \in Seq(Int) /\ Len(p) = 2 + Len(s) /\ p[1] = x /\ p[2] = y
      /\ \A i \in 1..Len(s) : p[2 + i] = s[i]
  <2>1. /\ h \o s \in Seq(Int) /\ Len(h \o s) = Len(h) + Len(s)
        /\ \A i \in 1..Len(h) : (h \o s)[i] = h[i]
        /\ \A i \in 1..Len(s) : (h \o s)[Len(h) + i] = s[i]
    BY <1>1, Cats
  <2>2. 1 \in 1..Len(h) /\ 2 \in 1..Len(h)  BY <1>1
  <2> QED  BY <2>1, <2>2, <1>1, <1>2, Zenon
<1>4. PICK n : n = Len(s)  OBVIOUS
<1>5. n \in Nat /\ Len(p) = 2 + n  BY <1>3, <1>4
<1>6. Byte(p, 0) = x /\ Byte(p, 1) = y
  BY <1>3, <1>5 DEF Byte
<1>7. Bytes(p, 2, n) = SubSeq(p, 3, 2 + n)
  <2>1. 2 \in 0..Len(p) /\ n \in 0..Len(p) - 2 /\ 2 + 1 = 3  BY <1>5
  <2> QED  BY <2>1, <1>3, BytesAreSlice
<1>8. /\ SubSeq(p, 3, 2 + n) \in Seq(Int) /\ Len(SubSeq(p, 3, 2 + n)) = n
      /\ \A i \in 1..n : SubSeq(p, 3, 2 + n)[i] = p[2 + i]
  <2>1. 3 \in 1..Len(p) + 1 /\ 2 + n \in 3 - 1..Len(p) /\ (2 + n) - 3 + 1 = n
        /\ \A i \in 1..n : 3 + i - 1 = 2 + i
    BY <1>5
  <2>2. /\ SubSeq(p, 3, 2 + n) \in Seq(Int) /\ Len(SubSeq(p, 3, 2 + n)) = (2 + n) - 3 + 1
        /\ \A i \in 1..(2 + n) - 3 + 1 : SubSeq(p, 3, 2 + n)[i] = p[3 + i - 1]
    BY <2>1, <1>3, Slices
  <2> QED  BY <2>1, <2>2
<1>9. Bytes(p, 2, n) = s
  <2> \A i \in 1..n : SubSeq(p, 3, 2 + n)[i] = s[i]  BY <1>3, <1>4, <1>8
  <2> QED  BY <1>4, <1>7, <1>8, Equals
<1>10. Len(p) - 2 = n  BY <1>5
<1> QED  BY <1>0, <1>3, <1>6, <1>9, <1>10

\* The header of a unit, taken apart for its fragments and put together again.
LEMMA FragmentHeader ==
  \A u \in 0..255 : \A t \in {0, 64, 128} :
    /\ ((u \div 32) * 32 + 28) % 32 = 28
    /\ ((t + (u % 32)) \div 32) * 32 = t
    /\ (((u \div 32) * 32 + 28) \div 32) * 32 + ((t + (u % 32)) % 32) = u
<1> SUFFICES ASSUME NEW u \in 0..255, NEW t \in {0, 64, 128}
             PROVE  /\ ((u \div 32) * 32 + 28) % 32 = 28
                    /\ ((t + (u % 32)) \div 32) * 32 = t
                    /\ (((u \div 32) * 32 + 28) \div 32) * 32 + ((t + (u % 32)) % 32) = u
  OBVIOUS
<1>1. PICK a \in 0..7, b \in 0..31 : u = 32 * a + b /\ u \div 32 = a /\ u % 32 = b
  BY SMT
<1>2. (a * 32 + 28) % 32 = 28 /\ (a * 32 + 28) \div 32 = a  BY SMT
<1>3. (t + b) \div 32 = t \div 32 /\ (t + b) % 32 = b /\ (t \div 32) * 32 = t  BY SMT
<1> QED  BY <1>1, <1>2, <1>3

\* A unit, and how it is cut.
Cut(unit, cuts) ==
  /\ unit \in Seq(0..255) /\ unit # << >> /\ cuts \in Seq(Nat) /\ Len(cuts) > 1
  /\ Ends(cuts)[Len(cuts)] = Len(unit)

\* The start and end bits of the r-th fragment.
Marked(cuts, r) == IF r = 1 THEN 128 ELSE IF r = Len(cuts) THEN 64 ELSE 0

\* The bounds of a fragment are in the unit.
LEMMA CutParts ==
  ASSUME NEW unit, NEW cuts, Cut(unit, cuts), NEW r \in 1..Len(cuts)
  PROVE  /\ unit \in Seq(Int) /\ unit[1] \in 0..255 /\ Len(unit) \in Nat
         /\ Len(cuts) \in Nat /\ cuts[r] \in Nat /\ Ends(cuts)[0] = 1
         /\ Ends(cuts)[r - 1] \in 1..Len(unit) /\ Ends(cuts)[r] \in 1..Len(unit)
         /\ Ends(cuts)[r] = Ends(cuts)[r - 1] + cuts[r]
         /\ SubSeq(unit, Ends(cuts)[r - 1] + 1, Ends(cuts)[r]) \in Seq(Int)
         /\ Len(SubSeq(unit, Ends(cuts)[r - 1] + 1, Ends(cuts)[r])) = cuts[r]
<1>1. unit \in Seq(Int) /\ unit[1] \in 0..255 /\ Len(unit) \in Nat
  <2>1. unit \in Seq(0..255) /\ unit # << >>  BY DEF Cut
  <2> QED  BY <2>1, Octets
<1>2. cuts \in Seq(Nat) /\ Ends(cuts)[Len(cuts)] = Len(unit)  BY DEF Cut
<1>3. Len(cuts) \in Nat /\ cuts[r] \in Nat  BY <1>2
<1>4. r - 1 \in 0..Len(cuts) /\ r \in 0..Len(cuts)  BY <1>3
<1>5. PICK a, b : a = Ends(cuts)[r - 1] /\ b = Ends(cuts)[r]  OBVIOUS
<1>6. /\ a \in Nat /\ b \in Nat /\ 1 <= a /\ a <= Len(unit) /\ b <= Len(unit) /\ 1 <= b
  BY <1>2, <1>4, <1>5, EndsGrow
<1>7. b = a + cuts[r] /\ Ends(cuts)[0] = 1  BY <1>2, <1>5, EndsDef
<1>8. SubSeq(unit, a + 1, b) \in Seq(Int) /\ Len(SubSeq(unit, a + 1, b)) = cuts[r]
  <2>1. a + 1 \in 1..Len(unit) + 1 /\ b \in (a + 1) - 1..Len(unit) /\ b - (a + 1) + 1 = cuts[r]
    BY <1>1, <1>3, <1>6, <1>7
  <2>2. SubSeq(unit, a + 1, b) \in Seq(Int)
        /\ Len(SubSeq(unit, a + 1, b)) = b - (a + 1) + 1
    BY <1>1, <2>1, Slices
  <2> QED  BY <2>1, <2>2
<1>9. a \in 1..Len(unit) /\ b \in 1..Len(unit)  BY <1>1, <1>6
<1> QED  BY <1>1, <1>3, <1>5, <1>7, <1>8, <1>9

\* What UnpackRTPH264 makes of the r-th fragment.
FragmentMade(unit, cuts, r, p) ==
  /\ p \in Seq(Int) /\ Len(p) = 2 + cuts[r] /\ Nal(p) = 28
  /\ FuFlag(p) = Marked(cuts, r)
  /\ OutBuffer(p) = IF r = 1 THEN StartCode \o SubSeq(unit, 1, Ends(cuts)[1])
                    ELSE SubSeq(unit, Ends(cuts)[r - 1] + 1, Ends(cuts)[r])

\* Its flag, and its part of the unit: with the header and a start code the first.
LEMMA FragmentUnpacked ==
  ASSUME NEW unit, NEW cuts, Cut(unit, cuts), NEW r \in 1..Len(cuts)
  PROVE  FragmentMade(unit, cuts, r, Fragments(unit, cuts)[r])
<1>0. PICK p : p = Fragments(unit, cuts)[r]  OBVIOUS
<1>1. PICK u, t, s : /\ u = unit[1] /\ t = Marked(cuts, r)
                     /\ s = SubSeq(unit, Ends(cuts)[r - 1] + 1, Ends(cuts)[r])
  OBVIOUS
<1>2. u \in 0..255 /\ s \in Seq(Int) /\ Len(s) = cuts[r] /\ cuts[r] \in Nat
  BY <1>1, CutParts
<1>3. t \in {0, 64, 128}  BY <1>1 DEF Marked
<1>4. p = <<(u \div 32) * 32 + 28, t + (u % 32)>> \o s
  <2>1. t = CASE r = 1 -> 128 [] r = Len(cuts) -> 64 [] OTHER -> 0
    BY <1>1, CutParts DEF Marked, Cut
  <2> QED  BY <1>0, <1>1, <2>1 DEF Fragments
<1>5. PICK x \in Int, y \in Int : x = (u \div 32) * 32 + 28 /\ y = t + (u % 32)
  BY <1>2, <1>3
<1>6. /\ p \in Seq(Int) /\ Len(p) = 2 + Len(s)
      /\ Byte(p, 0) = x /\ Byte(p, 1) = y /\ Bytes(p, 2, Len(p) - 2) = s
  <2>1. p = <<x, y>> \o s  BY <1>4, <1>5
  <2>2. s \in Seq(Int)  BY <1>2
  <2>3. /\ <<x, y>> \o s \in Seq(Int) /\ Len(<<x, y>> \o s) = 2 + Len(s)
        /\ Byte(<<x, y>> \o s, 0) = x /\ Byte(<<x, y>> \o s, 1) = y
        /\ Bytes(<<x, y>> \o s, 2, Len(<<x, y>> \o s) - 2) = s
    BY <2>2, TwoBytes
  <2> QED  BY <2>1, <2>3, Zenon
<1>7. x % 32 = 28 /\ (y \div 32) * 32 = t /\ (x \div 32) * 32 + (y % 32) = u
  <2>1. /\ ((u \div 32) * 32 + 28) % 32 = 28
        /\ ((t + (u % 32)) \div 32) * 32 = t
        /\ (((u \div 32) * 32 + 28) \div 32) * 32 + ((t + (u % 32)) % 32) = u
    BY SMTT(30), <1>2, <1>3, FragmentHeader
  <2>2. x % 32 = 28 /\ (y \div 32) * 32 = t  BY <2>1, <1>5, Zenon
  <2>3. (x \div 32) * 32 + (y % 32) = u  BY <2>1, <1>5, Zenon
  <2> QED  BY <2>2, <2>3
<1>8. Nal(p) = 28 /\ FuFlag(p) = t /\ NalFua(p) = u
  BY <1>6, <1>7 DEF Nal, FuFlag, NalFua
<1>9. ASSUME r = 1
      PROVE  OutBuffer(p) = StartCode \o SubSeq(unit, 1, Ends(cuts)[1])
  <2>1. t = 128  BY <1>1, <1>9 DEF Marked
  <2>2. OutBuffer(p) = StartCode \o <<u>> \o s
    BY <2>1, <1>8, <1>6 DEF OutBuffer
  <2>3. PICK b : b = Ends(cuts)[1]  OBVIOUS
  <2>4. b \in 1..Len(unit) /\ s = SubSeq(unit, 1 + 1, b) /\ unit \in Seq(Int)
        /\ Len(unit) \in Nat
    <3> Ends(cuts)[r - 1] = 1  BY <1>9, CutParts
    <3> QED  BY <1>1, <1>9, <2>3, CutParts
  <2>5. <<u>> = SubSeq(unit, 1, 1)  BY <1>1, <2>4
  <2>6. SubSeq(unit, 1, 1) \o SubSeq(unit, 1 + 1, b) = SubSeq(unit, 1, b)
    <3> 1 \in 0..Len(unit) /\ b \in 1..Len(unit)  BY <2>4
    <3> QED  BY <2>4, Adjacent
  <2>7. (StartCode \o <<u>>) \o s = StartCode \o (<<u>> \o s)
    <3> StartCode \in Seq(Int) /\ <<u>> \in Seq(Int)  BY <1>2 DEF StartCode
    <3> QED  BY <1>2, CatAssoc
  <2>8. OutBuffer(p) = StartCode \o SubSeq(unit, 1, b)
    BY <2>2, <2>4, <2>5, <2>6, <2>7
  <2> QED  BY <2>3, <2>8
<1>10. ASSUME r # 1
       PROVE  OutBuffer(p) = SubSeq(unit, Ends(cuts)[r - 1] + 1, Ends(cuts)[r])
  <2>1. t # 128  BY <1>1, <1>10 DEF Marked
  <2>2. OutBuffer(p) = s  BY <2>1, <1>6, <1>8 DEF OutBuffer
  <2> QED  BY <2>2, <1>1
<1>11. FragmentMade(unit, cuts, r, p)
  <2>1. p \in Seq(Int) /\ Len(p) = 2 + cuts[r]  BY <1>2, <1>6
  <2>2. Nal(p) = 28 /\ FuFlag(p) = Marked(cuts, r)  BY <1>1, <1>8
  <2> QED  BY <1>9, <1>10, <2>1, <2>2 DEF FragmentMade
<1> QED  BY <1>0, <1>11

-----------------------------------------------------------------------------
(* The units of a sending behind their sizes, and behind start codes.       *)

\* Every unit behind its size, as in an aggregate, and behind a start code.
Sized(s) == [i \in 1..Len(s.units) |->
               LET n == Len(s.units[i]) IN <<n \div 256, n % 256>> \o s.units[i]]

Coded(s) == [i \in 1..Len(s.units) |-> StartCode \o s.units[i]]

\* How far the first i of seqs go.
Joined(seqs) ==
  CHOOSE f : Joins(f, seqs, Len(seqs), Int) /\ FlattenSeq(seqs) = f[Len(seqs)]

\* The units of a sending are some, and are bytes.
LEMMA UnitTypes ==
  ASSUME NEW s, Sendable(s)
  PROVE  /\ Len(s.units) \in Nat \ {0} /\ Len(Sized(s)) = Len(s.units)
         /\ Len(Coded(s)) = Len(s.units)
         /\ \A i \in 1..Len(s.units) :
              /\ s.units[i] \in Seq(0..255) /\ s.units[i] \in Seq(Int)
              /\ Len(s.units[i]) \in Nat
         /\ Sized(s) \in Seq(Seq(Int)) /\ Sized(s) # << >>
         /\ Coded(s) \in Seq(Seq(Int)) /\ Coded(s) # << >>
         /\ s.cuts \in Seq(Nat) /\ s.how \in {"single", "stap", "fu"}
<1>1. /\ s.units \in Seq(Seq(0..255)) /\ s.units # << >>
      /\ s.cuts \in Seq(Nat) /\ s.how \in {"single", "stap", "fu"}
  BY DEF Sendable, Sendings
<1>2. PICK m : m = Len(s.units)  OBVIOUS
<1>3. m \in Nat \ {0}  BY <1>1, <1>2, EmptySeq
<1>4. \A i \in 1..m : s.units[i] \in Seq(0..255)  BY <1>1, <1>2, ElementOfSeq
<1>5. \A i \in 1..m : s.units[i] \in Seq(Int) /\ Len(s.units[i]) \in Nat
  BY <1>4, Octets
<1>6. \A i \in 1..m : StartCode \o s.units[i] \in Seq(Int)
  <2> StartCode \in Seq(Int)  BY DEF StartCode
  <2> QED  BY <1>5, Cats
<1>7. \A n \in Nat : n \div 256 \in Int /\ n % 256 \in Int  BY SMT
<1>8. \A i \in 1..m :
        <<Len(s.units[i]) \div 256, Len(s.units[i]) % 256>> \o s.units[i] \in Seq(Int)
  BY <1>5, <1>7, TwoBytes
<1>9. \A f \in [1..m -> Seq(Int)] : f \in Seq(Seq(Int)) /\ Len(f) = m /\ f # << >>
  BY <1>3
<1>10. Sized(s) \in [1..m -> Seq(Int)]  BY <1>2, <1>8 DEF Sized
<1>11. Coded(s) \in [1..m -> Seq(Int)]  BY <1>2, <1>6 DEF Coded
<1> QED  BY <1>1, <1>2, <1>3, <1>4, <1>5, <1>9, <1>10, <1>11

\* Joined is a function of that kind.
LEMMA JoinedIs ==
  ASSUME NEW seqs \in Seq(Seq(Int)), seqs # << >>
  PROVE  /\ Joins(Joined(seqs), seqs, Len(seqs), Int)
         /\ AllSeqs(seqs, Len(seqs), Int)
         /\ FlattenSeq(seqs) = Joined(seqs)[Len(seqs)]
<1>1. \E f : Joins(f, seqs, Len(seqs), Int) /\ FlattenSeq(seqs) = f[Len(seqs)]
  BY FlattenSeqDef
<1>2. AllSeqs(seqs, Len(seqs), Int)  BY ElementOfSeq DEF AllSeqs
<1> QED  BY <1>1, <1>2, Zenon DEF Joined

\* The units behind start codes, one after the other.
LEMMA ByteStreamIs ==
  ASSUME NEW s, Sendable(s)
  PROVE  /\ ByteStream(s) = Joined(Coded(s))[Len(s.units)]
         /\ ByteStream(s) \in Seq(Int)
<1>1. /\ Coded(s) \in Seq(Seq(Int)) /\ Coded(s) # << >>
      /\ Len(Coded(s)) = Len(s.units) /\ Len(s.units) \in Nat
  BY UnitTypes
<1>2. ByteStream(s) = FlattenSeq(Coded(s))  BY DEF ByteStream, Coded
<1>3. Joins(Joined(Coded(s)), Coded(s), Len(s.units), Int)
      /\ FlattenSeq(Coded(s)) = Joined(Coded(s))[Len(s.units)]
  BY <1>1, JoinedIs
<1>4. Joined(Coded(s))[Len(s.units)] \in Seq(Int)
  <2> Len(s.units) \in 0..Len(s.units)  BY <1>1
  <2> QED  BY <1>3 DEF Joins
<1> QED  BY <1>2, <1>3, <1>4

\* With one unit, it behind a start code.
LEMMA OneUnit ==
  ASSUME NEW s, Sendable(s), Len(s.units) = 1, NEW u, u = s.units[1]
  PROVE  /\ u \in Seq(Int) /\ ByteStream(s) = StartCode \o u
         /\ StartCode \o u \in Seq(Int) /\ Len(StartCode \o u) = 4 + Len(u)
<1>1. 1 \in 1..Len(s.units)  OBVIOUS
<1>2. u \in Seq(Int)  BY <1>1, UnitTypes
<1>3. /\ ByteStream(s) = Joined(Coded(s))[1]
      /\ Joins(Joined(Coded(s)), Coded(s), 1, Int)
  BY ByteStreamIs, UnitTypes, JoinedIs
<1>4. /\ Joined(Coded(s))[1] = Joined(Coded(s))[1 - 1] \o Coded(s)[1]
      /\ Joined(Coded(s))[0] = << >>
  BY <1>3 DEF Joins
<1>5. Coded(s)[1] = StartCode \o u  BY DEF Coded
<1>6. StartCode \in Seq(Int) /\ Len(StartCode) = 4  BY DEF StartCode
<1>7. StartCode \o u \in Seq(Int) /\ Len(StartCode \o u) = 4 + Len(u)
  <2> StartCode \o u \in Seq(Int) /\ Len(StartCode \o u) = Len(StartCode) + Len(u)
    BY <1>2, <1>6, Cats, Zenon
  <2> QED  BY <1>6, Zenon
<1>8. << >> \o (StartCode \o u) = StartCode \o u  BY <1>7, ConcatEmptySeq
<1>9. ByteStream(s) = StartCode \o u
  <2> 1 - 1 = 0  OBVIOUS
  <2> ByteStream(s) = << >> \o Coded(s)[1]  BY <1>3, <1>4
  <2> QED  BY <1>5, <1>8, Zenon
<1> QED  BY <1>2, <1>7, <1>9, Zenon

\* A unit sent alone gets a start code, and is what was sent.
LEMMA SingleUnpacked ==
  ASSUME NEW s, Sendable(s), s.how = "single", NEW p, p = Datagrams(s)[1]
  PROVE  /\ Len(Datagrams(s)) = 1 /\ p \in Seq(Int)
         /\ Nal(p) \notin {24, 28} /\ OutBuffer(p) = StartCode \o p
         /\ ByteStream(s) = StartCode \o p /\ Len(StartCode \o p) = 4 + Len(p)
         /\ p = s.units[1] /\ p # << >>
<1>1. Len(s.units) = 1 /\ s.units[1] # << >> /\ s.units[1][1] % 32 \notin {24, 28}
  BY DEF Sendable
<1>2. Datagrams(s) = s.units  BY DEF Datagrams
<1>3. p = s.units[1] /\ p \in Seq(Int) /\ p # << >> /\ 1 \in 1..Len(s.units)
  <2>1. 1 \in 1..Len(s.units)  BY <1>1
  <2>2. \A i \in 1..Len(s.units) : s.units[i] \in Seq(Int)  BY UnitTypes
  <2>3. p = s.units[1]  BY <1>2, Zenon
  <2> QED  BY <1>1, <2>1, <2>2, <2>3, Zenon
<1>4. Byte(p, 0) = p[1]
  <2> Len(p) \in Nat \ {0}  BY <1>3, EmptySeq
  <2> QED  BY DEF Byte
<1>5. Nal(p) = s.units[1][1] % 32  BY <1>3, <1>4 DEF Nal
<1>6. OutBuffer(p) = StartCode \o p  BY <1>1, <1>5 DEF OutBuffer
<1>7. /\ ByteStream(s) = StartCode \o p
      /\ StartCode \o p \in Seq(Int) /\ Len(StartCode \o p) = 4 + Len(p)
  BY <1>1, <1>3, OneUnit
<1>14. Len(Datagrams(s)) = 1  BY <1>1, <1>2
<1>15. Nal(p) \notin {24, 28}  BY <1>1, <1>5
<1> QED  BY <1>3, <1>6, <1>7, <1>14, <1>15, Zenon

-----------------------------------------------------------------------------
(* The walk over an aggregate.                                              *)

\* Sizes and units up to the j-th, and what is made of them.
Walked(s, j)  == Joined(Sized(s))[j]
Written(s, j) == Joined(Coded(s))[j]

\* A unit of n bytes and its size are behind the first a bytes of all.
WalksOver(s, j, n, a, all) ==
  /\ n \in Nat /\ a \in Nat /\ all \in Seq(Int)
  /\ Len(Walked(s, j)) = a + 2 + n /\ a + 2 + n <= Len(all)
  /\ all[a + 1] = n \div 256 /\ all[a + 2] = n % 256
  /\ \A i \in 1..n : all[a + 2 + i] = s.units[j][i]

\* Where the j-th unit and its size are in an aggregate.
LEMMA WalkedStep ==
  ASSUME NEW s, Sendable(s), NEW j \in 1..Len(s.units)
  PROVE  WalksOver(s, j, Len(s.units[j]), Len(Walked(s, j - 1)), Walked(s, Len(s.units)))
<1>0. PICK n, a, all : /\ n = Len(s.units[j]) /\ a = Len(Walked(s, j - 1))
                       /\ all = Walked(s, Len(s.units))
  OBVIOUS
<1> DEFINE u == s.units[j]
           x == n \div 256
           y == n % 256
<1>1. PICK m : m = Len(s.units)  OBVIOUS
<1>2. /\ m \in Nat \ {0} /\ Len(Sized(s)) = m /\ u \in Seq(Int) /\ n \in Nat
      /\ Sized(s) \in Seq(Seq(Int)) /\ Sized(s) # << >> /\ Len(u) = n
  BY <1>0, <1>1, UnitTypes
<1>3. Joins(Joined(Sized(s)), Sized(s), m, Int) /\ AllSeqs(Sized(s), m, Int)
  BY <1>2, JoinedIs
<1>4. x \in Int /\ y \in Int  BY <1>2, SMT
<1>5. Sized(s)[j] = <<x, y>> \o u  BY <1>0, <1>1 DEF Sized
<1> HIDE DEF u, x, y
<1>6. /\ <<x, y>> \o u \in Seq(Int) /\ Len(<<x, y>> \o u) = 2 + n
      /\ (<<x, y>> \o u)[1] = x /\ (<<x, y>> \o u)[2] = y
      /\ \A i \in 1..n : (<<x, y>> \o u)[2 + i] = u[i]
  <2> DEFINE h == <<x, y>>
  <2>1. h \in Seq(Int) /\ Len(h) = 2 /\ h[1] = x /\ h[2] = y  BY <1>4
  <2> HIDE DEF h
  <2>2. /\ h \o u \in Seq(Int) /\ Len(h \o u) = Len(h) + Len(u)
        /\ \A i \in 1..Len(h) : (h \o u)[i] = h[i]
        /\ \A i \in 1..Len(u) : (h \o u)[Len(h) + i] = u[i]
    BY <2>1, <1>2, Cats
  <2>3. 1 \in 1..Len(h) /\ 2 \in 1..Len(h)  BY <2>1
  <2>4. /\ h \o u \in Seq(Int) /\ Len(h \o u) = 2 + n
        /\ (h \o u)[1] = x /\ (h \o u)[2] = y
        /\ \A i \in 1..n : (h \o u)[2 + i] = u[i]
    BY <2>1, <2>2, <2>3, <1>2, Zenon
  <2> QED  BY <2>4 DEF h
<1>7. j \in 1..m  BY <1>1
<1>8. PICK f : f = Joined(Sized(s))  OBVIOUS
<1>9. /\ f[m] \in Seq(Int) /\ f[j - 1] \in Seq(Int) /\ f[j] \in Seq(Int)
      /\ Len(f[j]) = Len(f[j - 1]) + Len(Sized(s)[j])
      /\ Grows(f[j], f[m])
      /\ \A r \in 1..Len(Sized(s)[j]) :
            f[m][Len(f[j - 1]) + r] = Sized(s)[j][r]
  <2>1. JoinsAt(f, Sized(s), m, Int, j)  BY <1>2, <1>3, <1>7, <1>8, JoinsItem
  <2> QED  BY <2>1, Zenon DEF JoinsAt
<1>10. all = f[m] /\ a = Len(f[j - 1]) /\ a \in Nat /\ Len(all) \in Nat
       /\ Walked(s, j) = f[j]
  BY <1>0, <1>1, <1>8, <1>9, Lens DEF Walked
<1>11. Len(f[j]) = a + (2 + n) /\ Len(f[j]) <= Len(all)
  BY <1>5, <1>6, <1>9, <1>10 DEF Grows
<1>12. \A r \in 1..2 + n : all[a + r] = (<<x, y>> \o u)[r]
  BY <1>5, <1>6, <1>9, <1>10, Zenon
<1>13. 1 \in 1..2 + n /\ 2 \in 1..2 + n /\ \A i \in 1..n : 2 + i \in 1..2 + n
  BY <1>2
<1>14. all[a + 1] = x /\ all[a + 2] = y  BY <1>6, <1>12, <1>13, Zenon
<1>15. \A i \in 1..n : all[a + (2 + i)] = u[i]  BY <1>6, <1>12, <1>13, Zenon
<1>16. \A v, w \in Nat : v + (2 + w) = v + 2 + w  OBVIOUS
<1>17. \A i \in 1..n : all[a + 2 + i] = u[i]
  <2>1. \A i \in 1..n : i \in Nat  OBVIOUS
  <2> QED  BY <1>10, <1>15, <1>16, <2>1, Zenon
<1>18. a + (2 + n) = a + 2 + n  BY <1>2, <1>10, <1>16, Zenon
<1>19. /\ Len(Walked(s, j)) = a + 2 + n /\ a + 2 + n <= Len(all)
       /\ all \in Seq(Int)
  <2>1. Len(f[j]) = a + 2 + n  BY <1>11, <1>18, Zenon
  <2>2. Len(f[j]) <= Len(all)  BY <1>11
  <2>3. Walked(s, j) = f[j] /\ all \in Seq(Int)  BY <1>9, <1>10, Zenon
  <2> QED  BY <2>1, <2>2, <2>3, Zenon
<1>20. WalksOver(s, j, n, a, all)
  BY <1>2, <1>10, <1>14, <1>17, <1>19, Zenon DEF WalksOver, x, y, u
<1> QED  BY <1>0, <1>20, Zenon

\* What a round of the walk adds.
LEMMA WrittenStep ==
  ASSUME NEW s, Sendable(s), NEW j \in 1..Len(s.units)
  PROVE  /\ Written(s, j - 1) \in Seq(Int) /\ Written(s, j) \in Seq(Int)
         /\ Written(s, j) = (Written(s, j - 1) \o StartCode) \o s.units[j]
         /\ Len(Written(s, j)) = Len(Written(s, j - 1)) + 4 + Len(s.units[j])
<1>1. PICK m : m = Len(s.units)  OBVIOUS
<1>2. PICK u, b, c : u = s.units[j] /\ b = Written(s, j - 1) /\ c = Written(s, j)
  OBVIOUS
<1>3. /\ m \in Nat \ {0} /\ Len(Coded(s)) = m /\ u \in Seq(Int)
      /\ Coded(s) \in Seq(Seq(Int)) /\ Coded(s) # << >>
  BY <1>1, <1>2, UnitTypes
<1>4. Joins(Joined(Coded(s)), Coded(s), m, Int) /\ AllSeqs(Coded(s), m, Int)
  BY <1>3, JoinedIs
<1>5. Coded(s)[j] = StartCode \o u  BY <1>1, <1>2 DEF Coded
<1>6. j \in 1..m  BY <1>1
<1>7. b \in Seq(Int) /\ c \in Seq(Int) /\ c = b \o (StartCode \o u)
  <2> /\ Joined(Coded(s))[j - 1] \in Seq(Int) /\ Joined(Coded(s))[j] \in Seq(Int)
      /\ Joined(Coded(s))[j] = Joined(Coded(s))[j - 1] \o Coded(s)[j]
    <3>1. JoinsAt(Joined(Coded(s)), Coded(s), m, Int, j)
      BY <1>3, <1>4, <1>6, JoinsItem
    <3> QED  BY <3>1, Zenon DEF JoinsAt
  <2> QED  BY <1>2, <1>5 DEF Written
<1>8. StartCode \in Seq(Int) /\ Len(StartCode) = 4  BY DEF StartCode
<1>9. c = (b \o StartCode) \o u
  <2>1. (b \o StartCode) \o u = b \o (StartCode \o u)  BY ZenonT(60), <1>3, <1>7, <1>8, CatAssoc
  <2> QED  BY <1>7, <2>1, Zenon
<1>10. /\ Len(StartCode \o u) = 4 + Len(u) /\ StartCode \o u \in Seq(Int)
       /\ Len(c) = Len(b) + Len(StartCode \o u)
       /\ Len(b) \in Nat /\ Len(u) \in Nat
  <2>1. Len(StartCode \o u) = Len(StartCode) + Len(u) /\ StartCode \o u \in Seq(Int)
    BY <1>3, <1>8, Cats, Zenon
  <2>2. Len(c) = Len(b) + Len(StartCode \o u)  BY <1>7, <2>1, Cats, Zenon
  <2> QED  BY <1>3, <1>7, <1>8, <2>1, <2>2, Lens
<1>11. Len(c) = Len(b) + 4 + Len(u)  BY <1>10
<1> QED  BY <1>2, <1>7, <1>9, <1>11, Zenon

\* An aggregate grows by two bytes for each unit.
LEMMA WrittenLength ==
  ASSUME NEW s, Sendable(s), NEW k \in 0..Len(s.units)
  PROVE  Len(Written(s, k)) = Len(Walked(s, k)) + 2 * k /\ Len(Walked(s, k)) \in Nat
           /\ Len(Walked(s, k)) <= Len(Walked(s, Len(s.units)))
<1>1. PICK m : m = Len(s.units)  OBVIOUS
<1>2. m \in Nat \ {0}  BY <1>1, UnitTypes
<1> DEFINE A == {i \in Nat : i <= m => /\ Len(Written(s, i)) = Len(Walked(s, i)) + 2 * i
                                       /\ Len(Walked(s, i)) \in Nat}
<1>3. 0 \in A
  <2>1. /\ Joins(Joined(Coded(s)), Coded(s), m, Int)
        /\ Joins(Joined(Sized(s)), Sized(s), m, Int)
    BY <1>1, UnitTypes, JoinedIs
  <2>2. Written(s, 0) = << >> /\ Walked(s, 0) = << >>
    BY <2>1 DEF Joins, Written, Walked
  <2> QED  BY <2>2
<1>4. ASSUME NEW i \in Nat, i \in A PROVE i + 1 \in A
  <2> SUFFICES ASSUME i + 1 <= m
               PROVE  /\ Len(Written(s, i + 1)) = Len(Walked(s, i + 1)) + 2 * (i + 1)
                      /\ Len(Walked(s, i + 1)) \in Nat
    OBVIOUS
  <2>1. i + 1 \in 1..m /\ (i + 1) - 1 = i /\ i <= m  BY <1>2
  <2>2. PICK n, a : n = Len(s.units[i + 1]) /\ a = Len(Walked(s, i))  OBVIOUS
  <2>3. n \in Nat /\ a \in Nat /\ Len(Walked(s, i + 1)) = a + 2 + n
    <3>1. PICK j \in 1..Len(s.units) : j = i + 1 /\ j - 1 = i  BY <1>1, <2>1
    <3>2. WalksOver(s, j, Len(s.units[j]), Len(Walked(s, j - 1)),
                    Walked(s, Len(s.units)))
      BY WalkedStep
    <3> QED  BY <2>2, <3>1, <3>2, Zenon DEF WalksOver
  <2>4. Len(Written(s, i + 1)) = Len(Written(s, i)) + 4 + n
    BY <1>1, <2>1, <2>2, WrittenStep
  <2>5. Len(Written(s, i)) = a + 2 * i  BY <1>4, <2>1, <2>2
  <2> QED  BY <2>3, <2>4, <2>5
<1> HIDE DEF A
<1>5. \A i \in Nat : i \in A  BY <1>3, <1>4, CountUp
<1>6. k \in Nat /\ k <= m  BY <1>1, <1>2
<1>7. Len(Written(s, k)) = Len(Walked(s, k)) + 2 * k /\ Len(Walked(s, k)) \in Nat
  BY <1>5, <1>6 DEF A
<1>8. Len(Walked(s, k)) <= Len(Walked(s, m))
  <2>1. Joins(Joined(Sized(s)), Sized(s), m, Int) /\ AllSeqs(Sized(s), m, Int)
    BY <1>1, UnitTypes, JoinedIs
  <2>2. m \in k..m /\ k \in 0..m  BY <1>2, <1>6
  <2>3. Grows(Joined(Sized(s))[k], Joined(Sized(s))[m])
    BY <2>1, <2>2, <1>2, JoinsGrow
  <2> QED  BY <2>3 DEF Grows, Walked
<1> QED  BY <1>1, <1>7, <1>8

\* An aggregate is its header and what Walked goes over.
LEMMA StapUnpacked ==
  ASSUME NEW s, Sendable(s), s.how = "stap", NEW p, p = Datagrams(s)[1],
         NEW all, all = Walked(s, Len(s.units))
  PROVE  /\ Len(Datagrams(s)) = 1 /\ p \in Seq(Int) /\ all \in Seq(Int)
         /\ p = Aggregated(s.units)
         /\ Nal(p) = 24 /\ OutBuffer(p) = StartCode \o p /\ OutBuffer(p) # << >>
         /\ Len(p) = 1 + Len(all) /\ Len(all) \in Nat
         /\ \A i \in 1..Len(all) : p[i + 1] = all[i]
<1>1. Datagrams(s) = <<Aggregated(s.units)>>  BY DEF Datagrams
<1>2. p = Aggregated(s.units) /\ Len(Datagrams(s)) = 1  BY <1>1
<1>3. Sized(s) \in Seq(Seq(Int)) /\ Sized(s) # << >> /\ Len(Sized(s)) = Len(s.units)
      /\ Len(s.units) \in Nat
  BY UnitTypes
<1>4. all = FlattenSeq(Sized(s)) /\ all \in Seq(Int)
  <2>1. /\ Joins(Joined(Sized(s)), Sized(s), Len(s.units), Int)
        /\ FlattenSeq(Sized(s)) = Joined(Sized(s))[Len(s.units)]
    BY <1>3, JoinedIs
  <2>2. Len(s.units) \in 0..Len(s.units)  BY <1>3
  <2> QED  BY <2>1, <2>2 DEF Joins, Walked
<1>5. p = <<120>> \o all  BY <1>2, <1>4 DEF Aggregated, Sized
<1> DEFINE h == <<120>>
<1>6. h \in Seq(Int) /\ Len(h) = 1 /\ h[1] = 120  OBVIOUS
<1> HIDE DEF h
<1>7. /\ p \in Seq(Int) /\ Len(p) = 1 + Len(all) /\ p[1] = 120
      /\ \A i \in 1..Len(all) : p[1 + i] = all[i]
  <2>1. /\ h \o all \in Seq(Int) /\ Len(h \o all) = Len(h) + Len(all)
        /\ \A i \in 1..Len(h) : (h \o all)[i] = h[i]
        /\ \A i \in 1..Len(all) : (h \o all)[Len(h) + i] = all[i]
    BY ZenonT(60), <1>4, <1>6, Cats
  <2>2. p = h \o all  BY <1>5 DEF h
  <2>3. 1 \in 1..Len(h)  BY <1>6
  <2> QED  BY <2>1, <2>2, <2>3, <1>6, ZenonT(60)
<1>8. Len(all) \in Nat  BY <1>4
<1>9. Byte(p, 0) = 120
  <2> 0 < Len(p)  BY <1>7, <1>8
  <2> QED  BY <1>7 DEF Byte
<1>10. Nal(p) = 24  BY <1>9 DEF Nal
<1>11. OutBuffer(p) = StartCode \o p  BY <1>10 DEF OutBuffer
<1>12. StartCode \o p # << >>
  <2>1. StartCode \in Seq(Int) /\ StartCode # << >>  BY DEF StartCode
  <2> QED  BY <1>7, <2>1
<1>13. \A i \in 1..Len(all) : p[i + 1] = all[i]
  <2> \A i \in 1..Len(all) : i + 1 = 1 + i  OBVIOUS
  <2> QED  BY <1>7
<1> QED  BY <1>2, <1>4, <1>7, <1>8, <1>10, <1>11, <1>12, <1>13, Zenon

\* One round of the walk finds the next unit.
FindsNext(s, j, a, p, n) ==
  /\ a < Len(p) - 1 /\ n \in Nat /\ a \in Nat /\ a + 3 + n <= Len(p)
  /\ 256 * Byte(p, a + 1) + Byte(p, a + 2) = n
  /\ Bytes(p, a + 3, n) = s.units[j]

\* So it is for every unit of an aggregate.
LEMMA StapRound ==
  ASSUME NEW s, Sendable(s), s.how = "stap", NEW j \in 1..Len(s.units)
  PROVE  FindsNext(s, j, Len(Walked(s, j - 1)), Datagrams(s)[1], Len(s.units[j]))
<1>1. PICK a, p, n, all : /\ a = Len(Walked(s, j - 1)) /\ p = Datagrams(s)[1]
                          /\ n = Len(s.units[j]) /\ all = Walked(s, Len(s.units))
  OBVIOUS
<1>2. WalksOver(s, j, n, a, all)  BY <1>1, WalkedStep
<1>3. /\ p \in Seq(Int) /\ all \in Seq(Int) /\ Len(p) = 1 + Len(all) /\ Len(all) \in Nat
      /\ \A i \in 1..Len(all) : p[i + 1] = all[i]
  BY SMTT(30), <1>1, StapUnpacked
<1>4. /\ n \in Nat /\ a \in Nat /\ a + 2 + n <= Len(all)
      /\ all[a + 1] = n \div 256 /\ all[a + 2] = n % 256
      /\ \A i \in 1..n : all[a + 2 + i] = s.units[j][i]
  BY <1>2 DEF WalksOver
<1>18. PICK la, lp : la = Len(all) /\ lp = Len(p)  OBVIOUS
<1>17. lp = 1 + la /\ la \in Nat /\ n \in Nat /\ a \in Nat /\ a + 2 + n <= la
  BY <1>3, <1>4, <1>18, Zenon
<1>5. /\ a + 1 \in 1..Len(all) /\ a + 2 \in 1..Len(all)
      /\ \A i \in 1..n : a + 2 + i \in 1..Len(all)
  BY <1>17, <1>18
<1>6. p[(a + 1) + 1] = n \div 256 /\ p[(a + 2) + 1] = n % 256
  BY <1>3, <1>4, <1>5, Zenon
<1>7. Byte(p, a + 1) = n \div 256 /\ Byte(p, a + 2) = n % 256
  <2> a + 1 < Len(p) /\ a + 2 < Len(p)  BY <1>17, <1>18
  <2> QED  BY <1>6 DEF Byte
<1>8. \A m \in Nat : 256 * (m \div 256) + (m % 256) = m  BY SMT
<1>9. 256 * Byte(p, a + 1) + Byte(p, a + 2) = n  BY <1>4, <1>7, <1>8, ZenonT(60)
<1>10. Bytes(p, a + 3, n) = SubSeq(p, (a + 3) + 1, (a + 3) + n)
  <2> a + 3 \in 0..Len(p) /\ n \in 0..Len(p) - (a + 3)  BY <1>17, <1>18
  <2> QED  BY <1>3, BytesAreSlice
<1>11. /\ SubSeq(p, (a + 3) + 1, (a + 3) + n) \in Seq(Int)
       /\ Len(SubSeq(p, (a + 3) + 1, (a + 3) + n)) = n
       /\ \A i \in 1..n : SubSeq(p, (a + 3) + 1, (a + 3) + n)[i] = p[((a + 3) + 1) + i - 1]
  <2>1. /\ (a + 3) + 1 \in 1..Len(p) + 1 /\ (a + 3) + n \in ((a + 3) + 1) - 1..Len(p)
        /\ ((a + 3) + n) - ((a + 3) + 1) + 1 = n
    BY <1>17, <1>18
  <2> QED  BY <1>3, <2>1, Slices
<1>12. s.units[j] \in Seq(Int) /\ Len(s.units[j]) = n  BY <1>1, UnitTypes
<1>13. \A i \in 1..n : p[((a + 3) + 1) + i - 1] = s.units[j][i]
  <2>1. \A i \in 1..n : p[(a + 2 + i) + 1] = s.units[j][i]
    BY <1>3, <1>4, <1>5, Zenon
  <2>2. \A i \in 1..n : ((a + 3) + 1) + i - 1 = (a + 2 + i) + 1  BY <1>4
  <2> QED  BY <2>1, <2>2
<1>14. SubSeq(p, (a + 3) + 1, (a + 3) + n) = s.units[j]
  <2>1. PICK q : q = SubSeq(p, (a + 3) + 1, (a + 3) + n)  OBVIOUS
  <2>2. PICK u : u = s.units[j]  OBVIOUS
  <2>3. \A i \in 1..n : q[i] = u[i]  BY <1>11, <1>13, <2>1, <2>2, Zenon
  <2>4. q \in Seq(Int) /\ u \in Seq(Int) /\ Len(q) = n /\ Len(u) = n
    BY <1>11, <1>12, <2>1, <2>2, Zenon
  <2>5. q = u  BY <2>3, <2>4, Equals
  <2> QED  BY <2>1, <2>2, <2>5
<1>15. a < Len(p) - 1 /\ a + 3 + n <= Len(p)  BY <1>17, <1>18
<1>16. FindsNext(s, j, a, p, n)
  BY <1>4, <1>9, <1>10, <1>14, <1>15, Zenon DEF FindsNext
<1> QED  BY <1>1, <1>16, Zenon

-----------------------------------------------------------------------------
(* What is left to receive.                                                 *)

AllSendable(sends) == sends \in Seq(Sendings) /\ \A i \in 1..Len(sends) : Sendable(sends[i])

Grams(sends) == [i \in 1..Len(sends) |-> Datagrams(sends[i])]

\* The datagrams of the first k sendings, one after the other.
Upto(sends) ==
  CHOOSE f : /\ Joins(f, Grams(sends), Len(sends), Seq(Int))
             /\ FlattenSeq(Grams(sends)) = f[Len(sends)]

\* What is left when k sendings and r datagrams of the next were received.
Behind(left, sends, k, r) ==
  /\ left \in Seq(Seq(Int)) /\ Len(left) = Len(Upto(sends)[Len(sends)]) - Len(Upto(sends)[k]) - r
  /\ \A q \in 1..Len(left) :
        left[q] = Upto(sends)[Len(sends)][Len(Upto(sends)[k]) + r + q]

\* A sending is one datagram at least, one for each fragment of a unit.
LEMMA DatagramTypes ==
  ASSUME NEW s, Sendable(s)
  PROVE  /\ Datagrams(s) \in Seq(Seq(Int)) /\ Len(Datagrams(s)) \in Nat \ {0}
         /\ s.how = "fu" => /\ Cut(s.units[1], s.cuts) /\ Len(Datagrams(s)) = Len(s.cuts)
                            /\ Datagrams(s) = Fragments(s.units[1], s.cuts)
<1>1. s.how \in {"single", "stap", "fu"}  BY UnitTypes
<1>2. CASE s.how = "single"
  <2>1. Datagrams(s) = s.units  BY <1>2 DEF Datagrams
  <2>2. \A i \in 1..Len(s.units) : s.units[i] \in Seq(Int)  BY UnitTypes
  <2>3. s.units \in Seq(Seq(0..255))  BY DEF Sendable, Sendings
  <2>4. Len(s.units) \in Nat \ {0}  BY UnitTypes
  <2>5. s.units \in Seq(Seq(Int))
    <3> s.units = [i \in 1..Len(s.units) |-> s.units[i]]  BY <2>3
    <3> s.units \in [1..Len(s.units) -> Seq(Int)]  BY <2>2
    <3> QED  BY <2>4
  <2> QED  BY <1>2, <2>1, <2>4, <2>5
<1>3. CASE s.how = "stap"
  <2>1. Datagrams(s) = <<Aggregated(s.units)>>  BY <1>3 DEF Datagrams
  <2>2. PICK p : p = Datagrams(s)[1]  OBVIOUS
  <2>3. p \in Seq(Int) /\ p = Aggregated(s.units)
    <3> \A all : all = Walked(s, Len(s.units)) =>
           p \in Seq(Int) /\ p = Aggregated(s.units)
      BY <1>3, <2>2, StapUnpacked
    <3> QED  OBVIOUS
  <2>4. <<p>> \in Seq(Seq(Int)) /\ Len(<<p>>) = 1  BY <2>3
  <2> QED  BY <1>3, <2>1, <2>3, <2>4
<1>4. CASE s.how = "fu"
  <2>1. PICK unit, cuts : unit = s.units[1] /\ cuts = s.cuts  OBVIOUS
  <2>2. Cut(unit, cuts)
    <3>1. 1 \in 1..Len(s.units)  BY <1>4 DEF Sendable
    <3>2. unit \in Seq(0..255) /\ cuts \in Seq(Nat)  BY <2>1, <3>1, UnitTypes
    <3> QED  BY <1>4, <2>1, <3>2 DEF Cut, Sendable
  <2>3. Datagrams(s) = Fragments(unit, cuts)  BY <1>4, <2>1 DEF Datagrams
  <2>4. \A r \in 1..Len(cuts) : Fragments(unit, cuts)[r] \in Seq(Int)
    BY <2>2, FragmentUnpacked DEF FragmentMade
  <2>5. Len(cuts) \in Nat \ {0}
    <3> Len(cuts) \in Nat /\ Len(cuts) > 1 BY <2>2 DEF Cut
    <3> QED OBVIOUS
  <2>6. \E g : Fragments(unit, cuts) = [r \in 1..Len(cuts) |-> g[r]]
    <3> DEFINE Top(r) == CASE r = 1 -> 128 [] r = Len(cuts) -> 64 [] OTHER -> 0
               Fragment(r) == <<(unit[1] \div 32) * 32 + 28, Top(r) + (unit[1] % 32)>>
                                \o SubSeq(unit, Ends(cuts)[r - 1] + 1, Ends(cuts)[r])
               g == [r \in 1..Len(cuts) |-> Fragment(r)]
    <3>1. Fragments(unit, cuts) = g  BY Zenon DEF Fragments
    <3> HIDE DEF Fragment
    <3>2. g = [r \in 1..Len(cuts) |-> g[r]]  OBVIOUS
    <3> HIDE DEF g
    <3> QED  BY <3>1, <3>2
  <2>7. Fragments(unit, cuts) \in [1..Len(cuts) -> Seq(Int)]  BY <2>4, <2>6
  <2>8. \A n \in Nat : \A f \in [1..n -> Seq(Int)] : f \in Seq(Seq(Int)) /\ Len(f) = n
    OBVIOUS
  <2>9. /\ Fragments(unit, cuts) \in Seq(Seq(Int))
        /\ Len(Fragments(unit, cuts)) = Len(cuts)
    BY <2>5, <2>7, <2>8
  <2> QED  BY <1>4, <2>1, <2>2, <2>3, <2>5, <2>9
<1> QED  BY <1>1, <1>2, <1>3, <1>4

\* Upto is a function of that kind, over all sendings.
LEMMA UptoIs ==
  ASSUME NEW sends, AllSendable(sends)
  PROVE  /\ Len(sends) \in Nat
         /\ Joins(Upto(sends), Grams(sends), Len(sends), Seq(Int))
         /\ AllSeqs(Grams(sends), Len(sends), Seq(Int))
         /\ FlattenSeq(Grams(sends)) = Upto(sends)[Len(sends)]
<1>1. PICK n : n = Len(sends)  OBVIOUS
<1>2. n \in Nat /\ \A i \in 1..n : Sendable(sends[i])  BY <1>1 DEF AllSendable
<1>3. \A i \in 1..n : Datagrams(sends[i]) \in Seq(Seq(Int))  BY <1>2, DatagramTypes
<1>4. Grams(sends) \in [1..n -> Seq(Seq(Int))]  BY <1>1, <1>3 DEF Grams
<1>5. \A f \in [1..n -> Seq(Seq(Int))] : f \in Seq(Seq(Seq(Int))) /\ Len(f) = n
  BY <1>2
<1>6. Grams(sends) \in Seq(Seq(Seq(Int))) /\ Len(Grams(sends)) = n
  BY <1>4, <1>5, Zenon
<1>7. \E f : /\ Joins(f, Grams(sends), Len(sends), Seq(Int))
             /\ FlattenSeq(Grams(sends)) = f[Len(sends)]
  BY <1>1, <1>6, FlattenSeqDef
<1>8. AllSeqs(Grams(sends), n, Seq(Int))
  <2> \A i \in 1..n : Grams(sends)[i] \in Seq(Seq(Int))  BY <1>4
  <2> QED  BY DEF AllSeqs
<1> QED  BY <1>1, <1>2, <1>7, <1>8, Zenon DEF Upto

\* At first everything is left.
LEMMA BehindStart ==
  ASSUME NEW sends, AllSendable(sends)
  PROVE  Behind(FlattenSeq(Grams(sends)), sends, 0, 0)
<1>1. PICK n, f : n = Len(sends) /\ f = Upto(sends)  OBVIOUS
<1>2. n \in Nat /\ Joins(f, Grams(sends), n, Seq(Int)) /\ FlattenSeq(Grams(sends)) = f[n]
  BY <1>1, UptoIs
<1>3. f[n] \in Seq(Seq(Int)) /\ f[0] = << >>  BY <1>2 DEF Joins
<1>4. Len(f[n]) \in Nat /\ Len(f[0]) = 0  BY <1>3
<1>5. Behind(f[n], sends, 0, 0)  BY <1>1, <1>3, <1>4 DEF Behind
<1> QED  BY <1>2, <1>5

\* What the datagrams of one sending are among all.
LEMMA Among ==
  ASSUME NEW sends, AllSendable(sends), NEW k \in 0..Len(sends), k < Len(sends)
  PROVE  /\ Len(Upto(sends)[k]) \in Nat /\ Len(Upto(sends)[Len(sends)]) \in Nat
         /\ Len(Upto(sends)[k + 1]) = Len(Upto(sends)[k]) + Len(Datagrams(sends[k + 1]))
         /\ Len(Upto(sends)[k + 1]) <= Len(Upto(sends)[Len(sends)])
         /\ Len(Datagrams(sends[k + 1])) \in Nat \ {0}
         /\ \A r \in 1..Len(Datagrams(sends[k + 1])) :
              Upto(sends)[Len(sends)][Len(Upto(sends)[k]) + r] = Datagrams(sends[k + 1])[r]
<1>1. PICK n, f, g, j : /\ n = Len(sends) /\ f = Upto(sends)
                        /\ g = Grams(sends) /\ j = k + 1
  OBVIOUS
<1>2. n \in Nat /\ Joins(f, g, n, Seq(Int)) /\ AllSeqs(g, n, Seq(Int))
  BY <1>1, UptoIs
<1>3. j \in 1..n /\ j - 1 = k  BY <1>1, <1>2
<1>4. JoinsAt(f, g, n, Seq(Int), j)  BY <1>2, <1>3, JoinsItem
<1>5. /\ f[n] \in Seq(Seq(Int)) /\ f[k] \in Seq(Seq(Int))
      /\ Len(f[j]) = Len(f[k]) + Len(g[j]) /\ Grows(f[j], f[n])
      /\ \A r \in 1..Len(g[j]) : f[n][Len(f[k]) + r] = g[j][r]
  BY <1>3, <1>4, Zenon DEF JoinsAt
<1>6. g[j] = Datagrams(sends[j])  BY <1>1, <1>3 DEF Grams
<1>7. Len(Datagrams(sends[j])) \in Nat \ {0}
  <2> Sendable(sends[j])  BY <1>1, <1>3 DEF AllSendable
  <2> QED  BY DatagramTypes
<1>8. Len(f[n]) \in Nat /\ Len(f[k]) \in Nat /\ Len(f[j]) <= Len(f[n])
  <2>1. \A q \in Seq(Seq(Int)) : Len(q) \in Nat  OBVIOUS
  <2>2. Len(f[j]) <= Len(f[n])  BY <1>5, Zenon DEF Grows
  <2> QED  BY <1>5, <2>1, <2>2, Zenon
<1> QED  BY <1>1, <1>5, <1>6, <1>7, <1>8, Zenon

\* The next datagram is the next of the sending at work.
LEMMA BehindHead ==
  ASSUME NEW sends, AllSendable(sends), NEW k \in 0..Len(sends), k < Len(sends),
         NEW r \in Nat, r < Len(Datagrams(sends[k + 1])),
         NEW left, Behind(left, sends, k, r)
  PROVE  /\ left # << >> /\ Head(left) = Datagrams(sends[k + 1])[r + 1]
         /\ Behind(Tail(left), sends, k, r + 1)
<1>1. PICK all, b, e, d : /\ all = Upto(sends)[Len(sends)] /\ b = Len(Upto(sends)[k])
                          /\ e = Len(all) /\ d = Datagrams(sends[k + 1])
  OBVIOUS
<1>2. /\ b \in Nat /\ e \in Nat /\ Len(d) \in Nat /\ b + Len(d) <= e
      /\ \A i \in 1..Len(d) : all[b + i] = d[i]
  BY <1>1, Among
<1>3. /\ left \in Seq(Seq(Int)) /\ Len(left) = e - b - r
      /\ \A q \in 1..Len(left) : left[q] = all[b + r + q]
  BY <1>1 DEF Behind
<1>4. r < Len(d)  BY <1>1
<1>5. Len(left) \in Nat \ {0}  BY <1>2, <1>3, <1>4
<1>6. left # << >> /\ Head(left) = left[1]  BY <1>3, <1>5
<1>7. left[1] = d[r + 1]
  <2>1. left[1] = all[b + r + 1]  BY <1>3, <1>5
  <2>2. r + 1 \in 1..Len(d) /\ b + r + 1 = b + (r + 1)  BY <1>2, <1>4
  <2>3. all[b + (r + 1)] = d[r + 1]  BY <1>2, <2>2, Zenon
  <2> QED  BY <2>1, <2>2, <2>3, Zenon
<1>8. /\ Tail(left) \in Seq(Seq(Int)) /\ Len(Tail(left)) = Len(left) - 1
      /\ \A q \in 1..Len(left) - 1 : Tail(left)[q] = left[q + 1]
  BY <1>3, <1>6
<1>9. Len(Tail(left)) = e - b - (r + 1)  BY <1>2, <1>3, <1>8
<1>10. ASSUME NEW q \in 1..Len(Tail(left)) PROVE Tail(left)[q] = all[b + (r + 1) + q]
  <2>1. q + 1 \in 1..Len(left) /\ q \in 1..Len(left) - 1  BY <1>5, <1>8
  <2>2. Tail(left)[q] = left[q + 1]  BY <1>8, <2>1, Zenon
  <2>3. left[q + 1] = all[b + r + (q + 1)]  BY <1>3, <2>1, Zenon
  <2>4. b + r + (q + 1) = b + (r + 1) + q  BY <1>2
  <2> QED  BY <2>2, <2>3, <2>4, Zenon
<1>11. Behind(Tail(left), sends, k, r + 1)
  BY <1>1, <1>8, <1>9, <1>10, Zenon DEF Behind
<1> QED  BY <1>1, <1>6, <1>7, <1>11, Zenon

\* When all datagrams of a sending were received, the next sending is at work.
LEMMA BehindNext ==
  ASSUME NEW sends, AllSendable(sends), NEW k \in 0..Len(sends), k < Len(sends),
         NEW left, Behind(left, sends, k, Len(Datagrams(sends[k + 1])))
  PROVE  Behind(left, sends, k + 1, 0)
<1>1. PICK all, b, e, d : /\ all = Upto(sends)[Len(sends)] /\ b = Len(Upto(sends)[k])
                          /\ e = Len(all) /\ d = Len(Datagrams(sends[k + 1]))
  OBVIOUS
<1>2. /\ b \in Nat /\ e \in Nat /\ d \in Nat
      /\ Len(Upto(sends)[k + 1]) = b + d
  BY <1>1, Among
<1>3. /\ left \in Seq(Seq(Int)) /\ Len(left) = e - b - d
      /\ \A q \in 1..Len(left) : left[q] = all[b + d + q]
  BY <1>1 DEF Behind
<1>4. e - b - d = e - (b + d) - 0 /\ b + d + 0 = b + d  BY <1>2
<1>5. Len(left) = e - (b + d) - 0  BY <1>3, <1>4, Zenon
<1>6. \A q \in 1..Len(left) : left[q] = all[(b + d) + 0 + q]  BY <1>3, <1>4, Zenon
<1> QED  BY <1>1, <1>2, <1>3, <1>5, <1>6, Zenon DEF Behind

\* When all sendings were received, nothing is left.
LEMMA BehindEnd ==
  ASSUME NEW sends, AllSendable(sends), NEW left, Behind(left, sends, Len(sends), 0)
  PROVE  left = << >>
<1>1. PICK n, f : n = Len(sends) /\ f = Upto(sends)  OBVIOUS
<1>2. n \in Nat /\ Joins(f, Grams(sends), n, Seq(Int))  BY <1>1, UptoIs
<1>3. Len(f[n]) \in Nat
  <2> f[n] \in Seq(Seq(Int))  BY <1>2 DEF Joins
  <2> QED OBVIOUS
<1>4. left \in Seq(Seq(Int)) /\ Len(left) = Len(f[n]) - Len(f[n]) - 0
  BY <1>1 DEF Behind
<1>5. Len(left) = 0  BY <1>3, <1>4
<1> QED  BY <1>4, <1>5, EmptySeq

-----------------------------------------------------------------------------
(* The invariant: how far the receiver has come in the sending at work.     *)

\* The unit up to the end of its r-th fragment.
Piece(s, r) == StartCode \o SubSeq(s.units[1], 1, Ends(s.cuts)[r])

FuData(packet, s, r) == packet = [data |-> Piece(s, r), size |-> PacketMax]

\* All units up to the j-th are written.  An empty one at the end takes nidx one
\* byte too far, and the walk ends all the same.
Walking(packet, n, s) ==
  \E j \in 0..Len(s.units) :
    /\ packet = [data |-> Written(s, j), size |-> BufSize]
    /\ \/ n = Len(Walked(s, j))
       \/ j = Len(s.units) /\ n = Len(Walked(s, j)) + 1

\* What av_packet has while the next datagram is waited for.
Between(s, r, packet) ==
  \/ r = 0
  \/ s.how = "fu" /\ r \in 1..Len(s.cuts) - 1 /\ FuData(packet, s, r)

\* What the r-th datagram of a sending was made.
Made(s, r, data, unpacked) ==
  /\ r \in 1..Len(Datagrams(s)) /\ data = Datagrams(s)[r]
  /\ unpacked.nal = Nal(data) /\ unpacked.out = OutBuffer(data)
  /\ unpacked.nal = 28 => unpacked.flag = FuFlag(data)

\* What it has while the r-th is worked on.
AtWork(s, r, at, packet, n) ==
  \/ at = "fu" /\ s.how = "fu" /\ (r # 1 => FuData(packet, s, r - 1))
  \/ at = "stap" /\ s.how = "stap"
  \/ at = "walk" /\ s.how = "stap" /\ Walking(packet, n, s)
  \/ at \in {"parse", "store"} /\ s.how = "stap" /\ packet.data = ByteStream(s)
  \/ at \in {"parse", "store"} /\ s.how = "single"

\* r datagrams of the sending behind those queued were received.
Received(r) ==
  LET sends == stream.sends
      k == Len(queue)
  IN /\ Behind(inbox, sends, k, r)
     /\ k = Len(sends) => upc = "recv" /\ r = 0
     /\ k # Len(sends) /\ upc = "recv" => Between(sends[k + 1], r, av_packet)
     /\ k # Len(sends) /\ upc # "recv" =>
          /\ Made(sends[k + 1], r, payload, rtp_packet)
          /\ AtWork(sends[k + 1], r, upc, av_packet, nidx)

\* The sendings queued are the first of the stream.
Queued ==
  LET sends == stream.sends
  IN /\ queue \in Seq(Seq(Int)) /\ Len(queue) <= Len(sends)
     /\ \A i \in 1..Len(queue) : queue[i] = ByteStream(sends[i])

InBounds == copied.end <= BufSize /\ copied.size <= copied.room

WellSent == stream \in Streams /\ AllSendable(stream.sends)

UnpackInv == Queued /\ InBounds /\ \E r \in Nat : Received(r)

-----------------------------------------------------------------------------
(* What a datagram of a sending that fits is made, and what becomes of it.  *)

Well(copy) == copy.end <= BufSize /\ copy.size <= copy.room

\* The r-th datagram, of its type, is unpacked within the buffers.
Unpacks(s, r, p) ==
  /\ p \in Seq(Int) /\ OutBuffer(p) # << >> /\ Well(UnpackCopy(p))
  /\ OutBuffer(p) \in Seq(Int) /\ Len(OutBuffer(p)) <= BufSize
  /\ HeadLen + 5 + Len(p) <= BufSize
  /\ s.how = "fu" => Nal(p) = 28 /\ FuFlag(p) = Marked(s.cuts, r)
  /\ s.how = "stap" => Nal(p) = 24
  /\ s.how = "single" => Nal(p) \notin {24, 28}

\* Every datagram that fits is unpacked within its buffers.
LEMMA DatagramUnpacked ==
  ASSUME NEW s, Sendable(s), Fits(s), NEW r \in 1..Len(Datagrams(s))
  PROVE  Unpacks(s, r, Datagrams(s)[r])
<1>1. PICK p : p = Datagrams(s)[r]  OBVIOUS
<1>2. HeadLen + 5 + Len(p) <= BufSize /\ p \in Seq(Int)
  <2>1. HeadLen + 5 + Len(p) <= BufSize  BY <1>1 DEF Fits
  <2>2. Datagrams(s) \in Seq(Seq(Int))  BY DatagramTypes
  <2> QED  BY <1>1, <2>1, <2>2, ElementOfSeq
<1>3. PICK n : n = Len(p)  OBVIOUS
<1>4. n \in Nat /\ HeadLen \in Nat /\ HeadLen > 2 /\ BufSize \in Nat
      /\ HeadLen + 5 + n <= BufSize
  BY <1>2, <1>3, UnpackAssumption
<1>5. ASSUME Nal(p) # 28, OutBuffer(p) = StartCode \o p
      PROVE  /\ OutBuffer(p) # << >> /\ Well(UnpackCopy(p))
             /\ OutBuffer(p) \in Seq(Int) /\ Len(OutBuffer(p)) <= BufSize
  <2>1. StartCode \o p \in Seq(Int) /\ Len(StartCode \o p) = 4 + n
    BY <1>2, <1>3, Coding
  <2>2. Len(StartCode \o p) <= BufSize /\ Len(StartCode \o p) # 0  BY <1>4, <2>1
  <2>3. UnpackCopy(p) = [end |-> HeadLen + n, size |-> 4 + n, room |-> BufSize]
    BY <1>3, <1>5 DEF UnpackCopy, Copy
  <2>4. HeadLen + n <= BufSize /\ 4 + n <= BufSize  BY <1>4
  <2>5. Well(UnpackCopy(p))  BY <2>3, <2>4 DEF Well
  <2>6. StartCode \o p # << >>  BY <2>1, <2>2, EmptySeq
  <2> QED  BY <1>5, <2>1, <2>2, <2>5, <2>6
<1>6. CASE s.how = "single"
  <2>1. Len(Datagrams(s)) = 1 /\ \A q : q = Datagrams(s)[1] =>
           Nal(q) \notin {24, 28} /\ OutBuffer(q) = StartCode \o q
    BY <1>6, SingleUnpacked
  <2>2. r = 1  BY <2>1
  <2>3. Nal(p) \notin {24, 28} /\ OutBuffer(p) = StartCode \o p  BY <1>1, <2>1, <2>2
  <2> QED  BY <1>1, <1>2, <1>5, <1>6, <2>3 DEF Unpacks
<1>7. CASE s.how = "stap"
  <2>1. \A q, all : q = Datagrams(s)[1] /\ all = Walked(s, Len(s.units)) =>
           Len(Datagrams(s)) = 1 /\ Nal(q) = 24 /\ OutBuffer(q) = StartCode \o q
    BY <1>7, StapUnpacked
  <2>2. Len(Datagrams(s)) = 1  BY <2>1
  <2>3. r = 1  BY <2>2
  <2>4. Nal(p) = 24 /\ OutBuffer(p) = StartCode \o p  BY <1>1, <2>1, <2>3
  <2> QED  BY <1>1, <1>2, <1>5, <1>7, <2>4 DEF Unpacks
<1>8. CASE s.how = "fu"
  <2>1. PICK unit, cuts : unit = s.units[1] /\ cuts = s.cuts  OBVIOUS
  <2>2. Cut(unit, cuts) /\ r \in 1..Len(cuts) /\ p = Fragments(unit, cuts)[r]
    BY <1>1, <1>8, <2>1, DatagramTypes
  <2>3. PICK c, e, b : c = cuts[r] /\ e = Ends(cuts)[r] /\ b = Ends(cuts)[r - 1]  OBVIOUS
  <2>4. /\ n = 2 + c /\ Nal(p) = 28 /\ FuFlag(p) = Marked(cuts, r)
        /\ OutBuffer(p) = IF r = 1 THEN StartCode \o SubSeq(unit, 1, Ends(cuts)[1])
                          ELSE SubSeq(unit, Ends(cuts)[r - 1] + 1, Ends(cuts)[r])
    <3>1. FragmentMade(unit, cuts, r, p)  BY <2>2, FragmentUnpacked
    <3> QED  BY <1>3, <2>3, <3>1, Zenon DEF FragmentMade
  <2>5. c \in Nat \ {0}
    <3> cuts[r] \in Nat  BY <2>2, CutParts
    <3> cuts[r] > 0  BY <1>8, <2>1, <2>2 DEF Fits
    <3> QED  BY <2>3
  <2>6. OutBuffer(p) \in Seq(Int) /\ Len(OutBuffer(p)) = IF r = 1 THEN 5 + c ELSE c
    <3>1. CASE r = 1
      <4>1. /\ unit \in Seq(Int) /\ Len(unit) \in Nat /\ Ends(cuts)[0] = 1
            /\ Ends(cuts)[r] \in 1..Len(unit)
            /\ Ends(cuts)[r] = Ends(cuts)[r - 1] + cuts[r]
        BY <2>2, CutParts
      <4>2. e = 1 + c /\ e \in 1..Len(unit) /\ r - 1 = 0  BY <2>3, <3>1, <4>1
      <4>3. SubSeq(unit, 1, e) \in Seq(Int) /\ Len(SubSeq(unit, 1, e)) = e - 1 + 1
        <5> 1 \in 1..Len(unit) + 1 /\ e \in 1 - 1..Len(unit)  BY <4>1, <4>2
        <5> QED  BY <4>1, Slices
      <4>5. /\ StartCode \o SubSeq(unit, 1, e) \in Seq(Int)
            /\ Len(StartCode \o SubSeq(unit, 1, e)) = 4 + (e - 1 + 1)
        BY <4>3, Coding, Zenon
      <4>6. 4 + (e - 1 + 1) = 5 + c  BY <2>5, <4>2
      <4>7. OutBuffer(p) = StartCode \o SubSeq(unit, 1, e)  BY <2>3, <2>4, <3>1
      <4> QED  BY <3>1, <4>5, <4>6, <4>7
    <3>2. CASE r # 1
      <4>1. /\ SubSeq(unit, Ends(cuts)[r - 1] + 1, Ends(cuts)[r]) \in Seq(Int)
            /\ Len(SubSeq(unit, Ends(cuts)[r - 1] + 1, Ends(cuts)[r])) = cuts[r]
        BY <2>2, CutParts
      <4> QED  BY <2>3, <2>4, <3>2, <4>1
    <3> QED  BY <3>1, <3>2
  <2>7. OutBuffer(p) # << >> /\ Len(OutBuffer(p)) <= BufSize
    <3>1. Len(OutBuffer(p)) # 0 /\ Len(OutBuffer(p)) <= BufSize
      BY <1>4, <2>4, <2>5, <2>6
    <3> QED  BY <2>6, <3>1, EmptySeq
  <2>8. Well(UnpackCopy(p))
    <3>1. \/ UnpackCopy(p) = [end |-> HeadLen + n + 5, size |-> n + 8, room |-> BufSize]
          \/ UnpackCopy(p) = [end |-> HeadLen + n, size |-> n - 2, room |-> BufSize]
      BY <1>3, <2>4 DEF UnpackCopy, Copy
    <3>2. /\ HeadLen + n + 5 <= BufSize /\ n + 8 <= BufSize
          /\ HeadLen + n <= BufSize /\ n - 2 <= BufSize
      BY <1>4
    <3> QED  BY <3>1, <3>2 DEF Well
  <2> QED  BY <1>1, <1>2, <1>8, <2>1, <2>4, <2>6, <2>7, <2>8 DEF Unpacks
<1> QED  BY <1>6, <1>7, <1>8, UnitTypes

\* What the r-th fragment adds.
Fills(s, r, out) ==
  /\ r = 1 => << >> \o out = Piece(s, 1)
  /\ r # 1 => Piece(s, r - 1) \o out = Piece(s, r)
  /\ Piece(s, r) \in Seq(Int) /\ Len(Piece(s, r)) <= PacketMax
  /\ r = Len(s.cuts) => Piece(s, r) = ByteStream(s)

\* Every fragment continues the unit, and the last completes it, within PacketMax.
LEMMA FragmentFills ==
  ASSUME NEW s, Sendable(s), Fits(s), s.how = "fu", NEW r \in 1..Len(s.cuts)
  PROVE  Fills(s, r, OutBuffer(Datagrams(s)[r]))
<1>1. PICK unit, cuts : unit = s.units[1] /\ cuts = s.cuts  OBVIOUS
<1>2. PICK p, out : p = Datagrams(s)[r] /\ out = OutBuffer(p)  OBVIOUS
<1>3. Cut(unit, cuts) /\ p = Fragments(unit, cuts)[r] /\ r \in 1..Len(cuts)
  BY <1>1, <1>2, DatagramTypes
<1>4. out = IF r = 1 THEN StartCode \o SubSeq(unit, 1, Ends(cuts)[1])
            ELSE SubSeq(unit, Ends(cuts)[r - 1] + 1, Ends(cuts)[r])
  <2>1. FragmentMade(unit, cuts, r, p)  BY <1>3, FragmentUnpacked
  <2> QED  BY <1>2, <2>1, Zenon DEF FragmentMade
<1>5. PICK b, e : b = Ends(cuts)[r - 1] /\ e = Ends(cuts)[r]  OBVIOUS
<1>6. /\ unit \in Seq(Int) /\ Len(unit) \in Nat /\ b \in 1..Len(unit) /\ e \in 1..Len(unit)
      /\ e = b + cuts[r] /\ cuts[r] \in Nat
      /\ SubSeq(unit, b + 1, e) \in Seq(Int)
  BY <1>3, <1>5, CutParts
<1>7. \A k \in 1..Len(unit) : /\ SubSeq(unit, 1, k) \in Seq(Int)
                              /\ Len(SubSeq(unit, 1, k)) = k
  <2> SUFFICES ASSUME NEW k \in 1..Len(unit)
               PROVE  SubSeq(unit, 1, k) \in Seq(Int) /\ Len(SubSeq(unit, 1, k)) = k
    OBVIOUS
  <2>1. 1 \in 1..Len(unit) + 1 /\ k \in 1 - 1..Len(unit) /\ k - 1 + 1 = k  BY <1>6
  <2>2. SubSeq(unit, 1, k) \in Seq(Int) /\ Len(SubSeq(unit, 1, k)) = k - 1 + 1
    BY <1>6, <2>1, Slices
  <2> QED  BY <2>1, <2>2
<1>8. /\ StartCode \o SubSeq(unit, 1, e) \in Seq(Int)
      /\ Len(StartCode \o SubSeq(unit, 1, e)) = 4 + e
  BY <1>6, <1>7, Coding, Zenon
<1>9. Piece(s, r) = StartCode \o SubSeq(unit, 1, e)  BY <1>1, <1>5 DEF Piece
<1>10. Len(Piece(s, r)) <= PacketMax
  <2>1. PICK n : n = Len(unit)  OBVIOUS
  <2>2. n + 4 <= PacketMax  BY <1>1, <2>1 DEF Fits
  <2>3. e <= n /\ e \in Nat /\ n \in Nat /\ PacketMax \in Nat  BY <1>6, <2>1, UnpackAssumption
  <2>4. 4 + e <= PacketMax  BY <2>2, <2>3
  <2> QED  BY <1>8, <1>9, <2>4, Zenon
<1>11. ASSUME r = 1 PROVE << >> \o out = Piece(s, 1)
  <2>1. out = StartCode \o SubSeq(unit, 1, e)  BY <1>4, <1>5, <1>11
  <2>2. << >> \o out = out  BY <1>8, <2>1, ConcatEmptySeq
  <2> QED  BY <1>9, <1>11, <2>1, <2>2
<1>12. ASSUME r # 1 PROVE Piece(s, r - 1) \o out = Piece(s, r)
  <2>1. out = SubSeq(unit, b + 1, e)  BY <1>4, <1>5, <1>12
  <2>2. Piece(s, r - 1) = StartCode \o SubSeq(unit, 1, b)  BY <1>1, <1>5 DEF Piece
  <2>3. SubSeq(unit, 1, b) \o SubSeq(unit, b + 1, e) = SubSeq(unit, 1, e)
    <3> b \in 0..Len(unit) /\ e \in b..Len(unit)  BY <1>6
    <3> QED  BY <1>6, Adjacent
  <2>4. (StartCode \o SubSeq(unit, 1, b)) \o SubSeq(unit, b + 1, e)
          = StartCode \o (SubSeq(unit, 1, b) \o SubSeq(unit, b + 1, e))
    <3> StartCode \in Seq(Int)  BY DEF StartCode
    <3> QED  BY <1>6, <1>7, CatAssoc, ZenonT(60)
  <2> QED  BY <1>9, <2>1, <2>2, <2>3, <2>4, Zenon
<1>13. ASSUME r = Len(s.cuts) PROVE Piece(s, r) = ByteStream(s)
  <2>1. e = Len(unit)  BY <1>1, <1>3, <1>5, <1>13 DEF Cut
  <2>2. SubSeq(unit, 1, Len(unit)) = unit  BY <1>6, SubSeqFull
  <2>3. ByteStream(s) = StartCode \o unit
    <3> Len(s.units) = 1  BY DEF Sendable
    <3> QED  BY <1>1, OneUnit
  <2> QED  BY <1>9, <2>1, <2>2, <2>3, Zenon
<1>14. Fills(s, r, out)
  BY <1>8, <1>9, <1>10, <1>11, <1>12, <1>13 DEF Fills
<1> QED  BY <1>2, <1>14

\* From the unit before the j-th, nidx at a, to the j-th, nidx at b.
Rounds(s, j, a, b, p, n) ==
  /\ a < Len(p) - 1 /\ n \in Nat /\ a \in Nat
  /\ 256 * Byte(p, a + 1) + Byte(p, a + 2) = n
  /\ Written(s, j - 1) \o StartCode \o Bytes(p, a + 3, n) = Written(s, j)
  /\ Len(Written(s, j)) <= BufSize /\ HeadLen + a + 3 + n <= BufSize
  /\ n = 0 => j = Len(s.units) /\ a + 3 = b + 1
  /\ n # 0 => a + (n + 2) = b

\* Every round of the walk takes the next unit, within BufSize.
LEMMA StapWrites ==
  ASSUME NEW s, Sendable(s), Fits(s), s.how = "stap", NEW j \in 1..Len(s.units)
  PROVE  Rounds(s, j, Len(Walked(s, j - 1)), Len(Walked(s, j)), Datagrams(s)[1],
                Len(s.units[j]))
<1>1. PICK a, b, p, n : /\ a = Len(Walked(s, j - 1)) /\ b = Len(Walked(s, j))
                        /\ p = Datagrams(s)[1] /\ n = Len(s.units[j])
  OBVIOUS
<1>2. PICK m, all : m = Len(s.units) /\ all = Walked(s, m)  OBVIOUS
<1>3. /\ a < Len(p) - 1 /\ n \in Nat /\ a \in Nat /\ a + 3 + n <= Len(p)
      /\ 256 * Byte(p, a + 1) + Byte(p, a + 2) = n
      /\ Bytes(p, a + 3, n) = s.units[j]
  <2>1. FindsNext(s, j, a, p, n)  BY <1>1, StapRound
  <2> QED  BY <2>1, Zenon DEF FindsNext
<1>4. b = a + 2 + n
  <2>1. WalksOver(s, j, n, a, all)  BY <1>1, <1>2, WalkedStep
  <2> QED  BY <1>1, <2>1, Zenon DEF WalksOver
<1>5. Written(s, j - 1) \o StartCode \o Bytes(p, a + 3, n) = Written(s, j)
  <2>1. Written(s, j) = (Written(s, j - 1) \o StartCode) \o s.units[j]  BY WrittenStep
  <2> QED  BY <1>3, <2>1, Zenon
<1>6. m \in Nat \ {0} /\ j \in 1..m /\ s.units[j] \in Seq(Int)
  BY <1>2, UnitTypes
<1>7. /\ Len(p) = 1 + Len(all) /\ Len(all) \in Nat /\ p = Aggregated(s.units)
      /\ 1 \in 1..Len(Datagrams(s))
  <2>1. \A q, x : q = Datagrams(s)[1] /\ x = Walked(s, Len(s.units)) =>
           /\ Len(Datagrams(s)) = 1 /\ Len(q) = 1 + Len(x) /\ Len(x) \in Nat
           /\ q = Aggregated(s.units)
    BY StapUnpacked
  <2>2. Len(Datagrams(s)) = 1 /\ Len(p) = 1 + Len(all) /\ Len(all) \in Nat
        /\ p = Aggregated(s.units)
    BY <1>1, <1>2, <2>1, Zenon
  <2>3. 1 \in 1..Len(Datagrams(s))  BY <2>2
  <2> QED  BY <2>2, <2>3, Zenon
<1>8. /\ HeadLen + 5 + Len(p) <= BufSize /\ Len(p) + 2 * m <= BufSize + 1
      /\ \A i \in 1..m - 1 : s.units[i] # << >>
  BY <1>1, <1>2, <1>7 DEF Fits
<1>9. PICK lp, lw : lp = Len(p) /\ lw = Len(Written(s, j))  OBVIOUS
<1>10. lw = b + 2 * j /\ b \in Nat /\ b <= Len(all)
  <2>1. j \in 0..Len(s.units)  BY <1>2, <1>6
  <2> QED  BY <1>1, <1>2, <1>9, <2>1, WrittenLength
<1>11. lp \in Nat /\ lp = 1 + Len(all)  BY <1>7, <1>9
<1>12. lw <= BufSize
  <2>1. lp + 2 * m <= BufSize + 1  BY <1>8, <1>9
  <2>2. 2 * j <= 2 * m  BY <1>6
  <2>3. PICK x, y : x = 2 * j /\ y = 2 * m  OBVIOUS
  <2>4. x \in Nat /\ y \in Nat /\ x <= y  BY <1>6, <2>2, <2>3
  <2>5. lw = b + x /\ lp + y <= BufSize + 1 /\ b <= lp - 1
    BY <1>10, <1>11, <1>7, <2>1, <2>3
  <2> QED  BY <1>10, <1>11, <2>4, <2>5, UnpackAssumption
<1>13. HeadLen + a + 3 + n <= BufSize
  <2>1. HeadLen + 5 + lp <= BufSize  BY <1>8, <1>9, Zenon
  <2>2. a + 3 + n <= lp  BY <1>3, <1>9, Zenon
  <2>3. a \in Nat /\ n \in Nat  BY <1>3
  <2> QED  BY <1>11, <2>1, <2>2, <2>3, UnpackAssumption
<1>14. ASSUME n = 0 PROVE j = m /\ a + 3 = b + 1
  <2>1. a + 3 = b + 1
    <3>1. a \in Nat /\ n \in Nat  BY <1>3
    <3> QED  BY <1>4, <1>14, <3>1
  <2>2. s.units[j] = << >>  BY <1>1, <1>6, <1>14, EmptySeq
  <2>3. j \notin 1..m - 1  BY <1>8, <2>2
  <2>4. j = m  BY <1>6, <2>3
  <2> QED  BY <2>1, <2>4
<1>15. ASSUME n # 0 PROVE a + (n + 2) = b
  <2>1. a \in Nat /\ n \in Nat  BY <1>3
  <2> QED  BY <1>4, <2>1
<1>16. a < Len(p) - 1 /\ n \in Nat /\ a \in Nat
       /\ 256 * Byte(p, a + 1) + Byte(p, a + 2) = n
  BY <1>3, Zenon
<1>17. Rounds(s, j, a, b, p, n)
  BY <1>2, <1>5, <1>9, <1>12, <1>13, <1>14, <1>15, <1>16, Zenon DEF Rounds
<1> QED  BY <1>1, <1>17, Zenon

-----------------------------------------------------------------------------
(* The invariant holds.                                                     *)

Current == stream.sends[Len(queue) + 1]

\* The assumption about the streams, for the one that is sent.
LEMMA StreamSent == stream \in Streams => WellSent
BY StreamsAssumption DEF WellSent, AllSendable

\* If not all sendings are queued, one is at work.
LEMMA AtCurrent ==
  ASSUME WellSent, AllFit, Queued
  PROVE  /\ Len(stream.sends) \in Nat /\ Len(queue) \in 0..Len(stream.sends)
         /\ AllSendable(stream.sends)
         /\ Len(queue) # Len(stream.sends) =>
              Len(queue) < Len(stream.sends) /\ Sendable(Current) /\ Fits(Current)
<1>1. PICK n, k : n = Len(stream.sends) /\ k = Len(queue)  OBVIOUS
<1>2. n \in Nat  BY <1>1, UptoIs DEF WellSent
<1>3. k \in Nat /\ k <= n  BY <1>1 DEF Queued
<1>4. ASSUME k # n PROVE k < n /\ Sendable(Current) /\ Fits(Current)
  <2>1. k < n /\ k + 1 \in 1..n  BY <1>2, <1>3, <1>4
  <2>2. Sendable(Current)  BY <1>1, <2>1 DEF WellSent, AllSendable, Current
  <2>3. Fits(Current)  BY <1>1, <2>1 DEF AllFit, Current
  <2> QED  BY <2>1, <2>2, <2>3
<1> QED  BY <1>1, <1>2, <1>3, <1>4 DEF WellSent

\* The invariant holds at first.
LEMMA UnpackStart ==
  UnpackInit => WellSent /\ (AllFit => UnpackInv)
<1> SUFFICES ASSUME UnpackInit PROVE WellSent /\ (AllFit => UnpackInv)
  OBVIOUS
<1>1. WellSent  BY StreamSent DEF UnpackInit
<1>2. AllSendable(stream.sends)  BY <1>1 DEF WellSent
<1>3. inbox = FlattenSeq(Grams(stream.sends)) /\ upc = "recv" /\ queue = << >>
      /\ copied = [end |-> 0, size |-> 0, room |-> 0]
  BY DEF UnpackInit, Grams, Copy
<1>4. Len(queue) = 0 /\ queue \in Seq(Seq(Int)) /\ Len(stream.sends) \in Nat
  BY <1>2, <1>3, UptoIs
<1>5. Behind(inbox, stream.sends, Len(queue), 0)
  BY <1>2, <1>3, <1>4, BehindStart
<1>6. Received(0)  BY <1>3, <1>5 DEF Received, Between
<1>7. Queued  BY <1>4 DEF Queued
<1>8. InBounds  BY <1>3, UnpackAssumption DEF InBounds
<1> QED  BY <1>1, <1>6, <1>7, <1>8 DEF UnpackInv

\* The step that queues a sending.
LEMMA Completed ==
  ASSUME WellSent, AllFit, Queued, Len(queue) # Len(stream.sends),
         Behind(inbox, stream.sends, Len(queue), Len(Datagrams(Current))),
         queue' = Append(queue, ByteStream(Current)), upc' = "recv",
         stream' = stream, inbox' = inbox
  PROVE  Queued' /\ Received(0)'
<1>1. PICK n, k : n = Len(stream.sends) /\ k = Len(queue)  OBVIOUS
<1>2. /\ n \in Nat /\ k \in 0..n /\ k < n /\ Sendable(Current)
      /\ AllSendable(stream.sends)
  BY <1>1, AtCurrent
<1>3. ByteStream(Current) \in Seq(Int)  BY <1>2, ByteStreamIs
<1>4. PICK b : b = ByteStream(Current)  OBVIOUS
<1>5. /\ queue \in Seq(Seq(Int)) /\ \A i \in 1..k : queue[i] = ByteStream(stream.sends[i])
  BY <1>1 DEF Queued
<1>6. /\ queue' \in Seq(Seq(Int)) /\ Len(queue') = k + 1 /\ queue'[k + 1] = b
      /\ \A i \in 1..k : queue'[i] = queue[i]
  BY <1>1, <1>3, <1>4, <1>5
<1>7. Queued'
  <2>1. ASSUME NEW i \in 1..k + 1 PROVE queue'[i] = ByteStream(stream'.sends[i])
    <3>1. CASE i = k + 1  BY <1>1, <1>4, <1>6, <3>1 DEF Current
    <3>2. CASE i # k + 1
      <4> i \in 1..k  BY <1>2, <3>2
      <4> QED  BY <1>5, <1>6
    <3> QED  BY <3>1, <3>2
  <2>2. k + 1 <= n  BY <1>2
  <2> QED  BY <1>1, <1>6, <2>1, <2>2 DEF Queued
<1>8. Behind(inbox, stream.sends, k + 1, 0)
  BY <1>1, <1>2, BehindNext DEF Current
<1>9. Behind(inbox', stream'.sends, Len(queue'), 0)  BY <1>6, <1>8
<1>10. Received(0)'  BY <1>9 DEF Received, Between
<1> QED  BY <1>7, <1>10

\* UnpackRTPH264 keeps the invariant: it is given the next datagram.
LEMMA UnpackKeeps ==
  ASSUME WellSent, AllFit, UnpackInv, Unpack
  PROVE  UnpackInv'
<1>1. Queued /\ InBounds  BY DEF UnpackInv
<1>2. PICK r \in Nat : Received(r)  BY DEF UnpackInv
<1>3. PICK k, s : k = Len(queue) /\ s = Current  OBVIOUS
<1>4. /\ upc = "recv" /\ inbox # << >> /\ payload' = Head(inbox) /\ inbox' = Tail(inbox)
      /\ copied' = UnpackCopy(payload') /\ upc' = Sorted(rtp_packet')
      /\ stream' = stream /\ av_packet' = av_packet /\ nidx' = nidx /\ queue' = queue
      /\ rtp_packet' = [nal |-> Nal(payload'), out |-> OutBuffer(payload'),
           flag |-> IF Nal(payload') = 28 THEN FuFlag(payload') ELSE rtp_packet.flag]
  BY DEF Unpack
<1>5. Behind(inbox, stream.sends, k, r)  BY <1>2, <1>3 DEF Received
<1>6. k # Len(stream.sends)
  <2>1. ASSUME k = Len(stream.sends) PROVE FALSE
    <3>1. r = 0  BY <1>2, <1>3, <2>1 DEF Received
    <3>2. AllSendable(stream.sends)  BY <1>1, AtCurrent
    <3>3. inbox = << >>  BY <1>5, <2>1, <3>1, <3>2, BehindEnd
    <3> QED  BY <1>4, <3>3
  <2> QED  BY <2>1
<1>7. /\ k \in 0..Len(stream.sends) /\ k < Len(stream.sends) /\ Sendable(s) /\ Fits(s)
      /\ AllSendable(stream.sends)
  BY <1>1, <1>3, <1>6, AtCurrent
<1>8. Between(s, r, av_packet)
  BY <1>2, <1>3, <1>4, <1>6 DEF Received, Current
<1>9. r < Len(Datagrams(s)) /\ r + 1 \in 1..Len(Datagrams(s))
  <2>1. Len(Datagrams(s)) \in Nat \ {0}  BY <1>7, DatagramTypes
  <2>2. r = 0 \/ r < Len(Datagrams(s))
    <3>1. CASE r = 0  BY <3>1
    <3>2. CASE s.how = "fu" /\ r \in 1..Len(s.cuts) - 1
      <4> Len(Datagrams(s)) = Len(s.cuts)  BY <1>7, <3>2, DatagramTypes
      <4> QED  BY <2>1, <3>2
    <3> QED  BY <1>8, <3>1, <3>2 DEF Between
  <2> QED  BY <2>1, <2>2
<1>10. /\ payload' = Datagrams(s)[r + 1] /\ Behind(inbox', stream.sends, k, r + 1)
  BY <1>3, <1>4, <1>5, <1>7, <1>9, BehindHead DEF Current
<1>11. PICK p : p = payload'  OBVIOUS
<1>12. Unpacks(s, r + 1, p)  BY <1>7, <1>9, <1>10, <1>11, DatagramUnpacked
<1>13. OutBuffer(p) # << >> /\ Well(UnpackCopy(p))  BY <1>12 DEF Unpacks
<1>14. InBounds'  BY <1>4, <1>11, <1>13 DEF InBounds, Well
<1>15. Made(s, r + 1, payload', rtp_packet')
  BY <1>4, <1>9, <1>10 DEF Made
<1>16. rtp_packet'.out = OutBuffer(p) /\ rtp_packet'.nal = Nal(p)  BY <1>4, <1>11
<1>17. AtWork(s, r + 1, upc', av_packet', nidx') /\ upc' # "recv"
  <2>1. CASE s.how = "fu"
    <3>1. upc' = "fu"  BY <1>4, <1>12, <1>13, <1>16, <2>1 DEF Sorted, Unpacks
    <3>2. ASSUME r + 1 # 1 PROVE FuData(av_packet', s, (r + 1) - 1)
      <4>1. r # 0 /\ (r + 1) - 1 = r  BY <3>2
      <4>2. FuData(av_packet, s, r)  BY <1>8, <4>1 DEF Between
      <4> QED  BY <1>4, <4>1, <4>2
    <3> QED  BY <2>1, <3>1, <3>2 DEF AtWork
  <2>2. CASE s.how = "stap"
    <3>1. upc' = "stap"  BY <1>4, <1>12, <1>13, <1>16, <2>2 DEF Sorted, Unpacks
    <3> QED  BY <2>2, <3>1 DEF AtWork
  <2>3. CASE s.how = "single"
    <3>1. upc' \in {"parse", "store"}
      <4>1. Nal(p) # 28 /\ Nal(p) # 24  BY <1>12, <2>3 DEF Unpacks
      <4>2. CASE Nal(p) = 7  BY <1>4, <1>13, <1>16, <4>2 DEF Sorted
      <4>3. CASE Nal(p) # 7  BY <1>4, <1>13, <1>16, <4>1, <4>3 DEF Sorted
      <4> QED  BY <4>2, <4>3
    <3> QED  BY <2>3, <3>1 DEF AtWork
  <2> QED  BY <1>7, <2>1, <2>2, <2>3, UnitTypes
<1>18. Received(r + 1)'
  <2>1. Len(queue') = k /\ stream'.sends[Len(queue') + 1] = s  BY <1>3, <1>4 DEF Current
  <2>2. Behind(inbox', stream'.sends, Len(queue'), r + 1) /\ Len(queue') # Len(stream'.sends)
    BY <1>4, <1>6, <1>10, <2>1
  <2> QED  BY <1>15, <1>17, <2>1, <2>2 DEF Received
<1>19. Queued'  BY <1>1, <1>4 DEF Queued
<1> QED  BY <1>14, <1>18, <1>19 DEF UnpackInv

\* One field of a record exchanged.
LEMMA Exchanged ==
  ASSUME NEW D, NEW Z, NEW packet \in [data : D, size : Z], NEW e
  PROVE  [packet EXCEPT !.data = e] = [data |-> e, size |-> packet.size]
OBVIOUS

\* The data of an av_packet exchanged.
LEMMA Refilled ==
  \A packet, d, z, e : packet = [data |-> d, size |-> z] =>
     [packet EXCEPT !.data = e] = [data |-> e, size |-> z]
<1> SUFFICES ASSUME NEW packet, NEW d, NEW z, NEW e, packet = [data |-> d, size |-> z]
             PROVE  [packet EXCEPT !.data = e] = [data |-> e, size |-> z]
  OBVIOUS
<1>1. packet \in [data : {d}, size : {z}] /\ packet.size = z  OBVIOUS
<1>2. [packet EXCEPT !.data = e] = [data |-> e, size |-> packet.size]
  BY <1>1, Exchanged
<1> QED  BY <1>1, <1>2, Zenon

\* Where a step behind Unpack starts from.
Working(s, k, r) ==
  /\ s = Current /\ k = Len(queue) /\ k < Len(stream.sends) /\ r \in Nat
  /\ Sendable(s) /\ Fits(s) /\ Behind(inbox, stream.sends, k, r)
  /\ Made(s, r, payload, rtp_packet) /\ AtWork(s, r, upc, av_packet, nidx)

\* Behind UnpackRTPH264 a sending is at work.
LEMMA AtIt ==
  ASSUME WellSent, AllFit, UnpackInv, upc # "recv"
  PROVE  Queued /\ InBounds /\ \E s, k, r : Working(s, k, r)
<1>1. Queued /\ InBounds  BY DEF UnpackInv
<1>2. PICK r \in Nat : Received(r)  BY DEF UnpackInv
<1>3. PICK k, s : k = Len(queue) /\ s = Current  OBVIOUS
<1>4. k # Len(stream.sends)  BY <1>2, <1>3 DEF Received
<1>5. k < Len(stream.sends) /\ Sendable(s) /\ Fits(s)
  BY <1>1, <1>3, <1>4, AtCurrent
<1>6. /\ Behind(inbox, stream.sends, k, r) /\ Made(s, r, payload, rtp_packet)
      /\ AtWork(s, r, upc, av_packet, nidx)
  BY <1>2, <1>3, <1>4 DEF Received, Current
<1> QED  BY <1>1, <1>3, <1>5, <1>6 DEF Working

\* A step that stays at the datagram.
LEMMA StillWorking ==
  ASSUME WellSent, AllFit, Queued, NEW s, NEW k, NEW r, Working(s, k, r),
         stream' = stream, inbox' = inbox, payload' = payload,
         rtp_packet' = rtp_packet, queue' = queue,
         upc' # "recv", AtWork(s, r, upc', av_packet', nidx')
  PROVE  Queued' /\ Received(r)' /\ r \in Nat
<1>1. Queued'  BY DEF Queued
<1>2. /\ Behind(inbox', stream'.sends, Len(queue'), r)
      /\ Len(queue') # Len(stream'.sends) /\ stream'.sends[Len(queue') + 1] = s
      /\ Made(s, r, payload', rtp_packet') /\ r \in Nat
  <2>1. Len(stream.sends) \in Nat /\ Len(queue) \in 0..Len(stream.sends)  BY AtCurrent
  <2> QED  BY <2>1 DEF Working, Current
<1>3. Received(r)'  BY <1>2 DEF Received
<1> QED  BY <1>1, <1>2, <1>3

\* What the three steps for fragments start from.
LEMMA Fragment ==
  ASSUME NEW s, NEW k, NEW r, Working(s, k, r), upc = "fu"
  PROVE  /\ s.how = "fu" /\ r \in 1..Len(s.cuts) /\ Len(s.cuts) \in Nat
         /\ Len(s.cuts) > 1 /\ Len(Datagrams(s)) = Len(s.cuts)
         /\ rtp_packet.flag = Marked(s.cuts, r)
         /\ r # 1 => FuData(av_packet, s, r - 1)
         /\ Fills(s, r, rtp_packet.out) /\ Len(rtp_packet.out) <= BufSize
<1>1. s.how = "fu" /\ (r # 1 => FuData(av_packet, s, r - 1))
  BY DEF Working, AtWork
<1>2. Sendable(s) /\ Fits(s) /\ Made(s, r, payload, rtp_packet)  BY DEF Working
<1>3. Len(Datagrams(s)) = Len(s.cuts) /\ Cut(s.units[1], s.cuts)
  BY <1>1, <1>2, DatagramTypes
<1>4. Len(s.cuts) \in Nat /\ Len(s.cuts) > 1  BY <1>3 DEF Cut
<1>5. /\ r \in 1..Len(s.cuts) /\ payload = Datagrams(s)[r]
      /\ rtp_packet.nal = Nal(payload) /\ rtp_packet.out = OutBuffer(payload)
      /\ rtp_packet.nal = 28 => rtp_packet.flag = FuFlag(payload)
  BY <1>2, <1>3 DEF Made
<1>6. Unpacks(s, r, payload)  BY <1>2, <1>3, <1>5, DatagramUnpacked
<1>7. rtp_packet.flag = Marked(s.cuts, r) /\ Len(rtp_packet.out) <= BufSize
  BY <1>1, <1>5, <1>6 DEF Unpacks
<1>8. Fills(s, r, rtp_packet.out)  BY <1>1, <1>2, <1>5, FragmentFills
<1> QED  BY <1>1, <1>3, <1>4, <1>5, <1>7, <1>8, Zenon

\* What Filled makes of an av_packet with the fragments before the r-th.
LEMMA FilledIn ==
  ASSUME NEW s, NEW r, Fills(s, r, rtp_packet.out), Len(rtp_packet.out) <= BufSize,
         NEW packet, Filled(packet),
         IF r = 1 THEN packet = [data |-> << >>, size |-> PacketMax]
         ELSE FuData(packet, s, r - 1)
  PROVE  FuData(av_packet', s, r) /\ InBounds'
<1>1. PICK d : packet = [data |-> d, size |-> PacketMax] /\ d \o rtp_packet.out = Piece(s, r)
  BY DEF Fills, FuData
<1>2. /\ av_packet' = [packet EXCEPT !.data = @ \o rtp_packet.out]
      /\ copied' = [end |-> Len(rtp_packet.out), size |-> Len(av_packet'.data),
                    room |-> packet.size]
  BY DEF Filled, Copy
<1>3. av_packet' = [data |-> Piece(s, r), size |-> PacketMax]
  <2>1. packet.data = d  BY <1>1
  <2>2. av_packet' = [packet EXCEPT !.data = packet.data \o rtp_packet.out]  BY <1>2, Zenon
  <2> QED  BY <1>1, <2>1, <2>2, Refilled, Zenon
<1>4. packet.size = PacketMax  BY <1>1
<1>5. av_packet'.data = Piece(s, r)  BY <1>3
<1>6. copied' = [end |-> Len(rtp_packet.out), size |-> Len(Piece(s, r)), room |-> PacketMax]
  BY <1>2, <1>4, <1>5
<1>7. Len(Piece(s, r)) <= PacketMax  BY DEF Fills
<1>8. InBounds'  BY <1>6, <1>7 DEF InBounds
<1> QED  BY <1>3, <1>8 DEF FuData

\* A fragment that is not the last: the next datagram is waited for.
LEMMA FuMiddle ==
  ASSUME WellSent, AllFit, Queued, NEW s, NEW k, NEW r, Working(s, k, r),
         s.how = "fu", r \in 1..Len(s.cuts) - 1, FuData(av_packet', s, r),
         upc' = "recv", stream' = stream, inbox' = inbox, queue' = queue
  PROVE  Queued' /\ Received(r)' /\ r \in Nat
<1>1. Queued'  BY DEF Queued
<1>2. /\ Behind(inbox', stream'.sends, Len(queue'), r)
      /\ Len(queue') # Len(stream'.sends) /\ stream'.sends[Len(queue') + 1] = s
      /\ r \in Nat
  <2>1. Len(stream.sends) \in Nat /\ Len(queue) \in 0..Len(stream.sends)  BY AtCurrent
  <2> QED  BY <2>1 DEF Working, Current
<1>3. Between(s, r, av_packet')  BY DEF Between
<1>4. Received(r)'  BY <1>2, <1>3 DEF Received
<1> QED  BY <1>1, <1>2, <1>4

\* The steps for fragments keep the invariant.
LEMMA FragmentsKeep ==
  ASSUME WellSent, AllFit, UnpackInv, FuStart \/ FuMid \/ FuEnd
  PROVE  UnpackInv'
<1>1. upc = "fu" /\ upc' = "recv" /\ stream' = stream /\ inbox' = inbox
  BY DEF FuStart, FuMid, FuEnd
<1>2. Queued  BY <1>1, AtIt
<1>3. PICK s, k, r : Working(s, k, r)  BY <1>1, AtIt
<1>4. /\ s.how = "fu" /\ r \in 1..Len(s.cuts) /\ Len(s.cuts) \in Nat
      /\ Len(s.cuts) > 1 /\ Len(Datagrams(s)) = Len(s.cuts)
      /\ rtp_packet.flag = Marked(s.cuts, r)
      /\ r # 1 => FuData(av_packet, s, r - 1)
      /\ Fills(s, r, rtp_packet.out) /\ Len(rtp_packet.out) <= BufSize
  BY <1>1, <1>3, Fragment
<1>5. CASE FuStart
  <2>1. rtp_packet.flag = 128 /\ Filled([data |-> << >>, size |-> PacketMax])
        /\ queue' = queue
    BY <1>5 DEF FuStart
  <2>2. r = 1  BY <1>4, <2>1 DEF Marked
  <2>3. FuData(av_packet', s, r) /\ InBounds'  BY <1>4, <2>1, <2>2, FilledIn
  <2>4. r \in 1..Len(s.cuts) - 1  BY <1>4, <2>2
  <2> QED  BY <1>1, <1>2, <1>3, <1>4, <2>1, <2>3, <2>4, FuMiddle DEF UnpackInv
<1>6. CASE FuMid
  <2>1. rtp_packet.flag = 0 /\ Filled(av_packet) /\ queue' = queue
    BY <1>6 DEF FuMid
  <2>2. r # 1 /\ r # Len(s.cuts)  BY <1>4, <2>1 DEF Marked
  <2>3. FuData(av_packet', s, r) /\ InBounds'  BY <1>4, <2>1, <2>2, FilledIn
  <2>4. r \in 1..Len(s.cuts) - 1  BY <1>4, <2>2
  <2> QED  BY <1>1, <1>2, <1>3, <1>4, <2>1, <2>3, <2>4, FuMiddle DEF UnpackInv
<1>7. CASE FuEnd
  <2>1. rtp_packet.flag = 64 /\ Filled(av_packet) /\ queue' = Append(queue, av_packet'.data)
    BY <1>7 DEF FuEnd
  <2>2. r # 1 /\ r = Len(s.cuts)  BY <1>4, <2>1 DEF Marked
  <2>3. FuData(av_packet', s, r) /\ InBounds'  BY <1>4, <2>1, <2>2, FilledIn
  <2>4. av_packet'.data = ByteStream(s)
    <3> av_packet'.data = Piece(s, r)  BY <2>3 DEF FuData
    <3> QED  BY <1>4, <2>2 DEF Fills
  <2>5. /\ s = Current /\ Len(queue) # Len(stream.sends)
        /\ Behind(inbox, stream.sends, Len(queue), Len(Datagrams(Current)))
    <3>1. Len(stream.sends) \in Nat /\ Len(queue) \in 0..Len(stream.sends)
      BY <1>2, AtCurrent
    <3> QED  BY <1>3, <1>4, <2>2, <3>1 DEF Working
  <2>6. queue' = Append(queue, ByteStream(Current))  BY <2>1, <2>4, <2>5
  <2>7. Queued' /\ Received(0)'  BY <1>1, <1>2, <2>5, <2>6, Completed
  <2> QED  BY <2>3, <2>7 DEF UnpackInv
<1> QED  BY <1>5, <1>6, <1>7

\* The walk starts with nothing written.
LEMMA StapStartKeeps ==
  ASSUME WellSent, AllFit, UnpackInv, StapStart
  PROVE  UnpackInv'
<1>1. /\ upc = "stap" /\ upc' = "walk" /\ nidx' = 0
      /\ av_packet' = [data |-> << >>, size |-> BufSize]
      /\ stream' = stream /\ inbox' = inbox /\ payload' = payload
      /\ rtp_packet' = rtp_packet /\ queue' = queue /\ copied' = copied
  BY DEF StapStart
<1>2. Queued /\ InBounds  BY <1>1, AtIt
<1>3. PICK s, k, r : Working(s, k, r)  BY <1>1, AtIt
<1>4. s.how = "stap" /\ Sendable(s)  BY <1>1, <1>3 DEF Working, AtWork
<1>5. Written(s, 0) = << >> /\ Len(Walked(s, 0)) = 0 /\ 0 \in 0..Len(s.units)
  <2>1. /\ Len(s.units) \in Nat
        /\ Joins(Joined(Coded(s)), Coded(s), Len(s.units), Int)
        /\ Joins(Joined(Sized(s)), Sized(s), Len(s.units), Int)
    BY <1>4, UnitTypes, JoinedIs
  <2>2. Written(s, 0) = << >> /\ Walked(s, 0) = << >>
    BY <2>1 DEF Joins, Written, Walked
  <2> QED  BY <2>1, <2>2
<1>6. Walking(av_packet', nidx', s)  BY <1>1, <1>5 DEF Walking
<1>7. AtWork(s, r, upc', av_packet', nidx')  BY <1>1, <1>4, <1>6 DEF AtWork
<1>8. Queued' /\ Received(r)' /\ r \in Nat  BY <1>1, <1>2, <1>3, <1>7, StillWorking
<1>9. InBounds'  BY <1>1, <1>2 DEF InBounds
<1> QED  BY <1>8, <1>9 DEF UnpackInv

\* What the walk starts a round from.
LEMMA OnWalk ==
  ASSUME NEW s, NEW k, NEW r, Working(s, k, r), upc = "walk"
  PROVE  /\ s.how = "stap" /\ payload = Datagrams(s)[1]
         /\ Sendable(s) /\ Fits(s) /\ Walking(av_packet, nidx, s)
         /\ Len(payload) = 1 + Len(Walked(s, Len(s.units)))
         /\ Len(Walked(s, Len(s.units))) \in Nat
<1>1. s.how = "stap" /\ Walking(av_packet, nidx, s)  BY DEF Working, AtWork
<1>2. Sendable(s) /\ Fits(s) /\ Made(s, r, payload, rtp_packet)  BY DEF Working
<1>3. \A q, x : q = Datagrams(s)[1] /\ x = Walked(s, Len(s.units)) =>
         Len(Datagrams(s)) = 1 /\ Len(q) = 1 + Len(x) /\ Len(x) \in Nat
  BY <1>1, <1>2, StapUnpacked
<1>4. Len(Datagrams(s)) = 1  BY <1>3
<1>5. payload = Datagrams(s)[1]  BY <1>2, <1>4 DEF Made
<1> QED  BY <1>1, <1>2, <1>3, <1>5, Zenon

\* A round of the walk keeps the invariant.
LEMMA StapUnitKeeps ==
  ASSUME WellSent, AllFit, UnpackInv, StapUnit
  PROVE  UnpackInv'
<1>1. /\ upc = "walk" /\ upc' = upc /\ nidx < Len(payload) - 1 /\ nidx' = AfterNalu
      /\ av_packet' = [av_packet EXCEPT
           !.data = @ \o StartCode \o Bytes(payload, nidx + 3, NaluSize)]
      /\ copied' = [end |-> HeadLen + nidx + 3 + NaluSize,
                    size |-> Len(av_packet'.data), room |-> av_packet.size]
      /\ stream' = stream /\ inbox' = inbox /\ payload' = payload
      /\ rtp_packet' = rtp_packet /\ queue' = queue
  BY DEF StapUnit, Copy
<1>2. Queued /\ InBounds  BY <1>1, AtIt
<1>3. PICK s, k, r : Working(s, k, r)  BY <1>1, AtIt
<1>4. /\ s.how = "stap" /\ payload = Datagrams(s)[1]
      /\ Sendable(s) /\ Fits(s) /\ Walking(av_packet, nidx, s)
      /\ Len(payload) = 1 + Len(Walked(s, Len(s.units)))
      /\ Len(Walked(s, Len(s.units))) \in Nat
  BY <1>1, <1>3, OnWalk
<1>5. PICK i \in 0..Len(s.units) :
        /\ av_packet = [data |-> Written(s, i), size |-> BufSize]
        /\ \/ nidx = Len(Walked(s, i))
           \/ i = Len(s.units) /\ nidx = Len(Walked(s, i)) + 1
  BY <1>4 DEF Walking
<1>6. Len(s.units) \in Nat \ {0}  BY <1>4, UnitTypes
<1>7. i # Len(s.units)
  <2>1. ASSUME i = Len(s.units) PROVE FALSE
    <3>1. PICK w : w = Len(Walked(s, Len(s.units)))  OBVIOUS
    <3>2. nidx = w \/ nidx = w + 1  BY <1>5, <2>1, <3>1
    <3>3. w \in Nat /\ nidx < (1 + w) - 1  BY <1>1, <1>4, <3>1
    <3> QED  BY <3>2, <3>3
  <2> QED  BY <2>1
<1>8. PICK j : j = i + 1  OBVIOUS
<1>9. j \in 1..Len(s.units) /\ j - 1 = i  BY <1>6, <1>7, <1>8
<1>10. PICK b, n : b = Len(Walked(s, j)) /\ n = Len(s.units[j])  OBVIOUS
<1>11. nidx = Len(Walked(s, j - 1))  BY <1>5, <1>7, <1>9
<1>12. Rounds(s, j, nidx, b, payload, n)
  BY <1>4, <1>9, <1>10, <1>11, StapWrites
<1>13. NaluSize = n  BY <1>12, Zenon DEF Rounds, NaluSize
<1>14. av_packet' = [data |-> Written(s, j), size |-> BufSize]
  <2>1. Written(s, i) \o StartCode \o Bytes(payload, nidx + 3, n) = Written(s, j)
    BY <1>9, <1>12, Zenon DEF Rounds
  <2>2. av_packet.data = Written(s, i)  BY <1>5
  <2>3. av_packet' = [av_packet EXCEPT
          !.data = av_packet.data \o StartCode \o Bytes(payload, nidx + 3, NaluSize)]
    BY <1>1, Zenon
  <2> QED  BY <1>5, <1>13, <2>1, <2>2, <2>3, Refilled, Zenon
<1>15. InBounds'
  <2>1. av_packet.size = BufSize /\ av_packet'.data = Written(s, j)  BY <1>5, <1>14
  <2>2. copied' = [end |-> HeadLen + nidx + 3 + n, size |-> Len(Written(s, j)),
                   room |-> BufSize]
    BY <1>1, <1>13, <2>1
  <2>3. Len(Written(s, j)) <= BufSize /\ HeadLen + nidx + 3 + n <= BufSize
    BY <1>12, Zenon DEF Rounds
  <2> QED  BY <2>2, <2>3 DEF InBounds
<1>16. nidx' = b \/ (j = Len(s.units) /\ nidx' = b + 1)
  <2>1. n = 0 => j = Len(s.units) /\ nidx + 3 = b + 1  BY <1>12, Zenon DEF Rounds
  <2>2. n # 0 => nidx + (n + 2) = b  BY <1>12, Zenon DEF Rounds
  <2>3. nidx' = nidx + (IF n = 0 THEN 3 ELSE n + 2)
    BY <1>1, <1>13, Zenon DEF AfterNalu
  <2>4. CASE n = 0
    <3> nidx' = nidx + 3  BY <2>3, <2>4, Zenon
    <3> QED  BY <2>1, <2>4
  <2>5. CASE n # 0
    <3>1. nidx' = nidx + (n + 2)  BY <2>3, <2>5, Zenon
    <3> QED  BY <2>2, <2>5, <3>1, Zenon
  <2> QED  BY <2>4, <2>5
<1>17. Walking(av_packet', nidx', s)
  <2>1. j \in 0..Len(s.units)  BY <1>9
  <2> QED  BY <1>10, <1>14, <1>16, <2>1, Zenon DEF Walking
<1>18. AtWork(s, r, upc', av_packet', nidx')  BY <1>1, <1>4, <1>17 DEF AtWork
<1>19. Queued' /\ Received(r)' /\ r \in Nat  BY <1>1, <1>2, <1>3, <1>18, StillWorking
<1> QED  BY <1>15, <1>19 DEF UnpackInv

\* The walk ends when all units are written.
LEMMA StapEndKeeps ==
  ASSUME WellSent, AllFit, UnpackInv, StapEnd
  PROVE  UnpackInv'
<1>1. /\ upc = "walk" /\ upc' = "parse" /\ nidx >= Len(payload) - 1
      /\ av_packet' = av_packet /\ nidx' = nidx /\ copied' = copied
      /\ stream' = stream /\ inbox' = inbox /\ payload' = payload
      /\ rtp_packet' = rtp_packet /\ queue' = queue
  BY DEF StapEnd
<1>2. Queued /\ InBounds  BY <1>1, AtIt
<1>3. PICK s, k, r : Working(s, k, r)  BY <1>1, AtIt
<1>4. /\ s.how = "stap" /\ payload = Datagrams(s)[1]
      /\ Sendable(s) /\ Fits(s) /\ Walking(av_packet, nidx, s)
  BY <1>1, <1>3, OnWalk
<1>5. PICK i \in 0..Len(s.units) :
        /\ av_packet = [data |-> Written(s, i), size |-> BufSize]
        /\ \/ nidx = Len(Walked(s, i))
           \/ i = Len(s.units) /\ nidx = Len(Walked(s, i)) + 1
  BY <1>4 DEF Walking
<1>6. Len(s.units) \in Nat \ {0}  BY <1>4, UnitTypes
<1>7. i = Len(s.units)
  <2>1. ASSUME i # Len(s.units) PROVE FALSE
    <3>1. PICK j : j = i + 1  OBVIOUS
    <3>2. j \in 1..Len(s.units) /\ j - 1 = i  BY <1>6, <2>1, <3>1
    <3>3. nidx = Len(Walked(s, j - 1))  BY <1>5, <2>1, <3>2
    <3>4. FindsNext(s, j, nidx, payload, Len(s.units[j]))
      BY <1>4, <3>2, <3>3, StapRound
    <3>5. PICK lp : lp = Len(payload)  OBVIOUS
    <3>6. nidx < lp - 1 /\ nidx \in Nat  BY <3>4, <3>5, Zenon DEF FindsNext
    <3>7. lp \in Nat
      <4>1. /\ Len(payload) = 1 + Len(Walked(s, Len(s.units)))
            /\ Len(Walked(s, Len(s.units))) \in Nat
        BY <1>1, <1>3, OnWalk
      <4> QED  BY <3>5, <4>1
    <3>8. nidx >= lp - 1  BY <1>1, <3>5
    <3> QED  BY <3>6, <3>7, <3>8
  <2> QED  BY <2>1
<1>8. av_packet.data = ByteStream(s)
  <2>1. ByteStream(s) = Written(s, Len(s.units))  BY <1>4, ByteStreamIs DEF Written
  <2> QED  BY <1>5, <1>7, <2>1
<1>9. AtWork(s, r, upc', av_packet', nidx')  BY <1>1, <1>4, <1>8 DEF AtWork
<1>10. Queued' /\ Received(r)' /\ r \in Nat  BY <1>1, <1>2, <1>3, <1>9, StillWorking
<1>11. InBounds'  BY <1>1, <1>2 DEF InBounds
<1> QED  BY <1>10, <1>11 DEF UnpackInv

\* Parsing changes nothing here.
LEMMA ParsedKeeps ==
  ASSUME WellSent, AllFit, UnpackInv, Parsed
  PROVE  UnpackInv'
<1>1. /\ upc = "parse" /\ upc' = "store"
      /\ av_packet' = av_packet /\ nidx' = nidx /\ copied' = copied
      /\ stream' = stream /\ inbox' = inbox /\ payload' = payload
      /\ rtp_packet' = rtp_packet /\ queue' = queue
  BY DEF Parsed
<1>2. Queued /\ InBounds  BY <1>1, AtIt
<1>3. PICK s, k, r : Working(s, k, r)  BY <1>1, AtIt
<1>4. AtWork(s, r, upc', av_packet', nidx')  BY <1>1, <1>3 DEF Working, AtWork
<1>5. Queued' /\ Received(r)' /\ r \in Nat  BY <1>1, <1>2, <1>3, <1>4, StillWorking
<1>6. InBounds'  BY <1>1, <1>2 DEF InBounds
<1> QED  BY <1>5, <1>6 DEF UnpackInv

\* The step that stores keeps the invariant.
LEMMA StoreKeeps ==
  ASSUME WellSent, AllFit, UnpackInv, Store
  PROVE  UnpackInv'
<1>1. /\ upc = "store" /\ upc' = "recv" /\ copied' = copied
      /\ av_packet' = IF rtp_packet.nal = 24 THEN av_packet
                      ELSE [data |-> rtp_packet.out, size |-> Len(rtp_packet.out)]
      /\ stream' = stream /\ inbox' = inbox /\ queue' = Append(queue, av_packet'.data)
  BY DEF Store
<1>2. Queued /\ InBounds  BY <1>1, AtIt
<1>3. PICK s, k, r : Working(s, k, r)  BY <1>1, AtIt
<1>4. /\ Sendable(s) /\ Fits(s) /\ s = Current /\ k = Len(queue) /\ k < Len(stream.sends)
      /\ Behind(inbox, stream.sends, k, r)
      /\ r \in 1..Len(Datagrams(s)) /\ payload = Datagrams(s)[r]
      /\ rtp_packet.nal = Nal(payload) /\ rtp_packet.out = OutBuffer(payload)
  BY <1>3 DEF Working, Made
<1>5. Unpacks(s, r, payload)  BY <1>4, DatagramUnpacked
<1>6. Len(Datagrams(s)) = 1 /\ av_packet'.data = ByteStream(s)
  <2>1. CASE s.how = "stap"
    <3>1. av_packet.data = ByteStream(s)  BY <1>1, <1>3, <2>1 DEF Working, AtWork
    <3>2. rtp_packet.nal = 24  BY <1>4, <1>5, <2>1 DEF Unpacks
    <3>3. Datagrams(s) = <<Aggregated(s.units)>>  BY <2>1 DEF Datagrams
    <3> QED  BY <1>1, <3>1, <3>2, <3>3
  <2>2. CASE s.how = "single"
    <3>1. Nal(payload) # 24  BY <1>5, <2>2 DEF Unpacks
    <3>2. \A q : q = Datagrams(s)[1] =>
             /\ Len(Datagrams(s)) = 1 /\ OutBuffer(q) = StartCode \o q
             /\ ByteStream(s) = StartCode \o q
      BY <1>4, <2>2, SingleUnpacked
    <3>3. Len(Datagrams(s)) = 1  BY <3>2
    <3>4. r = 1  BY <1>4, <3>3
    <3>5. OutBuffer(payload) = ByteStream(s)  BY <1>4, <3>2, <3>4
    <3> QED  BY <1>1, <1>4, <3>1, <3>3, <3>5
  <2>3. s.how = "stap" \/ s.how = "single"  BY <1>1, <1>3 DEF Working, AtWork
  <2> QED  BY <2>1, <2>2, <2>3
<1>7. /\ Len(queue) # Len(stream.sends)
      /\ Behind(inbox, stream.sends, Len(queue), Len(Datagrams(Current)))
  <2>1. Len(stream.sends) \in Nat /\ Len(queue) \in 0..Len(stream.sends)
    BY <1>2, AtCurrent
  <2>2. r = 1  BY <1>4, <1>6
  <2> QED  BY <1>4, <1>6, <2>1, <2>2
<1>8. queue' = Append(queue, ByteStream(Current))  BY <1>1, <1>4, <1>6
<1>9. Queued' /\ Received(0)'  BY <1>1, <1>2, <1>7, <1>8, Completed
<1>10. InBounds'  BY <1>1, <1>2 DEF InBounds
<1> QED  BY <1>9, <1>10 DEF UnpackInv

\* Every step keeps the invariant.
LEMMA UnpackNext ==
  ASSUME WellSent, AllFit => UnpackInv, [UnpackStep \/ Parsed]_unpackVars
  PROVE  WellSent' /\ (AllFit => UnpackInv)'
<1>1. stream' = stream
  BY DEF UnpackStep, Parsed, unpackVars, Unpack, FuStart, FuMid, FuEnd, StapStart,
         StapUnit, StapEnd, Store
<1>2. WellSent' /\ (AllFit' <=> AllFit)  BY <1>1 DEF WellSent, AllFit
<1>3. ASSUME AllFit PROVE UnpackInv'
  <2>1. UnpackInv  BY <1>3
  <2>2. CASE UNCHANGED unpackVars
    <3>1. /\ av_packet' = av_packet /\ nidx' = nidx /\ copied' = copied /\ upc' = upc
          /\ stream' = stream /\ inbox' = inbox /\ payload' = payload
          /\ rtp_packet' = rtp_packet /\ queue' = queue
      BY <2>2 DEF unpackVars
    <3>2. PICK r \in Nat : Received(r)  BY <2>1 DEF UnpackInv
    <3>3. Received(r)'  BY <3>1, <3>2 DEF Received
    <3>4. Queued' /\ InBounds'  BY <2>1, <3>1 DEF UnpackInv, Queued, InBounds
    <3> QED  BY <3>3, <3>4 DEF UnpackInv
  <2>3. CASE UnpackStep
    BY <1>3, <2>1, <2>3, UnpackKeeps, FragmentsKeep, StapStartKeeps, StapUnitKeeps,
       StapEndKeeps, StoreKeeps DEF UnpackStep
  <2> QED  BY <1>3, <2>1, <2>2, <2>3, ParsedKeeps
<1> QED  BY <1>2, <1>3

UnpackHolds == WellSent /\ (AllFit => UnpackInv)

\* The invariant holds, for all streams the assumption allows.
THEOREM UnpackInvHolds == UnpackSpec => []UnpackHolds
<1>1. UnpackInit => UnpackHolds  BY UnpackStart DEF UnpackHolds
<1>2. UnpackHolds /\ [UnpackStep \/ Parsed]_unpackVars => UnpackHolds'
  BY UnpackNext DEF UnpackHolds
<1> QED  BY <1>1, <1>2, PTL DEF UnpackSpec

\* The invariant has all that FramesAsSent says.
LEMMA SentInOrder == UnpackHolds => FramesAsSent
<1> SUFFICES ASSUME UnpackHolds, AllFit
             PROVE  LET units == [i \in 1..Len(stream.sends) |-> ByteStream(stream.sends[i])]
                    IN /\ IsPrefix(queue, units)
                       /\ upc = "recv" /\ inbox = << >> => queue = units
  BY DEF FramesAsSent
<1>1. PICK n, k : n = Len(stream.sends) /\ k = Len(queue)  OBVIOUS
<1>2. PICK units : units = [i \in 1..n |-> ByteStream(stream.sends[i])]  OBVIOUS
<1>3. WellSent /\ Queued  BY DEF UnpackHolds, UnpackInv
<1>4. n \in Nat /\ k \in 0..n  BY <1>1, <1>3, AtCurrent
<1>5. /\ queue \in Seq(Seq(Int)) /\ \A i \in 1..k : queue[i] = ByteStream(stream.sends[i])
  BY <1>1, <1>3 DEF Queued
<1>6. units \in Seq(Seq(Int)) /\ Len(units) = n
  <2>1. ASSUME NEW i \in 1..n PROVE ByteStream(stream.sends[i]) \in Seq(Int)
    <3> Sendable(stream.sends[i])  BY <1>1, <1>3 DEF WellSent, AllSendable
    <3> QED  BY ByteStreamIs
  <2>2. units \in [1..n -> Seq(Int)]  BY <1>2, <2>1
  <2> QED  BY <1>4, <2>2
<1>7. \A i \in 1..k : units[i] = queue[i]
  <2> \A i \in 1..k : i \in 1..n  BY <1>4
  <2> QED  BY <1>2, <1>5
<1>8. IsPrefix(queue, units)
  <2>1. Len(queue) <= Len(units) /\ \A i \in 1..Len(queue) : queue[i] = units[i]
    BY <1>1, <1>4, <1>6, <1>7
  <2>2. \A q \in Seq(Seq(Int)) : \A j \in 0..Len(q) :
          /\ SubSeq(q, 1, j) \in Seq(Seq(Int)) /\ Len(SubSeq(q, 1, j)) = j
          /\ \A i \in 1..j : SubSeq(q, 1, j)[i] = q[i]
    OBVIOUS
  <2>3. k \in 0..Len(queue) /\ k \in 0..Len(units)  BY <1>1, <1>4, <1>6
  <2>4. /\ SubSeq(queue, 1, k) \in Seq(Seq(Int)) /\ SubSeq(units, 1, k) \in Seq(Seq(Int))
        /\ Len(SubSeq(queue, 1, k)) = k /\ Len(SubSeq(units, 1, k)) = k
        /\ \A i \in 1..k : SubSeq(queue, 1, k)[i] = SubSeq(units, 1, k)[i]
    BY <1>5, <1>6, <1>7, <2>2, <2>3
  <2>5. SubSeq(queue, 1, k) = SubSeq(units, 1, k)  BY <2>4, SeqEqual
  <2> QED  BY <1>1, <2>1, <2>5 DEF IsPrefix
<1>9. ASSUME upc = "recv", inbox = << >> PROVE queue = units
  <2>1. PICK r \in Nat : Received(r)  BY DEF UnpackHolds, UnpackInv
  <2>2. k = n
    <3>1. ASSUME k # n PROVE FALSE
      <4>1. /\ k < n /\ k \in 0..Len(stream.sends) /\ k < Len(stream.sends)
            /\ Sendable(Current) /\ Fits(Current) /\ AllSendable(stream.sends)
        BY <1>1, <1>3, <3>1, AtCurrent
      <4>2. Behind(inbox, stream.sends, k, r) /\ Between(Current, r, av_packet)
        BY <1>1, <1>9, <2>1, <3>1 DEF Received, Current
      <4>3. r < Len(Datagrams(Current))
        <5>1. Len(Datagrams(Current)) \in Nat \ {0}  BY <4>1, DatagramTypes
        <5>2. CASE r = 0  BY <5>1, <5>2
        <5>3. CASE Current.how = "fu" /\ r \in 1..Len(Current.cuts) - 1
          <6> Len(Datagrams(Current)) = Len(Current.cuts)  BY <4>1, <5>3, DatagramTypes
          <6> QED  BY <5>1, <5>3
        <5> QED  BY <4>2, <5>2, <5>3 DEF Between
      <4>4. inbox # << >>
        BY <1>1, <4>1, <4>2, <4>3, BehindHead DEF Current
      <4> QED  BY <1>9, <4>4
    <3> QED  BY <3>1
  <2>3. Len(queue) = Len(units) /\ \A i \in 1..Len(queue) : queue[i] = units[i]
    BY <1>1, <1>6, <1>7, <2>2
  <2> QED  BY <1>5, <1>6, <2>3, SeqEqual
<1> QED  BY <1>1, <1>2, <1>8, <1>9

\* What is queued is what was sent, whatever is sent, if it fits.
THEOREM FramesAsSentHolds == UnpackSpec => []FramesAsSent
BY UnpackInvHolds, SentInOrder, PTL

\* No copy of main() or of the unpacking functions leaves its buffers, if what is
\* sent fits.
THEOREM CopiesInBoundsHolds == UnpackSpec => []CopiesInBounds
<1>1. UnpackHolds => CopiesInBounds
  BY DEF UnpackHolds, UnpackInv, InBounds, CopiesInBounds
<1> QED  BY <1>1, UnpackInvHolds, PTL
=============================================================================
