--------------------------- MODULE Coding_proofs ---------------------------
(***************************************************************************)
(* Proofs about the codings the bytes of a parameter set go through, all   *)
(* for data of any length: de_emulation_prevention of BitReader takes out  *)
(* what Escaped of SpsSyntax puts in, base64_decode gives back what        *)
(* base64_encode was given, and get_bits, parse_ue and parse_se read the   *)
(* numbers of at most 25 bits that u(n), ue(v) and se(v) send, wherever    *)
(* these begin in a byte.                                                  *)
(*                                                                         *)
(* The induction theorems of the library take the property as an operator, *)
(* which no backend instantiates. That < is well founded on Nat can be     *)
(* cited, and a property be given as the set of the numbers that have it:  *)
(* CountUp is induction in that form. From it follows that a function with *)
(* given steps exists (FoldExists), so that the function a recursive       *)
(* definition names has these steps (FlattenSeqDef).                       *)
(*                                                                         *)
(* The loop of de_emulation_prevention moves the bytes of a buffer in      *)
(* place and does not notice that the data become fewer: RoundInv says     *)
(* what the buffer has before each round. In base64 the bits of three      *)
(* bytes are those of four characters, group by group. A number is known   *)
(* by its bits (BitOf), and so is what get_bits makes of two or more       *)
(* bytes; Pos and CodePlace say where in a parameter set the code of each  *)
(* value is.                                                               *)
(***************************************************************************)
EXTENDS Base64, BitReader, SpsSyntax, WellFoundedInduction, FiniteSetTheorems, TLAPS

(* Induction over data.                                                     *)

\* A set of numbers that is not empty has a least one.
LEMMA LeastNat ==
  ASSUME NEW T \in SUBSET Nat, T # {}
  PROVE  \E n \in T : \A m \in T : n <= m
<1>1. PICK n \in T : \A m \in T : ~ (<<m, n>> \in OpToRel(<, Nat))
  BY NatLessThanWellFounded, WFMin
<1>2. \A m \in T : m \in Nat /\ n \in Nat  OBVIOUS
<1>3. \A m \in T : <<m, n>> \in Nat \X Nat /\ <<m, n>>[1] = m /\ <<m, n>>[2] = n
  BY <1>2
<1>4. \A m \in T : ~ (m < n)
  BY <1>1, <1>3, Zenon DEF OpToRel
<1> QED  BY <1>2, <1>4

\* Induction: a set with 0, and with n + 1 if it has n, has all numbers.
LEMMA CountUp ==
  ASSUME NEW S, 0 \in S, \A n \in Nat : n \in S => n + 1 \in S
  PROVE  \A n \in Nat : n \in S
<1> SUFFICES ASSUME NEW k \in Nat, k \notin S PROVE FALSE
  OBVIOUS
<1> DEFINE T == {n \in Nat : n \notin S}
<1>1. PICK n \in T : \A m \in T : n <= m
  <2> T \in SUBSET Nat /\ T # {}  OBVIOUS
  <2> HIDE DEF T
  <2> QED  BY LeastNat
<1>2. n # 0  OBVIOUS
<1>3. n - 1 \in Nat  BY <1>2
<1>4. n - 1 \notin T  BY <1>1, <1>3
<1>5. n - 1 \in S  BY <1>3, <1>4
<1>6. (n - 1) + 1 = n  OBVIOUS
<1> QED  BY <1>3, <1>5, <1>6

-----------------------------------------------------------------------------
(* A value taken through N steps.                                           *)

\* step[i] is a function on S.
StepsIn(step, N, S) == \A i \in 1..N, s \in S : step[i][s] \in S

\* f[i] is what the first i steps make of base.
IsFold(f, base, step, N, S) ==
  /\ f \in [0..N -> S] /\ f[0] = base
  /\ \A i \in 1..N : f[i] = step[i][f[i - 1]]

\* There is such a function, for any steps.
LEMMA FoldExists ==
  ASSUME NEW N \in Nat, NEW S, NEW base \in S, NEW step, StepsIn(step, N, S)
  PROVE  \E f : IsFold(f, base, step, N, S)
<1> DEFINE D == {n \in Nat : n <= N => \E f : IsFold(f, base, step, n, S)}
<1>1. 0 \in D
  <2>1. IsFold([i \in 0..0 |-> base], base, step, 0, S)  BY DEF IsFold
  <2> QED  BY <2>1
<1>2. ASSUME NEW n \in Nat, n \in D PROVE n + 1 \in D
  <2> SUFFICES ASSUME n + 1 <= N PROVE \E f : IsFold(f, base, step, n + 1, S)
    OBVIOUS
  <2>1. PICK f : IsFold(f, base, step, n, S)  BY <1>2
  <2> DEFINE g == [i \in 0..n + 1 |-> IF i <= n THEN f[i] ELSE step[n + 1][f[n]]]
  <2>2. step[n + 1][f[n]] \in S  BY <2>1 DEF IsFold, StepsIn
  <2>3. g \in [0..n + 1 -> S]  BY <2>1, <2>2 DEF IsFold
  <2>4. ASSUME NEW i \in 1..n + 1 PROVE g[i] = step[i][g[i - 1]]
    BY <2>1 DEF IsFold
  <2>5. g[0] = base  BY <2>1 DEF IsFold
  <2>6. IsFold(g, base, step, n + 1, S)
    <3> HIDE DEF g
    <3> QED  BY <2>3, <2>4, <2>5 DEF IsFold
  <2> QED  BY <2>6
<1>3. N \in D
  <2> HIDE DEF D
  <2> QED BY <1>1, <1>2, CountUp
<1> QED  BY <1>3

-----------------------------------------------------------------------------
(* The sequences of a sequence, one behind the other.                       *)

\* f[i] is the first i of seqs.
Joins(f, seqs, N, S) ==
  /\ f \in [0..N -> Seq(S)] /\ f[0] = << >>
  /\ \A i \in 1..N : f[i] = f[i - 1] \o seqs[i]

AllSeqs(seqs, N, S) == \A i \in 1..N : seqs[i] \in Seq(S)

\* There is such a function, for any sequences over S.
LEMMA JoinsExist ==
  ASSUME NEW S, NEW N \in Nat, NEW seqs, AllSeqs(seqs, N, S)
  PROVE  \E f : Joins(f, seqs, N, S)
<1> DEFINE step == [i \in 1..N |-> [s \in Seq(S) |-> s \o seqs[i]]]
<1>1. \A i \in 1..N, s \in Seq(S) : step[i][s] = s \o seqs[i] /\ step[i][s] \in Seq(S)
  BY DEF AllSeqs
<1> HIDE DEF step
<1>2. PICK f : IsFold(f, << >>, step, N, Seq(S))
  <2>1. << >> \in Seq(S)  OBVIOUS
  <2>2. StepsIn(step, N, Seq(S))  BY <1>1 DEF StepsIn
  <2> QED  BY <2>1, <2>2, FoldExists
<1>3. ASSUME NEW i \in 1..N PROVE step[i][f[i - 1]] = f[i - 1] \o seqs[i]
  <2> i - 1 \in 0..N  OBVIOUS
  <2> QED  BY <1>1, <1>2 DEF IsFold
<1> QED  BY <1>2, <1>3 DEF Joins, IsFold

\* FlattenSeq, which is defined by recursion, joins all of them.
LEMMA FlattenSeqDef ==
  ASSUME NEW S, NEW seqs \in Seq(Seq(S))
  PROVE  \E f : Joins(f, seqs, Len(seqs), S) /\ FlattenSeq(seqs) = f[Len(seqs)]
<1>empty. CASE seqs = << >>
  <2> DEFINE f == [i \in 0..0 |-> << >>]
  <2>1. f \in [0..0 -> Seq(S)] /\ f[0] = << >>  OBVIOUS
  <2> HIDE DEF f
  <2>2. FlattenSeq(<< >>) = << >> /\ Len(seqs) = 0  BY <1>empty DEF FlattenSeq
  <2>3. Joins(f, seqs, 0, S)  BY <2>1 DEF Joins
  <2> QED  BY <2>1, <2>2, <2>3, <1>empty
<1> SUFFICES ASSUME seqs # << >>
             PROVE  \E f : Joins(f, seqs, Len(seqs), S) /\ FlattenSeq(seqs) = f[Len(seqs)]
  BY <1>empty
<1>1. PICK N : N = Len(seqs)  OBVIOUS
<1>2. N \in Nat \ {0} /\ \A i \in 1..N : seqs[i] \in Seq(S)  BY <1>1
<1> DEFINE IsFlatten(F) ==
      F = [i \in 1..N |-> IF i = 1 THEN seqs[i] ELSE F[i-1] \o seqs[i]]
<1>0. PICK f : Joins(f, seqs, N, S)
  <2>1. N \in Nat /\ AllSeqs(seqs, N, S)  BY <1>2 DEF AllSeqs
  <2> QED  BY <2>1, JoinsExist
<1>3. /\ f \in [0..N -> Seq(S)] /\ f[0] = << >>
      /\ \A i \in 1..N : f[i] = f[i - 1] \o seqs[i]
  BY <1>0 DEF Joins
<1>4. f[1] = seqs[1]
  <2>1. 1 \in 1..N /\ 1 - 1 = 0  BY <1>2
  <2>2. f[1] = << >> \o seqs[1]  BY <2>1, <1>3
  <2> QED  BY <2>1, <2>2, <1>2
<1>5. \E g : IsFlatten(g)
  <2> DEFINE g == [i \in 1..N |-> f[i]]
  <2>1. ASSUME NEW i \in 1..N PROVE g[i] = IF i = 1 THEN seqs[i] ELSE g[i-1] \o seqs[i]
    <3>1. CASE i = 1  BY <3>1, <1>4
    <3>2. CASE i # 1
      <4> i - 1 \in 1..N  BY <3>2, <1>2
      <4> QED  BY <3>2, <1>3
    <3> QED  BY <3>1, <3>2
  <2>2. IsFlatten(g)
    BY <2>1
  <2> HIDE DEF g, IsFlatten
  <2> QED  BY <2>2
<1>6. PICK F : IsFlatten(F) /\ FlattenSeq(seqs) = F[N]
  BY <1>1, <1>2, <1>5 DEF FlattenSeq
<1>7. \A i \in 1..N : F[i] = IF i = 1 THEN seqs[i] ELSE F[i-1] \o seqs[i]
  BY <1>6
<1> HIDE DEF IsFlatten
<1> DEFINE A == {i \in Nat : i \in 1..N => F[i] = f[i]}
<1>8. 0 \in A OBVIOUS
<1>9. ASSUME NEW i \in Nat, i \in A PROVE i + 1 \in A
  <2> SUFFICES ASSUME i + 1 \in 1..N PROVE F[i + 1] = f[i + 1]  OBVIOUS
  <2>1. CASE i = 0  BY <2>1, <1>4, <1>7, <1>2
  <2>2. CASE i # 0
    <3> i \in 1..N /\ (i + 1) - 1 = i /\ i + 1 # 1 BY <2>2, <1>2
    <3>1. F[i + 1] = F[i] \o seqs[i + 1]  BY <1>7
    <3>2. f[i + 1] = f[i] \o seqs[i + 1]  BY <1>3
    <3>3. F[i] = f[i]  BY <1>9
    <3> QED  BY <3>1, <3>2, <3>3
  <2> QED  BY <2>1, <2>2
<1> HIDE DEF A
<1>10. \A i \in Nat : i \in A  BY <1>8, <1>9, CountUp
<1>11. N \in Nat /\ N \in 1..N  BY <1>2
<1>12. F[N] = f[N]
  <2>1. N \in A  BY <1>10, <1>11, Zenon
  <2> QED  BY <2>1, <1>11 DEF A
<1> QED  BY <1>1, <1>0, <1>6, <1>12

-----------------------------------------------------------------------------
(* Where the items of a part are in the whole.                              *)

IsCat(u, s, t, S) == s \in Seq(S) /\ t \in Seq(S) /\ u = s \o t

\* The items of s, then those of t.
LEMMA Catenation ==
  ASSUME NEW S, NEW s, NEW t, NEW u, IsCat(u, s, t, S)
  PROVE  /\ u \in Seq(S) /\ Len(u) = Len(s) + Len(t)
         /\ Len(s) \in Nat /\ Len(t) \in Nat /\ Len(s) <= Len(u)
         /\ \A i \in 1..Len(s) : i \in 1..Len(u) /\ u[i] = s[i]
         /\ \A i \in 1..Len(t) : Len(s) + i \in 1..Len(u) /\ u[Len(s) + i] = t[i]
BY DEF IsCat

\* t is s, or goes on after it.
Grows(s, t) ==
  /\ Len(s) <= Len(t)
  /\ \A i \in 1..Len(s) : i \in 1..Len(t) /\ t[i] = s[i]

\* Grows is transitive.
LEMMA GrowsOn ==
  ASSUME NEW S, NEW s, s \in Seq(S), NEW t, t \in Seq(S), NEW u, u \in Seq(S),
         Grows(s, t), Grows(t, u)
  PROVE  Grows(s, u)
BY DEF Grows

\* The longer a prefix of seqs, the longer what it is joined to.
LEMMA JoinsGrow ==
  ASSUME NEW S, NEW N \in Nat, NEW seqs, AllSeqs(seqs, N, S), NEW f,
         Joins(f, seqs, N, S), NEW k \in 0..N
  PROVE  \A m \in k..N : Grows(f[k], f[m])
<1> DEFINE A == {d \in Nat : k + d <= N => Grows(f[k], f[k + d])}
<1>0. \A m \in 0..N : f[m] \in Seq(S)  BY DEF Joins
<1>1. 0 \in A
  <2> k + 0 = k /\ f[k] \in Seq(S)  BY <1>0
  <2> QED  BY DEF Grows
<1>2. ASSUME NEW d \in Nat, d \in A PROVE d + 1 \in A
  <2> SUFFICES ASSUME k + (d + 1) <= N PROVE Grows(f[k], f[k + (d + 1)])
    OBVIOUS
  <2>1. PICK m \in 0..N : m = k + d  OBVIOUS
  <2>2. m + 1 \in 1..N /\ (m + 1) - 1 = m /\ k + (d + 1) = m + 1  BY <2>1
  <2>3. Grows(f[k], f[m])  BY <2>1, <1>2
  <2>4. f[m + 1] = f[m] \o seqs[m + 1]
    <3>1. f[m + 1] = f[(m + 1) - 1] \o seqs[m + 1]  BY <2>2 DEF Joins
    <3> QED  BY <3>1, <2>2
  <2>5. f[m] \in Seq(S) /\ seqs[m + 1] \in Seq(S) /\ f[k] \in Seq(S)
    BY <2>2, <1>0 DEF AllSeqs
  <2>6. Grows(f[m], f[m + 1]) /\ f[m + 1] \in Seq(S)
    <3> IsCat(f[m + 1], f[m], seqs[m + 1], S)  BY <2>4, <2>5 DEF IsCat
    <3> QED  BY Catenation DEF Grows
  <2>7. Grows(f[k], f[m + 1])  BY <2>3, <2>5, <2>6, GrowsOn, Zenon
  <2> QED  BY <2>2, <2>7
<1> HIDE DEF A
<1>3. \A d \in Nat : d \in A  BY <1>1, <1>2, CountUp
<1>4. ASSUME NEW m \in k..N PROVE Grows(f[k], f[m])
  <2> m - k \in Nat /\ k + (m - k) = m /\ m <= N OBVIOUS
  <2> m - k \in A  BY <1>3
  <2> QED  BY DEF A
<1> QED  BY <1>4

\* The k-th of seqs is found in the whole behind the k - 1 before it.
JoinsAt(f, seqs, N, S, k) ==
  /\ f[N] \in Seq(S) /\ f[k - 1] \in Seq(S) /\ f[k] \in Seq(S)
  /\ seqs[k] \in Seq(S) /\ f[k] = f[k - 1] \o seqs[k]
  /\ Len(f[k]) = Len(f[k - 1]) + Len(seqs[k])
  /\ Grows(f[k], f[N])
  /\ \A r \in 1..Len(seqs[k]) :
       /\ Len(f[k - 1]) + r \in 1..Len(f[N])
       /\ f[N][Len(f[k - 1]) + r] = seqs[k][r]

\* So it is for each of them.
LEMMA JoinsItem ==
  ASSUME NEW S, NEW N \in Nat, NEW seqs, AllSeqs(seqs, N, S), NEW f,
         Joins(f, seqs, N, S), NEW k \in 1..N
  PROVE  JoinsAt(f, seqs, N, S, k)
<1>1. k \in 0..N /\ k - 1 \in 0..N /\ N \in k..N /\ N \in 0..N  OBVIOUS
<1>2. /\ f[N] \in Seq(S) /\ f[k - 1] \in Seq(S) /\ f[k] \in Seq(S)
      /\ seqs[k] \in Seq(S)
  BY <1>1 DEF Joins, AllSeqs
<1>3. f[k] = f[k - 1] \o seqs[k]  BY DEF Joins
<1>4. /\ Len(f[k]) = Len(f[k - 1]) + Len(seqs[k])
      /\ \A i \in 1..Len(seqs[k]) :
            Len(f[k - 1]) + i \in 1..Len(f[k]) /\ f[k][Len(f[k - 1]) + i] = seqs[k][i]
  <2>1. IsCat(f[k], f[k - 1], seqs[k], S)  BY <1>2, <1>3 DEF IsCat
  <2>2. \A u, s, t : IsCat(u, s, t, S) =>
           /\ Len(u) = Len(s) + Len(t)
           /\ \A i \in 1..Len(t) : Len(s) + i \in 1..Len(u) /\ u[Len(s) + i] = t[i]
    BY Catenation
  <2> QED  BY <2>1, <2>2, Zenon
<1>5. Grows(f[k], f[N])
  BY <1>1, JoinsGrow
<1>6. ASSUME NEW r \in 1..Len(seqs[k])
      PROVE  /\ Len(f[k - 1]) + r \in 1..Len(f[N])
             /\ f[N][Len(f[k - 1]) + r] = seqs[k][r]
  BY <1>4, <1>5, Zenon DEF Grows
<1> QED  BY <1>2, <1>3, <1>4, <1>5, <1>6 DEF JoinsAt

-----------------------------------------------------------------------------
(* Emulation prevention.                                                    *)

\* Escaping, which is defined by recursion, has the steps it is defined with.
EscapeStates == [out : Seq(Nat), zeros : 0..2]

\* A step of it stays in its states.
LEMMA GuardedIn ==
  ASSUME NEW s \in EscapeStates, NEW b \in Nat
  PROVE  Guarded(s, b) \in EscapeStates
<1>1. s.out \in Seq(Nat) /\ s.zeros \in 0..2  BY DEF EscapeStates
<1>2. CASE s.zeros = 2 /\ b <= 3
  <2>1. s.out \o <<3, b>> \in Seq(Nat)  BY <1>1
  <2> QED  BY <1>2, <2>1 DEF Guarded, EscapeStates
<1>3. CASE ~ (s.zeros = 2 /\ b <= 3)
  <2>1. Append(s.out, b) \in Seq(Nat)  BY <1>1
  <2>2. (IF b = 0 THEN s.zeros + 1 ELSE 0) \in 0..2  BY <1>1, <1>3
  <2>3. Guarded(s, b) = [out |-> Append(s.out, b),
                         zeros |-> IF b = 0 THEN s.zeros + 1 ELSE 0]
    BY <1>3 DEF Guarded
  <2> QED  BY <2>1, <2>2, <2>3 DEF EscapeStates
<1> QED  BY <1>2, <1>3

\* What the steps are: e[i] is what the first i bytes become.
EscapeSteps(e, bytes) ==
  /\ e \in [0..Len(bytes) -> EscapeStates] /\ e[0] = [out |-> << >>, zeros |-> 0]
  /\ \A i \in 1..Len(bytes) : e[i] = Guarded(e[i - 1], bytes[i])

\* They are those of the definition.
LEMMA EscapingDef ==
  ASSUME NEW bytes \in Seq(Nat)
  PROVE  EscapeSteps(Escaping(bytes), bytes)
<1>1. PICK n : n = Len(bytes)  OBVIOUS
<1>2. n \in Nat /\ \A i \in 1..n : bytes[i] \in Nat  BY <1>1
<1>0. PICK base : base = [out |-> << >>, zeros |-> 0]  OBVIOUS
<1>b. base \in EscapeStates  BY <1>0 DEF EscapeStates
<1> DEFINE step == [i \in 1..n |-> [s \in EscapeStates |-> Guarded(s, bytes[i])]]
           IsEsc(f) == f = [i \in 0..n |-> IF i = 0 THEN base
                                           ELSE Guarded(f[i - 1], bytes[i])]
<1>3. \A i \in 1..n, s \in EscapeStates :
        step[i][s] = Guarded(s, bytes[i]) /\ step[i][s] \in EscapeStates
  BY <1>2, GuardedIn
<1> HIDE DEF step
<1>4. PICK f : IsFold(f, base, step, n, EscapeStates)
  <2>1. StepsIn(step, n, EscapeStates)  BY <1>3 DEF StepsIn
  <2> HIDE DEF IsEsc
  <2> QED  BY <1>2, <1>b, <2>1, FoldExists
<1>5. /\ f \in [0..n -> EscapeStates] /\ f[0] = base
      /\ \A i \in 1..n : f[i] = step[i][f[i - 1]]
  BY <1>4 DEF IsFold
<1>6. ASSUME NEW i \in 1..n PROVE f[i] = Guarded(f[i - 1], bytes[i])
  <2> i - 1 \in 0..n  BY <1>2
  <2> QED  BY <1>3, <1>5
<1>7. IsEsc(f)
  <2>1. \A i \in 0..n : i = 0 \/ i \in 1..n  BY <1>2
  <2>2. \A i \in 0..n : f[i] = IF i = 0 THEN base ELSE Guarded(f[i - 1], bytes[i])
    BY <2>1, <1>5, <1>6
  <2> QED  BY <2>2, <1>5
<1>8. IsEsc(Escaping(bytes))
  <2>1. Escaping(bytes) = CHOOSE g : IsEsc(g)  BY <1>1, <1>0 DEF Escaping
  <2> HIDE DEF IsEsc
  <2> QED  BY <2>1, <1>7
<1>10. PICK e : e = Escaping(bytes)  OBVIOUS
<1>11. e = [i \in 0..n |-> IF i = 0 THEN base ELSE Guarded(e[i - 1], bytes[i])]
  BY <1>8, <1>10
<1>12. \A i \in 0..n : e[i] = IF i = 0 THEN base ELSE Guarded(e[i - 1], bytes[i])
  BY <1>11
<1>13. e[0] = base /\ \A i \in 1..n : e[i] = Guarded(e[i - 1], bytes[i])
  BY <1>2, <1>12
<1> DEFINE A == {i \in Nat : i <= n => e[i] \in EscapeStates}
<1>14. 0 \in A  BY <1>13, <1>b
<1>15. ASSUME NEW i \in Nat, i \in A PROVE i + 1 \in A
  <2> SUFFICES ASSUME i + 1 <= n PROVE e[i + 1] \in EscapeStates  OBVIOUS
  <2>0. i + 1 \in 1..n /\ (i + 1) - 1 = i  BY <1>2
  <2>1. e[i + 1] = Guarded(e[i], bytes[i + 1])  BY <1>13, <2>0
  <2>2. i <= n  BY <1>2
  <2>3. e[i] \in EscapeStates /\ bytes[i + 1] \in Nat  BY <1>15, <2>2, <1>2, <2>0
  <2> QED  BY <2>1, <2>3, GuardedIn
<1> HIDE DEF A
<1>16. \A i \in Nat : i \in A  BY <1>14, <1>15, CountUp
<1>17. \A i \in 0..n : e[i] \in EscapeStates  BY <1>16, <1>2 DEF A
<1>18. e \in [0..n -> EscapeStates]  BY <1>11, <1>17
<1> QED  BY <1>1, <1>0, <1>10, <1>13, <1>18 DEF EscapeSteps

\* The same of Unescaping.
Buffers == [bytes : Seq(Nat), size : Int]

\* A round of the loop stays in its states.
LEMMA UnescapedIn ==
  ASSUME NEW b \in Buffers, NEW i \in Nat
  PROVE  Unescaped(b, i) \in Buffers
<1>1. b.bytes \in Seq(Nat) /\ b.size \in Int  BY DEF Buffers
<1>2. Shifted(b.bytes, i + 2) \in Seq(Nat)
  <2>1. PICK s : s = b.bytes  OBVIOUS
  <2>2. s \in Seq(Nat) /\ Len(s) \in Nat  BY <2>1, <1>1
  <2>3. \A j \in 1..Len(s) : (IF j > i + 2 /\ j < Len(s) THEN s[j + 1] ELSE s[j]) \in Nat
    BY <2>2
  <2>4. Shifted(s, i + 2) \in [1..Len(s) -> Nat]  BY <2>3 DEF Shifted
  <2>5. \A m \in Nat : [1..m -> Nat] \subseteq Seq(Nat)  OBVIOUS
  <2> QED  BY <2>1, <2>2, <2>4, <2>5
<1>3. b.size - 1 \in Int  BY <1>1
<1> QED  BY <1>1, <1>2, <1>3 DEF Unescaped, Buffers

\* e[i] is the buffer after i rounds.
UnescapeSteps(e, bytes) ==
  /\ e \in [0..LoopEnd(bytes) -> Buffers]
  /\ e[0] = [bytes |-> bytes, size |-> Len(bytes)]
  /\ \A i \in 1..LoopEnd(bytes) : e[i] = Unescaped(e[i - 1], i - 1)

\* These are the rounds of the definition.
LEMMA UnescapingDef ==
  ASSUME NEW bytes \in Seq(Nat)
  PROVE  UnescapeSteps(Unescaping(bytes), bytes)
<1>1. PICK n : n = LoopEnd(bytes)  OBVIOUS
<1>2. n \in Nat  BY <1>1 DEF LoopEnd
<1>0. PICK base : base = [bytes |-> bytes, size |-> Len(bytes)]  OBVIOUS
<1>b. base \in Buffers  BY <1>0 DEF Buffers
<1> DEFINE step == [i \in 1..n |-> [s \in Buffers |-> Unescaped(s, i - 1)]]
           IsUne(f) == f = [i \in 0..n |-> IF i = 0 THEN base
                                           ELSE Unescaped(f[i - 1], i - 1)]
<1>3. \A i \in 1..n, s \in Buffers :
        step[i][s] = Unescaped(s, i - 1) /\ step[i][s] \in Buffers
  <2>1. \A i \in 1..n : i - 1 \in Nat  BY <1>2
  <2> QED  BY <2>1, UnescapedIn
<1> HIDE DEF step
<1>4. PICK f : IsFold(f, base, step, n, Buffers)
  <2>1. StepsIn(step, n, Buffers)  BY <1>3 DEF StepsIn
  <2> HIDE DEF IsUne
  <2> QED  BY <1>2, <1>b, <2>1, FoldExists
<1>5. /\ f \in [0..n -> Buffers] /\ f[0] = base
      /\ \A i \in 1..n : f[i] = step[i][f[i - 1]]
  BY <1>4 DEF IsFold
<1>6. ASSUME NEW i \in 1..n PROVE f[i] = Unescaped(f[i - 1], i - 1)
  <2> i - 1 \in 0..n  BY <1>2
  <2> QED  BY <1>3, <1>5
<1>7. IsUne(f)
  <2>1. \A i \in 0..n : i = 0 \/ i \in 1..n  BY <1>2
  <2>2. \A i \in 0..n : f[i] = IF i = 0 THEN base ELSE Unescaped(f[i - 1], i - 1)
    BY <2>1, <1>5, <1>6
  <2> QED  BY <2>2, <1>5
<1>8. IsUne(Unescaping(bytes))
  <2>1. Unescaping(bytes) = CHOOSE g : IsUne(g)  BY <1>1, <1>0 DEF Unescaping
  <2> HIDE DEF IsUne
  <2> QED  BY <2>1, <1>7
<1>10. PICK e : e = Unescaping(bytes)  OBVIOUS
<1>11. e = [i \in 0..n |-> IF i = 0 THEN base ELSE Unescaped(e[i - 1], i - 1)]
  BY <1>8, <1>10
<1>12. \A i \in 0..n : e[i] = IF i = 0 THEN base ELSE Unescaped(e[i - 1], i - 1)
  BY <1>11
<1>13. e[0] = base /\ \A i \in 1..n : e[i] = Unescaped(e[i - 1], i - 1)
  BY <1>2, <1>12
<1> DEFINE A == {i \in Nat : i <= n => e[i] \in Buffers}
<1>14. 0 \in A  BY <1>13, <1>b
<1>15. ASSUME NEW i \in Nat, i \in A PROVE i + 1 \in A
  <2> SUFFICES ASSUME i + 1 <= n PROVE e[i + 1] \in Buffers  OBVIOUS
  <2>0. i + 1 \in 1..n /\ (i + 1) - 1 = i  BY <1>2
  <2>1. e[i + 1] = Unescaped(e[i], i)  BY <1>13, <2>0
  <2>2. i <= n  BY <1>2
  <2>3. e[i] \in Buffers  BY <1>15, <2>2
  <2> QED  BY <2>1, <2>3, UnescapedIn
<1> HIDE DEF A
<1>16. \A i \in Nat : i \in A  BY <1>14, <1>15, CountUp
<1>17. \A i \in 0..n : e[i] \in Buffers  BY <1>16, <1>2 DEF A
<1>18. e \in [0..n -> Buffers]  BY <1>11, <1>17
<1> QED  BY <1>1, <1>0, <1>10, <1>13, <1>18 DEF UnescapeSteps

\* Byte j + 1 goes behind o[j] bytes, or a 3 and then the byte.
AddsAt(P, D, o, z, j) ==
  IF z[j] = 2 /\ P[j + 1] <= 3
    THEN /\ o[j + 1] = o[j] + 2 /\ D[o[j] + 1] = 3 /\ D[o[j] + 2] = P[j + 1]
         /\ z[j + 1] = IF P[j + 1] = 0 THEN 1 ELSE 0
    ELSE /\ o[j + 1] = o[j] + 1 /\ D[o[j] + 1] = P[j + 1]
         /\ z[j + 1] = IF P[j + 1] = 0 THEN z[j] + 1 ELSE 0

\* The first j bytes of P are the first o[j] bytes of D, and end with z[j] zeros.
Layout(P, D, o, z) ==
  /\ o \in [0..Len(P) -> Nat] /\ z \in [0..Len(P) -> 0..2]
  /\ o[0] = 0 /\ z[0] = 0
  /\ \A j \in 0..Len(P) - 1 : AddsAt(P, D, o, z, j)
  /\ \A j \in 0..Len(P) : o[j] <= Len(D)

\* What Guarded makes of s and b.
Adds(s, b, t) ==
  /\ Grows(s.out, t.out)
  /\ IF s.zeros = 2 /\ b <= 3
       THEN /\ Len(t.out) = Len(s.out) + 2 /\ t.out[Len(s.out) + 1] = 3
            /\ t.out[Len(s.out) + 2] = b
            /\ t.zeros = IF b = 0 THEN 1 ELSE 0
       ELSE /\ Len(t.out) = Len(s.out) + 1 /\ t.out[Len(s.out) + 1] = b
            /\ t.zeros = IF b = 0 THEN s.zeros + 1 ELSE 0

\* Guarded puts b behind s, with or without a 3.
LEMMA GuardedAdds ==
  ASSUME NEW s \in EscapeStates, NEW b \in Nat, NEW t, t = Guarded(s, b)
  PROVE  Adds(s, b, t)
<1>1. s.out \in Seq(Nat) /\ s.zeros \in 0..2  BY DEF EscapeStates
<1>0. PICK u : u = s.out  OBVIOUS
<1>u. u \in Seq(Nat)  BY <1>0, <1>1
<1>2. CASE s.zeros = 2 /\ b <= 3
  <2>1. t.out = u \o <<3, b>> /\ t.zeros = IF b = 0 THEN 1 ELSE 0
    BY <1>2, <1>0 DEF Guarded
  <2>2. /\ Len(u \o <<3, b>>) = Len(u) + 2 /\ (u \o <<3, b>>)[Len(u) + 1] = 3
        /\ (u \o <<3, b>>)[Len(u) + 2] = b
        /\ \A i \in 1..Len(u) : i \in 1..Len(u \o <<3, b>>) /\ (u \o <<3, b>>)[i] = u[i]
    BY <1>u
  <2>3. Len(u) <= Len(u \o <<3, b>>)  BY <1>u
  <2> QED  BY <1>2, <1>0, <2>1, <2>2, <2>3, Zenon DEF Grows, Adds
<1>3. CASE ~ (s.zeros = 2 /\ b <= 3)
  <2>1. t.out = Append(u, b) /\ t.zeros = IF b = 0 THEN s.zeros + 1 ELSE 0
    BY <1>3, <1>0 DEF Guarded
  <2>2. /\ Len(Append(u, b)) = Len(u) + 1 /\ (Append(u, b))[Len(u) + 1] = b
        /\ \A i \in 1..Len(u) : i \in 1..Len(Append(u, b)) /\ (Append(u, b))[i] = u[i]
    BY <1>u
  <2>3. Len(u) <= Len(Append(u, b))  BY <1>u
  <2> QED  BY <1>3, <1>0, <2>1, <2>2, <2>3, Zenon DEF Grows, Adds
<1> QED  BY <1>2, <1>3

\* What was put out stays where it is.
LEMMA EscapingGrows ==
  ASSUME NEW P \in Seq(Nat), NEW k \in 0..Len(P)
  PROVE  \A m \in k..Len(P) : Grows(Escaping(P)[k].out, Escaping(P)[m].out)
<1>0. PICK N : N = Len(P)  OBVIOUS
<1>1. PICK e : e = Escaping(P)  OBVIOUS
<1>2. /\ N \in Nat /\ k \in 0..N /\ \A i \in 1..N : P[i] \in Nat
      /\ \A i \in 0..N : e[i] \in EscapeStates
      /\ \A i \in 1..N : e[i] = Guarded(e[i - 1], P[i])
  <2>1. EscapeSteps(e, P)  BY <1>1, EscapingDef
  <2>2. N \in Nat /\ \A i \in 1..N : P[i] \in Nat  BY <1>0
  <2>3. e \in [0..N -> EscapeStates]  BY <1>0, <2>1, Zenon DEF EscapeSteps
  <2> QED  BY <1>0, <2>1, <2>2, <2>3, Zenon DEF EscapeSteps
<1>3. \A i \in 0..N : e[i].out \in Seq(Nat)  BY <1>2 DEF EscapeStates
<1> DEFINE A == {d \in Nat : k + d <= N => Grows(e[k].out, e[k + d].out)}
<1>4. 0 \in A
  <2> k + 0 = k /\ e[k].out \in Seq(Nat)  BY <1>2, <1>3
  <2> QED  BY DEF Grows
<1>5. ASSUME NEW d \in Nat, d \in A PROVE d + 1 \in A
  <2> SUFFICES ASSUME k + (d + 1) <= N PROVE Grows(e[k].out, e[k + (d + 1)].out)
    OBVIOUS
  <2>1. PICK m \in 0..N : m = k + d  BY <1>2
  <2>2. m + 1 \in 1..N /\ m + 1 \in 0..N /\ (m + 1) - 1 = m /\ k + (d + 1) = m + 1
    BY <2>1, <1>2
  <2>3. Grows(e[k].out, e[m].out)  BY <2>1, <1>5
  <2>4. e[m + 1] = Guarded(e[m], P[m + 1])  BY <1>2, <2>2
  <2>5. Grows(e[m].out, e[m + 1].out)
    <3>1. Adds(e[m], P[m + 1], e[m + 1])  BY <2>2, <2>4, <1>2, GuardedAdds
    <3> QED  BY <3>1 DEF Adds
  <2>6. e[k].out \in Seq(Nat) /\ e[m].out \in Seq(Nat) /\ e[m + 1].out \in Seq(Nat)
    BY <1>2, <1>3, <2>1, <2>2
  <2>7. Grows(e[k].out, e[m + 1].out)  BY <2>3, <2>5, <2>6, GrowsOn, Zenon
  <2> QED  BY <2>2, <2>7
<1> HIDE DEF A
<1>6. \A d \in Nat : d \in A  BY <1>4, <1>5, CountUp
<1>7. ASSUME NEW m \in k..N PROVE Grows(e[k].out, e[m].out)
  <2> m - k \in Nat /\ k + (m - k) = m /\ m <= N  BY <1>2
  <2> m - k \in A  BY <1>6
  <2> QED  BY DEF A
<1> QED  BY <1>7, <1>0, <1>1

\* The data D: P with the 3s put in, and the bytes R behind it.
IsEscaped(D, P, R) == D = Escaped(P) \o R

\* Where in the data each byte of P is.
LEMMA EscapedLayout ==
  ASSUME NEW P \in Seq(Nat), NEW R \in Seq(Nat), NEW D, IsEscaped(D, P, R)
  PROVE  /\ Escaped(P) \in Seq(Nat) /\ D \in Seq(Nat)
         /\ \E o, z : Layout(P, D, o, z) /\ (R = << >> => o[Len(P)] = Len(D))
<1>0. PICK N : N = Len(P)  OBVIOUS
<1>1. PICK e : e = Escaping(P)  OBVIOUS
<1>2. /\ N \in Nat /\ \A i \in 1..N : P[i] \in Nat
      /\ \A i \in 0..N : e[i] \in EscapeStates
      /\ e[0] = [out |-> << >>, zeros |-> 0]
      /\ \A i \in 1..N : e[i] = Guarded(e[i - 1], P[i])
  <2>1. EscapeSteps(e, P)  BY <1>1, EscapingDef
  <2>2. N \in Nat /\ \A i \in 1..N : P[i] \in Nat  BY <1>0
  <2>3. e \in [0..N -> EscapeStates]  BY <1>0, <2>1, Zenon DEF EscapeSteps
  <2> QED  BY <1>0, <2>1, <2>2, <2>3, Zenon DEF EscapeSteps
<1>3. \A i \in 0..N : e[i].out \in Seq(Nat) /\ e[i].zeros \in 0..2 /\ Len(e[i].out) \in Nat
  BY <1>2 DEF EscapeStates
<1>4. \A i \in 0..N : Grows(e[i].out, e[N].out)
  <2> SUFFICES ASSUME NEW i \in 0..N PROVE Grows(e[i].out, e[N].out)  OBVIOUS
  <2>1. N \in i..N  BY <1>2
  <2> QED  BY <2>1, <1>0, <1>1, EscapingGrows
<1>5. Escaped(P) = e[N].out /\ N \in 0..N  BY <1>0, <1>1, <1>2 DEF Escaped
<1>6. e[N].out \in Seq(Nat)  BY <1>3, <1>5
<1>7. IsCat(D, e[N].out, R, Nat)  BY <1>5, <1>6 DEF IsCat, IsEscaped
<1>8. D \in Seq(Nat) /\ Grows(e[N].out, D)
  <2>1. \A u, s, t : IsCat(u, s, t, Nat) => u \in Seq(Nat)  BY DEF IsCat
  <2>2. \A u, s, t : IsCat(u, s, t, Nat) => Grows(s, u)  BY DEF IsCat, Grows
  <2> QED  BY <1>7, <2>1, <2>2, Zenon
<1> DEFINE o == [i \in 0..N |-> Len(e[i].out)]
           z == [i \in 0..N |-> e[i].zeros]
<1>9. ASSUME NEW i \in 0..N
      PROVE  /\ o[i] = Len(e[i].out) /\ z[i] = e[i].zeros /\ o[i] <= Len(D)
             /\ \A r \in 1..o[i] : D[r] = e[i].out[r]
  <2>1. e[i].out \in Seq(Nat)  BY <1>3
  <2>2. Grows(e[i].out, D)  BY <1>4, <1>6, <1>8, <2>1, GrowsOn, Zenon
  <2>3. o[i] = Len(e[i].out) /\ z[i] = e[i].zeros  BY Zenon
  <2> QED  BY <2>2, <2>3, Zenon DEF Grows
<1>10. o \in [0..N -> Nat] /\ z \in [0..N -> 0..2] /\ o[0] = 0 /\ z[0] = 0
  BY <1>3, <1>2
<1>11. ASSUME NEW j \in 0..N - 1 PROVE AddsAt(P, D, o, z, j)
  <2>1. j \in 0..N /\ j + 1 \in 0..N /\ j + 1 \in 1..N /\ (j + 1) - 1 = j  BY <1>2
  <2>2. e[j + 1] = Guarded(e[j], P[j + 1]) /\ e[j] \in EscapeStates /\ P[j + 1] \in Nat
    BY <2>1, <1>2
  <2>3. IF e[j].zeros = 2 /\ P[j + 1] <= 3
              THEN /\ Len(e[j + 1].out) = Len(e[j].out) + 2 /\ e[j + 1].out[Len(e[j].out) + 1] = 3
                   /\ e[j + 1].out[Len(e[j].out) + 2] = P[j + 1]
                   /\ e[j + 1].zeros = IF P[j + 1] = 0 THEN 1 ELSE 0
              ELSE /\ Len(e[j + 1].out) = Len(e[j].out) + 1
                   /\ e[j + 1].out[Len(e[j].out) + 1] = P[j + 1]
                   /\ e[j + 1].zeros = IF P[j + 1] = 0 THEN e[j].zeros + 1 ELSE 0
    <3>1. Adds(e[j], P[j + 1], e[j + 1])  BY <2>2, GuardedAdds
    <3> QED  BY <3>1, Zenon DEF Adds
  <2>4. /\ o[j] = Len(e[j].out) /\ z[j] = e[j].zeros
        /\ o[j + 1] = Len(e[j + 1].out) /\ z[j + 1] = e[j + 1].zeros
        /\ \A r \in 1..o[j + 1] : D[r] = e[j + 1].out[r]
    BY <2>1, <1>9
  <2>5. o[j] \in Nat /\ o[j + 1] \in Nat  BY <2>1, <1>10
  <2> HIDE DEF o, z
  <2>6. CASE z[j] = 2 /\ P[j + 1] <= 3
    <3>1. /\ o[j + 1] = o[j] + 2 /\ e[j + 1].out[o[j] + 1] = 3
          /\ e[j + 1].out[o[j] + 2] = P[j + 1]
          /\ z[j + 1] = IF P[j + 1] = 0 THEN 1 ELSE 0
      BY <2>3, <2>4, <2>6
    <3>2. o[j] + 1 \in 1..o[j + 1] /\ o[j] + 2 \in 1..o[j + 1]  BY SMTT(30), <3>1, <2>5
    <3> QED  BY <3>1, <3>2, <2>4, <2>6 DEF AddsAt
  <2>7. CASE ~ (z[j] = 2 /\ P[j + 1] <= 3)
    <3>1. /\ o[j + 1] = o[j] + 1 /\ e[j + 1].out[o[j] + 1] = P[j + 1]
          /\ z[j + 1] = IF P[j + 1] = 0 THEN z[j] + 1 ELSE 0
      BY <2>3, <2>4, <2>7
    <3>2. o[j] + 1 \in 1..o[j + 1]  BY <3>1, <2>5
    <3> QED  BY <3>1, <3>2, <2>4, <2>7 DEF AddsAt
  <2> QED  BY <2>6, <2>7
<1>12. Layout(P, D, o, z)
  <2> HIDE DEF o, z
  <2> QED  BY <1>0, <1>9, <1>10, <1>11 DEF Layout
<1>13. ASSUME R = << >> PROVE o[Len(P)] = Len(D)
  <2>1. PICK out : out = e[N].out  OBVIOUS
  <2>2. out \in Seq(Nat) /\ D = out \o << >>  BY <1>5, <1>6, <1>13, <2>1 DEF IsEscaped
  <2>3. D = out  BY <2>2
  <2>4. o[N] = Len(out)  BY <1>5, <1>9, <2>1
  <2> QED  BY <1>0, <2>3, <2>4
<1> QED  BY <1>5, <1>6, <1>8, <1>12, <1>13, Zenon

\* z counts the zeros P[j] ends with, but starts again behind a 3.
Counted(P, o, z) ==
  /\ \A j \in 0..Len(P) : j <= o[j]
  /\ \A j \in 2..Len(P) : z[j] = 2 => P[j - 1] = 0 /\ P[j] = 0
  /\ \A j \in 2..Len(P) : P[j - 1] = 0 /\ P[j] = 0 /\ z[j] # 2 =>
       j > 2 /\ P[j - 2] = 0

\* Two zeros of P that are not counted as two follow a third.
LEMMA ZerosCounted ==
  ASSUME NEW P \in Seq(Nat), NEW D, NEW o, NEW z, Layout(P, D, o, z)
  PROVE  Counted(P, o, z)
<1>0. PICK N : N = Len(P)  OBVIOUS
<1>1. /\ N \in Nat /\ \A i \in 1..N : P[i] \in Nat
      /\ \A j \in 0..N : o[j] \in Nat /\ z[j] \in 0..2
      /\ o[0] = 0 /\ z[0] = 0
  <2>1. N \in Nat /\ \A i \in 1..N : P[i] \in Nat  BY <1>0
  <2>2. o \in [0..N -> Nat] /\ z \in [0..N -> 0..2] /\ o[0] = 0 /\ z[0] = 0
    BY <1>0, Zenon DEF Layout
  <2>3. \A j \in 0..N : o[j] \in Nat /\ z[j] \in 0..2  BY <2>2
  <2> QED  BY <2>1, <2>2, <2>3, Zenon
<1>2. \A j \in 0..N - 1 : AddsAt(P, D, o, z, j)  BY <1>0 DEF Layout
<1>3. \A j \in 0..N - 1 :
        /\ o[j + 1] = o[j] + 1 \/ o[j + 1] = o[j] + 2
        /\ z[j + 1] = 0 => P[j + 1] # 0
        /\ z[j + 1] # 0 => P[j + 1] = 0
        /\ z[j + 1] = 2 => z[j] = 1
        /\ z[j + 1] = 1 => z[j] \in {0, 2}
  <2> SUFFICES ASSUME NEW j \in 0..N - 1
               PROVE  /\ o[j + 1] = o[j] + 1 \/ o[j + 1] = o[j] + 2
                      /\ z[j + 1] = 0 => P[j + 1] # 0
                      /\ z[j + 1] # 0 => P[j + 1] = 0
                      /\ z[j + 1] = 2 => z[j] = 1
                      /\ z[j + 1] = 1 => z[j] \in {0, 2}
    OBVIOUS
  <2>1. j \in 0..N /\ j + 1 \in 1..N /\ j + 1 \in 0..N  BY <1>1
  <2>2. AddsAt(P, D, o, z, j) /\ z[j] \in 0..2 /\ z[j + 1] \in 0..2 /\ P[j + 1] \in Nat
    BY <1>1, <1>2, <2>1
  <2> QED  BY <2>2 DEF AddsAt
<1> DEFINE A == {j \in Nat : j <= N => j <= o[j]}
<1>4. 0 \in A  BY <1>1
<1>5. ASSUME NEW j \in Nat, j \in A PROVE j + 1 \in A
  <2> SUFFICES ASSUME j + 1 <= N PROVE j + 1 <= o[j + 1]  OBVIOUS
  <2>1. j \in 0..N - 1 /\ j \in 0..N /\ j <= N  BY <1>1
  <2>2. j <= o[j] /\ o[j] \in Nat  BY <2>1, <1>1, <1>5
  <2>3. o[j + 1] = o[j] + 1 \/ o[j + 1] = o[j] + 2  BY <2>1, <1>3
  <2> QED  BY <2>2, <2>3
<1> HIDE DEF A
<1>6. \A j \in Nat : j \in A  BY <1>4, <1>5, CountUp
<1>7. \A j \in 0..N : j <= o[j]  BY <1>6, <1>1 DEF A
<1>8. ASSUME NEW j \in 2..N
      PROVE  /\ z[j] = 2 => P[j - 1] = 0 /\ P[j] = 0
             /\ P[j - 1] = 0 /\ P[j] = 0 /\ z[j] # 2 => j > 2 /\ P[j - 2] = 0
  <2>1. PICK k : k = j - 1  OBVIOUS
  <2>2. /\ k \in 1..N - 1 /\ j = k + 1 /\ k \in 0..N - 1 /\ k \in 0..N /\ j \in 0..N
        /\ k - 1 \in 0..N - 1 /\ (k - 1) + 1 = k /\ k - 1 = j - 2 /\ k - 1 \in 0..N
    BY <2>1, <1>1
  <2>3. /\ z[j] = 0 => P[j] # 0
        /\ z[j] = 2 => z[k] = 1
        /\ z[j] # 0 => P[j] = 0
        /\ z[j] = 1 => z[k] \in {0, 2}
    BY <1>3, <2>2
  <2>4. /\ z[k] = 0 => P[k] # 0
        /\ z[k] = 2 => z[k - 1] = 1
        /\ z[k] # 0 => P[k] = 0
    BY <1>3, <2>2
  <2>5. z[j] \in 0..2 /\ z[k] \in 0..2 /\ z[k - 1] \in 0..2  BY <1>1, <2>2
  <2>6. z[k - 1] = 1 => k - 1 # 0  BY <1>1
  <2>7. k - 1 # 0 /\ z[k - 1] # 0 => P[k - 1] = 0
    <3> SUFFICES ASSUME k - 1 # 0 PROVE z[k - 1] # 0 => P[k - 1] = 0  OBVIOUS
    <3>1. k - 2 \in 0..N - 1 /\ (k - 2) + 1 = k - 1  BY <2>2, <1>1
    <3> QED  BY <3>1, <1>3
  <2>8. k - 1 # 0 => j > 2  BY <2>2
  <2> QED  BY <2>1, <2>2, <2>3, <2>4, <2>5, <2>6, <2>7, <2>8
<1> QED  BY <1>0, <1>7, <1>8 DEF Counted

\* What is in the buffer before round i: what is behind size was left there, and
\* of P the first i + 2 bytes are restored, with the rest still to come.
Dup(B, S, n, i) == \A m \in 1..n : m >= S /\ m >= i + 2 => B[m] = B[n]

\* The first k bytes of P are restored.
Begins(B, P, k) == \A m \in 1..k : B[m] = P[m]

\* Behind the first j bytes is the rest of the data, moved down.
Remains(B, S, D, o, j) ==
  /\ S = Len(D) - o[j] + j
  /\ \A m \in j + 1..S : B[m] = D[m + o[j] - j]

\* The invariant of the loop.
RoundInv(P, D, o, B, S, i) ==
  /\ B \in Seq(Nat) /\ Len(B) = Len(D) /\ S \in Int /\ S <= Len(D)
  /\ Dup(B, S, Len(D), i)
  /\ i + 2 <= Len(P) => Begins(B, P, i + 2) /\ Remains(B, S, D, o, i + 2)
  /\ i + 2 > Len(P) => Begins(B, P, Len(P)) /\ S >= Len(P)

\* It holds before the first round.
LEMMA RoundsStart ==
  ASSUME NEW P \in Seq(Nat), NEW D \in Seq(Nat), NEW o, NEW z, Layout(P, D, o, z),
         Len(D) >= Len(P)
  PROVE  /\ RoundInv(P, D, o, D, Len(D), 0)
         /\ Len(D) < 3 => Begins(D, P, Len(P))
<1>0. PICK N : N = Len(P)  OBVIOUS
<1>1. /\ N \in Nat /\ \A i \in 1..N : P[i] \in Nat
      /\ \A j \in 0..N : o[j] \in Nat /\ z[j] \in 0..2
      /\ o[0] = 0 /\ z[0] = 0
  <2>1. N \in Nat /\ \A i \in 1..N : P[i] \in Nat  BY <1>0
  <2>2. o \in [0..N -> Nat] /\ z \in [0..N -> 0..2] /\ o[0] = 0 /\ z[0] = 0
    BY <1>0, Zenon DEF Layout
  <2>3. \A j \in 0..N : o[j] \in Nat /\ z[j] \in 0..2  BY <2>2
  <2> QED  BY <2>1, <2>2, <2>3, Zenon
<1>2. \A j \in 0..N - 1 : AddsAt(P, D, o, z, j)  BY <1>0 DEF Layout
<1>3. N >= 1 => o[1] = 1 /\ D[1] = P[1] /\ z[1] \in 0..1
  <2> SUFFICES ASSUME N >= 1 PROVE o[1] = 1 /\ D[1] = P[1] /\ z[1] \in 0..1  OBVIOUS
  <2>1. 0 \in 0..N - 1 /\ 1 \in 0..N  BY <1>1
  <2>2. AddsAt(P, D, o, z, 0)  BY <1>2, <2>1
  <2> QED  BY <2>2, <1>1 DEF AddsAt
<1>4. N >= 2 => o[2] = 2 /\ D[2] = P[2]
  <2> SUFFICES ASSUME N >= 2 PROVE o[2] = 2 /\ D[2] = P[2]  OBVIOUS
  <2>1. 1 \in 0..N - 1  BY <1>1
  <2>2. AddsAt(P, D, o, z, 1)  BY <1>2, <2>1
  <2> QED  BY <2>2, <1>1, <1>3 DEF AddsAt
<1>5. Begins(D, P, IF N <= 2 THEN N ELSE 2)
  <2>1. \A m \in 1..(IF N <= 2 THEN N ELSE 2) : (m = 1 /\ N >= 1) \/ (m = 2 /\ N >= 2)
    BY <1>1
  <2> QED  BY <2>1, <1>3, <1>4 DEF Begins
<1>6. N >= 2 => Remains(D, Len(D), D, o, 2)
  <2> SUFFICES ASSUME N >= 2 PROVE Remains(D, Len(D), D, o, 2)  OBVIOUS
  <2>1. Len(D) = Len(D) - o[2] + 2  BY <1>4
  <2>2. \A m \in 2 + 1..Len(D) : m + o[2] - 2 = m  BY <1>4
  <2> QED  BY <2>1, <2>2, Zenon DEF Remains
<1>7. Dup(D, Len(D), Len(D), 0)  BY DEF Dup
<1>8. Len(D) \in Nat OBVIOUS
<1>9. N <= 2 => Begins(D, P, N)  BY <1>1, <1>5
<1>10. N >= 2 => Begins(D, P, 2)  BY <1>1, <1>5
<1> QED  BY <1>0, <1>1, <1>6, <1>7, <1>8, <1>9, <1>10 DEF RoundInv

\* A round that takes nothing out.
LEMMA DupStays ==
  ASSUME NEW B, NEW S \in Int, NEW n \in Nat, NEW i \in Nat, Dup(B, S, n, i)
  PROVE  Dup(B, S, n, i + 1)
BY DEF Dup

\* C is B without its byte i + 3.
TakenOut(B, S, C, n, i) ==
  /\ S >= i + 3 /\ Dup(C, S - 1, n, i + 1) /\ C \in Seq(Nat) /\ Len(C) = n
  /\ \A m \in 1..i + 2 : C[m] = B[m]
  /\ \A m \in i + 3..n - 1 : C[m] = B[m + 1]

\* A 3 is taken out that is not behind the data: there all bytes are the same.
LEMMA DupShifts ==
  ASSUME NEW B \in Seq(Nat), NEW S \in Int, NEW n \in Nat, n = Len(B), NEW i \in Nat,
         Dup(B, S, n, i), i + 3 <= n, B[i + 2] = 0, B[i + 3] = 3, S <= n
  PROVE  TakenOut(B, S, Shifted(B, i + 2), n, i)
<1>1. PICK C : C = Shifted(B, i + 2)  OBVIOUS
<1>2. C = [j \in 1..n |-> IF j > i + 2 /\ j < n THEN B[j + 1] ELSE B[j]]
  BY <1>1 DEF Shifted
<1>3. /\ \A m \in 1..i + 2 : C[m] = B[m]
      /\ \A m \in i + 3..n - 1 : C[m] = B[m + 1]
      /\ C[n] = B[n]
  BY <1>2
<1>4. C \in Seq(Nat) /\ Len(C) = n
  <2>1. \A j \in 1..n : (IF j > i + 2 /\ j < n THEN B[j + 1] ELSE B[j]) \in Nat
    BY SMTT(30)
  <2>2. C \in [1..n -> Nat]  BY <1>2, <2>1
  <2>3. \A m \in Nat : \A f \in [1..m -> Nat] : f \in Seq(Nat) /\ Len(f) = m  OBVIOUS
  <2> QED  BY <2>2, <2>3
<1>5. S >= i + 3
  <2> SUFFICES ASSUME S <= i + 2 PROVE FALSE  OBVIOUS
  <2>1. B[i + 2] = B[n]  BY DEF Dup
  <2>2. B[i + 3] = B[n]  BY DEF Dup
  <2> QED  BY <2>1, <2>2
<1>6. Dup(C, S - 1, n, i + 1)
  <2> SUFFICES ASSUME NEW m \in 1..n, m >= S - 1, m >= (i + 1) + 2 PROVE C[m] = C[n]
    BY DEF Dup
  <2>1. CASE m = n  BY <2>1
  <2>2. CASE m # n
    <3>1. m \in i + 3..n - 1 /\ m + 1 \in 1..n /\ m + 1 >= S /\ m + 1 >= i + 2
      BY <2>2
    <3>2. C[m] = B[m + 1]  BY <3>1, <1>3
    <3>3. B[m + 1] = B[n]  BY <3>1 DEF Dup
    <3> QED  BY <3>2, <3>3, <1>3
  <2> QED  BY <2>1, <2>2
<1> QED  BY <1>1, <1>3, <1>4, <1>5, <1>6, Zenon DEF TakenOut

\* P has no 00 00 00 03.
NoThree(P) ==
  \A i \in 1..Len(P) - 3 : ~ (P[i] = 0 /\ P[i + 1] = 0 /\ P[i + 2] = 0 /\ P[i + 3] = 3)

\* Behind the first j bytes a 3 that was put there, or P goes on without.
Found(P, D, o, B, j) ==
  \/ /\ B[j - 1] = 0 /\ B[j] = 0 /\ B[j + 1] = 3
     /\ o[j + 1] = o[j] + 2 /\ D[o[j] + 2] = P[j + 1]
  \/ /\ ~ (B[j - 1] = 0 /\ B[j] = 0 /\ B[j + 1] = 3)
     /\ o[j + 1] = o[j] + 1 /\ B[j + 1] = P[j + 1]

\* Where P goes on there is a 3 behind two zeros exactly if it was put there.
LEMMA ThreeFound ==
  ASSUME NEW P \in Seq(Nat), NEW D \in Seq(Nat), NEW o, NEW z, Layout(P, D, o, z),
         NoThree(P), NEW B \in Seq(Nat), NEW S \in Int, NEW j \in 2..Len(P) - 1,
         Begins(B, P, j), Remains(B, S, D, o, j)
  PROVE  Found(P, D, o, B, j)
<1>0. PICK N : N = Len(P)  OBVIOUS
<1>1. /\ N \in Nat /\ \A i \in 1..N : P[i] \in Nat
      /\ \A i \in 0..N : o[i] \in Nat /\ z[i] \in 0..2
  <2>1. N \in Nat /\ \A i \in 1..N : P[i] \in Nat  BY <1>0
  <2>2. o \in [0..N -> Nat] /\ z \in [0..N -> 0..2]
    BY <1>0, Zenon DEF Layout
  <2>3. \A i \in 0..N : o[i] \in Nat /\ z[i] \in 0..2  BY <2>2
  <2> QED  BY <2>1, <2>3, Zenon
<1>2. j \in 0..N - 1 /\ j \in 2..N /\ j + 1 \in 0..N /\ j \in 0..N /\ j + 1 \in 1..N
  BY <1>0, <1>1
<1>3. AddsAt(P, D, o, z, j) /\ o[j + 1] <= Len(D)  BY <1>0, <1>2 DEF Layout
<1>4. /\ j <= o[j] /\ o[j] \in Nat /\ o[j + 1] \in Nat /\ z[j] \in 0..2
      /\ P[j + 1] \in Nat
  BY <1>0, <1>1, <1>2, ZerosCounted DEF Counted
<1>5. /\ z[j] = 2 => P[j - 1] = 0 /\ P[j] = 0
      /\ P[j - 1] = 0 /\ P[j] = 0 /\ z[j] # 2 => j > 2 /\ P[j - 2] = 0
  <2>1. Counted(P, o, z)  BY ZerosCounted
  <2> QED  BY <1>0, <1>2, <2>1, Zenon DEF Counted
<1>6. B[j - 1] = P[j - 1] /\ B[j] = P[j]
  <2> j - 1 \in 1..j /\ j \in 1..j  OBVIOUS
  <2> QED  BY DEF Begins
<1>p. PICK p : p = o[j]  OBVIOUS
<1>7. o[j + 1] > o[j] => B[j + 1] = D[o[j] + 1]
  <2> SUFFICES ASSUME o[j + 1] > o[j] PROVE B[j + 1] = D[o[j] + 1]  OBVIOUS
  <2>1. Len(D) \in Nat /\ S = Len(D) - o[j] + j  BY DEF Remains
  <2>2. j + 1 \in j + 1..S  BY SMTT(30), <2>1, <1>3, <1>4
  <2>3. (j + 1) + o[j] - j = o[j] + 1
    <3>1. p \in Nat => (j + 1) + p - j = p + 1  OBVIOUS
    <3> QED  BY <3>1, <1>p, <1>4, Zenon
  <2>4. B[j + 1] = D[(j + 1) + o[j] - j]  BY <2>2 DEF Remains
  <2> QED  BY <2>3, <2>4
<1>8. CASE z[j] = 2 /\ P[j + 1] <= 3
  <2>1. o[j + 1] = o[j] + 2 /\ D[o[j] + 1] = 3 /\ D[o[j] + 2] = P[j + 1]
    BY <1>3, <1>8 DEF AddsAt
  <2>2. B[j + 1] = 3  BY SMTT(30), <2>1, <1>4, <1>7
  <2> QED  BY <1>5, <1>6, <1>8, <2>1, <2>2, Zenon DEF Found
<1>9. CASE ~ (z[j] = 2 /\ P[j + 1] <= 3)
  <2>1. o[j + 1] = o[j] + 1 /\ D[o[j] + 1] = P[j + 1]
    BY <1>3, <1>9 DEF AddsAt
  <2>2. B[j + 1] = P[j + 1]  BY <2>1, <1>4, <1>7
  <2>3. ~ (P[j - 1] = 0 /\ P[j] = 0 /\ P[j + 1] = 3)
    <3> SUFFICES ASSUME P[j - 1] = 0, P[j] = 0, P[j + 1] = 3 PROVE FALSE  OBVIOUS
    <3>1. j > 2 /\ P[j - 2] = 0  BY <1>5, <1>9
    <3>2. PICK k : k = j - 2  OBVIOUS
    <3>3. k \in 1..N - 3 /\ k + 1 = j - 1 /\ k + 2 = j /\ k + 3 = j + 1
      BY <3>1, <3>2, <1>0, <1>1
    <3>4. P[k] = 0 /\ P[k + 1] = 0 /\ P[k + 2] = 0 /\ P[k + 3] = 3
      BY <3>1, <3>2, <3>3
    <3> QED  BY <3>3, <3>4, <1>0 DEF NoThree
  <2>4. ~ (B[j - 1] = 0 /\ B[j] = 0 /\ B[j + 1] = 3)  BY <1>6, <2>2, <2>3, Zenon
  <2> QED  BY <2>1, <2>2, <2>4, Zenon DEF Found
<1> QED  BY <1>8, <1>9

\* What a round makes of the bytes and their number.
Round(B, S, C, T, i) ==
  IF B[i + 1] = 0 /\ B[i + 2] = 0 /\ B[i + 3] = 3
    THEN C = Shifted(B, i + 2) /\ T = S - 1
    ELSE C = B /\ T = S

\* A round keeps the invariant.
LEMMA RoundKeeps ==
  ASSUME NEW P \in Seq(Nat), NEW D \in Seq(Nat), NEW o, NEW z, Layout(P, D, o, z),
         NoThree(P), NEW B, NEW S, NEW i \in Nat, i + 3 <= Len(D),
         RoundInv(P, D, o, B, S, i), Len(D) >= Len(P),
         NEW C, NEW T, Round(B, S, C, T, i)
  PROVE  RoundInv(P, D, o, C, T, i + 1)
<1>0. PICK N : N = Len(P)  OBVIOUS
<1>n. PICK n : n = Len(D)  OBVIOUS
<1>1. /\ N \in Nat /\ n \in Nat /\ \A k \in 1..N : P[k] \in Nat
      /\ \A k \in 0..N : o[k] \in Nat
  <2>1. N \in Nat /\ n \in Nat /\ \A k \in 1..N : P[k] \in Nat  BY <1>0, <1>n
  <2>2. o \in [0..N -> Nat]
    BY <1>0, Zenon DEF Layout
  <2>3. \A k \in 0..N : o[k] \in Nat  BY <2>2
  <2> QED  BY <2>1, <2>3, Zenon
<1>2. /\ B \in Seq(Nat) /\ Len(B) = n /\ S \in Int /\ S <= n /\ Dup(B, S, n, i)
      /\ i + 2 <= N => Begins(B, P, i + 2) /\ Remains(B, S, D, o, i + 2)
      /\ i + 2 > N => Begins(B, P, N) /\ S >= N
  BY <1>0, <1>n, Zenon DEF RoundInv
<1>3. /\ \A k \in 0..N : o[k] <= n
      /\ n \in Nat /\ i + 3 <= n /\ n >= N
  BY <1>0, <1>n DEF Layout
<1>4. CASE B[i + 1] = 0 /\ B[i + 2] = 0 /\ B[i + 3] = 3
  <2>1. C = Shifted(B, i + 2) /\ T = S - 1  BY <1>4 DEF Round
  <2>2. /\ S >= i + 3 /\ Dup(C, T, n, i + 1) /\ C \in Seq(Nat) /\ Len(C) = n
        /\ \A m \in 1..i + 2 : C[m] = B[m]
        /\ \A m \in i + 3..n - 1 : C[m] = B[m + 1]
    <3>1. TakenOut(B, S, Shifted(B, i + 2), n, i)  BY <1>2, <1>3, <1>4, DupShifts
    <3> QED  BY <3>1, <2>1, Zenon DEF TakenOut
  <2>3. T \in Int /\ T <= n /\ T >= i + 2  BY <2>1, <2>2, <1>2, <1>3
  <2>4. ASSUME (i + 1) + 2 <= N
        PROVE  Begins(C, P, (i + 1) + 2) /\ Remains(C, T, D, o, (i + 1) + 2)
    <3>1. PICK j : j = i + 2  OBVIOUS
    <3>2. /\ j \in 2..N - 1 /\ j \in 0..N /\ j + 1 \in 0..N /\ i + 3 = j + 1 /\ i + 1 = j - 1
          /\ (i + 1) + 2 = j + 1
      BY <2>4, <3>1, <1>1
    <3>3. Begins(B, P, j) /\ Remains(B, S, D, o, j)
      BY <1>2, <3>1, <3>2, <1>1
    <3>4. o[j + 1] = o[j] + 2 /\ D[o[j] + 2] = P[j + 1]
      <4>1. B[j - 1] = 0 /\ B[j] = 0 /\ B[j + 1] = 3  BY <1>4, <3>1, <3>2
      <4>2. j \in 2..Len(P) - 1  BY <3>2, <1>0
      <4>3. Found(P, D, o, B, j)  BY <4>2, <3>3, <1>2, ThreeFound
      <4> QED  BY <4>1, <4>3, Zenon DEF Found
    <3>5. S = n - o[j] + j /\ \A m \in j + 1..S : B[m] = D[m + o[j] - j]
      BY <3>3, <1>n DEF Remains
    <3>6. o[j] \in Nat /\ o[j + 1] <= n  BY <3>2, <1>1, <1>3
    <3>p. PICK p : p = o[j]  OBVIOUS
    <3>q. PICK q : q = o[j + 1]  OBVIOUS
    <3>7. \A m \in j + 1..T : C[m] = D[m + o[j + 1] - (j + 1)]
      <4> SUFFICES ASSUME NEW m \in j + 1..T
                   PROVE  C[m] = D[m + o[j + 1] - (j + 1)]
        OBVIOUS
      <4>1. m \in i + 3..n - 1 /\ m + 1 \in j + 1..S
        BY <2>1, <3>2, <1>2, <1>3
      <4>2. (m + 1) + p - j = m + q - (j + 1)
        <5>1. q = p + 2 /\ p \in Nat  BY <3>4, <3>6, <3>p, <3>q
        <5>2. m \in Int  OBVIOUS
        <5> QED  BY <5>1, <5>2, <3>2
      <4>3. C[m] = B[m + 1]  BY <4>1, <2>2
      <4>4. B[m + 1] = D[(m + 1) + o[j] - j]  BY <4>1, <3>5
      <4> QED  BY <4>2, <4>3, <4>4, <3>p, <3>q, Zenon
    <3>8. T = n - o[j + 1] + (j + 1)
      <4>1. q = p + 2 /\ p \in Nat  BY <3>4, <3>6, <3>p, <3>q
      <4>2. T = (n - p + j) - 1  BY <2>1, <3>5, <3>p, Zenon
      <4>3. T = n - q + (j + 1)  BY <4>1, <4>2, <1>1, <3>2
      <4> QED  BY <4>3, <3>q
    <3>9. C[j + 1] = P[j + 1]
      <4>1. j + 1 \in j + 1..T
        <5>1. q <= n /\ q \in Nat /\ T = n - q + (j + 1)
          BY <3>2, <3>6, <3>8, <3>q, <1>1
        <5> QED  BY <5>1, <3>2, <1>1
      <4>2. (j + 1) + q - (j + 1) = p + 2
        <5>1. q = p + 2 /\ p \in Nat  BY <3>4, <3>6, <3>p, <3>q
        <5> QED  BY <5>1, <3>2
      <4>3. C[j + 1] = D[(j + 1) + o[j + 1] - (j + 1)]  BY <4>1, <3>7
      <4> QED  BY <4>2, <4>3, <3>4, <3>p, <3>q, Zenon
    <3>10. \A m \in 1..j : C[m] = P[m]  BY <2>2, <3>1, <3>3 DEF Begins
    <3>11. Begins(C, P, j + 1)
      <4> \A m \in 1..j + 1 : m \in 1..j \/ m = j + 1  BY <3>2
      <4> QED  BY <3>9, <3>10 DEF Begins
    <3>12. \A m \in (j + 1) + 1..T : C[m] = D[m + o[j + 1] - (j + 1)]
      <4> SUFFICES ASSUME NEW m \in (j + 1) + 1..T
                   PROVE  C[m] = D[m + o[j + 1] - (j + 1)]
        OBVIOUS
      <4> m \in j + 1..T  BY <3>2, <2>3
      <4> QED  BY <3>7
    <3>13. Remains(C, T, D, o, j + 1)  BY <3>8, <3>12, <1>n, Zenon DEF Remains
    <3> QED  BY <3>2, <3>11, <3>13, Zenon
  <2>5. ASSUME (i + 1) + 2 > N PROVE Begins(C, P, N) /\ T >= N
    <3>1. T >= N /\ N <= i + 2  BY <2>3, <2>5, <1>1
    <3>2. Begins(B, P, N)
      <4>1. CASE i + 2 <= N
        <5>1. i + 2 = N  BY <4>1, <3>1, <1>1
        <5> QED  BY <5>1, <1>2
      <4>2. CASE i + 2 > N  BY <4>2, <1>2
      <4> QED  BY <4>1, <4>2, <1>1
    <3>3. \A m \in 1..N : C[m] = P[m]  BY <3>1, <3>2, <2>2, <1>1 DEF Begins
    <3> QED  BY <3>1, <3>3 DEF Begins
  <2> QED  BY <2>2, <2>3, <2>4, <2>5, <1>0, <1>n, Zenon DEF RoundInv
<1>5. CASE ~ (B[i + 1] = 0 /\ B[i + 2] = 0 /\ B[i + 3] = 3)
  <2>1. C = B /\ T = S  BY <1>5, Zenon DEF Round
  <2>2. Dup(B, S, n, i + 1)  BY <1>2, <1>1, <1>3, DupStays
  <2>4. ASSUME (i + 1) + 2 <= N
        PROVE  Begins(C, P, (i + 1) + 2) /\ Remains(C, T, D, o, (i + 1) + 2)
    <3>1. PICK j : j = i + 2  OBVIOUS
    <3>2. /\ j \in 2..N - 1 /\ j \in 0..N /\ j + 1 \in 0..N /\ i + 3 = j + 1 /\ i + 1 = j - 1
          /\ (i + 1) + 2 = j + 1
      BY <2>4, <3>1, <1>1
    <3>3. Begins(B, P, j) /\ Remains(B, S, D, o, j)
      BY <1>2, <3>1, <3>2, <1>1
    <3>4. o[j + 1] = o[j] + 1 /\ B[j + 1] = P[j + 1]
      <4>1. ~ (B[j - 1] = 0 /\ B[j] = 0 /\ B[j + 1] = 3)  BY <1>5, <3>1, <3>2
      <4>2. j \in 2..Len(P) - 1  BY <3>2, <1>0
      <4>3. Found(P, D, o, B, j)  BY <4>2, <3>3, <1>2, ThreeFound
      <4> QED  BY <4>1, <4>3, Zenon DEF Found
    <3>5. S = n - o[j] + j /\ \A m \in j + 1..S : B[m] = D[m + o[j] - j]
      BY <3>3, <1>n DEF Remains
    <3>6. o[j] \in Nat  BY <3>2, <1>1
    <3>p. PICK p : p = o[j]  OBVIOUS
    <3>q. PICK q : q = o[j + 1]  OBVIOUS
    <3>7. \A m \in (j + 1) + 1..S : B[m] = D[m + o[j + 1] - (j + 1)]
      <4> SUFFICES ASSUME NEW m \in (j + 1) + 1..S
                   PROVE  B[m] = D[m + o[j + 1] - (j + 1)]
        OBVIOUS
      <4>1. m \in j + 1..S  BY <3>2, <1>2
      <4>2. m + p - j = m + q - (j + 1)
        <5>1. q = p + 1 /\ p \in Nat  BY <3>4, <3>6, <3>p, <3>q
        <5>2. m \in Int  OBVIOUS
        <5> QED  BY <5>1, <5>2, <3>2
      <4>4. B[m] = D[m + o[j] - j]  BY <4>1, <3>5
      <4> QED  BY <4>2, <4>4, <3>p, <3>q, Zenon
    <3>8. S = n - o[j + 1] + (j + 1)
      <4>1. q = p + 1 /\ p \in Nat  BY <3>4, <3>6, <3>p, <3>q
      <4>2. S = n - p + j  BY <3>5, <3>p
      <4>3. S = n - q + (j + 1)  BY <4>1, <4>2, <1>1, <3>2
      <4> QED  BY <4>3, <3>q
    <3>11. Begins(B, P, j + 1)
      <4> \A m \in 1..j + 1 : m \in 1..j \/ m = j + 1  BY <3>2
      <4> QED  BY <3>3, <3>4 DEF Begins
    <3> QED  BY <2>1, <3>2, <3>7, <3>8, <3>11, <1>n, Zenon DEF Remains
  <2>5. ASSUME (i + 1) + 2 > N PROVE Begins(C, P, N) /\ T >= N
    <3>1. N <= i + 2  BY <2>5, <1>1
    <3>2. CASE i + 2 <= N
      <4>1. i + 2 = N /\ N \in 0..N  BY <3>1, <3>2, <1>1
      <4>2. Begins(B, P, N) /\ Remains(B, S, D, o, N)  BY <4>1, <1>2, <1>1
      <4>3. S = n - o[N] + N  BY <4>2, <1>n DEF Remains
      <4>4. S >= N  BY SMTT(30), <4>1, <4>3, <1>1, <1>3
      <4> QED  BY <4>2, <4>4, <2>1
    <3>3. CASE i + 2 > N  BY <3>3, <1>2, <2>1
    <3> QED  BY <3>2, <3>3, <1>1
  <2> QED  BY <1>2, <2>1, <2>2, <2>4, <2>5, <1>0, <1>n, Zenon DEF RoundInv
<1> QED  BY <1>4, <1>5

\* The rounds e of the loop, and in each the invariant.
LoopRounds(P, D, o, e, k) ==
  /\ \A i \in 0..k : e[i] \in Buffers /\ RoundInv(P, D, o, e[i].bytes, e[i].size, i)
  /\ \A i \in 1..k : e[i] = Unescaped(e[i - 1], i - 1)
  /\ DeEmulated(D) = SubSeq(e[k].bytes, 1, e[k].size)

\* All rounds keep it; before them there is nothing to be done.
LEMMA RoundsHold ==
  ASSUME NEW P \in Seq(Nat), NEW D \in Seq(Nat), NEW o, NEW z, Layout(P, D, o, z),
         NoThree(P)
  PROVE  /\ Len(P) <= Len(D) /\ (Len(D) < 3 => Begins(D, P, Len(P)))
         /\ \E e : LoopRounds(P, D, o, e, LoopEnd(D)) /\ e[0].bytes = D /\ e[0].size = Len(D)
<1>n. PICK n : n = Len(D)  OBVIOUS
<1>N. PICK N : N = Len(P)  OBVIOUS
<1>k. PICK k : k = LoopEnd(D)  OBVIOUS
<1>2. n \in Nat /\ N \in Nat /\ k \in Nat /\ k = (IF n < 3 THEN 0 ELSE n - 2)
  BY <1>n, <1>N, <1>k DEF LoopEnd
<1>3. N <= n
  <2>1. Counted(P, o, z)  BY ZerosCounted
  <2>2. N \in 0..N  BY <1>2
  <2>3. N <= o[N] /\ o[N] <= n /\ o[N] \in Nat
    <3>1. o \in [0..N -> Nat]  BY <1>N, Zenon DEF Layout
    <3>2. o[N] <= n  BY <1>N, <1>n, <2>2, Zenon DEF Layout
    <3>3. N <= o[N]  BY <2>1, <1>N, <2>2, Zenon DEF Counted
    <3> QED  BY <3>1, <3>2, <3>3, <2>2
  <2> QED  BY <2>3, <1>2
<1>4. /\ RoundInv(P, D, o, D, n, 0)
      /\ n < 3 => Begins(D, P, N)
  <2>1. Len(D) >= Len(P)  BY <1>3, <1>2, <1>n, <1>N
  <2> QED  BY <1>n, <1>N, <2>1, RoundsStart
<1>5. PICK e : e = Unescaping(D)  OBVIOUS
<1>6. /\ \A i \in 0..k : e[i] \in Buffers
      /\ e[0] = [bytes |-> D, size |-> n]
      /\ \A i \in 1..k : e[i] = Unescaped(e[i - 1], i - 1)
  <2>1. UnescapeSteps(e, D)  BY <1>5, UnescapingDef
  <2>2. e \in [0..k -> Buffers]  BY <1>k, <2>1, Zenon DEF UnescapeSteps
  <2> QED  BY <1>k, <1>n, <2>1, <2>2, Zenon DEF UnescapeSteps
<1> DEFINE A == {i \in Nat : i <= k => RoundInv(P, D, o, e[i].bytes, e[i].size, i)}
<1>t. e[0].bytes = D /\ e[0].size = n  BY <1>6
<1>7. 0 \in A  BY <1>t, <1>4
<1>8. ASSUME NEW i \in Nat, i \in A PROVE i + 1 \in A
  <2> SUFFICES ASSUME i + 1 <= k
               PROVE  RoundInv(P, D, o, e[i + 1].bytes, e[i + 1].size, i + 1)
    OBVIOUS
  <2>1. i + 1 \in 1..k /\ (i + 1) - 1 = i /\ i <= k /\ i + 3 <= n  BY <1>2
  <2>2. RoundInv(P, D, o, e[i].bytes, e[i].size, i)  BY <1>8, <2>1
  <2>3. e[i + 1] = Unescaped(e[i], i)  BY <1>6, <2>1
  <2>4. Round(e[i].bytes, e[i].size, e[i + 1].bytes, e[i + 1].size, i)
    BY <2>3 DEF Unescaped, Round
  <2>5. i + 3 <= Len(D) /\ Len(D) >= Len(P)  BY <2>1, <1>n, <1>N, <1>3, <1>2
  <2> QED  BY <2>2, <2>4, <2>5, RoundKeeps
<1> HIDE DEF A
<1>9. \A i \in Nat : i \in A  BY <1>7, <1>8, CountUp
<1>10. \A i \in 0..k : RoundInv(P, D, o, e[i].bytes, e[i].size, i)
  <2> SUFFICES ASSUME NEW i \in 0..k PROVE RoundInv(P, D, o, e[i].bytes, e[i].size, i)
    OBVIOUS
  <2>1. i \in Nat /\ i <= k  BY <1>2
  <2> QED  BY <1>9, <2>1 DEF A
<1>11. DeEmulated(D) = SubSeq(e[k].bytes, 1, e[k].size)  BY <1>5, <1>k DEF DeEmulated
<1>12. LoopRounds(P, D, o, e, k)  BY <1>6, <1>10, <1>11, Zenon DEF LoopRounds
<1> QED  BY <1>n, <1>N, <1>k, <1>3, <1>4, <1>12, <1>t, Zenon

\* Taking the 3s out restores what they were put into, whatever follows it.
THEOREM Restores ==
  ASSUME NEW P \in Seq(Nat), NEW R \in Seq(Nat), NEW D, IsEscaped(D, P, R), NoThree(P)
  PROVE  DeEmulated(D) \in Seq(Nat) /\ IsPrefix(P, DeEmulated(D))
<1>0. D \in Seq(Nat) /\ \E o, z : Layout(P, D, o, z)  BY EscapedLayout
<1>1. PICK o, z : Layout(P, D, o, z)  BY <1>0
<1>n. PICK n : n = Len(D)  OBVIOUS
<1>N. PICK N : N = Len(P)  OBVIOUS
<1>k. PICK k : k = LoopEnd(D)  OBVIOUS
<1>2. n \in Nat /\ N \in Nat /\ k \in Nat /\ k = (IF n < 3 THEN 0 ELSE n - 2)
  BY <1>0, <1>n, <1>N, <1>k DEF LoopEnd
<1>3. N <= n /\ (n < 3 => Begins(D, P, N))
  BY <1>0, <1>1, <1>n, <1>N, RoundsHold
<1>4. PICK e : LoopRounds(P, D, o, e, LoopEnd(D)) /\ e[0].bytes = D /\ e[0].size = Len(D)
  BY <1>0, <1>1, RoundsHold, Zenon
<1>5. LoopRounds(P, D, o, e, k) /\ e[0].bytes = D /\ e[0].size = n
  BY <1>4, <1>n, <1>k
<1>10. RoundInv(P, D, o, e[k].bytes, e[k].size, k)
  <2> k \in 0..k  BY <1>2
  <2> QED  BY <1>5, Zenon DEF LoopRounds
<1>b. PICK B : B = e[k].bytes  OBVIOUS
<1>s. PICK S : S = e[k].size  OBVIOUS
<1>11. B \in Seq(Nat) /\ Len(B) = n /\ S \in Int /\ S <= n
  BY <1>10, <1>b, <1>s, <1>n, Zenon DEF RoundInv
<1>12. Begins(B, P, N) /\ S >= N
  <2>1. CASE n < 3
    <3>1. k = 0 /\ B = D /\ S = n
      <4>1. k = 0 BY <2>1, <1>2
      <4> QED  BY <4>1, <1>5, <1>b, <1>s
    <3> QED  BY <3>1, <2>1, <1>3, <1>2
  <2>2. CASE n >= 3
    <3>1. k + 2 = n  BY <2>2, <1>2
    <3>2. CASE k + 2 > N
      BY <3>2, <1>10, <1>b, <1>s, <1>N, Zenon DEF RoundInv
    <3>3. CASE k + 2 <= N
      <4>1. k + 2 = N /\ N = n  BY <3>1, <3>3, <1>2, <1>3
      <4>2. Begins(B, P, N) /\ Remains(B, S, D, o, N)
        <5>1. Begins(B, P, k + 2) /\ Remains(B, S, D, o, k + 2)
          BY <3>3, <1>10, <1>b, <1>s, <1>N, Zenon DEF RoundInv
        <5> QED  BY <5>1, <4>1
      <4>3. S = n - o[N] + N  BY <4>2, <1>n DEF Remains
      <4>4. o[N] <= n /\ o[N] \in Nat
        <5>0. o \in [0..N -> Nat]  BY <1>1, <1>N, Zenon DEF Layout
        <5>1. o \in [0..N -> Nat] /\ N \in 0..N  BY <5>0, <1>2
        <5>2. o[N] <= n  BY <5>1, <1>1, <1>N, <1>n, Zenon DEF Layout
        <5> QED  BY <5>1, <5>2
      <4> QED  BY <4>2, <4>3, <4>4, <1>2
    <3> QED  BY <3>2, <3>3, <1>2
  <2> QED  BY <2>1, <2>2, <1>2
<1>13. DeEmulated(D) = SubSeq(B, 1, S)
  BY <1>5, <1>b, <1>s, Zenon DEF LoopRounds
<1>14. PICK F : F = SubSeq(B, 1, S)  OBVIOUS
<1>15. /\ F \in Seq(Nat) /\ Len(F) = S
       /\ \A m \in 1..S : F[m] = B[m]
  <2>1. S \in 0..Len(B)  BY <1>11, <1>12, <1>2
  <2> QED  BY <1>14, <1>11, <2>1
<1>16. IsPrefix(P, F)
  <2>1. Len(P) <= Len(F)  BY <1>12, <1>15, <1>N
  <2>2. \A m \in 1..N : P[m] = F[m]
    <3> SUFFICES ASSUME NEW m \in 1..N PROVE P[m] = F[m]  OBVIOUS
    <3>1. m \in 1..S  BY <1>2, <1>11, <1>12
    <3> QED  BY <3>1, <1>12, <1>15 DEF Begins
  <2>3. SubSeq(P, 1, N) = SubSeq(F, 1, N)
    <3>1. \A m \in 1..N : SubSeq(P, 1, N)[m] = P[m] /\ SubSeq(F, 1, N)[m] = F[m]
      BY <1>2, <1>15, <2>1, <1>N
    <3>2. SubSeq(P, 1, N) = [m \in 1..N |-> P[m]] /\ SubSeq(F, 1, N) = [m \in 1..N |-> F[m]]
      BY <1>2, <1>15, <2>1, <1>N
    <3> QED  BY <2>2, <3>2
  <2> QED  BY <2>1, <2>3, <1>N, Zenon DEF IsPrefix
<1> QED  BY <1>13, <1>14, <1>15, <1>16

\* Alone it is restored exactly: when P is complete the last byte is all that
\* is left to look at, and that is no 3 behind two zeros.
THEOREM RestoresAll ==
  ASSUME NEW P \in Seq(Nat), NoThree(P), Len(P) >= 2
  PROVE  DeEmulated(Escaped(P)) = P
<1>1. PICK D, n, N, k : D = Escaped(P) /\ n = Len(D) /\ N = Len(P) /\ k = LoopEnd(D)
  OBVIOUS
<1>2. IsEscaped(D, P, << >>) /\ << >> \in Seq(Nat) /\ D \in Seq(Nat)
  <2>1. Escaped(P) \in Seq(Nat)
    <3>1. PICK D0 : D0 = Escaped(P) \o << >>  OBVIOUS
    <3>2. << >> \in Seq(Nat) /\ IsEscaped(D0, P, << >>)  BY <3>1 DEF IsEscaped
    <3> QED  BY <3>2, EscapedLayout
  <2> QED  BY <1>1, <2>1 DEF IsEscaped
<1>3. PICK o, z : Layout(P, D, o, z) /\ o[N] = n
  BY <1>1, <1>2, EscapedLayout
<1>4. n \in Nat /\ N \in Nat /\ k \in Nat /\ k = (IF n < 3 THEN 0 ELSE n - 2)
      /\ N >= 2 /\ N <= n
  BY <1>1, <1>2, <1>3, RoundsHold DEF LoopEnd
<1>5. PICK e : LoopRounds(P, D, o, e, k)
  BY <1>1, <1>2, <1>3, RoundsHold, Zenon
<1>6. ASSUME NEW i \in 0..k
      PROVE  RoundInv(P, D, o, e[i].bytes, e[i].size, i)
             /\ (i + 2 = N => e[i].size = N)
  <2>1. RoundInv(P, D, o, e[i].bytes, e[i].size, i)  BY <1>5, Zenon DEF LoopRounds
  <2>2. ASSUME i + 2 = N PROVE e[i].size = N
    <3>1. i + 2 <= Len(P)  BY <1>1, <1>4, <2>2
    <3>2. Remains(e[i].bytes, e[i].size, D, o, i + 2)  BY <2>1, <3>1, Zenon DEF RoundInv
    <3>3. e[i].size = n - o[N] + N  BY <1>1, <2>2, <3>2, Zenon DEF Remains
    <3> QED  BY <1>3, <1>4, <3>3
  <2> QED  BY <2>1, <2>2
<1> DEFINE A == {i \in Nat : i <= k /\ i + 2 >= N => e[i].size = N}
<1>7. 0 \in A
  <2> SUFFICES ASSUME 0 + 2 >= N PROVE e[0].size = N  OBVIOUS
  <2>1. 0 + 2 = N /\ 0 \in 0..k  BY <1>4
  <2> QED  BY <1>6, <2>1
<1>8. ASSUME NEW i \in Nat, i \in A PROVE i + 1 \in A
  <2> SUFFICES ASSUME i + 1 <= k, (i + 1) + 2 >= N PROVE e[i + 1].size = N  OBVIOUS
  <2>1. i \in 0..k /\ i + 1 \in 0..k /\ i + 1 \in 1..k /\ (i + 1) - 1 = i /\ i + 3 <= n
    BY <1>4
  <2>2. CASE i + 2 >= N
    <3>1. PICK B, S : B = e[i].bytes /\ S = e[i].size  OBVIOUS
    <3>2. S = N  BY <1>8, <2>1, <2>2, <3>1
    <3>3. Dup(B, S, n, i)  BY <1>1, <1>6, <2>1, <3>1, Zenon DEF RoundInv
    <3>4. B[i + 2] = B[n] /\ B[i + 3] = B[n]
      <4>1. /\ i + 2 \in 1..n /\ i + 3 \in 1..n /\ i + 2 >= S /\ i + 3 >= S
            /\ i + 2 >= i + 2 /\ i + 3 >= i + 2
        BY <1>4, <2>1, <2>2, <3>2
      <4> QED  BY <3>3, <4>1, Zenon DEF Dup
    <3>5. ~ (B[i + 1] = 0 /\ B[i + 2] = 0 /\ B[i + 3] = 3)  BY <3>4
    <3>6. e[i + 1] = Unescaped(e[i], i)  BY <1>5, <2>1 DEF LoopRounds
    <3>7. e[i + 1] = e[i]  BY <3>1, <3>5, <3>6, Zenon DEF Unescaped
    <3> QED  BY <3>1, <3>2, <3>7
  <2>3. CASE ~ (i + 2 >= N)
    <3>1. (i + 1) + 2 = N  BY <1>4, <2>3
    <3> QED  BY <1>6, <2>1, <3>1
  <2> QED  BY <2>2, <2>3
<1> HIDE DEF A
<1>9. \A i \in Nat : i \in A  BY <1>7, <1>8, CountUp
<1>10. e[k].size = N
  <2>1. k \in A /\ k <= k /\ k + 2 >= N  BY <1>4, <1>9
  <2> QED  BY <2>1 DEF A
<1>11. PICK F : F = SubSeq(e[k].bytes, 1, N)  OBVIOUS
<1>12. F = DeEmulated(D)  BY <1>5, <1>10, <1>11, Zenon DEF LoopRounds
<1>13. F \in Seq(Nat) /\ IsPrefix(P, F)
  BY <1>1, <1>2, <1>12, Restores, Zenon
<1>14. Len(F) = N
  <2>1. e[k].bytes \in Seq(Nat) /\ Len(e[k].bytes) = n
    <3>1. k \in 0..k  BY <1>4
    <3> QED  BY <1>1, <1>6, <3>1, Zenon DEF RoundInv
  <2> QED  BY <1>4, <1>11, <2>1
<1>15. SubSeq(P, 1, N) = SubSeq(F, 1, N)  BY <1>1, <1>13, Zenon DEF IsPrefix
<1>16. SubSeq(P, 1, N) = P  BY <1>1
<1>17. SubSeq(F, 1, N) = F  BY <1>13, <1>14
<1> QED  BY <1>1, <1>12, <1>15, <1>16, <1>17

-----------------------------------------------------------------------------
(* base64: three bytes and four characters.                                 *)

\* Bytes, and three of them in one number.
Octet == 0..255

Triple(a, b, c) == 65536 * a + 256 * b + c

\* The six bits of a character, from three bytes.
Cut4(x) == x = 4 * (x \div 4) + (x % 4) /\ x \div 4 \in 0..63 /\ x % 4 \in 0..3
Cut16(x) == x = 16 * (x \div 16) + (x % 16) /\ x \div 16 \in 0..15 /\ x % 16 \in 0..15
Cut64(x) == x = 64 * (x \div 64) + (x % 64) /\ x \div 64 \in 0..3 /\ x % 64 \in 0..63

\* A byte is its quotient and its remainder.
LEMMA Quotients ==
  ASSUME NEW x \in Octet
  PROVE  Cut4(x) /\ Cut16(x) /\ Cut64(x)
<1>1. Cut4(x)
  <2>1. x = 4 * (x \div 4) + (x % 4)  BY SMT DEF Octet
  <2>2. x \div 4 \in 0..63  BY SMT DEF Octet
  <2>3. x % 4 \in 0..3  BY SMT DEF Octet
  <2> QED  BY <2>1, <2>2, <2>3, Zenon DEF Cut4
<1>2. Cut16(x)
  <2>1. x = 16 * (x \div 16) + (x % 16)  BY SMT DEF Octet
  <2>2. x \div 16 \in 0..15  BY SMT DEF Octet
  <2>3. x % 16 \in 0..15  BY SMT DEF Octet
  <2> QED  BY <2>1, <2>2, <2>3, Zenon DEF Cut16
<1>3. Cut64(x)
  <2>1. x = 64 * (x \div 64) + (x % 64)  BY SMT DEF Octet
  <2>2. x \div 64 \in 0..3  BY SMT DEF Octet
  <2>3. x % 64 \in 0..63  BY SMT DEF Octet
  <2> QED  BY <2>1, <2>2, <2>3, Zenon DEF Cut64
<1> QED  BY <1>1, <1>2, <1>3

\* The four characters of the number T made of three bytes.
FourParts(a, b, c, T) ==
  /\ (T \div 262144) % 64 = a \div 4
  /\ (T \div 4096) % 64 = (a % 4) * 16 + b \div 16
  /\ (T \div 64) % 64 = (b % 16) * 4 + c \div 64
  /\ (T \div 1) % 64 = c % 64

\* Cutting T gives them.
LEMMA FourOfThree ==
  ASSUME NEW a \in Octet, NEW b \in Octet, NEW c \in Octet,
         NEW T, T = Triple(a, b, c)
  PROVE  FourParts(a, b, c, T)
<1>1. PICK p : p = a \div 4  OBVIOUS
<1>2. PICK p0 : p0 = a % 4  OBVIOUS
<1>3. PICK q : q = b \div 16  OBVIOUS
<1>4. PICK q0 : q0 = b % 16  OBVIOUS
<1>5. PICK r : r = c \div 64  OBVIOUS
<1>6. PICK s : s = c % 64  OBVIOUS
<1>7. /\ p \in 0..63 /\ p0 \in 0..3 /\ a = 4 * p + p0
      /\ q \in 0..15 /\ q0 \in 0..15 /\ b = 16 * q + q0
      /\ r \in 0..3 /\ s \in 0..63 /\ c = 64 * r + s
  <2>1. Cut4(a) /\ Cut16(b) /\ Cut64(c)  BY Quotients
  <2> QED  BY <1>1, <1>2, <1>3, <1>4, <1>5, <1>6, <2>1, Zenon DEF Cut4, Cut16, Cut64
<1>8. PICK m : m = p0 * 16 + q  OBVIOUS
<1>9. PICK l : l = q0 * 4 + r  OBVIOUS
<1>10. m \in 0..63 /\ l \in 0..63  BY <1>7, <1>8, <1>9
<1>11. T = 262144 * p + 4096 * m + 64 * l + s
  BY <1>7, <1>8, <1>9, SMT DEF Triple
<1>12. T \div 262144 = p  BY <1>7, <1>10, <1>11, SMT
<1>13. T \div 4096 = 64 * p + m  BY <1>7, <1>10, <1>11, SMT
<1>14. T \div 64 = 4096 * p + 64 * m + l  BY <1>7, <1>10, <1>11, SMT
<1>15. T \div 1 = 262144 * p + 4096 * m + 64 * l + s  BY <1>7, <1>10, <1>11, SMT
<1>16. p % 64 = p  BY <1>7, SMT
<1>17. (64 * p + m) % 64 = m  BY <1>7, <1>10, SMT
<1>18. (4096 * p + 64 * m + l) % 64 = l  BY <1>7, <1>10, SMT
<1>19. (262144 * p + 4096 * m + 64 * l + s) % 64 = s  BY <1>7, <1>10, SMT
<1> QED  BY <1>1, <1>2, <1>3, <1>4, <1>5, <1>6, <1>8, <1>9, <1>12, <1>13, <1>14,
            <1>15, <1>16, <1>17, <1>18, <1>19, SMT DEF FourParts

\* Cutting T into bytes gives the bytes.
LEMMA ThreeOfThree ==
  ASSUME NEW a \in Octet, NEW b \in Octet, NEW c \in Octet,
         NEW T, T = Triple(a, b, c)
  PROVE  /\ (T \div 65536) % 256 = a
         /\ (T \div 256) % 256 = b
         /\ (T \div 1) % 256 = c
<1>1. T \div 65536 = a  BY SMT DEF Triple, Octet
<1>2. T \div 256 = 256 * a + b  BY SMT DEF Triple, Octet
<1>3. T \div 1 = 65536 * a + 256 * b + c  BY SMT DEF Triple, Octet
<1>4. a % 256 = a  BY SMT DEF Octet
<1>5. (256 * a + b) % 256 = b  BY SMT DEF Octet
<1>6. (65536 * a + 256 * b + c) % 256 = c  BY SMT DEF Octet
<1> QED  BY <1>1, <1>2, <1>3, <1>4, <1>5, <1>6

\* Putting the characters together gives T.
LEMMA ThreeOfFour ==
  ASSUME NEW a \in Octet, NEW b \in Octet, NEW c \in Octet
  PROVE  (((a \div 4) * 64 + ((a % 4) * 16 + b \div 16)) * 64
             + ((b % 16) * 4 + c \div 64)) * 64 + (c % 64) = Triple(a, b, c)
<1>1. PICK p : p = a \div 4  OBVIOUS
<1>2. PICK p0 : p0 = a % 4  OBVIOUS
<1>3. PICK q : q = b \div 16  OBVIOUS
<1>4. PICK q0 : q0 = b % 16  OBVIOUS
<1>5. PICK r : r = c \div 64  OBVIOUS
<1>6. PICK s : s = c % 64  OBVIOUS
<1>7. /\ p \in 0..63 /\ p0 \in 0..3 /\ a = 4 * p + p0
      /\ q \in 0..15 /\ q0 \in 0..15 /\ b = 16 * q + q0
      /\ r \in 0..3 /\ s \in 0..63 /\ c = 64 * r + s
  <2>1. Cut4(a) /\ Cut16(b) /\ Cut64(c)  BY Quotients
  <2> QED  BY <1>1, <1>2, <1>3, <1>4, <1>5, <1>6, <2>1, Zenon DEF Cut4, Cut16, Cut64
<1>8. ((p * 64 + p0 * 16 + q) * 64 + q0 * 4 + r) * 64 + s = 65536 * a + 256 * b + c
  <2>1. (p * 64 + p0 * 16 + q) * 64 = 4096 * p + 1024 * p0 + 64 * q  BY <1>7, SMT
  <2>2. (4096 * p + 1024 * p0 + 64 * q + q0 * 4 + r) * 64
          = 262144 * p + 65536 * p0 + 4096 * q + 256 * q0 + 64 * r
    BY <1>7, SMT
  <2>3. 262144 * p + 65536 * p0 + 4096 * q + 256 * q0 + 64 * r + s = 65536 * a + 256 * b + c
    BY <1>7, SMT
  <2> QED  BY <2>1, <2>2, <2>3, SMT
<1> QED  BY <1>1, <1>2, <1>3, <1>4, <1>5, <1>6, <1>8, SMT DEF Triple

\* The i-th of three bytes, and the i-th of the characters they give.
Byte3(a, b, c, i) == IF i = 0 THEN a ELSE IF i = 1 THEN b ELSE c

\* Character i of T.
Sextet(T, i) == (T \div 64^(3 - i)) % 64

\* The characters of T by the bytes it is made of.
SextetsOf(a, b, c, T) ==
  /\ Sextet(T, 0) = a \div 4 /\ Sextet(T, 1) = (a % 4) * 16 + b \div 16
  /\ Sextet(T, 2) = (b % 16) * 4 + c \div 64 /\ Sextet(T, 3) = c % 64

\* They are these, for every three bytes.
LEMMA Sextets ==
  ASSUME NEW a \in Octet, NEW b \in Octet, NEW c \in Octet, NEW T, T = Triple(a, b, c)
  PROVE  SextetsOf(a, b, c, T)
<1>1. 64^(3 - 0) = 262144 /\ 64^(3 - 1) = 4096 /\ 64^(3 - 2) = 64 /\ 64^(3 - 3) = 1
  BY SMT
<1>2. Sextet(T, 0) = (T \div 262144) % 64  BY <1>1, SMT DEF Sextet
<1>3. Sextet(T, 1) = (T \div 4096) % 64  BY <1>1, SMT DEF Sextet
<1>4. Sextet(T, 2) = (T \div 64) % 64  BY <1>1, SMT DEF Sextet
<1>5. Sextet(T, 3) = (T \div 1) % 64  BY <1>1, SMT DEF Sextet
<1>6. FourParts(a, b, c, T)  BY FourOfThree
<1> QED  BY <1>2, <1>3, <1>4, <1>5, <1>6, SMT DEF SextetsOf, FourParts

\* The bytes by their number.
LEMMA Bytes3 ==
  ASSUME NEW a, NEW b, NEW c
  PROVE  Byte3(a, b, c, 0) = a /\ Byte3(a, b, c, 1) = b /\ Byte3(a, b, c, 2) = c
BY DEF Byte3

\* Bit q of the three bytes is bit q of the four characters.
SameBit(a, b, c, T, q) ==
  (Byte3(a, b, c, q \div 8) \div 2^(7 - (q % 8))) % 2
     = (Sextet(T, q \div 6) \div 2^(5 - (q % 6))) % 2

\* It is, for all 24 of them.
LEMMA BitsAgree ==
  ASSUME NEW a \in Octet, NEW b \in Octet, NEW c \in Octet, NEW T, T = Triple(a, b, c),
         NEW q \in 0..23
  PROVE  SameBit(a, b, c, T, q)
<1>a. SextetsOf(a, b, c, T)  BY Sextets
<1>b. Byte3(a, b, c, 0) = a /\ Byte3(a, b, c, 1) = b /\ Byte3(a, b, c, 2) = c
  BY DEF Byte3
<1>1. CASE q = 0
  <2>1. q \div 8 = 0 /\ 2^(7 - (q % 8)) = 128 /\ q \div 6 = 0 /\ 2^(5 - (q % 6)) = 32
    BY <1>1, SMT
  <2>2. (a \div 128) % 2 = ((a \div 4) \div 32) % 2  BY SMT DEF Octet
  <2> QED  BY <1>a, <1>b, <2>1, <2>2, ZenonT(60) DEF SameBit, SextetsOf
<1>2. CASE q = 1
  <2>1. q \div 8 = 0 /\ 2^(7 - (q % 8)) = 64 /\ q \div 6 = 0 /\ 2^(5 - (q % 6)) = 16
    BY <1>2, SMT
  <2>2. (a \div 64) % 2 = ((a \div 4) \div 16) % 2  BY SMT DEF Octet
  <2> QED  BY <1>a, <1>b, <2>1, <2>2, Zenon DEF SameBit, SextetsOf
<1>3. CASE q = 2
  <2>1. q \div 8 = 0 /\ 2^(7 - (q % 8)) = 32 /\ q \div 6 = 0 /\ 2^(5 - (q % 6)) = 8
    BY <1>3, SMT
  <2>2. (a \div 32) % 2 = ((a \div 4) \div 8) % 2  BY SMT DEF Octet
  <2> QED  BY <1>a, <1>b, <2>1, <2>2, Zenon DEF SameBit, SextetsOf
<1>4. CASE q = 3
  <2>1. q \div 8 = 0 /\ 2^(7 - (q % 8)) = 16 /\ q \div 6 = 0 /\ 2^(5 - (q % 6)) = 4
    BY <1>4, SMT
  <2>2. (a \div 16) % 2 = ((a \div 4) \div 4) % 2  BY SMT DEF Octet
  <2> QED  BY <1>a, <1>b, <2>1, <2>2, Zenon DEF SameBit, SextetsOf
<1>5. CASE q = 4
  <2>1. q \div 8 = 0 /\ 2^(7 - (q % 8)) = 8 /\ q \div 6 = 0 /\ 2^(5 - (q % 6)) = 2
    BY <1>5, SMT
  <2>2. (a \div 8) % 2 = ((a \div 4) \div 2) % 2  BY SMT DEF Octet
  <2> QED  BY <1>a, <1>b, <2>1, <2>2, Zenon DEF SameBit, SextetsOf
<1>6. CASE q = 5
  <2>1. q \div 8 = 0 /\ 2^(7 - (q % 8)) = 4 /\ q \div 6 = 0 /\ 2^(5 - (q % 6)) = 1
    BY <1>6, SMT
  <2>2. (a \div 4) % 2 = ((a \div 4) \div 1) % 2  BY SMT DEF Octet
  <2> QED  BY <1>a, <1>b, <2>1, <2>2, Zenon DEF SameBit, SextetsOf
<1>7. CASE q = 6
  <2>1. q \div 8 = 0 /\ 2^(7 - (q % 8)) = 2 /\ q \div 6 = 1 /\ 2^(5 - (q % 6)) = 32
    BY <1>7, SMT
  <2>2. (a \div 2) % 2 = (((a % 4) * 16 + b \div 16) \div 32) % 2  BY SMT DEF Octet
  <2> QED  BY <1>a, <1>b, <2>1, <2>2, Zenon DEF SameBit, SextetsOf
<1>8. CASE q = 7
  <2>1. q \div 8 = 0 /\ 2^(7 - (q % 8)) = 1 /\ q \div 6 = 1 /\ 2^(5 - (q % 6)) = 16
    BY <1>8, SMT
  <2>2. (a \div 1) % 2 = (((a % 4) * 16 + b \div 16) \div 16) % 2  BY SMT DEF Octet
  <2> QED  BY <1>a, <1>b, <2>1, <2>2, Zenon DEF SameBit, SextetsOf
<1>9. CASE q = 8
  <2>1. q \div 8 = 1 /\ 2^(7 - (q % 8)) = 128 /\ q \div 6 = 1 /\ 2^(5 - (q % 6)) = 8
    BY <1>9, SMT
  <2>2. (b \div 128) % 2 = (((a % 4) * 16 + b \div 16) \div 8) % 2  BY SMT DEF Octet
  <2> QED  BY <1>a, <1>b, <2>1, <2>2, ZenonT(60) DEF SameBit, SextetsOf
<1>10. CASE q = 9
  <2>1. q \div 8 = 1 /\ 2^(7 - (q % 8)) = 64 /\ q \div 6 = 1 /\ 2^(5 - (q % 6)) = 4
    BY <1>10, SMT
  <2>2. (b \div 64) % 2 = (((a % 4) * 16 + b \div 16) \div 4) % 2  BY SMT DEF Octet
  <2> QED  BY <1>a, <1>b, <2>1, <2>2, Zenon DEF SameBit, SextetsOf
<1>11. CASE q = 10
  <2>1. q \div 8 = 1 /\ 2^(7 - (q % 8)) = 32 /\ q \div 6 = 1 /\ 2^(5 - (q % 6)) = 2
    BY <1>11, SMT
  <2>2. (b \div 32) % 2 = (((a % 4) * 16 + b \div 16) \div 2) % 2  BY SMT DEF Octet
  <2> QED  BY <1>a, <1>b, <2>1, <2>2, Zenon DEF SameBit, SextetsOf
<1>12. CASE q = 11
  <2>1. q \div 8 = 1 /\ 2^(7 - (q % 8)) = 16 /\ q \div 6 = 1 /\ 2^(5 - (q % 6)) = 1
    BY <1>12, SMT
  <2>2. (b \div 16) % 2 = (((a % 4) * 16 + b \div 16) \div 1) % 2  BY SMT DEF Octet
  <2> QED  BY <1>a, <1>b, <2>1, <2>2, Zenon DEF SameBit, SextetsOf
<1>13. CASE q = 12
  <2>1. q \div 8 = 1 /\ 2^(7 - (q % 8)) = 8 /\ q \div 6 = 2 /\ 2^(5 - (q % 6)) = 32
    BY <1>13, SMT
  <2>2. (b \div 8) % 2 = (((b % 16) * 4 + c \div 64) \div 32) % 2  BY SMT DEF Octet
  <2> QED  BY <1>a, <1>b, <2>1, <2>2, Zenon DEF SameBit, SextetsOf
<1>14. CASE q = 13
  <2>1. q \div 8 = 1 /\ 2^(7 - (q % 8)) = 4 /\ q \div 6 = 2 /\ 2^(5 - (q % 6)) = 16
    BY <1>14, SMT
  <2>2. (b \div 4) % 2 = (((b % 16) * 4 + c \div 64) \div 16) % 2  BY SMT DEF Octet
  <2> QED  BY <1>a, <1>b, <2>1, <2>2, Zenon DEF SameBit, SextetsOf
<1>15. CASE q = 14
  <2>1. q \div 8 = 1 /\ 2^(7 - (q % 8)) = 2 /\ q \div 6 = 2 /\ 2^(5 - (q % 6)) = 8
    BY <1>15, SMT
  <2>2. (b \div 2) % 2 = (((b % 16) * 4 + c \div 64) \div 8) % 2  BY SMT DEF Octet
  <2> QED  BY <1>a, <1>b, <2>1, <2>2, Zenon DEF SameBit, SextetsOf
<1>16. CASE q = 15
  <2>1. q \div 8 = 1 /\ 2^(7 - (q % 8)) = 1 /\ q \div 6 = 2 /\ 2^(5 - (q % 6)) = 4
    BY <1>16, SMT
  <2>2. (b \div 1) % 2 = (((b % 16) * 4 + c \div 64) \div 4) % 2  BY SMT DEF Octet
  <2> QED  BY <1>a, <1>b, <2>1, <2>2, Zenon DEF SameBit, SextetsOf
<1>17. CASE q = 16
  <2>1. q \div 8 = 2 /\ 2^(7 - (q % 8)) = 128 /\ q \div 6 = 2 /\ 2^(5 - (q % 6)) = 2
    BY <1>17, SMT
  <2>2. (c \div 128) % 2 = (((b % 16) * 4 + c \div 64) \div 2) % 2  BY SMT DEF Octet
  <2> QED  BY <1>a, <1>b, <2>1, <2>2, ZenonT(60) DEF SameBit, SextetsOf
<1>18. CASE q = 17
  <2>1. q \div 8 = 2 /\ 2^(7 - (q % 8)) = 64 /\ q \div 6 = 2 /\ 2^(5 - (q % 6)) = 1
    BY <1>18, SMT
  <2>2. (c \div 64) % 2 = (((b % 16) * 4 + c \div 64) \div 1) % 2  BY SMT DEF Octet
  <2> QED  BY <1>a, <1>b, <2>1, <2>2, Zenon DEF SameBit, SextetsOf
<1>19. CASE q = 18
  <2>1. q \div 8 = 2 /\ 2^(7 - (q % 8)) = 32 /\ q \div 6 = 3 /\ 2^(5 - (q % 6)) = 32
    BY <1>19, SMT
  <2>2. (c \div 32) % 2 = ((c % 64) \div 32) % 2  BY SMT DEF Octet
  <2> QED  BY <1>a, <1>b, <2>1, <2>2, Zenon DEF SameBit, SextetsOf
<1>20. CASE q = 19
  <2>1. q \div 8 = 2 /\ 2^(7 - (q % 8)) = 16 /\ q \div 6 = 3 /\ 2^(5 - (q % 6)) = 16
    BY <1>20, SMT
  <2>2. (c \div 16) % 2 = ((c % 64) \div 16) % 2  BY SMT DEF Octet
  <2> QED  BY <1>a, <1>b, <2>1, <2>2, Zenon DEF SameBit, SextetsOf
<1>21. CASE q = 20
  <2>1. q \div 8 = 2 /\ 2^(7 - (q % 8)) = 8 /\ q \div 6 = 3 /\ 2^(5 - (q % 6)) = 8
    BY <1>21, SMT
  <2>2. (c \div 8) % 2 = ((c % 64) \div 8) % 2  BY SMT DEF Octet
  <2> QED  BY <1>a, <1>b, <2>1, <2>2, Zenon DEF SameBit, SextetsOf
<1>22. CASE q = 21
  <2>1. q \div 8 = 2 /\ 2^(7 - (q % 8)) = 4 /\ q \div 6 = 3 /\ 2^(5 - (q % 6)) = 4
    BY <1>22, SMT
  <2>2. (c \div 4) % 2 = ((c % 64) \div 4) % 2  BY SMT DEF Octet
  <2> QED  BY <1>a, <1>b, <2>1, <2>2, Zenon DEF SameBit, SextetsOf
<1>23. CASE q = 22
  <2>1. q \div 8 = 2 /\ 2^(7 - (q % 8)) = 2 /\ q \div 6 = 3 /\ 2^(5 - (q % 6)) = 2
    BY <1>23, SMT
  <2>2. (c \div 2) % 2 = ((c % 64) \div 2) % 2  BY SMT DEF Octet
  <2> QED  BY <1>a, <1>b, <2>1, <2>2, Zenon DEF SameBit, SextetsOf
<1>24. CASE q = 23
  <2>1. q \div 8 = 2 /\ 2^(7 - (q % 8)) = 1 /\ q \div 6 = 3 /\ 2^(5 - (q % 6)) = 1
    BY <1>24, SMT
  <2>2. (c \div 1) % 2 = ((c % 64) \div 1) % 2  BY SMT DEF Octet
  <2> QED  BY <1>a, <1>b, <2>1, <2>2, Zenon DEF SameBit, SextetsOf
<1> QED
  BY <1>1, <1>2, <1>3, <1>4, <1>5, <1>6, <1>7, <1>8, <1>9, <1>10, <1>11, <1>12,
     <1>13, <1>14, <1>15, <1>16, <1>17, <1>18, <1>19, <1>20, <1>21, <1>22, <1>23, <1>24

-----------------------------------------------------------------------------
(* base64: units and texts.                                                 *)

\* Byte k of unit, counted from 0; 0 behind its end.
At(unit, k) == Item(unit, Len(unit), k)

\* The three bytes of group g, as a number.
Group(unit, g) == Triple(At(unit, 3 * g), At(unit, 3 * g + 1), At(unit, 3 * g + 2))

\* There are G groups, and m bytes in the last.
Grouped(unit, G, m) == G \in Nat \ {0} /\ m \in 1..3 /\ Len(unit) = 3 * (G - 1) + m

\* What the characters of a text are.
TextOf(text, unit, G, m) ==
  /\ text \in Seq(Nat) /\ Len(text) = 4 * G
  /\ \A g \in 0..G - 1, i \in 0..3 :
       text[4 * g + i + 1] = IF g = G - 1 /\ m < i THEN 64 ELSE Sextet(Group(unit, g), i)

\* What is at a place is a byte.
LEMMA AtOctet ==
  ASSUME NEW unit \in Seq(Octet), NEW k \in Nat
  PROVE  At(unit, k) \in Octet /\ (k < Len(unit) => At(unit, k) = unit[k + 1])
<1>1. CASE k < Len(unit)
  <2>1. k + 1 \in 1..Len(unit)  BY <1>1
  <2>2. unit[k + 1] \in Octet  BY <2>1
  <2> QED  BY <2>2, <1>1 DEF At, Item
<1>2. CASE ~ (k < Len(unit))  BY <1>2 DEF At, Item, Octet
<1> QED  BY <1>1, <1>2

\* A group is made of three bytes.
LEMMA GroupOf ==
  ASSUME NEW unit \in Seq(Octet), NEW g \in Nat
  PROVE  \E a \in Octet, b \in Octet, c \in Octet :
           /\ a = At(unit, 3 * g) /\ b = At(unit, 3 * g + 1) /\ c = At(unit, 3 * g + 2)
           /\ Group(unit, g) = Triple(a, b, c)
<1>1. 3 * g \in Nat /\ 3 * g + 1 \in Nat /\ 3 * g + 2 \in Nat  OBVIOUS
<1>2. At(unit, 3 * g) \in Octet /\ At(unit, 3 * g + 1) \in Octet /\ At(unit, 3 * g + 2) \in Octet
  <2>1. \A k \in Nat : At(unit, k) \in Octet  BY AtOctet
  <2> QED  BY <1>1, <2>1, Zenon
<1> QED  BY <1>2, Zenon DEF Group

\* A unit that is not empty has groups.
LEMMA HasGroups ==
  ASSUME NEW unit \in Seq(Octet), unit # << >>
  PROVE  \E G, m : Grouped(unit, G, m) /\ G = (Len(unit) + 2) \div 3
<1>1. PICK n : n = Len(unit)  OBVIOUS
<1>2. n \in Nat \ {0}  BY <1>1
<1>3. PICK G : G = (n + 2) \div 3  OBVIOUS
<1>4. G \in Nat \ {0} /\ n - 3 * (G - 1) \in 1..3  BY <1>2, <1>3, SMT
<1>5. PICK m : m = n - 3 * (G - 1)  OBVIOUS
<1>6. n = 3 * (G - 1) + m /\ m \in 1..3  BY <1>2, <1>4, <1>5
<1> QED  BY <1>1, <1>3, <1>4, <1>6 DEF Grouped

\* A character is a number below 64.
LEMMA SextetSmall ==
  ASSUME NEW unit \in Seq(Octet), NEW g \in Nat, NEW i \in 0..3
  PROVE  Sextet(Group(unit, g), i) \in 0..63
<1>1. PICK a \in Octet, b \in Octet, c \in Octet :
        Group(unit, g) = Triple(a, b, c)
  BY GroupOf
<1>2. PICK T : T = Triple(a, b, c)  OBVIOUS
<1>3. T \in Nat  BY <1>2, SMT DEF Triple, Octet
<1>4. \A x \in Nat : x % 64 \in 0..63  BY SMT
<1>5. 64^(3 - 0) = 262144 /\ 64^(3 - 1) = 4096 /\ 64^(3 - 2) = 64 /\ 64^(3 - 3) = 1
  BY SMT
<1>6. /\ T \div 262144 \in Nat /\ T \div 4096 \in Nat /\ T \div 64 \in Nat /\ T \div 1 \in Nat
  BY <1>3, SMT
<1>7. i = 0 \/ i = 1 \/ i = 2 \/ i = 3  OBVIOUS
<1>8. T \div 64^(3 - i) \in Nat
  <2>1. CASE i = 0  BY <1>5, <1>6, <2>1, SMT
  <2>2. CASE i = 1  BY <1>5, <1>6, <2>2, SMT
  <2>3. CASE i = 2  BY <1>5, <1>6, <2>3, SMT
  <2>4. CASE i = 3  BY <1>5, <1>6, <2>4, SMT
  <2> QED  BY <1>7, <2>1, <2>2, <2>3, <2>4
<1> QED  BY <1>1, <1>2, <1>4, <1>8, Zenon DEF Sextet

\* base64_encode gives that text.
LEMMA EncodedText ==
  ASSUME NEW unit \in Seq(Octet), NEW G, NEW m, Grouped(unit, G, m)
  PROVE  TextOf(Encoded(unit), unit, G, m)
<1>1. PICK n : n = Len(unit)  OBVIOUS
<1>2. G \in Nat \ {0} /\ m \in 1..3 /\ n = 3 * (G - 1) + m /\ n \in Nat
  BY <1>1 DEF Grouped
<1>3. (n + 2) \div 3 = G  BY <1>2, SMT
<1> DEFINE Char(g, i) == IF n - 3 * g < i THEN 64 ELSE Sextet(Group(unit, g), i)
           F == [k \in 1..4 * G |-> Char((k - 1) \div 4, (k - 1) % 4)]
<1>4. Encoded(unit) = F
  BY <1>1, <1>3 DEF Encoded, Fill, Sextet, Group, Triple, At
<1>5. ASSUME NEW g \in 0..G - 1, NEW i \in 0..3
      PROVE  /\ 4 * g + i + 1 \in 1..4 * G
             /\ ((4 * g + i + 1) - 1) \div 4 = g /\ ((4 * g + i + 1) - 1) % 4 = i
             /\ g \in Nat
  BY <1>2, SMT
<1>6. ASSUME NEW g \in 0..G - 1, NEW i \in 0..3
      PROVE  F[4 * g + i + 1] = Char(g, i)
  BY <1>5, Zenon
<1>7. ASSUME NEW g \in 0..G - 1, NEW i \in 0..3
      PROVE  n - 3 * g < i <=> g = G - 1 /\ m < i
  BY <1>2
<1>8. ASSUME NEW g \in 0..G - 1, NEW i \in 0..3
      PROVE  F[4 * g + i + 1] = IF g = G - 1 /\ m < i THEN 64 ELSE Sextet(Group(unit, g), i)
  <2>1. F[4 * g + i + 1] = Char(g, i)  BY <1>6
  <2>2. n - 3 * g < i <=> g = G - 1 /\ m < i  BY <1>7
  <2>3. PICK x : x = Sextet(Group(unit, g), i)  OBVIOUS
  <2>4. Char(g, i) = IF n - 3 * g < i THEN 64 ELSE x  BY <2>3
  <2> HIDE DEF F, Char
  <2> QED  BY <2>1, <2>2, <2>3, <2>4
<1>9. \A k \in 1..4 * G : F[k] \in Nat
  <2> SUFFICES ASSUME NEW k \in 1..4 * G PROVE F[k] \in Nat  OBVIOUS
  <2>1. (k - 1) \div 4 \in Nat /\ (k - 1) % 4 \in 0..3  BY <1>2, SMT
  <2>2. Char((k - 1) \div 4, (k - 1) % 4) \in Nat
    <3>1. PICK g \in Nat : g = (k - 1) \div 4  BY <2>1
    <3>2. PICK i \in 0..3 : i = (k - 1) % 4  BY <2>1
    <3>3. Sextet(Group(unit, g), i) \in 0..63  BY SextetSmall
    <3>5. PICK x : x = Sextet(Group(unit, g), i)  OBVIOUS
    <3>6. x \in Nat /\ 64 \in Nat
      <4>1. x \in 0..63  BY <3>3, <3>5, Zenon
      <4> QED  BY <4>1
    <3>7. Char(g, i) = IF n - 3 * g < i THEN 64 ELSE x  BY <3>5
    <3>4. Char(g, i) \in Nat
      <4> HIDE DEF F, Char
      <4> QED  BY <3>6, <3>7
    <3> QED  BY <3>1, <3>2, <3>4, Zenon
  <2> QED  BY <2>2
<1>10. F \in Seq(Nat) /\ Len(F) = 4 * G
  <2>1. F \in [1..4 * G -> Nat]  BY <1>9
  <2>2. \A x \in Nat : \A f \in [1..x -> Nat] : f \in Seq(Nat) /\ Len(f) = x  OBVIOUS
  <2> HIDE DEF F
  <2> QED  BY <1>2, <2>1, <2>2
<1> HIDE DEF F
<1> QED  BY <1>4, <1>8, <1>10, Zenon DEF TextOf

\* A text has the bits of what it encodes, six in a character.
LEMMA TextHasBits ==
  ASSUME NEW unit \in Seq(Octet), NEW G, NEW m, Grouped(unit, G, m),
         NEW text, TextOf(text, unit, G, m), NEW k \in 0..8 * Len(unit) - 1
  PROVE  Bit(unit, k) = (text[k \div 6 + 1] \div 2^(5 - (k % 6))) % 2
<1>1. PICK n : n = Len(unit)  OBVIOUS
<1>2. G \in Nat \ {0} /\ m \in 1..3 /\ n = 3 * (G - 1) + m /\ n \in Nat
  BY <1>1 DEF Grouped
<1>3. PICK g : g = k \div 24  OBVIOUS
<1>4. PICK q : q = k % 24  OBVIOUS
<1>5. k \in Nat /\ k < 8 * n  BY <1>1, <1>2
<1>6. g \in Nat /\ q \in 0..23 /\ k = 24 * g + q  BY <1>3, <1>4, <1>5, SMT
<1>7. PICK u : u = q \div 8  OBVIOUS
<1>8. PICK v : v = q % 8  OBVIOUS
<1>9. u \in 0..2 /\ v \in 0..7 /\ q = 8 * u + v  BY <1>6, <1>7, <1>8, SMT
<1>10. PICK i : i = q \div 6  OBVIOUS
<1>11. PICK j : j = q % 6  OBVIOUS
<1>12. i \in 0..3 /\ j \in 0..5 /\ q = 6 * i + j  BY <1>6, <1>10, <1>11, SMT
<1>13. k \div 8 = 3 * g + u /\ k % 8 = v  BY <1>6, <1>9, SMT
<1>14. k \div 6 = 4 * g + i /\ k % 6 = j  BY <1>6, <1>12, SMT
<1>15. g \in 0..G - 1 /\ ~ (g = G - 1 /\ m < i)  BY <1>2, <1>5, <1>6, <1>12
<1>16. PICK a \in Octet, b \in Octet, c \in Octet :
         /\ a = At(unit, 3 * g) /\ b = At(unit, 3 * g + 1) /\ c = At(unit, 3 * g + 2)
         /\ Group(unit, g) = Triple(a, b, c)
  BY <1>6, GroupOf
<1>17. Byte3(a, b, c, u) = unit[k \div 8 + 1]
  <2>1. 3 * g + u \in Nat /\ 3 * g + u < n  BY <1>2, <1>5, <1>6, <1>9
  <2>2. At(unit, 3 * g + u) = unit[(3 * g + u) + 1]  BY <2>1, <1>1, AtOctet
  <2>3. Byte3(a, b, c, u) = At(unit, 3 * g + u)
    <3>1. CASE u = 0
      <4>1. 3 * g + u = 3 * g  BY <3>1, <1>6
      <4> QED  BY <3>1, <4>1, <1>16 DEF Byte3
    <3>2. CASE u = 1  BY <3>2, <1>16 DEF Byte3
    <3>3. CASE u = 2  BY <3>3, <1>16 DEF Byte3
    <3> QED  BY <3>1, <3>2, <3>3, <1>9
  <2> QED  BY <2>2, <2>3, <1>13
<1>18. text[k \div 6 + 1] = Sextet(Group(unit, g), i)
  <2>1. text[4 * g + i + 1] = IF g = G - 1 /\ m < i THEN 64 ELSE Sextet(Group(unit, g), i)
    BY <1>12, <1>15, Zenon DEF TextOf
  <2>2. text[4 * g + i + 1] = Sextet(Group(unit, g), i)  BY <2>1, <1>15, Zenon
  <2> QED  BY <2>2, <1>14, Zenon
<1>19. PICK T : T = Triple(a, b, c)  OBVIOUS
<1>20. SameBit(a, b, c, T, q)  BY <1>6, <1>19, BitsAgree
<1>21. (Byte3(a, b, c, u) \div 2^(7 - v)) % 2 = (Sextet(T, i) \div 2^(5 - j)) % 2
  BY <1>20, <1>7, <1>8, <1>10, <1>11, Zenon DEF SameBit
<1> QED  BY <1>13, <1>14, <1>16, <1>17, <1>18, <1>19, <1>21, Zenon DEF Bit

\* The fills are counted.
LEMMA FillsCounted ==
  ASSUME NEW unit \in Seq(Octet), NEW G, NEW m, Grouped(unit, G, m),
         NEW text, TextOf(text, unit, G, m)
  PROVE  EqualCount(text) = 3 - m
<1>1. G \in Nat \ {0} /\ m \in 1..3  BY DEF Grouped
<1>2. PICK L : L = Len(text)  OBVIOUS
<1>3. L = 4 * G /\ L \in Nat  BY <1>1, <1>2 DEF TextOf
<1>4. ASSUME NEW i \in 1..3
      PROVE  text[(L - 3) + i] = 64 <=> m < i
  <2>1. G - 1 \in 0..G - 1 /\ i \in 0..3 /\ G - 1 \in Nat  BY <1>1
  <2>2. text[4 * (G - 1) + i + 1] = IF m < i THEN 64 ELSE Sextet(Group(unit, G - 1), i)
    BY <2>1, Zenon DEF TextOf
  <2>3. Sextet(Group(unit, G - 1), i) \in 0..63  BY <2>1, SextetSmall
  <2>4. PICK x : x = Sextet(Group(unit, G - 1), i)  OBVIOUS
  <2>5. x # 64
    <3>1. x \in 0..63  BY <2>3, <2>4, Zenon
    <3> QED  BY <3>1
  <2>6. 4 * (G - 1) + i + 1 = (L - 3) + i  BY <1>1, <1>3
  <2>7. text[(L - 3) + i] = IF m < i THEN 64 ELSE x  BY <2>2, <2>4, <2>6, Zenon
  <2> QED  BY <2>5, <2>7
<1>5. {k \in L - 2..L : text[k] = 64} = (L - 2) + m..L
  <2>1. ASSUME NEW k \in L - 2..L PROVE text[k] = 64 <=> k \in (L - 2) + m..L
    <3>1. PICK i : i = k - (L - 3)  OBVIOUS
    <3>2. i \in 1..3 /\ (L - 3) + i = k  BY SMTT(30), <3>1, <1>3
    <3>3. text[k] = 64 <=> m < i  BY <3>2, <1>4
    <3>4. m < i <=> k \in (L - 2) + m..L  BY <3>1, <3>2, <1>1, <1>3
    <3> QED  BY <3>3, <3>4
  <2>2. \A k \in (L - 2) + m..L : k \in L - 2..L  BY <1>1, <1>3
  <2> QED  BY <2>1, <2>2
<1>6. Cardinality((L - 2) + m..L) = 3 - m
  <2>1. (L - 2) + m \in Int /\ L \in Int  BY <1>1, <1>3
  <2>2. \A x, y \in Int : Cardinality(x..y) = IF x > y THEN 0 ELSE y - x + 1
    BY FS_Interval
  <2>3. PICK y : y = (L - 2) + m  OBVIOUS
  <2>4. Cardinality(y..L) = IF y > L THEN 0 ELSE L - y + 1
    BY <2>1, <2>2, <2>3
  <2> QED  BY <1>1, <1>3, <2>3, <2>4
<1> QED  BY <1>2, <1>5, <1>6 DEF EqualCount, Fill

\* How many bytes are given back: too many.
LEMMA Returned ==
  ASSUME NEW unit \in Seq(Octet), NEW G, NEW m, Grouped(unit, G, m),
         NEW text, TextOf(text, unit, G, m)
  PROVE  RetLen(text) \in Nat /\ RetLen(text) - Len(unit) \in 0..4
<1>1. G \in Nat \ {0} /\ m \in 1..3 /\ Len(unit) = 3 * (G - 1) + m  BY DEF Grouped
<1>2. EqualCount(text) = 3 - m  BY FillsCounted
<1>3. Len(text) \div 4 = G  BY <1>1, SMT DEF TextOf
<1>4. CASE m = 1
  <2>1. EqualCount(text) = 2  BY <1>2, <1>4
  <2>2. RetLen(text) = 3 * G + 2  BY <2>1, <1>3 DEF RetLen
  <2> QED  BY <2>2, <1>1, <1>4
<1>5. CASE m = 2
  <2>1. EqualCount(text) = 1  BY <1>2, <1>5
  <2>2. RetLen(text) = 3 * G + 3  BY <2>1, <1>3 DEF RetLen
  <2> QED  BY <2>2, <1>1, <1>5
<1>6. CASE m = 3
  <2>1. EqualCount(text) = 0  BY <1>2, <1>6
  <2>2. RetLen(text) = 3 * G + 1  BY <2>1, <1>3 DEF RetLen
  <2> QED  BY <2>2, <1>1, <1>6
<1> QED  BY <1>1, <1>4, <1>5, <1>6

\* In a group that is not full the characters behind the last are those of 0.
Characters(text, unit, n, g) ==
  \A i \in 0..3 : Item(text, n, 4 * g + i) = Sextet(Group(unit, g), i)

\* base64_decode takes those base64_encode made.
LEMMA CharactersOf ==
  ASSUME NEW unit \in Seq(Octet), NEW G, NEW m, Grouped(unit, G, m),
         NEW text, TextOf(text, unit, G, m), NEW g \in 0..G - 1,
         NEW n, n = Len(text) - (3 - m)
  PROVE  Characters(text, unit, n, g)
<1> SUFFICES ASSUME NEW i \in 0..3
             PROVE  Item(text, n, 4 * g + i) = Sextet(Group(unit, g), i)
  BY DEF Characters
<1>1. G \in Nat \ {0} /\ m \in 1..3 /\ Len(unit) = 3 * (G - 1) + m  BY DEF Grouped
<1>2. n = 4 * (G - 1) + m + 1 /\ g \in Nat  BY <1>1 DEF TextOf
<1>3. text[4 * g + i + 1] = IF g = G - 1 /\ m < i THEN 64 ELSE Sextet(Group(unit, g), i)
  BY Zenon DEF TextOf
<1>4. 4 * g + i < n <=> ~ (g = G - 1 /\ m < i)  BY <1>1, <1>2
<1>5. CASE 4 * g + i < n
  <2>1. Item(text, n, 4 * g + i) = text[4 * g + i + 1]  BY <1>5, Zenon DEF Item
  <2> QED  BY <2>1, <1>3, <1>4, <1>5, Zenon
<1>6. CASE ~ (4 * g + i < n)
  <2>1. Item(text, n, 4 * g + i) = 0  BY <1>6, Zenon DEF Item
  <2>2. g = G - 1 /\ m < i  BY <1>4, <1>6
  <2>3. PICK a \in Octet, b \in Octet, c \in Octet :
          /\ a = At(unit, 3 * g) /\ b = At(unit, 3 * g + 1) /\ c = At(unit, 3 * g + 2)
          /\ Group(unit, g) = Triple(a, b, c)
    BY <1>2, GroupOf
  <2>4. PICK T : T = Triple(a, b, c)  OBVIOUS
  <2>5. SextetsOf(a, b, c, T)  BY <2>4, Sextets
  <2>6. c = 0
    <3>1. ~ (3 * g + 2 < Len(unit))  BY <1>1, <2>2
    <3> QED  BY <3>1, <2>3 DEF At, Item
  <2>7. 0 % 64 = 0 /\ (0 % 16) * 4 + 0 \div 64 = 0  BY SMT
  <2>8. CASE i = 3
    <3>1. Sextet(T, 3) = c % 64  BY <2>5, Zenon DEF SextetsOf
    <3>2. Sextet(T, i) = 0  BY <3>1, <2>6, <2>7, <2>8, Zenon
    <3> QED  BY <3>2, <2>1, <2>3, <2>4, Zenon
  <2>9. CASE i = 2
    <3>1. Sextet(T, 2) = (b % 16) * 4 + c \div 64  BY <2>5, Zenon DEF SextetsOf
    <3>2. b = 0
      <4>1. ~ (3 * g + 1 < Len(unit))  BY <1>1, <2>2, <2>9
      <4> QED  BY <4>1, <2>3 DEF At, Item
    <3>3. Sextet(T, i) = 0  BY <3>1, <3>2, <2>6, <2>7, <2>9, Zenon
    <3> QED  BY <3>3, <2>1, <2>3, <2>4, Zenon
  <2> QED  BY <2>2, <2>8, <2>9, <1>1
<1> QED  BY <1>5, <1>6

\* So the bits of a group are those of the bytes.
LEMMA PreparedGroup ==
  ASSUME NEW unit \in Seq(Octet), NEW G, NEW m, Grouped(unit, G, m),
         NEW text, TextOf(text, unit, G, m), NEW g \in 0..G - 1,
         NEW n, n = Len(text) - (3 - m)
  PROVE  Prepared(text, n, g) = Group(unit, g)
<1>1. /\ Item(text, n, 4 * g + 0) = Sextet(Group(unit, g), 0)
      /\ Item(text, n, 4 * g + 1) = Sextet(Group(unit, g), 1)
      /\ Item(text, n, 4 * g + 2) = Sextet(Group(unit, g), 2)
      /\ Item(text, n, 4 * g + 3) = Sextet(Group(unit, g), 3)
  <2>1. ASSUME NEW i \in 0..3
        PROVE  Item(text, n, 4 * g + i) = Sextet(Group(unit, g), i)
    <3>1. Characters(text, unit, n, g)  BY CharactersOf
    <3> QED  BY <3>1, Zenon DEF Characters
  <2>2. 0 \in 0..3 /\ 1 \in 0..3 /\ 2 \in 0..3 /\ 3 \in 0..3  OBVIOUS
  <2> QED  BY <2>1, <2>2, Zenon
<1>2. g \in Nat  BY DEF Grouped
<1>3. PICK a \in Octet, b \in Octet, c \in Octet :
        Group(unit, g) = Triple(a, b, c)
  BY <1>2, GroupOf
<1>4. PICK T : T = Triple(a, b, c)  OBVIOUS
<1>5. SextetsOf(a, b, c, T)  BY <1>4, Sextets
<1>6. Prepared(text, n, g)
        = (((a \div 4) * 64 + ((a % 4) * 16 + b \div 16)) * 64
             + ((b % 16) * 4 + c \div 64)) * 64 + (c % 64)
  BY <1>1, <1>3, <1>4, <1>5, ZenonT(60) DEF Prepared, SextetsOf
<1> QED  BY <1>3, <1>6, ThreeOfFour, ZenonT(60)

\* Byte i of a group.
LEMMA OutOf ==
  ASSUME NEW unit \in Seq(Octet), NEW g \in Nat, NEW i \in 0..2
  PROVE  (Group(unit, g) \div 256^(2 - i)) % 256 = At(unit, 3 * g + i)
<1>3. PICK a \in Octet, b \in Octet, c \in Octet :
        /\ a = At(unit, 3 * g) /\ b = At(unit, 3 * g + 1) /\ c = At(unit, 3 * g + 2)
        /\ Group(unit, g) = Triple(a, b, c)
  BY GroupOf
<1>4. PICK T : T = Triple(a, b, c)  OBVIOUS
<1>5. (T \div 65536) % 256 = a /\ (T \div 256) % 256 = b /\ (T \div 1) % 256 = c
  BY <1>4, ThreeOfThree
<1>6. 256^(2 - 0) = 65536 /\ 256^(2 - 1) = 256 /\ 256^(2 - 2) = 1  BY SMT
<1>7. CASE i = 0
  <2>1. 3 * g + i = 3 * g  BY <1>7
  <2> QED  BY <1>3, <1>4, <1>5, <1>6, <1>7, <2>1
<1>8. CASE i = 1  BY <1>3, <1>4, <1>5, <1>6, <1>8
<1>9. CASE i = 2  BY <1>3, <1>4, <1>5, <1>6, <1>9
<1> QED  BY <1>7, <1>8, <1>9

\* What is decoded is what was encoded, and then zeros.
LEMMA DecodedUnit ==
  ASSUME NEW unit \in Seq(Octet), NEW G, NEW m, Grouped(unit, G, m),
         NEW text, TextOf(text, unit, G, m)
  PROVE  \E z \in 0..4 : Decoded(text) = unit \o Zeros(z)
<1>1. /\ G \in Nat \ {0} /\ m \in 1..3 /\ Len(unit) = 3 * (G - 1) + m
      /\ Len(text) = 4 * G
  BY DEF Grouped, TextOf
<1>2. PICK n : n = Len(text) - (3 - m)  OBVIOUS
<1>3. n = 4 * (G - 1) + m + 1  BY <1>1, <1>2
<1>4. PICK R : R = RetLen(text)  OBVIOUS
<1>5. PICK z : z = R - Len(unit)  OBVIOUS
<1>6. R \in Nat /\ z \in 0..4 /\ R = Len(unit) + z  BY <1>1, <1>4, <1>5, Returned
<1> DEFINE Out(g, i) == IF n - 4 * g > i
                          THEN (Prepared(text, n, g) \div 256^(2 - i)) % 256 ELSE 0
<1>7. Decoded(text) = [k \in 1..R |-> Out((k - 1) \div 3, (k - 1) % 3)]
  <2>1. n = Len(text) - EqualCount(text)  BY <1>2, FillsCounted
  <2> QED  BY <2>1, <1>4 DEF Decoded
<1>8. ASSUME NEW g \in Nat, NEW i \in 0..2 PROVE Out(g, i) = At(unit, 3 * g + i)
  <2>1. CASE n - 4 * g > i
    <3>1. g \in 0..G - 1  BY <1>1, <1>3, <2>1
    <3>2. Prepared(text, n, g) = Group(unit, g)  BY <3>1, <1>2, PreparedGroup
    <3>3. (Group(unit, g) \div 256^(2 - i)) % 256 = At(unit, 3 * g + i)
      BY ZenonT(60), OutOf
    <3> QED  BY <2>1, <3>2, <3>3, Zenon
  <2>2. CASE ~ (n - 4 * g > i)
    <3>1. ~ (3 * g + i < Len(unit))  BY <1>1, <1>3, <2>2
    <3>2. At(unit, 3 * g + i) = 0  BY <3>1, Zenon DEF At, Item
    <3> QED  BY <2>2, <3>2, Zenon
  <2> QED  BY <2>1, <2>2
<1>9. ASSUME NEW k \in 1..R
      PROVE  Out((k - 1) \div 3, (k - 1) % 3) = IF k <= Len(unit) THEN unit[k] ELSE 0
  <2>1. /\ (k - 1) \div 3 \in Nat /\ (k - 1) % 3 \in 0..2
        /\ 3 * ((k - 1) \div 3) + ((k - 1) % 3) = k - 1
    BY <1>6, SMT
  <2>2. Out((k - 1) \div 3, (k - 1) % 3) = At(unit, 3 * ((k - 1) \div 3) + ((k - 1) % 3))
    <3> HIDE DEF Out
    <3> QED  BY <2>1, <1>8, Zenon
  <2>3. Out((k - 1) \div 3, (k - 1) % 3) = At(unit, k - 1)
    <3> HIDE DEF Out
    <3> QED  BY <2>1, <2>2
  <2>4. At(unit, k - 1) = IF k <= Len(unit) THEN unit[k] ELSE 0
    <3>1. k - 1 < Len(unit) <=> k <= Len(unit)  BY <1>1, <1>6
    <3>2. (k - 1) + 1 = k  BY <1>6
    <3> QED  BY <3>1, <3>2, Zenon DEF At, Item
  <2> QED  BY <2>3, <2>4, ZenonT(60)
<1>10. Decoded(text) = [k \in 1..R |-> IF k <= Len(unit) THEN unit[k] ELSE 0]
  <2> HIDE DEF Out
  <2> QED  BY <1>7, <1>9, Zenon
<1>11. unit \o Zeros(z) = [k \in 1..R |-> IF k <= Len(unit) THEN unit[k] ELSE 0]
  <2>1. PICK Z : Z = Zeros(z)  OBVIOUS
  <2>2. Z \in Seq(Nat) /\ Len(Z) = z /\ \A k \in 1..z : Z[k] = 0
    BY <1>6, <2>1 DEF Zeros
  <2>3. \A k \in Len(unit) + 1..R : Z[k - Len(unit)] = 0
    BY <1>1, <1>6, <2>2
  <2>4. PICK W : W = unit \o Z  OBVIOUS
  <2>5. unit \in Seq(Nat)
    <3>1. \A k \in 1..Len(unit) : unit[k] \in Octet  OBVIOUS
    <3>4. \A x \in Octet : x \in Nat  BY DEF Octet
    <3>2. \A k \in 1..Len(unit) : unit[k] \in Nat  BY <3>1, <3>4, Zenon
    <3>3. Len(unit) \in Nat /\ unit = [k \in 1..Len(unit) |-> unit[k]]  OBVIOUS
    <3> QED  BY <3>2, <3>3
  <2>6. W \in Seq(Nat) /\ Len(W) = R  BY <2>2, <2>4, <2>5, <1>6
  <2>7. W = [k \in 1..R |-> W[k]]  BY <2>6
  <2>8. ASSUME NEW k \in 1..R
        PROVE  W[k] = IF k <= Len(unit) THEN unit[k] ELSE 0
    <3>1. CASE k <= Len(unit)
      <4>1. W[k] = unit[k]  BY <3>1, <2>4, <2>2, <2>5
      <4> QED  BY <4>1, <3>1
    <3>2. CASE ~ (k <= Len(unit))
      <4>1. W[k] = Z[k - Len(unit)]  BY <3>2, <2>4, <2>2, <2>5, <1>6
      <4>2. k \in Len(unit) + 1..R  BY <3>2, <1>6, <2>5
      <4> QED  BY <4>1, <4>2, <3>2, <2>3
    <3> QED  BY <3>1, <3>2
  <2>9. W = [k \in 1..R |-> IF k <= Len(unit) THEN unit[k] ELSE 0]  BY <2>7, <2>8, Zenon
  <2> QED  BY <2>9, <2>4, <2>1, Zenon
<1> QED  BY <1>6, <1>10, <1>11, Zenon

\* base64_decode gives back the unit that base64_encode was given, with at most
\* four zeros behind it, and the text between them has the bits of the unit.
THEOREM TextRestored ==
  ASSUME NEW unit \in Seq(Octet), unit # << >>
  PROVE  /\ \A k \in 0..8 * Len(unit) - 1 :
              Bit(unit, k) = (Encoded(unit)[k \div 6 + 1] \div 2^(5 - (k % 6))) % 2
         /\ \E z \in 0..4 : Decoded(Encoded(unit)) = unit \o Zeros(z)
<1>1. PICK G, m : Grouped(unit, G, m)  BY HasGroups
<1>2. PICK text : text = Encoded(unit)  OBVIOUS
<1>3. TextOf(text, unit, G, m)  BY <1>1, <1>2, EncodedText
<1>4. ASSUME NEW k \in 0..8 * Len(unit) - 1
      PROVE  Bit(unit, k) = (text[k \div 6 + 1] \div 2^(5 - (k % 6))) % 2
  BY <1>1, <1>3, TextHasBits
<1>5. \E z \in 0..4 : Decoded(text) = unit \o Zeros(z)  BY <1>1, <1>3, DecodedUnit
<1> QED  BY <1>2, <1>4, <1>5, Zenon

-----------------------------------------------------------------------------
(* What an encoder sends are bytes.                                         *)

\* Bytes are numbers.
LEMMA OctetsAreNumbers ==
  ASSUME NEW s \in Seq(Octet)
  PROVE  s \in Seq(Nat)
<1>1. \A k \in 1..Len(s) : s[k] \in Octet  OBVIOUS
<1>2. \A x \in Octet : x \in Nat  BY DEF Octet
<1>3. \A k \in 1..Len(s) : s[k] \in Nat  BY <1>1, <1>2, Zenon
<1>4. Len(s) \in Nat /\ s = [k \in 1..Len(s) |-> s[k]]  OBVIOUS
<1> QED  BY <1>3, <1>4

\* Eight bits are a byte.
LEMMA EightBits ==
  ASSUME NEW f \in Seq({0, 1}), NEW k \in Nat, 8 * k + 8 <= Len(f)
  PROVE  128 * f[8 * k + 1] + 64 * f[8 * k + 2] + 32 * f[8 * k + 3] + 16 * f[8 * k + 4]
           + 8 * f[8 * k + 5] + 4 * f[8 * k + 6] + 2 * f[8 * k + 7] + f[8 * k + 8] \in Octet
<1>1. \A i \in 1..8 : f[8 * k + i] \in {0, 1}
  <2>1. \A i \in 1..8 : 8 * k + i \in 1..Len(f)  OBVIOUS
  <2> QED  BY <2>1
<1>2. PICK a \in {0, 1} : a = f[8 * k + 1]  BY <1>1
<1>3. PICK b \in {0, 1} : b = f[8 * k + 2]  BY <1>1
<1>4. PICK c \in {0, 1} : c = f[8 * k + 3]  BY <1>1
<1>5. PICK d \in {0, 1} : d = f[8 * k + 4]  BY <1>1
<1>6. PICK e \in {0, 1} : e = f[8 * k + 5]  BY <1>1
<1>7. PICK g \in {0, 1} : g = f[8 * k + 6]  BY <1>1
<1>8. PICK h \in {0, 1} : h = f[8 * k + 7]  BY <1>1
<1>9. PICK i \in {0, 1} : i = f[8 * k + 8]  BY <1>1
<1>10. 128 * a + 64 * b + 32 * c + 16 * d + 8 * e + 4 * g + 2 * h + i \in Octet
  BY SMT DEF Octet
<1> QED  BY <1>2, <1>3, <1>4, <1>5, <1>6, <1>7, <1>8, <1>9, <1>10, Zenon

\* The payload is made of bytes.
LEMMA PayloadOctets ==
  ASSUME NEW data \in Seq({0, 1})
  PROVE  Payload(data) \in Seq(Octet)
<1>1. PICK bits : bits = Append(data, 1)  OBVIOUS
<1>2. bits \in Seq({0, 1}) /\ Len(bits) \in Nat  BY <1>1
<1>3. PICK z : z = (-Len(bits)) % 8  OBVIOUS
<1>4. z \in Nat  BY <1>2, <1>3, SMT
<1>5. PICK full : full = bits \o Zeros(z)  OBVIOUS
<1>6. full \in Seq({0, 1}) /\ Len(full) \in Nat
  <2>1. Zeros(z) \in Seq({0, 1})  BY <1>4 DEF Zeros
  <2> QED  BY <1>2, <1>5, <2>1
<1>7. PICK n : n = Len(full) \div 8  OBVIOUS
<1>8. n \in Nat /\ 8 * n <= Len(full)  BY <1>6, <1>7, SMT
<1> DEFINE Value(k) == 128 * full[8 * k - 8 + 1] + 64 * full[8 * k - 8 + 2]
                         + 32 * full[8 * k - 8 + 3] + 16 * full[8 * k - 8 + 4]
                         + 8 * full[8 * k - 8 + 5] + 4 * full[8 * k - 8 + 6]
                         + 2 * full[8 * k - 8 + 7] + full[8 * k - 8 + 8]
<1>9. Payload(data) = [k \in 1..n |-> Value(k)]
  BY <1>1, <1>3, <1>5, <1>7, ZenonT(60) DEF Payload
<1>10. ASSUME NEW k \in 1..n PROVE Value(k) \in Octet
  <2>1. PICK j : j = k - 1  OBVIOUS
  <2>2. j \in Nat /\ 8 * k - 8 = 8 * j /\ 8 * j + 8 <= Len(full)  BY <2>1, <1>6, <1>8
  <2> QED  BY <2>2, <1>6, EightBits
<1> HIDE DEF Value
<1> QED  BY <1>8, <1>9, <1>10

\* And stays so with the 3s put in.
LEMMA EscapedOctets ==
  ASSUME NEW P \in Seq(Octet)
  PROVE  Escaped(P) \in Seq(Octet)
<1>1. PICK n : n = Len(P)  OBVIOUS
<1>2. n \in Nat /\ P \in Seq(Nat) /\ \A i \in 1..n : P[i] \in Octet
  BY <1>1, OctetsAreNumbers
<1>3. PICK e : e = Escaping(P)  OBVIOUS
<1>4. /\ e[0] = [out |-> << >>, zeros |-> 0]
      /\ \A i \in 1..n : e[i] = Guarded(e[i - 1], P[i])
  <2>1. EscapeSteps(e, P)  BY <1>2, <1>3, EscapingDef
  <2> QED  BY <1>1, <2>1, Zenon DEF EscapeSteps
<1> DEFINE A == {i \in Nat : i <= n => e[i].out \in Seq(Octet)}
<1>5. 0 \in A
  <2>1. e[0].out = << >>  BY <1>4
  <2>2. << >> \in Seq(Octet)  OBVIOUS
  <2> QED  BY <2>1, <2>2, Zenon
<1>6. ASSUME NEW i \in Nat, i \in A PROVE i + 1 \in A
  <2> SUFFICES ASSUME i + 1 <= n PROVE e[i + 1].out \in Seq(Octet)  OBVIOUS
  <2>1. i + 1 \in 1..n /\ (i + 1) - 1 = i  BY <1>2
  <2>2. PICK s, b : s = e[i] /\ b = P[i + 1]  OBVIOUS
  <2>3. e[i + 1] = Guarded(s, b) /\ b \in Octet  BY <2>1, <2>2, <1>2, <1>4
  <2>4. PICK u : u = s.out  OBVIOUS
  <2>5. u \in Seq(Octet)
    <3>1. i <= n  BY <2>1, <1>2
    <3> QED  BY <3>1, <1>6, <2>2, <2>4
  <2>6. 3 \in Octet  BY DEF Octet
  <2>7. e[i + 1].out = u \o <<3, b>> \/ e[i + 1].out = Append(u, b)
    BY SMTT(30), <2>3, <2>4 DEF Guarded
  <2>8. u \o <<3, b>> \in Seq(Octet) /\ Append(u, b) \in Seq(Octet)
    BY <2>3, <2>5, <2>6
  <2> QED  BY <2>7, <2>8
<1> HIDE DEF A
<1>7. \A i \in Nat : i \in A  BY <1>5, <1>6, CountUp
<1>8. e[n].out \in Seq(Octet)
  <2> n \in A /\ n <= n  BY <1>2, <1>7
  <2> QED  BY DEF A
<1> QED  BY <1>1, <1>3, <1>8 DEF Escaped

\* 00 00 00 03 is in the payload, or it is not.
LEMMA ThreeOrNone ==
  ASSUME NEW P \in Seq(Nat),
         ~ \E i \in 1..Len(P) - 3 : SubSeq(P, i, i + 3) = <<0, 0, 0, 3>>
  PROVE  NoThree(P)
<1> SUFFICES ASSUME NEW i \in 1..Len(P) - 3,
                    P[i] = 0, P[i + 1] = 0, P[i + 2] = 0, P[i + 3] = 3
             PROVE  FALSE
  BY DEF NoThree
<1>1. PICK q, k : q = SubSeq(P, i, k) /\ k = i + 3  OBVIOUS
<1>2. i \in 1..Len(P) /\ k \in 1..Len(P) /\ k - i + 1 = 4  BY <1>1
<1>3. q \in Seq(Nat) /\ Len(q) = 4 /\ \A j \in 1..4 : q[j] = P[i + j - 1]
  <2>1. q = [j \in 1..k - i + 1 |-> P[i + j - 1]]  BY <1>1, <1>2
  <2>2. q = [j \in 1..4 |-> P[i + j - 1]]  BY <2>1, <1>2, Zenon
  <2>3. \A j \in 1..4 : P[i + j - 1] \in Nat
    <3>1. \A j \in 1..4 : i + j - 1 \in 1..Len(P)  BY <1>1, <1>2
    <3> QED  BY SMTT(30), <3>1
  <2> QED  BY <2>2, <2>3
<1>4. q[1] = 0 /\ q[2] = 0 /\ q[3] = 0 /\ q[4] = 3
  <2>1. i + 1 - 1 = i /\ i + 2 - 1 = i + 1 /\ i + 3 - 1 = i + 2 /\ i + 4 - 1 = i + 3
    OBVIOUS
  <2> QED  BY SMTT(30), <1>3, <2>1
<1>5. q = <<0, 0, 0, 3>>  BY <1>3, <1>4
<1> QED  BY <1>1, <1>5

-----------------------------------------------------------------------------
(* Powers of two, which the provers know only by their numbers.             *)

Powers ==
  <<1, 2, 4, 8, 16, 32, 64, 128, 256, 512, 1024, 2048, 4096, 8192, 16384, 32768,
    65536, 131072, 262144, 524288, 1048576, 2097152, 4194304, 8388608, 16777216,
    33554432, 67108864, 134217728, 268435456, 536870912, 1073741824, 2147483648>>

Pow == [k \in 0..31 |-> Powers[k + 1]]

\* Pow has them.
LEMMA PowersOfTwo ==
  ASSUME NEW k \in 0..31
  PROVE  2^k = Pow[k]
<1>1. /\ 2^0 = Pow[0] /\ 2^1 = Pow[1] /\ 2^2 = Pow[2] /\ 2^3 = Pow[3]
      /\ 2^4 = Pow[4] /\ 2^5 = Pow[5] /\ 2^6 = Pow[6] /\ 2^7 = Pow[7]
      /\ 2^8 = Pow[8] /\ 2^9 = Pow[9] /\ 2^10 = Pow[10] /\ 2^11 = Pow[11]
      /\ 2^12 = Pow[12] /\ 2^13 = Pow[13] /\ 2^14 = Pow[14] /\ 2^15 = Pow[15]
      /\ 2^16 = Pow[16] /\ 2^17 = Pow[17] /\ 2^18 = Pow[18] /\ 2^19 = Pow[19]
      /\ 2^20 = Pow[20] /\ 2^21 = Pow[21] /\ 2^22 = Pow[22] /\ 2^23 = Pow[23]
      /\ 2^24 = Pow[24] /\ 2^25 = Pow[25] /\ 2^26 = Pow[26] /\ 2^27 = Pow[27]
      /\ 2^28 = Pow[28] /\ 2^29 = Pow[29] /\ 2^30 = Pow[30] /\ 2^31 = Pow[31]
  BY SMT DEF Pow, Powers
<1>2. \/ k = 0 \/ k = 1 \/ k = 2 \/ k = 3 \/ k = 4 \/ k = 5 \/ k = 6 \/ k = 7
      \/ k = 8 \/ k = 9 \/ k = 10 \/ k = 11 \/ k = 12 \/ k = 13 \/ k = 14 \/ k = 15
      \/ k = 16 \/ k = 17 \/ k = 18 \/ k = 19 \/ k = 20 \/ k = 21 \/ k = 22 \/ k = 23
      \/ k = 24 \/ k = 25 \/ k = 26 \/ k = 27 \/ k = 28 \/ k = 29 \/ k = 30 \/ k = 31
  OBVIOUS
<1> QED  BY <1>1, <1>2, Zenon

\* Each is twice the one before it.
LEMMA PowerDoubles ==
  ASSUME NEW k \in 0..30
  PROVE  2^k \in Nat \ {0} /\ 2^(k + 1) \in Nat \ {0} /\ 2^(k + 1) = 2 * 2^k
<1>1. PICK v, w : v = 2^k /\ w = 2^(k + 1)  OBVIOUS
<1>2. v = Pow[k] /\ w = Pow[k + 1]
  <2>1. k \in 0..31 /\ k + 1 \in 0..31  OBVIOUS
  <2> QED  BY <1>1, <2>1, PowersOfTwo
<1>3. v \in Nat \ {0} /\ w \in Nat \ {0} /\ w = 2 * v  BY <1>2 DEF Pow, Powers
<1> QED  BY <1>1, <1>3

\* They grow.
LEMMA PowersGrow ==
  ASSUME NEW j \in 0..30, NEW k \in j + 1..31
  PROVE  2^(j + 1) <= 2^k
<1>1. PICK v, w : v = 2^(j + 1) /\ w = 2^k  OBVIOUS
<1>2. v = Pow[j + 1] /\ w = Pow[k]
  <2>1. k \in 0..31 /\ j + 1 \in 0..31  OBVIOUS
  <2> QED  BY <1>1, <2>1, PowersOfTwo
<1>3. v <= w  BY <1>2 DEF Pow, Powers
<1> QED  BY <1>1, <1>3

\* A number is twice its half and its last bit, and so are its quotients.
LEMMA Halves ==
  ASSUME NEW v \in Nat, NEW p \in Nat \ {0}
  PROVE  /\ v \div p \in Nat /\ (v \div p) % 2 \in {0, 1}
         /\ v \div p = 2 * (v \div (2 * p)) + ((v \div p) % 2)
<1>1. PICK q, r : q = v \div p /\ r = v \div (2 * p)  OBVIOUS
<1>2. q \in Nat /\ p * q <= v /\ v < p * (q + 1)  BY <1>1
<1>3. r \in Nat /\ 2 * p * r <= v /\ v < 2 * p * (r + 1)  BY <1>1
<1>4. 2 * r < q + 1
  <2>1. p * (2 * r) < p * (q + 1)  BY <1>2, <1>3
  <2> QED  BY <2>1, <1>2, <1>3
<1>5. q < 2 * r + 2
  <2>1. p * q < p * (2 * r + 2)  BY <1>2, <1>3
  <2> QED  BY <2>1, <1>2, <1>3
<1>6. q = 2 * r + (q % 2) /\ q % 2 \in {0, 1}  BY <1>2, <1>3, <1>4, <1>5
<1> QED  BY <1>1, <1>2, <1>6

-----------------------------------------------------------------------------
(* Numbers and their bits.                                                  *)

\* What is left of v without its last m bits, and the last bit of that.
Quot(v, m)   == IF m > 30 THEN 0 ELSE v \div 2^m
BitOf(v, m)  == IF m > 30 THEN 0 ELSE (v \div 2^m) % 2

\* Numbers of 31 and of 25 bits.
Below31(v) == v \in Nat /\ v < 2147483648
Below25(v) == v \in Nat /\ v < 33554432

\* A quotient is twice the next, and a bit.
LEMMA QuotStep ==
  ASSUME NEW v \in Nat, Below31(v), NEW m \in Nat
  PROVE  /\ Quot(v, m) \in Nat /\ BitOf(v, m) \in {0, 1}
         /\ Quot(v, m) = 2 * Quot(v, m + 1) + BitOf(v, m)
<1>1. CASE m > 30  BY <1>1 DEF Quot, BitOf
<1>2. CASE m = 30
  <2>1. PICK p : p = 2^30  OBVIOUS
  <2>2. p = 1073741824  BY <2>1, SMT
  <2>3. PICK q : q = v \div p  OBVIOUS
  <2>4. q \in {0, 1}  BY <2>2, <2>3, SMT DEF Below31
  <2>5. Quot(v, m) = q /\ BitOf(v, m) = q % 2 /\ Quot(v, m + 1) = 0
    <3>1. 2^m = p  BY <1>2, <2>1, Zenon
    <3> QED  BY <3>1, <1>2, <2>3 DEF Quot, BitOf
  <2> QED  BY <2>4, <2>5
<1>3. CASE m < 30
  <2>1. PICK p : p = 2^m  OBVIOUS
  <2>2. p \in Nat \ {0} /\ 2^(m + 1) = 2 * p
    <3>1. m \in 0..30  BY <1>3
    <3> QED  BY <3>1, <2>1, PowerDoubles
  <2>3. Quot(v, m) = v \div p /\ BitOf(v, m) = (v \div p) % 2
    BY <1>3, <2>1 DEF Quot, BitOf
  <2>4. Quot(v, m + 1) = v \div (2 * p)
    <3>1. ~ (m + 1 > 30)  BY <1>3
    <3>2. Quot(v, m + 1) = v \div 2^(m + 1)  BY <3>1 DEF Quot
    <3> QED  BY <2>2, <3>2, Zenon
  <2> QED  BY <2>2, <2>3, <2>4, Halves
<1> QED  BY <1>1, <1>2, <1>3

\* The first quotient is the number, and behind its bits there is none.
LEMMA QuotEnds ==
  ASSUME NEW v \in Nat, NEW n \in 0..31
  PROVE  /\ Quot(v, 0) = v
         /\ v < 2^n => Quot(v, n) = 0
         /\ n < 31 /\ 2^n <= v /\ v < 2^(n + 1) => Quot(v, n) = 1
<1>1. Quot(v, 0) = v
  <2>1. 2^0 = 1  BY SMT
  <2>2. Quot(v, 0) = v \div 1  BY <2>1 DEF Quot
  <2> QED  BY <2>2
<1>2. CASE n = 31  BY <1>1, <1>2 DEF Quot
<1>3. CASE n < 31
  <2>1. PICK p : p = 2^n  OBVIOUS
  <2>2. p \in Nat \ {0} /\ 2^(n + 1) = 2 * p
    <3>1. n \in 0..30  BY <1>3
    <3> QED  BY <3>1, <2>1, PowerDoubles
  <2>3. Quot(v, n) = v \div p  BY <1>3, <2>1 DEF Quot
  <2>4. v < p => v \div p = 0  BY <2>2
  <2>5. p <= v /\ v < 2 * p => v \div p = 1  BY <2>2
  <2> QED  BY <1>1, <2>1, <2>2, <2>3, <2>4, <2>5
<1> QED  BY <1>2, <1>3

\* A number of at most 25 bits has no others.
LEMMA HighBits ==
  ASSUME NEW v \in Nat, Below25(v), NEW m \in Nat, m >= 25
  PROVE  Quot(v, m) = 0 /\ BitOf(v, m) = 0
<1>1. CASE m > 30  BY <1>1 DEF Quot, BitOf
<1>2. CASE m <= 30
  <2>1. PICK p : p = 2^m  OBVIOUS
  <2>2. p \in Nat /\ p >= 33554432
    <3>1. m \in 0..31  BY <1>2
    <3>2. p = Pow[m]  BY <2>1, <3>1, PowersOfTwo
    <3> QED  BY <3>1, <3>2, SMT DEF Pow, Powers
  <2>3. v \div p = 0  BY <2>2, SMT DEF Below25
  <2>4. 0 % 2 = 0  BY SMT
  <2>5. Quot(v, m) = v \div p /\ BitOf(v, m) = (v \div p) % 2
    BY <1>2, <2>1 DEF Quot, BitOf
  <2> QED  BY <2>3, <2>4, <2>5
<1> QED  BY <1>1, <1>2

\* f[i] is what the first i bits stand for.
NumberSteps(f, bits, n) ==
  f[0] = 0 /\ \A i \in 1..n : f[i] = 2 * f[i - 1] + bits[i]

\* These are the steps Number is defined with.
LEMMA NumberDef ==
  ASSUME NEW bits \in Seq({0, 1})
  PROVE  \E f : NumberSteps(f, bits, Len(bits)) /\ Number(bits) = f[Len(bits)]
<1>1. PICK n : n = Len(bits)  OBVIOUS
<1>2. n \in Nat /\ \A i \in 1..n : bits[i] \in {0, 1}  BY <1>1
<1> DEFINE step == [i \in 1..n |-> [s \in Nat |-> 2 * s + bits[i]]]
           IsNum(f) == f = [i \in 0..n |-> IF i = 0 THEN 0 ELSE 2 * f[i - 1] + bits[i]]
<1>3. \A i \in 1..n, s \in Nat : step[i][s] = 2 * s + bits[i] /\ step[i][s] \in Nat
  BY <1>2
<1> HIDE DEF step
<1>4. PICK f : IsFold(f, 0, step, n, Nat)
  <2>1. StepsIn(step, n, Nat)  BY <1>3 DEF StepsIn
  <2> HIDE DEF IsNum
  <2> QED  BY <1>2, <2>1, FoldExists
<1>5. /\ f \in [0..n -> Nat] /\ f[0] = 0
      /\ \A i \in 1..n : f[i] = step[i][f[i - 1]]
  BY <1>4 DEF IsFold
<1>6. ASSUME NEW i \in 1..n PROVE f[i] = 2 * f[i - 1] + bits[i]
  <2> i - 1 \in 0..n  BY <1>2
  <2> QED  BY <1>3, <1>5
<1>7. IsNum(f)
  <2>1. \A i \in 0..n : i = 0 \/ i \in 1..n  BY <1>2
  <2>2. \A i \in 0..n : f[i] = IF i = 0 THEN 0 ELSE 2 * f[i - 1] + bits[i]
    BY <2>1, <1>5, <1>6
  <2> QED  BY <2>2, <1>5
<1>8. \E g : IsNum(g) /\ Number(bits) = g[n]
  <2>1. Number(bits) = (CHOOSE g : IsNum(g))[n]  BY <1>1 DEF Number
  <2> HIDE DEF IsNum
  <2> QED  BY <2>1, <1>7
<1>9. PICK g : IsNum(g) /\ Number(bits) = g[n]  BY <1>8
<1>10. \A i \in 0..n : g[i] = IF i = 0 THEN 0 ELSE 2 * g[i - 1] + bits[i]
  BY <1>9
<1>11. g[0] = 0 /\ \A i \in 1..n : g[i] = 2 * g[i - 1] + bits[i]
  BY <1>2, <1>10
<1> QED  BY <1>1, <1>9, <1>11 DEF NumberSteps

\* A number of bits is a number.
LEMMA NumberNat ==
  ASSUME NEW bits \in Seq({0, 1})
  PROVE  Number(bits) \in Nat
<1>1. PICK n : n = Len(bits)  OBVIOUS
<1>2. n \in Nat /\ \A i \in 1..n : bits[i] \in {0, 1}  BY <1>1
<1>3. PICK f : NumberSteps(f, bits, n) /\ Number(bits) = f[n]  BY <1>1, NumberDef
<1> DEFINE A == {i \in Nat : i <= n => f[i] \in Nat}
<1>4. 0 \in A  BY <1>3 DEF NumberSteps
<1>5. ASSUME NEW i \in Nat, i \in A PROVE i + 1 \in A
  <2> SUFFICES ASSUME i + 1 <= n PROVE f[i + 1] \in Nat  OBVIOUS
  <2>1. i + 1 \in 1..n /\ (i + 1) - 1 = i /\ f[i] \in Nat  BY <1>2, <1>5
  <2>2. f[i + 1] = 2 * f[i] + bits[i + 1]  BY <1>3, <2>1 DEF NumberSteps
  <2> QED  BY <1>2, <2>1, <2>2
<1> HIDE DEF A
<1>6. n \in A  BY <1>2, <1>4, <1>5, CountUp
<1> QED  BY <1>2, <1>3, <1>6 DEF A

\* What the last n bits of v stand for, if before them it has none or one.
LEMMA NumberOf ==
  ASSUME NEW v \in Nat, Below31(v), NEW bits \in Seq({0, 1}), NEW n, n = Len(bits),
         \A i \in 1..n : bits[i] = BitOf(v, n - i)
  PROVE  /\ Quot(v, n) = 0 => Number(bits) = v
         /\ Quot(v, n) = 1 /\ n <= 30 => Number(bits) = v - 2^n
<1>1. n \in Nat  OBVIOUS
<1>2. PICK f : NumberSteps(f, bits, n) /\ Number(bits) = f[n]  BY NumberDef
<1>3. f[0] = 0 /\ \A i \in 1..n : f[i] = 2 * f[i - 1] + bits[i]
  BY <1>2 DEF NumberSteps
<1>4. \A m \in Nat : /\ Quot(v, m) \in Nat /\ BitOf(v, m) \in {0, 1}
                     /\ Quot(v, m) = 2 * Quot(v, m + 1) + BitOf(v, m)
  BY QuotStep
<1>5. Quot(v, 0) = v
  <2>1. 0 \in 0..31 OBVIOUS
  <2> QED  BY <2>1, QuotEnds
<1>6. ASSUME Quot(v, n) = 0 PROVE Number(bits) = v
  <2> DEFINE A == {i \in Nat : i <= n => f[i] = Quot(v, n - i)}
  <2>1. 0 \in A  BY <1>1, <1>3, <1>6
  <2>2. ASSUME NEW i \in Nat, i \in A PROVE i + 1 \in A
    <3> SUFFICES ASSUME i + 1 <= n PROVE f[i + 1] = Quot(v, n - (i + 1))  OBVIOUS
    <3>1. PICK m : m = n - (i + 1)  OBVIOUS
    <3>2. m \in Nat /\ m + 1 = n - i /\ i + 1 \in 1..n /\ (i + 1) - 1 = i
      BY <1>1, <3>1
    <3>3. f[i] = Quot(v, m + 1)  BY <2>2, <3>2
    <3>4. f[i + 1] = 2 * f[i] + BitOf(v, m)  BY <1>3, <3>1, <3>2
    <3>5. Quot(v, m) = 2 * Quot(v, m + 1) + BitOf(v, m)  BY <1>4, <3>2
    <3> QED  BY <3>1, <3>3, <3>4, <3>5, Zenon
  <2> HIDE DEF A
  <2>3. n \in A  BY <1>1, <2>1, <2>2, CountUp
  <2>4. f[n] = Quot(v, n - n)  BY <1>1, <2>3 DEF A
  <2>5. n - n = 0  BY <1>1
  <2> QED  BY <1>2, <1>5, <2>4, <2>5
<1>7. ASSUME Quot(v, n) = 1, n <= 30 PROVE Number(bits) = v - 2^n
  <2> DEFINE A == {i \in Nat : i <= n => f[i] = Quot(v, n - i) - 2^i}
  <2>1. 0 \in A
    <3>1. 2^0 = 1  BY SMT
    <3> QED  BY <1>1, <1>3, <1>7, <3>1
  <2>2. ASSUME NEW i \in Nat, i \in A PROVE i + 1 \in A
    <3> SUFFICES ASSUME i + 1 <= n PROVE f[i + 1] = Quot(v, n - (i + 1)) - 2^(i + 1)
      OBVIOUS
    <3>1. PICK m : m = n - (i + 1)  OBVIOUS
    <3>2. m \in Nat /\ m + 1 = n - i /\ i + 1 \in 1..n /\ (i + 1) - 1 = i /\ i \in 0..30
      BY <1>1, <1>7, <3>1
    <3>3. PICK p : p = 2^i  OBVIOUS
    <3>4. p \in Nat /\ 2^(i + 1) = 2 * p  BY <3>2, <3>3, PowerDoubles
    <3>5. f[i] = Quot(v, m + 1) - p  BY <2>2, <3>2, <3>3
    <3>6. f[i + 1] = 2 * f[i] + BitOf(v, m)  BY <1>3, <3>1, <3>2
    <3>a. m + 1 \in Nat  BY <3>2
    <3>7. /\ Quot(v, m) = 2 * Quot(v, m + 1) + BitOf(v, m)
          /\ Quot(v, m + 1) \in Nat /\ BitOf(v, m) \in {0, 1}
      BY <3>2, <3>a, QuotStep
    <3>8. f[i + 1] = Quot(v, m) - 2 * p  BY <3>4, <3>5, <3>6, <3>7
    <3> QED  BY <3>1, <3>4, <3>8, Zenon
  <2> HIDE DEF A
  <2>3. n \in A  BY <1>1, <2>1, <2>2, CountUp
  <2>4. f[n] = Quot(v, n - n) - 2^n  BY <1>1, <2>3 DEF A
  <2>5. n - n = 0  BY <1>1
  <2> QED  BY <1>2, <1>5, <2>4, <2>5
<1> QED  BY <1>6, <1>7

-----------------------------------------------------------------------------
(* The codes.                                                               *)

\* Every bit of a number is one.
LEMMA BitIsBit ==
  ASSUME NEW v \in Nat, NEW m \in Nat
  PROVE  BitOf(v, m) \in {0, 1}
<1>1. CASE m > 30  BY <1>1 DEF BitOf
<1>2. CASE m <= 30
  <2>1. PICK p : p = 2^m  OBVIOUS
  <2>2. p \in Nat \ {0}
    <3>1. m \in 0..30  BY <1>2
    <3> QED  BY <3>1, <2>1, PowerDoubles
  <2>3. (v \div p) % 2 \in {0, 1}  BY <2>2, Halves
  <2> QED  BY <1>2, <2>1, <2>3 DEF BitOf
<1> QED  BY <1>1, <1>2

\* code has the last n bits of v.
UShape(code, n, v) ==
  /\ code \in Seq({0, 1}) /\ Len(code) = n
  /\ \A i \in 1..n : code[i] = BitOf(v, n - i)

\* u(n) has.
LEMMA UCode ==
  ASSUME NEW n \in Nat, NEW v \in Nat
  PROVE  UShape(U(n, v), n, v)
<1>1. \A i \in 1..n : n - i \in Nat  OBVIOUS
<1>2. \A i \in 1..n : BitOf(v, n - i) \in {0, 1}  BY <1>1, BitIsBit
<1>3. U(n, v) = [i \in 1..n |-> BitOf(v, n - i)]  BY DEF U, BitOf
<1> HIDE DEF BitOf
<1>4. U(n, v) \in [1..n -> {0, 1}]  BY <1>2, <1>3
<1> QED  BY <1>3, <1>4 DEF UShape

\* v + 1 has k bits behind its first.
HasBits(v, k) == k \in 0..30 /\ 2^k <= v + 1 /\ v + 1 < 2^(k + 1)

Below30(v) == v \in Nat /\ v < 1073741824

\* Every number has some number of bits.
LEMMA BitsOf ==
  ASSUME NEW v \in Nat, Below30(v)
  PROVE  \E k : HasBits(v, k)
<1> DEFINE T == {k \in Nat : k <= 30 /\ v + 1 < 2^(k + 1)}
<1>1. 30 \in T
  <2>1. v + 1 < 2^31  BY SMT DEF Below30
  <2>2. 30 + 1 = 31  OBVIOUS
  <2> QED  BY <2>1, <2>2
<1>2. PICK k \in T : \A m \in T : k <= m  BY <1>1, LeastNat
<1>3. 2^k <= v + 1
  <2>1. CASE k = 0
    <3>1. 2^0 = 1  BY SMT
    <3> QED  BY <2>1, <3>1
  <2>2. CASE k # 0
    <3>1. k - 1 \in Nat /\ k - 1 <= 30 /\ (k - 1) + 1 = k  BY <2>2
    <3>2. ~ (k - 1 \in T)  BY <1>2
    <3>3. ~ (v + 1 < 2^k)  BY <3>1, <3>2
    <3>4. 2^k \in Nat
      <4>1. k \in 0..30  OBVIOUS
      <4> QED  BY <4>1, PowerDoubles
    <3> QED  BY <3>3, <3>4
  <2> QED  BY <2>1, <2>2
<1>4. HasBits(v, k)  BY <1>2, <1>3 DEF HasBits
<1> QED  BY <1>4

\* A number of 25 bits at most 25.
LEMMA FewBits ==
  ASSUME NEW v \in Nat, Below25(v), NEW k, HasBits(v, k)
  PROVE  k \in 0..25
<1> SUFFICES ASSUME k > 25 PROVE FALSE  BY DEF HasBits
<1>1. k \in 25 + 1..31 /\ 25 \in 0..30  BY DEF HasBits
<1>2. 2^(25 + 1) <= 2^k  BY <1>1, PowersGrow
<1>3. PICK q : q = 2^k  OBVIOUS
<1>4. 25 + 1 = 26  OBVIOUS
<1>5. 2^26 <= q  BY <1>2, <1>3, <1>4, Zenon
<1>6. q <= v + 1  BY <1>3 DEF HasBits
<1>7. q \in Nat
  <2>1. k \in 0..30  BY DEF HasBits
  <2> QED  BY <2>1, <1>3, PowerDoubles
<1> QED  BY <1>5, <1>6, <1>7, SMT DEF Below25

\* code has k zeros, and v + 1 from its first bit on.
UeShape(code, v, k) ==
  /\ HasBits(v, k) /\ code \in Seq({0, 1}) /\ Len(code) = 2 * k + 1
  /\ \A i \in 1..k : code[i] = 0
  /\ code[k + 1] = 1
  /\ \A i \in 1..k : code[k + 1 + i] = BitOf(v + 1, k - i)

\* ue(v) has.
LEMMA UeCode ==
  ASSUME NEW v \in Nat, Below30(v)
  PROVE  \E k : UeShape(Ue(v), v, k)
<1>1. \E k : HasBits(v, k)  BY BitsOf
<1>2. PICK k : k = CHOOSE m \in 0..30 : 2^m <= v + 1 /\ v + 1 < 2^(m + 1)  OBVIOUS
<1>3. HasBits(v, k)  BY <1>1, <1>2, Zenon DEF HasBits
<1>4. Ue(v) = Zeros(k) \o U(k + 1, v + 1)  BY <1>2 DEF Ue
<1>5. k \in 0..30  BY <1>3 DEF HasBits
<1>6. PICK z, u : z = Zeros(k) /\ u = U(k + 1, v + 1)  OBVIOUS
<1>7. z \in Seq({0, 1}) /\ Len(z) = k /\ \A i \in 1..k : z[i] = 0
  BY <1>5, <1>6 DEF Zeros
<1>8. UShape(u, k + 1, v + 1)
  <2>1. k + 1 \in Nat /\ v + 1 \in Nat  BY <1>5
  <2> QED  BY <2>1, <1>6, UCode
<1>a. PICK n, w : n = k + 1 /\ w = v + 1  OBVIOUS
<1>9. /\ u \in Seq({0, 1}) /\ Len(u) = k + 1
      /\ \A i \in 1..k + 1 : u[i] = BitOf(v + 1, (k + 1) - i)
  <2>1. UShape(u, n, w)  BY <1>8, <1>a
  <2>2. /\ u \in Seq({0, 1}) /\ Len(u) = n
        /\ \A i \in 1..n : u[i] = BitOf(w, n - i)
    BY <2>1 DEF UShape
  <2> QED  BY <2>2, <1>a, Zenon
<1>10. PICK c : c = z \o u  OBVIOUS
<1>11. /\ c \in Seq({0, 1}) /\ Len(c) = Len(z) + Len(u)
       /\ \A i \in 1..Len(z) : c[i] = z[i]
       /\ \A i \in 1..Len(u) : c[Len(z) + i] = u[i]
  <2>1. IsCat(c, z, u, {0, 1})  BY <1>7, <1>9, <1>10 DEF IsCat
  <2> QED  BY <2>1, Catenation
<1>12. Len(c) = 2 * k + 1 /\ \A i \in 1..k : c[i] = 0
  BY <1>5, <1>7, <1>9, <1>11
<1>13. \A i \in 1..k + 1 : c[k + i] = BitOf(v + 1, k + 1 - i)
  BY <1>5, <1>7, <1>9, <1>11
<1>14. c[k + 1] = 1
  <2>1. 1 \in 1..k + 1 /\ k + 1 - 1 = k  BY <1>5
  <2>2. c[k + 1] = BitOf(v + 1, k)  BY <2>1, <1>13
  <2>3. Quot(v + 1, k) = 1
    <3>1. v + 1 \in Nat /\ k \in 0..31 /\ k < 31 /\ 2^k <= v + 1 /\ v + 1 < 2^(k + 1)
      BY <1>3, <1>5 DEF HasBits
    <3> QED  BY <3>1, QuotEnds
  <2>4. BitOf(v + 1, k) = Quot(v + 1, k) % 2  BY <1>5 DEF BitOf, Quot
  <2>5. 1 % 2 = 1  BY SMT
  <2> QED  BY <2>2, <2>3, <2>4, <2>5
<1>15. ASSUME NEW i \in 1..k PROVE c[k + 1 + i] = BitOf(v + 1, k - i)
  <2>1. 1 + i \in 1..k + 1 /\ k + (1 + i) = k + 1 + i /\ k + 1 - (1 + i) = k - i  BY <1>5
  <2>2. c[k + (1 + i)] = BitOf(v + 1, k + 1 - (1 + i))  BY <2>1, <1>13
  <2> QED  BY <2>1, <2>2, Zenon
<1>16. UeShape(c, v, k)  BY <1>3, <1>11, <1>12, <1>14, <1>15 DEF UeShape
<1> QED  BY <1>4, <1>6, <1>10, <1>16

-----------------------------------------------------------------------------
(* Reading them.                                                            *)

\* The bits of code are those at position p of b.
CodeAt(b, p, code) ==
  /\ b \in Seq(Nat) /\ p \in Nat /\ p + Len(code) <= 8 * Len(b)
  /\ \A i \in 1..Len(code) : Bit(b, p + i - 1) = code[i]

\* A context and a step of it.
LEMMA Contexts ==
  ASSUME NEW b, NEW p
  PROVE  /\ Context(b, p).buf = b /\ Context(b, p).bit_pos = p
         /\ Total(Context(b, p)) = 8 * Len(b)
         /\ \A n : Moved(Context(b, p), n) = Context(b, p + n)
BY DEF Context, Total, Moved

\* get_1bit.
LEMMA BitRead ==
  ASSUME NEW b, NEW p, NEW code, CodeAt(b, p, code), Len(code) = 1
  PROVE  Get1Bit(Context(b, p)) = [val |-> code[1], ctx |-> Context(b, p + 1)]
<1>1. 1 \in 1..Len(code) /\ p + 1 - 1 = p  BY DEF CodeAt
<1>2. Bit(b, p) = code[1]  BY <1>1, Zenon DEF CodeAt
<1> QED  BY <1>2, Contexts DEF Get1Bit

\* The bits get_bits loses are zero.
NothingLost(p, code) ==
  (p % 8) + Len(code) > 32 => \A i \in 1..8 - (p % 8) : code[i] = 0

\* get_bits.
LEMMA BitsRead ==
  ASSUME MaxLen >= 32, NEW b, NEW p, NEW code \in Seq({0, 1}), CodeAt(b, p, code),
         NothingLost(p, code), NEW n, n = Len(code), n <= 32
  PROVE  GetBits(Context(b, p), n) = [val |-> Number(code), ctx |-> Context(b, p + n)]
<1>1. n \in Nat /\ p \in Nat /\ b \in Seq(Nat) /\ p + n <= 8 * Len(b) /\ MaxLen \in Nat
  BY BitReaderAssumption DEF CodeAt
<1>2. PICK c : c = Context(b, p)  OBVIOUS
<1>3. c.buf = b /\ c.bit_pos = p /\ Total(c) = 8 * Len(b) /\ Moved(c, n) = Context(b, p + n)
  BY <1>2, Contexts
<1>4. Granted(c, n) = n
  <2>1. ~ (n > MaxLen)  BY <1>1
  <2>2. ~ (p + n > 8 * Len(b))  BY <1>1
  <2> QED  BY <1>3, <2>1, <2>2, Zenon DEF Granted
<1>5. PICK d : d = Dropped(c, n)  OBVIOUS
<1>6. d = IF (p % 8) + n > 32 THEN 8 - (p % 8) ELSE 0  BY <1>3, <1>5 DEF Dropped
<1>7. ASSUME NEW i \in 1..n
      PROVE  (IF i <= d THEN 0 ELSE Bit(b, p + i - 1)) = code[i]
  <2>1. Bit(b, p + i - 1) = code[i]  BY DEF CodeAt
  <2>2. CASE i <= d
    <3>1. p % 8 \in 0..7  BY <1>1
    <3>2. (p % 8) + n > 32 /\ i \in 1..8 - (p % 8)  BY <1>1, <1>6, <2>2, <3>1
    <3>3. code[i] = 0  BY <3>2 DEF NothingLost
    <3> QED  BY <2>2, <3>3
  <2>3. CASE ~ (i <= d)  BY <2>1, <2>3
  <2> QED  BY <2>2, <2>3
<1>8. [i \in 1..n |-> IF i <= d THEN 0 ELSE Bit(b, p + i - 1)] = code
  <2>1. code = [i \in 1..n |-> code[i]]  OBVIOUS
  <2> QED  BY <2>1, <1>7
<1>9. GetBits(c, n) = [val |-> Number([i \in 1..n |-> IF i <= d THEN 0
                                                      ELSE Bit(b, p + i - 1)]),
                       ctx |-> Moved(c, n)]
  BY <1>3, <1>4, <1>5, Zenon DEF GetBits
<1> QED  BY <1>2, <1>3, <1>8, <1>9

\* get_bits of a number that was sent with u(n), if it has at most 25 bits.
THEOREM URead ==
  ASSUME MaxLen >= 32, NEW b, NEW p, NEW n \in 0..32, NEW v \in Nat, Below25(v),
         n <= 25 => v < 2^n, CodeAt(b, p, U(n, v))
  PROVE  GetBits(Context(b, p), n) = [val |-> v, ctx |-> Context(b, p + n)]
<1>1. PICK code : code = U(n, v)  OBVIOUS
<1>2. UShape(code, n, v)  BY <1>1, UCode
<1>3. /\ code \in Seq({0, 1}) /\ Len(code) = n
      /\ \A i \in 1..n : code[i] = BitOf(v, n - i)
  BY <1>2 DEF UShape
<1>4. p \in Nat /\ CodeAt(b, p, code)  BY <1>1 DEF CodeAt
<1>5. NothingLost(p, code)
  <2> SUFFICES ASSUME (p % 8) + n > 32, NEW i \in 1..8 - (p % 8) PROVE code[i] = 0
    BY <1>3 DEF NothingLost
  <2>1. p % 8 \in 0..7  BY <1>4
  <2>2. i \in 1..n /\ n - i \in Nat /\ n - i >= 25  BY <2>1
  <2>3. BitOf(v, n - i) = 0  BY <2>2, HighBits
  <2> QED  BY <1>3, <2>2, <2>3
<1>6. Number(code) = v
  <2>1. Below31(v)  BY SMT DEF Below25, Below31
  <2>2. Quot(v, n) = 0
    <3>1. CASE n <= 25
      <4>1. n \in 0..31  BY <3>1
      <4> QED  BY <3>1, <4>1, QuotEnds
    <3>2. CASE n > 25
      <4>1. n \in Nat /\ n >= 25  BY <3>2
      <4> QED  BY <4>1, HighBits
    <3> QED  BY <3>1, <3>2
  <2> QED  BY <1>3, <2>1, <2>2, NumberOf
<1> QED  BY <1>3, <1>4, <1>5, <1>6, BitsRead

\* get_1bit of a flag.
LEMMA FlagRead ==
  ASSUME NEW b, NEW p, NEW v \in {0, 1}, CodeAt(b, p, U(1, v))
  PROVE  Get1Bit(Context(b, p)) = [val |-> v, ctx |-> Context(b, p + 1)]
<1>1. PICK code : code = U(1, v)  OBVIOUS
<1>2. UShape(code, 1, v)  BY <1>1, UCode
<1>3. Len(code) = 1 /\ code[1] = BitOf(v, 0)
  <2>1. 1 \in 1..1 /\ 1 - 1 = 0  OBVIOUS
  <2> QED  BY <1>2, <2>1 DEF UShape
<1>4. BitOf(v, 0) = v
  <2>1. 2^0 = 1 /\ v \div 1 = v /\ v % 2 = v  BY SMT
  <2> QED  BY <2>1 DEF BitOf
<1> QED  BY <1>1, <1>3, <1>4, BitRead

\* parse_ue of a number that was sent with ue(v), if it has at most 25 bits.
THEOREM UeRead ==
  ASSUME MaxLen >= 32, NEW b, NEW p, NEW v \in Nat, Below25(v), CodeAt(b, p, Ue(v))
  PROVE  ParseUe(Context(b, p)) = [val |-> v, ctx |-> Context(b, p + Len(Ue(v)))]
<1>0. Below30(v)  BY SMT DEF Below25, Below30
<1>1. PICK code : code = Ue(v)  OBVIOUS
<1>2. PICK k : UeShape(code, v, k)  BY <1>0, <1>1, UeCode
<1>3. /\ HasBits(v, k) /\ code \in Seq({0, 1}) /\ Len(code) = 2 * k + 1
      /\ \A i \in 1..k : code[i] = 0
      /\ code[k + 1] = 1
      /\ \A i \in 1..k : code[k + 1 + i] = BitOf(v + 1, k - i)
  BY <1>2 DEF UeShape
<1>4. k \in 0..25  BY <1>3, FewBits
<1>5. /\ b \in Seq(Nat) /\ p \in Nat /\ p + 2 * k + 1 <= 8 * Len(b)
      /\ \A i \in 1..2 * k + 1 : Bit(b, p + i - 1) = code[i]
  <2>1. /\ b \in Seq(Nat) /\ p \in Nat /\ p + Len(code) <= 8 * Len(b)
        /\ \A i \in 1..Len(code) : Bit(b, p + i - 1) = code[i]
    BY <1>1 DEF CodeAt
  <2>2. p + Len(code) = p + 2 * k + 1  BY <2>1, <1>3, <1>4
  <2> QED  BY <2>1, <2>2, <1>3, Zenon
<1>6. PICK c : c = Context(b, p)  OBVIOUS
<1>7. c.buf = b /\ c.bit_pos = p /\ Total(c) = 8 * Len(b)  BY <1>6, Contexts
<1>8. \A i \in 0..k - 1 : Bit(b, p + i) = 0
  <2> SUFFICES ASSUME NEW i \in 0..k - 1 PROVE Bit(b, p + i) = 0  OBVIOUS
  <2>1. i + 1 \in 1..k /\ i + 1 \in 1..2 * k + 1 /\ p + (i + 1) - 1 = p + i  BY <1>4, <1>5
  <2>2. Bit(b, p + (i + 1) - 1) = code[i + 1] /\ code[i + 1] = 0  BY <2>1, <1>3, <1>5
  <2> QED  BY <2>1, <2>2, Zenon
<1>9. Bit(b, p + k) = 1
  <2>1. k + 1 \in 1..2 * k + 1 /\ p + (k + 1) - 1 = p + k  BY <1>4, <1>5
  <2>2. Bit(b, p + (k + 1) - 1) = code[k + 1]  BY <2>1, <1>5
  <2> QED  BY <2>1, <2>2, <1>3, Zenon
<1>10. LeadingZeros(c) = k
  <2> DEFINE Is(j) == /\ Bit(b, p + j) = 1
                      /\ \A i \in 0..j - 1 : Bit(b, p + i) = 0
             N == 8 * Len(b) - p
  <2>1. LeadingZeros(c) = CHOOSE j \in 0..N : Is(j)  BY <1>7 DEF LeadingZeros
  <2>2. k \in 0..N /\ Is(k)  BY <1>4, <1>5, <1>8, <1>9
  <2>3. ASSUME NEW j \in 0..N, Is(j) PROVE j = k
    <3>1. CASE j < k
      <4>1. j \in 0..k - 1  BY <3>1, <1>4
      <4>2. Bit(b, p + j) = 0  BY <4>1, <1>8
      <4> QED  BY <4>2, <2>3
    <3>2. CASE k < j
      <4>1. k \in 0..j - 1  BY <3>2, <1>4
      <4>2. Bit(b, p + k) = 0  BY <4>1, <2>3
      <4> QED  BY <4>2, <1>9
    <3> QED  BY <3>1, <3>2, <1>4
  <2> HIDE DEF Is
  <2> QED  BY <2>1, <2>2, <2>3, Zenon
<1>11. PICK rest : rest = [i \in 1..k |-> code[k + 1 + i]]  OBVIOUS
<1>12. rest \in Seq({0, 1}) /\ Len(rest) = k /\ \A i \in 1..k : rest[i] = code[k + 1 + i]
  <2>1. \A i \in 1..k : code[k + 1 + i] \in {0, 1}
    <3>1. \A i \in 1..k : k + 1 + i \in 1..Len(code)  BY <1>3, <1>4
    <3> QED  BY <3>1, <1>3
  <2> QED  BY <1>4, <1>11, <2>1
<1>13. CodeAt(b, p + (k + 1), rest)
  <2>1. p + (k + 1) \in Nat /\ p + (k + 1) + k <= 8 * Len(b)  BY <1>4, <1>5
  <2>2. ASSUME NEW i \in 1..k PROVE Bit(b, p + (k + 1) + i - 1) = rest[i]
    <3>1. k + 1 + i \in 1..2 * k + 1 /\ p + (k + 1 + i) - 1 = p + (k + 1) + i - 1
      BY <1>4, <1>5
    <3>2. Bit(b, p + (k + 1 + i) - 1) = code[k + 1 + i]  BY <3>1, <1>5
    <3> QED  BY <3>1, <3>2, <1>12, Zenon
  <2> QED  BY <2>1, <2>2, <1>5, <1>12 DEF CodeAt
<1>14. NothingLost(p + (k + 1), rest)
  <2>1. (p + (k + 1)) % 8 <= 7  BY <1>4, <1>5
  <2> QED  BY <2>1, <1>4, <1>5, <1>12 DEF NothingLost
<1>15. GetBits(Context(b, p + (k + 1)), k)
         = [val |-> Number(rest), ctx |-> Context(b, p + (k + 1) + k)]
  <2>1. k = Len(rest) /\ k <= 32  BY <1>4, <1>12
  <2> QED  BY <2>1, <1>12, <1>13, <1>14, BitsRead
<1>16. Number(rest) = v + 1 - 2^k
  <2>1. v + 1 \in Nat /\ Below31(v + 1)  BY SMT DEF Below25, Below31
  <2>2. Quot(v + 1, k) = 1
    <3>1. v + 1 \in Nat /\ k \in 0..31 /\ k < 31 /\ 2^k <= v + 1 /\ v + 1 < 2^(k + 1)
      BY <1>3, <1>4 DEF HasBits
    <3> QED  BY <3>1, QuotEnds
  <2>3. \A i \in 1..k : rest[i] = BitOf(v + 1, k - i)  BY <1>3, <1>12
  <2>4. k = Len(rest) /\ rest \in Seq({0, 1})  BY <1>12
  <2>5. k <= 30  BY <1>4
  <2> QED  BY <2>1, <2>2, <2>3, <2>4, <2>5, NumberOf
<1>17. ParseUe(c) = [val |-> 2^k - 1 + Number(rest), ctx |-> Context(b, p + (k + 1) + k)]
  <2>1. Moved(c, k + 1) = Context(b, p + (k + 1))  BY <1>6, Contexts
  <2>2. PICK r : r = GetBits(Context(b, p + (k + 1)), k)  OBVIOUS
  <2>3. r.val = Number(rest) /\ r.ctx = Context(b, p + (k + 1) + k)  BY <1>15, <2>2
  <2>4. ParseUe(c) = [val |-> 2^k - 1 + r.val, ctx |-> r.ctx]
    BY <1>10, <2>1, <2>2, Zenon DEF ParseUe
  <2> QED  BY <2>3, <2>4, Zenon
<1>18. 2^k - 1 + Number(rest) = v
  <2>1. PICK q : q = 2^k  OBVIOUS
  <2>2. q \in Nat
    <3>1. k \in 0..30  BY <1>4
    <3> QED  BY <3>1, <2>1, PowerDoubles
  <2>3. Number(rest) = v + 1 - q  BY <1>16, <2>1, Zenon
  <2>4. q - 1 + (v + 1 - q) = v  BY <2>2
  <2> QED  BY <2>1, <2>3, <2>4, Zenon
<1>19. p + (k + 1) + k = p + Len(Ue(v))  BY <1>1, <1>3, <1>4, <1>5
<1> QED  BY <1>6, <1>17, <1>18, <1>19, Zenon

\* Numbers that se(v) sends with at most 25 bits.
Below24(v) == v \in Int /\ -16777216 < v /\ v < 16777216

\* parse_se of a number that was sent with se(v).
THEOREM SeRead ==
  ASSUME MaxLen >= 32, NEW b, NEW p, NEW v \in Int, Below24(v), CodeAt(b, p, Se(v))
  PROVE  ParseSe(Context(b, p)) = [val |-> v, ctx |-> Context(b, p + Len(Se(v)))]
<1>1. PICK k : k = IF v > 0 THEN 2 * v - 1 ELSE -2 * v  OBVIOUS
<1>2. k \in Nat  BY <1>1
<1>3. Se(v) = Ue(k)  BY <1>1 DEF Se
<1>4. Below25(k)  BY <1>1, SMT DEF Below24, Below25
<1>5. PICK r : r = ParseUe(Context(b, p))  OBVIOUS
<1>6. r = [val |-> k, ctx |-> Context(b, p + Len(Se(v)))]
  BY <1>2, <1>3, <1>4, <1>5, UeRead
<1>7. r.val = k /\ r.ctx = Context(b, p + Len(Se(v)))  BY <1>6
<1>8. Signed(k) = v
  <2>1. CASE v > 0
    <3>1. k = 2 * v - 1  BY <1>1, <2>1
    <3>2. k % 2 = 1 /\ (k + 1) \div 2 = v  BY <3>1, <2>1
    <3> QED  BY <3>2 DEF Signed
  <2>2. CASE ~ (v > 0)
    <3>1. PICK w : w = -v  OBVIOUS
    <3>2. w \in Nat /\ k = 2 * w  BY <1>1, <2>2, <3>1
    <3>3. k % 2 = 0 /\ (k + 1) \div 2 = w  BY <3>2
    <3>4. Signed(k) = -w  BY <3>3 DEF Signed
    <3> QED  BY <3>1, <3>4
  <2> QED  BY <2>1, <2>2
<1> QED  BY <1>5, <1>7, <1>8 DEF ParseSe

-----------------------------------------------------------------------------
(* The bits of the payload.                                                 *)

EightOf(f, k) ==
  128 * f[8 * k + 1] + 64 * f[8 * k + 2] + 32 * f[8 * k + 3] + 16 * f[8 * k + 4]
    + 8 * f[8 * k + 5] + 4 * f[8 * k + 6] + 2 * f[8 * k + 7] + f[8 * k + 8]

ByteOf(B) ==
  128 * B[1] + 64 * B[2] + 32 * B[3] + 16 * B[4] + 8 * B[5] + 4 * B[6] + 2 * B[7] + B[8]

\* Bit q of a byte.
LEMMA OctetBit ==
  ASSUME NEW B \in [1..8 -> {0, 1}], NEW q \in 0..7
  PROVE  (ByteOf(B) \div 2^(7 - q)) % 2 = B[q + 1]
<1>v. PICK v : v = ByteOf(B)  OBVIOUS
<1>3. PICK a \in {0, 1}, b \in {0, 1}, c \in {0, 1}, d \in {0, 1},
           e \in {0, 1}, f \in {0, 1}, g \in {0, 1}, h \in {0, 1} :
        /\ a = B[1] /\ b = B[2] /\ c = B[3] /\ d = B[4]
        /\ e = B[5] /\ f = B[6] /\ g = B[7] /\ h = B[8]
  OBVIOUS
<1>1. v = 128 * a + 64 * b + 32 * c + 16 * d + 8 * e + 4 * f + 2 * g + h
  BY <1>v, <1>3, Zenon DEF ByteOf
<1>p. PICK p : p = 2^(7 - q)  OBVIOUS
<1>2. p = Pow[7 - q]
  <2>1. 7 - q \in 0..31  OBVIOUS
  <2> QED  BY <1>p, <2>1, PowersOfTwo
<1>0. (v \div 2^(7 - q)) % 2 = (v \div p) % 2  BY <1>p, Zenon
<1>4. CASE q = 0
  <2>1. p = 128  BY <1>4, <1>2 DEF Pow, Powers
  <2>2. (v \div p) % 2 = a  BY <1>1, <2>1
  <2>3. B[q + 1] = a  BY <1>4, <1>3
  <2> QED  BY <1>v, <1>0, <2>2, <2>3, Zenon
<1>5. CASE q = 1
  <2>1. p = 64  BY <1>5, <1>2 DEF Pow, Powers
  <2>2. (v \div p) % 2 = b  BY <1>1, <2>1
  <2>3. B[q + 1] = b  BY <1>5, <1>3
  <2> QED  BY <1>v, <1>0, <2>2, <2>3, Zenon
<1>6. CASE q = 2
  <2>1. p = 32  BY <1>6, <1>2 DEF Pow, Powers
  <2>2. (v \div p) % 2 = c  BY <1>1, <2>1
  <2>3. B[q + 1] = c  BY <1>6, <1>3
  <2> QED  BY <1>v, <1>0, <2>2, <2>3, Zenon
<1>7. CASE q = 3
  <2>1. p = 16  BY <1>7, <1>2 DEF Pow, Powers
  <2>2. (v \div p) % 2 = d  BY <1>1, <2>1
  <2>3. B[q + 1] = d  BY <1>7, <1>3
  <2> QED  BY <1>v, <1>0, <2>2, <2>3, Zenon
<1>8. CASE q = 4
  <2>1. p = 8  BY <1>8, <1>2 DEF Pow, Powers
  <2>2. (v \div p) % 2 = e  BY <1>1, <2>1
  <2>3. B[q + 1] = e  BY <1>8, <1>3
  <2> QED  BY <1>v, <1>0, <2>2, <2>3, Zenon
<1>9. CASE q = 5
  <2>1. p = 4  BY <1>9, <1>2 DEF Pow, Powers
  <2>2. (v \div p) % 2 = f  BY <1>1, <2>1
  <2>3. B[q + 1] = f  BY <1>9, <1>3
  <2> QED  BY <1>v, <1>0, <2>2, <2>3, Zenon
<1>10. CASE q = 6
  <2>1. p = 2  BY <1>10, <1>2 DEF Pow, Powers
  <2>2. (v \div p) % 2 = g  BY <1>1, <2>1
  <2>3. B[q + 1] = g  BY <1>10, <1>3
  <2> QED  BY <1>v, <1>0, <2>2, <2>3, Zenon
<1>11. CASE q = 7
  <2>1. p = 1  BY <1>11, <1>2 DEF Pow, Powers
  <2>2. (v \div p) % 2 = h  BY <1>1, <2>1
  <2>3. B[q + 1] = h  BY <1>11, <1>3
  <2> QED  BY <1>v, <1>0, <2>2, <2>3, Zenon
<1>12. q = 0 \/ q = 1 \/ q = 2 \/ q = 3 \/ q = 4 \/ q = 5 \/ q = 6 \/ q = 7  OBVIOUS
<1> QED  BY <1>4, <1>5, <1>6, <1>7, <1>8, <1>9, <1>10, <1>11, <1>12, Zenon

\* Of eight bits.
LEMMA EightBit ==
  ASSUME NEW f \in Seq({0, 1}), NEW k \in Nat, 8 * k + 8 <= Len(f), NEW q \in 0..7
  PROVE  (EightOf(f, k) \div 2^(7 - q)) % 2 = f[8 * k + q + 1]
<1>1. PICK B : B = [i \in 1..8 |-> f[8 * k + i]]  OBVIOUS
<1>2. \A i \in 1..8 : f[8 * k + i] \in {0, 1}
  <2>1. \A i \in 1..8 : 8 * k + i \in 1..Len(f)  OBVIOUS
  <2> QED  BY <2>1
<1>3. B \in [1..8 -> {0, 1}] /\ \A i \in 1..8 : B[i] = f[8 * k + i]  BY <1>1, <1>2
<1>4. ByteOf(B) = EightOf(f, k)
  <2>1. /\ B[1] = f[8 * k + 1] /\ B[2] = f[8 * k + 2] /\ B[3] = f[8 * k + 3]
        /\ B[4] = f[8 * k + 4] /\ B[5] = f[8 * k + 5] /\ B[6] = f[8 * k + 6]
        /\ B[7] = f[8 * k + 7] /\ B[8] = f[8 * k + 8]
    BY <1>3
  <2> QED  BY <2>1, Zenon DEF ByteOf, EightOf
<1>5. (ByteOf(B) \div 2^(7 - q)) % 2 = B[q + 1]  BY <1>3, OctetBit
<1>6. B[q + 1] = f[8 * k + q + 1]
  <2>1. q + 1 \in 1..8 /\ 8 * k + (q + 1) = 8 * k + q + 1  OBVIOUS
  <2>2. B[q + 1] = f[8 * k + (q + 1)]  BY <2>1, <1>3
  <2> QED  BY <2>1, <2>2, Zenon
<1> QED  BY <1>4, <1>5, <1>6, Zenon

\* The bits of P are those of data, a 1, and zeros.
HasPayload(P, data) ==
  /\ P \in Seq(Octet) /\ Len(P) = (Len(data) + 8) \div 8
  /\ \A k \in 0..8 * Len(P) - 1 :
       Bit(P, k) = IF k < Len(data) THEN data[k + 1] ELSE IF k = Len(data) THEN 1 ELSE 0

\* The payload is that.
LEMMA PayloadBits ==
  ASSUME NEW data \in Seq({0, 1})
  PROVE  HasPayload(Payload(data), data)
<1>1. PICK bits : bits = Append(data, 1)  OBVIOUS
<1>d. PICK L : L = Len(data)  OBVIOUS
<1>2. /\ L \in Nat /\ bits \in Seq({0, 1}) /\ Len(bits) = L + 1 /\ bits[L + 1] = 1
      /\ \A i \in 1..L : bits[i] = data[i]
  BY <1>1, <1>d
<1>3. PICK z : z = (-Len(bits)) % 8  OBVIOUS
<1>4. z \in Nat /\ (L + 1 + z) % 8 = 0 /\ z < 8  BY <1>2, <1>3, SMT
<1>z. PICK Z : Z = Zeros(z)  OBVIOUS
<1>5. PICK full : full = bits \o Z  OBVIOUS
<1>6. Z \in Seq({0, 1}) /\ Len(Z) = z /\ \A i \in 1..z : Z[i] = 0
  BY <1>4, <1>z DEF Zeros
<1>7. /\ full \in Seq({0, 1}) /\ Len(full) = Len(bits) + Len(Z)
      /\ \A i \in 1..Len(bits) : full[i] = bits[i]
      /\ \A i \in 1..Len(Z) : full[Len(bits) + i] = Z[i]
  <2>1. IsCat(full, bits, Z, {0, 1})  BY <1>2, <1>5, <1>6 DEF IsCat
  <2> QED  BY <2>1, Catenation
<1>8. Len(full) = L + 1 + z  BY <1>2, <1>6, <1>7
<1>9. \A k \in 0..L + z : full[k + 1] = IF k < L THEN data[k + 1]
                                        ELSE IF k = L THEN 1 ELSE 0
  <2> SUFFICES ASSUME NEW k \in 0..L + z
               PROVE  full[k + 1] = IF k < L THEN data[k + 1] ELSE IF k = L THEN 1 ELSE 0
    OBVIOUS
  <2>1. CASE k < L
    <3>1. k + 1 \in 1..L /\ k + 1 \in 1..Len(bits)  BY <2>1, <1>2
    <3> QED  BY <2>1, <3>1, <1>2, <1>7
  <2>2. CASE k = L
    <3>1. L + 1 \in 1..Len(bits)  BY <1>2
    <3>2. full[L + 1] = 1  BY <3>1, <1>2, <1>7
    <3> QED  BY <2>2, <3>2, <1>2
  <2>3. CASE k > L
    <3>1. k - L \in 1..Len(Z) /\ Len(bits) + (k - L) = k + 1 /\ k - L \in 1..z
      BY <2>3, <1>2, <1>4, <1>6
    <3>2. full[Len(bits) + (k - L)] = Z[k - L] /\ Z[k - L] = 0  BY <3>1, <1>6, <1>7
    <3>3. full[k + 1] = 0  BY <3>1, <3>2, Zenon
    <3> QED  BY <2>3, <3>3, <1>2
  <2> QED  BY <2>1, <2>2, <2>3, <1>2
<1>10. PICK n : n = Len(full) \div 8  OBVIOUS
<1>11. n \in Nat /\ 8 * n = L + 1 + z /\ n = (L + 8) \div 8
  BY <1>2, <1>4, <1>8, <1>10, SMT
<1> DEFINE Value(k) == 128 * full[8 * k - 8 + 1] + 64 * full[8 * k - 8 + 2]
                         + 32 * full[8 * k - 8 + 3] + 16 * full[8 * k - 8 + 4]
                         + 8 * full[8 * k - 8 + 5] + 4 * full[8 * k - 8 + 6]
                         + 2 * full[8 * k - 8 + 7] + full[8 * k - 8 + 8]
<1>12. PICK P : P = Payload(data)  OBVIOUS
<1>13. P = [k \in 1..n |-> Value(k)]
  BY <1>1, <1>3, <1>z, <1>5, <1>10, <1>12, ZenonT(60) DEF Payload
<1>14. ASSUME NEW j \in 0..n - 1
       PROVE  /\ j + 1 \in 1..n /\ 8 * j + 8 <= Len(full) /\ j \in Nat
              /\ Value(j + 1) = EightOf(full, j)
  <2>1. /\ j + 1 \in 1..n /\ 8 * j + 8 <= Len(full) /\ j \in Nat
        /\ 8 * (j + 1) - 8 = 8 * j
    BY <1>8, <1>11
  <2> QED  BY <2>1, Zenon DEF EightOf
<1> HIDE DEF Value
<1>15. P \in Seq(Octet) /\ Len(P) = n /\ \A j \in 0..n - 1 : P[j + 1] = EightOf(full, j)
  <2>1. P \in Seq(Octet)  BY <1>12, PayloadOctets
  <2>2. Len(P) = n  BY <1>11, <1>13
  <2>3. \A j \in 0..n - 1 : P[j + 1] = EightOf(full, j)
    <3> SUFFICES ASSUME NEW j \in 0..n - 1 PROVE P[j + 1] = EightOf(full, j)  OBVIOUS
    <3>1. j + 1 \in 1..n /\ Value(j + 1) = EightOf(full, j)  BY <1>14
    <3>2. P[j + 1] = Value(j + 1)  BY <3>1, <1>13, Zenon
    <3> QED  BY <3>1, <3>2
  <2> QED  BY <2>1, <2>2, <2>3
<1>16. ASSUME NEW k \in 0..8 * n - 1 PROVE Bit(P, k) = full[k + 1]
  <2>1. PICK j, q : j = k \div 8 /\ q = k % 8  OBVIOUS
  <2>2. /\ j \in 0..n - 1 /\ q \in 0..7 /\ 8 * j + q + 1 = k + 1
        /\ j \in Nat /\ 8 * j + 8 <= Len(full)
    BY <2>1, <1>8, <1>11
  <2>3. (EightOf(full, j) \div 2^(7 - q)) % 2 = full[8 * j + q + 1]
    BY <2>2, <1>7, EightBit
  <2>4. P[j + 1] = EightOf(full, j)  BY <2>2, <1>15
  <2>5. Bit(P, k) = (P[j + 1] \div 2^(7 - q)) % 2  BY <2>1, Zenon DEF Bit
  <2> QED  BY <2>2, <2>3, <2>4, <2>5, Zenon
<1>17. \A k \in 0..8 * n - 1 :
         Bit(P, k) = IF k < L THEN data[k + 1] ELSE IF k = L THEN 1 ELSE 0
  <2> SUFFICES ASSUME NEW k \in 0..8 * n - 1
               PROVE  Bit(P, k) = IF k < L THEN data[k + 1] ELSE IF k = L THEN 1 ELSE 0
    OBVIOUS
  <2>1. k \in 0..L + z  BY <1>11, <1>2, <1>4
  <2>2. Bit(P, k) = full[k + 1]  BY <1>16
  <2>3. full[k + 1] = IF k < L THEN data[k + 1] ELSE IF k = L THEN 1 ELSE 0
    BY <2>1, <1>9
  <2> QED  BY <2>2, <2>3
<1> QED  BY <1>d, <1>11, <1>12, <1>15, <1>17 DEF HasPayload

-----------------------------------------------------------------------------
(* Where the code of each value is.                                         *)

\* f[i] is the first i of seqs, f[N] all of them.
PartsOf(seqs, N) == CHOOSE f : Joins(f, seqs, N, {0, 1}) /\ FlattenSeq(seqs) = f[N]

\* The parts of a sequence of codes.
LEMMA PartsJoin ==
  ASSUME NEW N \in Nat, NEW seqs, seqs = [i \in 1..N |-> seqs[i]],
         AllSeqs(seqs, N, {0, 1}), NEW f, f = PartsOf(seqs, N)
  PROVE  /\ Joins(f, seqs, N, {0, 1}) /\ FlattenSeq(seqs) = f[N]
         /\ f[0] = << >> /\ f[N] \in Seq({0, 1})
         /\ \A i \in 1..N : JoinsAt(f, seqs, N, {0, 1}, i)
<1>1. seqs \in Seq(Seq({0, 1})) /\ Len(seqs) = N
  <2>1. \A i \in 1..N : seqs[i] \in Seq({0, 1})  BY DEF AllSeqs
  <2>2. seqs \in [1..N -> Seq({0, 1})]  BY <2>1
  <2> QED  BY <2>2
<1>2. \E g : Joins(g, seqs, Len(seqs), {0, 1}) /\ FlattenSeq(seqs) = g[Len(seqs)]
  BY <1>1, FlattenSeqDef
<1>3. \E g : Joins(g, seqs, N, {0, 1}) /\ FlattenSeq(seqs) = g[N]
  BY <1>1, <1>2, Zenon
<1>4. Joins(f, seqs, N, {0, 1}) /\ FlattenSeq(seqs) = f[N]
  BY <1>3, Zenon DEF PartsOf
<1>5. f[0] = << >> /\ f[N] \in Seq({0, 1})  BY <1>4 DEF Joins
<1>6. \A i \in 1..N : JoinsAt(f, seqs, N, {0, 1}, i)  BY <1>4, JoinsItem
<1> QED  BY <1>4, <1>5, <1>6

\* A flag is a bit.
LEMMA FlagBit ==
  ASSUME NEW b
  PROVE  /\ Flag(b) \in Seq({0, 1}) /\ Len(Flag(b)) = 1
         /\ Flag(b) = U(1, IF b THEN 1 ELSE 0)
<1>1. PICK v : v = IF b THEN 1 ELSE 0  OBVIOUS
<1>2. v \in {0, 1}  BY <1>1
<1>3. Flag(b) = <<v>>  BY <1>1 DEF Flag
<1>4. U(1, v) = [i \in 1..1 |-> v]
  <2>1. UShape(U(1, v), 1, v)  BY <1>2, UCode
  <2>2. Len(U(1, v)) = 1 /\ U(1, v) \in Seq({0, 1})
        /\ \A i \in 1..1 : U(1, v)[i] = BitOf(v, 1 - i)
    BY <2>1 DEF UShape
  <2>3. U(1, v)[1] = BitOf(v, 0)
    <3>1. 1 \in 1..1 /\ 1 - 1 = 0  OBVIOUS
    <3> QED  BY <2>2, <3>1
  <2>4. BitOf(v, 0) = v
    <3>1. 2^0 = 1 /\ v \div 1 = v /\ v % 2 = v  BY <1>2, SMT
    <3> QED  BY <3>1 DEF BitOf
  <2> QED  BY <2>2, <2>3, <2>4
<1>5. <<v>> = [i \in 1..1 |-> v]  OBVIOUS
<1> QED  BY <1>1, <1>2, <1>3, <1>4, <1>5

\* se(v) is made of bits, for the numbers there are.
Below29(v) == v \in Int /\ -536870912 < v /\ v < 536870912

\* Its code is not empty.
LEMMA SeCode ==
  ASSUME NEW v \in Int, Below29(v)
  PROVE  Se(v) \in Seq({0, 1}) /\ Len(Se(v)) \in Nat \ {0}
<1>1. PICK k : k = IF v > 0 THEN 2 * v - 1 ELSE -2 * v  OBVIOUS
<1>2. k \in Nat  BY <1>1
<1>3. Below30(k)  BY <1>1, SMT DEF Below29, Below30
<1>4. PICK z : UeShape(Ue(k), k, z)  BY <1>2, <1>3, UeCode
<1>5. z \in Nat  BY <1>4 DEF UeShape, HasBits
<1>6. Ue(k) \in Seq({0, 1}) /\ Len(Ue(k)) = 2 * z + 1  BY <1>4 DEF UeShape
<1>7. Se(v) = Ue(k)  BY <1>1 DEF Se
<1> QED  BY <1>5, <1>6, <1>7

\* The deltas of a scaling list, one behind the other.
SesOf(deltas)   == [j \in 1..Len(deltas) |-> Se(deltas[j])]
ListParts(deltas) == PartsOf(SesOf(deltas), Len(deltas))

\* The flag and the deltas of a list are at p.
ListAt(b, p, deltas) ==
  LET h == ListParts(deltas)
      n == Len(deltas)
  IN /\ CodeAt(b, p, U(1, IF deltas # << >> THEN 1 ELSE 0))
     /\ Len(h[0]) = 0 /\ \A j \in 0..n : Len(h[j]) \in Nat
     /\ Len(ListBits(deltas)) = 1 + Len(h[n])
     /\ \A j \in 0..n - 1 : /\ Len(h[j + 1]) = Len(h[j]) + Len(Se(deltas[j + 1]))
                            /\ CodeAt(b, p + 1 + Len(h[j]), Se(deltas[j + 1]))

Deltas == -128..127

\* The list is its flag and the parts h of its n deltas.
ListMadeOf(deltas, h, n) ==
  /\ ListBits(deltas) \in Seq({0, 1})
  /\ ListBits(deltas) = Flag(deltas # << >>) \o h[n]
  /\ Len(ListBits(deltas)) = 1 + Len(h[n])
  /\ h[0] = << >> /\ Joins(h, SesOf(deltas), n, {0, 1})
  /\ h[n] \in Seq({0, 1})
  /\ \A j \in 1..n : JoinsAt(h, SesOf(deltas), n, {0, 1}, j)

\* A list is made of bits.
LEMMA ListCode ==
  ASSUME NEW deltas \in Seq(Deltas), NEW h, h = ListParts(deltas), NEW n, n = Len(deltas)
  PROVE  ListMadeOf(deltas, h, n)
<1>1. PICK q : q = SesOf(deltas)  OBVIOUS
<1>2. n \in Nat  OBVIOUS
<1>3. AllSeqs(q, n, {0, 1}) /\ q = [i \in 1..n |-> q[i]]
  <2>1. q = [j \in 1..n |-> Se(deltas[j])]  BY <1>1 DEF SesOf
  <2>2. ASSUME NEW j \in 1..n PROVE Se(deltas[j]) \in Seq({0, 1})
    <3>1. PICK v : v = deltas[j]  OBVIOUS
    <3>2. v \in Int /\ Below29(v)
      <4>1. v \in Deltas  BY <3>1
      <4> QED  BY <4>1, SMT DEF Deltas, Below29
    <3> QED  BY <3>1, <3>2, SeCode
  <2> QED  BY <2>1, <2>2 DEF AllSeqs
<1>4. h = PartsOf(q, n)  BY <1>1 DEF ListParts
<1>5. /\ Joins(h, q, n, {0, 1}) /\ FlattenSeq(q) = h[n] /\ h[0] = << >>
      /\ h[n] \in Seq({0, 1}) /\ \A j \in 1..n : JoinsAt(h, q, n, {0, 1}, j)
  BY <1>2, <1>3, <1>4, PartsJoin
<1>6. ListBits(deltas) = Flag(deltas # << >>) \o h[n]
  BY <1>1, <1>5 DEF ListBits, SesOf
<1>7. PICK u : u = Flag(deltas # << >>)  OBVIOUS
<1>8. u \in Seq({0, 1}) /\ Len(u) = 1  BY <1>7, FlagBit
<1>9. ListBits(deltas) \in Seq({0, 1}) /\ Len(ListBits(deltas)) = 1 + Len(h[n])
  <2>1. PICK L, z : L = ListBits(deltas) /\ z = h[n]  OBVIOUS
  <2>2. L = u \o z /\ z \in Seq({0, 1})  BY <2>1, <1>5, <1>6, <1>7, Zenon
  <2>3. IsCat(L, u, z, {0, 1})  BY <2>2, <1>8 DEF IsCat
  <2>4. L \in Seq({0, 1}) /\ Len(L) = Len(u) + Len(z)  BY <2>3, Catenation
  <2>5. Len(L) = 1 + Len(z)  BY <2>4, <1>8, Zenon
  <2> QED  BY <2>1, <2>4, <2>5, Zenon
<1> QED  BY <1>1, <1>5, <1>6, <1>9, Zenon DEF ListMadeOf

\* Where a list is, its flag and its deltas are.
LEMMA ListFound ==
  ASSUME NEW deltas \in Seq(Deltas), NEW b, NEW p, CodeAt(b, p, ListBits(deltas))
  PROVE  ListAt(b, p, deltas)
<1>1. PICK h, n, q : h = ListParts(deltas) /\ n = Len(deltas) /\ q = SesOf(deltas)
  OBVIOUS
<1>2. /\ ListBits(deltas) \in Seq({0, 1})
      /\ ListBits(deltas) = Flag(deltas # << >>) \o h[n]
      /\ Len(ListBits(deltas)) = 1 + Len(h[n])
      /\ h[0] = << >> /\ Joins(h, q, n, {0, 1}) /\ h[n] \in Seq({0, 1})
      /\ \A j \in 1..n : JoinsAt(h, q, n, {0, 1}, j)
  <2>1. ListMadeOf(deltas, h, n)  BY <1>1, ListCode
  <2> QED  BY <2>1, <1>1, Zenon DEF ListMadeOf
<1>3. n \in Nat  BY <1>1
<1>4. \A j \in 0..n : h[j] \in Seq({0, 1})  BY <1>2 DEF Joins
<1>5. PICK L, u : L = ListBits(deltas) /\ u = Flag(deltas # << >>)  OBVIOUS
<1>6. u \in Seq({0, 1}) /\ Len(u) = 1 /\ u = U(1, IF deltas # << >> THEN 1 ELSE 0)
  BY <1>5, FlagBit
<1>7. /\ Len(L) = 1 + Len(h[n]) /\ Len(h[n]) \in Nat
      /\ L[1] = u[1] /\ \A i \in 1..Len(h[n]) : L[1 + i] = h[n][i]
  <2>1. IsCat(L, u, h[n], {0, 1})  BY <1>2, <1>5, <1>6 DEF IsCat
  <2>2. /\ Len(L) = Len(u) + Len(h[n])
        /\ \A i \in 1..Len(u) : L[i] = u[i]
        /\ \A i \in 1..Len(h[n]) : L[Len(u) + i] = h[n][i]
    BY <2>1, Catenation
  <2> QED  BY <2>2, <1>2, <1>6
<1>8. /\ b \in Seq(Nat) /\ p \in Nat /\ p + Len(L) <= 8 * Len(b)
      /\ \A i \in 1..Len(L) : Bit(b, p + i - 1) = L[i]
  BY <1>5 DEF CodeAt
<1>9. CodeAt(b, p, u)
  <2>1. 1 \in 1..Len(L)  BY <1>7
  <2>2. Bit(b, p + 1 - 1) = u[1]  BY <2>1, <1>7, <1>8
  <2>3. \A i \in 1..Len(u) : i = 1  BY <1>6
  <2>4. p + Len(u) <= 8 * Len(b)  BY <1>6, <1>7, <1>8
  <2>5. \A i \in 1..Len(u) : Bit(b, p + i - 1) = u[i]  BY <2>2, <2>3, Zenon
  <2> QED  BY <2>4, <2>5, <1>8 DEF CodeAt
<1>10. ASSUME NEW j \in 0..n - 1
       PROVE  /\ Len(h[j + 1]) = Len(h[j]) + Len(Se(deltas[j + 1]))
              /\ CodeAt(b, p + 1 + Len(h[j]), Se(deltas[j + 1]))
  <2>1. j + 1 \in 1..n /\ (j + 1) - 1 = j /\ j \in 0..n /\ j + 1 \in 0..n  BY <1>3
  <2>2. JoinsAt(h, q, n, {0, 1}, j + 1)  BY <2>1, <1>2
  <2>3. PICK c : c = Se(deltas[j + 1])  OBVIOUS
  <2>4. q[j + 1] = c  BY <2>1, <2>3, <1>1 DEF SesOf
  <2>5. /\ c \in Seq({0, 1}) /\ Len(h[j + 1]) = Len(h[j]) + Len(c)
        /\ \A r \in 1..Len(c) : /\ Len(h[j]) + r \in 1..Len(h[n])
                                /\ h[n][Len(h[j]) + r] = c[r]
    BY <2>1, <2>2, <2>4, Zenon DEF JoinsAt
  <2>6. Len(h[j]) \in Nat /\ Len(c) \in Nat  BY <2>1, <2>5, <1>4
  <2>x. PICK x, y, z, l : x = Len(h[j]) /\ y = Len(c) /\ z = Len(h[n]) /\ l = Len(L)
    OBVIOUS
  <2>y. /\ x \in Nat /\ y \in Nat /\ z \in Nat /\ l = 1 + z /\ p \in Nat /\ Len(b) \in Nat
        /\ p + l <= 8 * Len(b)
    BY <2>6, <2>x, <1>7, <1>8
  <2>7. ASSUME NEW r \in 1..Len(c) PROVE Bit(b, (p + 1 + Len(h[j])) + r - 1) = c[r]
    <3>1. PICK m : m = Len(h[j]) + r  OBVIOUS
    <3>2. m \in 1..Len(h[n]) /\ h[n][m] = c[r]  BY <2>5, <3>1
    <3>3. 1 + m \in 1..Len(L) /\ L[1 + m] = h[n][m]  BY <3>2, <1>7
    <3>4. Bit(b, p + (1 + m) - 1) = L[1 + m]  BY <3>3, <1>8
    <3>5. p + (1 + m) - 1 = (p + 1 + Len(h[j])) + r - 1
      <4>1. m = x + r /\ r \in Int  BY <3>1, <2>x, <2>6
      <4>2. p + (1 + m) - 1 = (p + 1 + x) + r - 1  BY <4>1, <2>y
      <4> QED  BY <4>2, <2>x, Zenon
    <3> QED  BY <3>2, <3>3, <3>4, <3>5, Zenon
  <2>8. (p + 1 + Len(h[j])) + Len(c) <= 8 * Len(b)
    <3>1. Len(h[j]) + Len(c) <= Len(h[n])
      <4>1. CASE Len(c) = 0
        <5>1. Joins(h, q, n, {0, 1}) /\ AllSeqs(q, n, {0, 1})
          <6>1. \A i \in 1..n : q[i] \in Seq({0, 1})  BY <1>2, Zenon DEF JoinsAt
          <6> QED  BY <6>1, <1>2 DEF AllSeqs
        <5>2. n \in j..n  BY <2>1, <1>3
        <5>3. Grows(h[j], h[n])  BY <5>1, <5>2, <2>1, <1>3, JoinsGrow
        <5> QED  BY <5>3, <4>1, <2>6 DEF Grows
      <4>2. CASE Len(c) # 0
        <5>1. Len(c) \in 1..Len(c)  BY <4>2, <2>6
        <5>2. Len(h[j]) + Len(c) \in 1..Len(h[n])  BY <5>1, <2>5
        <5> QED  BY <5>2
      <4> QED  BY <4>1, <4>2
    <3>2. x + y <= z  BY <3>1, <2>x
    <3>3. (p + 1 + x) + y <= 8 * Len(b)  BY <3>2, <2>y
    <3> QED  BY <3>3, <2>x, Zenon
  <2>9. p + 1 + Len(h[j]) \in Nat
    <3>1. p + 1 + x \in Nat  BY <2>y
    <3> QED  BY <3>1, <2>x, Zenon
  <2>10. CodeAt(b, p + 1 + Len(h[j]), c)  BY <2>7, <2>8, <2>9, <1>8 DEF CodeAt
  <2> QED  BY <2>3, <2>5, <2>10
<1>11. Len(h[0]) = 0 /\ \A j \in 0..n : Len(h[j]) \in Nat  BY <1>2, <1>4
<1> QED  BY <1>1, <1>2, <1>6, <1>9, <1>10, <1>11, Zenon DEF ListAt

-----------------------------------------------------------------------------
\* An element of the syntax with values that can be sent.
HasCode(e) ==
  e.as \in {"u", "ue", "se", "list", "hrd", "more"} /\ e.n \in 0..32 /\ ElementOK(e)

\* What ValueOK says of each descriptor.
LEMMA Values ==
  ASSUME NEW e, HasCode(e), NEW i \in 1..Len(e.values), NEW v, v = e.values[i]
  PROVE  /\ e.as = "u" => v \in Nat /\ (e.n <= 30 => v < 2^e.n)
         /\ e.as \in {"ue", "hrd"} => v \in Nat /\ Below30(v)
         /\ e.as = "se" => v \in Int /\ Below29(v)
         /\ e.as = "list" => v \in Seq(Deltas) /\ ListOK(v, IF i <= 6 THEN 16 ELSE 64)
<1>1. ElementOK(e)  BY DEF HasCode
<1>2. ValueOK(e, i)  BY <1>1 DEF ElementOK
<1>3. e.as = "u" => v \in Nat /\ (e.n <= 30 => v < 2^e.n)  BY <1>2, Zenon DEF ValueOK
<1>4. e.as \in {"ue", "hrd"} => v \in 0..2^30 - 1  BY <1>2, Zenon DEF ValueOK
<1>5. e.as = "se" => v \in 1 - 2^29..2^29 - 1  BY <1>2, Zenon DEF ValueOK
<1>6. e.as = "list" => ListOK(v, IF i <= 6 THEN 16 ELSE 64)
  BY <1>2, Zenon DEF ValueOK
<1>7. e.as = "list" => v \in Seq(Deltas)
  <2>1. HAVE e.as = "list"
  <2>2. e.values \in Seq(Seq(-128..127))  BY <1>1, <2>1, Zenon DEF ElementOK
  <2> QED  BY <2>2 DEF Deltas
<1>8. v \in 0..2^30 - 1 => v \in Nat /\ Below30(v)  BY SMT DEF Below30
<1>9. v \in 1 - 2^29..2^29 - 1 => v \in Int /\ Below29(v)  BY SMT DEF Below29
<1> QED  BY <1>3, <1>4, <1>5, <1>6, <1>7, <1>8, <1>9, Zenon

\* What Code is for each descriptor.
LEMMA CodeOf ==
  ASSUME NEW e, NEW i, NEW v, v = e.values[i]
  PROVE  /\ e.as = "u" => Code(e, i) = U(e.n, v)
         /\ e.as = "ue" => Code(e, i) = Ue(v)
         /\ e.as = "se" => Code(e, i) = Se(v)
         /\ e.as = "list" => Code(e, i) = ListBits(v)
         /\ e.as = "hrd" => Code(e, i) = IF i % 3 = 0 THEN U(1, v) ELSE Ue(v)
         /\ e.as = "more" => Code(e, i) = << >>
BY Zenon DEF Code

\* The code of a value is made of bits.
LEMMA CodeBits ==
  ASSUME NEW e, HasCode(e), NEW i \in 1..Len(e.values)
  PROVE  Code(e, i) \in Seq({0, 1})
<1>1. PICK v : v = e.values[i]  OBVIOUS
<1>2. e.as \in {"u", "ue", "se", "list", "hrd", "more"}  BY Zenon DEF HasCode
<1>3. ASSUME v \in Nat, Below30(v) PROVE Ue(v) \in Seq({0, 1})
  <2>1. PICK z : UeShape(Ue(v), v, z)  BY <1>3, UeCode
  <2> QED  BY <2>1 DEF UeShape
<1>4. ASSUME NEW n \in Nat, v \in Nat PROVE U(n, v) \in Seq({0, 1})
  <2>1. UShape(U(n, v), n, v)  BY <1>4, UCode
  <2> QED  BY <2>1 DEF UShape
<1>5. CASE e.as = "u"
  <2>1. v \in Nat  BY <1>1, <1>5, Values, Zenon
  <2>2. e.n \in Nat
    <3>1. PICK m : m = e.n  OBVIOUS
    <3>2. m \in 0..32  BY <3>1, Zenon DEF HasCode
    <3>3. m \in Nat  BY <3>2
    <3> QED  BY <3>1, <3>3, Zenon
  <2>3. U(e.n, v) \in Seq({0, 1})  BY <2>1, <2>2, <1>4
  <2> QED  BY <2>3, <1>1, <1>5, CodeOf, Zenon
<1>6. CASE e.as = "ue"
  <2>1. v \in Nat /\ Below30(v)  BY <1>1, <1>6, Values, Zenon
  <2>2. Ue(v) \in Seq({0, 1})  BY <2>1, <1>3
  <2> QED  BY <2>2, <1>1, <1>6, CodeOf, Zenon
<1>7. CASE e.as = "se"
  <2>1. v \in Int /\ Below29(v)  BY <1>1, <1>7, Values, Zenon
  <2>2. Se(v) \in Seq({0, 1})  BY <2>1, SeCode
  <2> QED  BY <2>2, <1>1, <1>7, CodeOf, Zenon
<1>8. CASE e.as = "list"
  <2>1. v \in Seq(Deltas)  BY <1>1, <1>8, Values, Zenon
  <2>2. ListMadeOf(v, ListParts(v), Len(v))  BY <2>1, ListCode
  <2>3. ListBits(v) \in Seq({0, 1})  BY <2>2, Zenon DEF ListMadeOf
  <2> QED  BY <2>3, <1>1, <1>8, CodeOf, Zenon
<1>9. CASE e.as = "hrd"
  <2>1. v \in Nat /\ Below30(v)  BY <1>1, <1>9, Values, Zenon
  <2>2. Ue(v) \in Seq({0, 1})  BY <2>1, <1>3
  <2>3. U(1, v) \in Seq({0, 1})  BY <2>1, <1>4
  <2> QED  BY <2>2, <2>3, <1>1, <1>9, CodeOf, Zenon
<1>10. CASE e.as = "more"
  <2>1. Code(e, i) = << >>  BY <1>1, <1>10, CodeOf, Zenon
  <2> QED  BY <2>1
<1> QED  BY <1>2, <1>5, <1>6, <1>7, <1>8, <1>9, <1>10, Zenon

-----------------------------------------------------------------------------
(* Where the code of each value of each element is.                         *)

CodesOf(e)   == [i \in 1..Len(e.values) |-> Code(e, i)]
RowsOf(E)    == [k \in 1..Len(E) |-> ElementBits(E[k])]
CodeParts(e) == PartsOf(CodesOf(e), Len(e.values))
RowParts(E)  == PartsOf(RowsOf(E), Len(E))

\* Behind i values of the k-th element.
Pos(E, k, i) ==
  Len(RowParts(E)[k - 1]) + (IF i = 0 THEN 0 ELSE Len(CodeParts(E[k])[i]))

AllCoded(E) == E = [k \in 1..Len(E) |-> E[k]] /\ \A k \in 1..Len(E) : HasCode(E[k])

\* The codes of an element.
LEMMA ElementCodes ==
  ASSUME NEW e, HasCode(e), NEW n, n = Len(e.values), NEW c, c = CodeParts(e)
  PROVE  /\ n \in Nat /\ Joins(c, CodesOf(e), n, {0, 1}) /\ ElementBits(e) = c[n]
         /\ c[0] = << >> /\ c[n] \in Seq({0, 1})
         /\ \A i \in 1..n : CodesOf(e)[i] = Code(e, i) /\ JoinsAt(c, CodesOf(e), n, {0, 1}, i)
<1>1. n \in Nat
  <2>1. PICK S : e.values \in Seq(S)
    <3>1. ElementOK(e)  BY DEF HasCode
    <3> QED  BY <3>1, Zenon DEF ElementOK
  <2> QED  BY <2>1
<1>2. PICK q : q = CodesOf(e)  OBVIOUS
<1>3. q = [i \in 1..n |-> Code(e, i)]  BY <1>2 DEF CodesOf
<1>4. AllSeqs(q, n, {0, 1}) /\ q = [i \in 1..n |-> q[i]]
  <2>1. \A i \in 1..n : Code(e, i) \in Seq({0, 1})  BY CodeBits
  <2> QED  BY <2>1, <1>3 DEF AllSeqs
<1>5. c = PartsOf(q, n)  BY <1>2 DEF CodeParts
<1>6. /\ Joins(c, q, n, {0, 1}) /\ FlattenSeq(q) = c[n]
      /\ c[0] = << >> /\ c[n] \in Seq({0, 1})
      /\ \A i \in 1..n : JoinsAt(c, q, n, {0, 1}, i)
  BY <1>1, <1>4, <1>5, PartsJoin
<1>7. ElementBits(e) = FlattenSeq(q)  BY <1>3 DEF ElementBits
<1> QED  BY <1>1, <1>2, <1>3, <1>6, <1>7, Zenon

\* The elements of a parameter set.
LEMMA RowCodes ==
  ASSUME NEW E, AllCoded(E), NEW N, N = Len(E), N \in Nat, NEW f, f = RowParts(E)
  PROVE  /\ Joins(f, RowsOf(E), N, {0, 1}) /\ Bits(E) = f[N]
         /\ f[0] = << >> /\ f[N] \in Seq({0, 1})
         /\ \A k \in 1..N : /\ RowsOf(E)[k] = ElementBits(E[k])
                            /\ JoinsAt(f, RowsOf(E), N, {0, 1}, k)
<1>2. PICK q : q = RowsOf(E)  OBVIOUS
<1>3. q = [k \in 1..N |-> ElementBits(E[k])]  BY <1>2 DEF RowsOf
<1>4. AllSeqs(q, N, {0, 1}) /\ q = [k \in 1..N |-> q[k]]
  <2>1. ASSUME NEW k \in 1..N PROVE ElementBits(E[k]) \in Seq({0, 1})
    <3>1. PICK e, c, n : e = E[k] /\ c = CodeParts(e) /\ n = Len(e.values)  OBVIOUS
    <3>2. HasCode(e)  BY <3>1 DEF AllCoded
    <3>3. ElementBits(e) = c[n] /\ c[n] \in Seq({0, 1})  BY <3>1, <3>2, ElementCodes
    <3> QED  BY <3>1, <3>3
  <2> QED  BY <2>1, <1>3 DEF AllSeqs
<1>5. f = PartsOf(q, N)  BY <1>2 DEF RowParts
<1>6. /\ Joins(f, q, N, {0, 1}) /\ FlattenSeq(q) = f[N]
      /\ f[0] = << >> /\ f[N] \in Seq({0, 1})
      /\ \A k \in 1..N : JoinsAt(f, q, N, {0, 1}, k)
  BY <1>4, <1>5, PartsJoin
<1>7. Bits(E) = FlattenSeq(q)  BY <1>3 DEF Bits
<1> QED  BY <1>2, <1>3, <1>6, <1>7, Zenon

\* The code of value i + 1 of the k-th element is in the bits B.
CodePlace(E, B, k, i) ==
  LET code == Code(E[k], i + 1)
  IN /\ Pos(E, k, i) \in Nat /\ code \in Seq({0, 1})
     /\ Pos(E, k, i + 1) = Pos(E, k, i) + Len(code)
     /\ Pos(E, k, i) + Len(code) <= Len(B)
     /\ \A r \in 1..Len(code) : B[Pos(E, k, i) + r] = code[r]

\* The bits of a parameter set have the code of every value at its position.
THEOREM CodesPlaced ==
  ASSUME NEW E, AllCoded(E), NEW N, N = Len(E), N \in Nat, NEW k \in 1..N,
         NEW i \in 0..Len(E[k].values) - 1, Len(E[k].values) \in Nat
  PROVE  CodePlace(E, Bits(E), k, i)
<1>1. PICK f, e, n, c, j : /\ f = RowParts(E) /\ e = E[k] /\ n = Len(e.values)
                           /\ c = CodeParts(e) /\ j = i + 1
  OBVIOUS
<1>2. HasCode(e)  BY <1>1, Zenon DEF AllCoded
<1>3. PICK B, d, z : B = f[N] /\ d = Code(e, j) /\ z = c[n]  OBVIOUS
<1>4. /\ Bits(E) = B /\ f[0] = << >> /\ B \in Seq({0, 1})
      /\ RowsOf(E)[k] = ElementBits(e) /\ JoinsAt(f, RowsOf(E), N, {0, 1}, k)
  BY <1>1, <1>3, RowCodes, Zenon
<1>5. n \in Nat /\ j \in 1..n /\ j - 1 = i  BY <1>1, SMT
<1>6. /\ ElementBits(e) = z /\ c[0] = << >> /\ z \in Seq({0, 1})
      /\ CodesOf(e)[j] = d /\ JoinsAt(c, CodesOf(e), n, {0, 1}, j)
  BY <1>1, <1>2, <1>3, <1>5, ElementCodes, Zenon
<1>7. /\ f[k - 1] \in Seq({0, 1}) /\ Len(f[k]) = Len(f[k - 1]) + Len(z)
      /\ \A r \in 1..Len(z) : /\ Len(f[k - 1]) + r \in 1..Len(B)
                              /\ B[Len(f[k - 1]) + r] = z[r]
  BY <1>3, <1>4, <1>6, Zenon DEF JoinsAt
<1>8. /\ c[i] \in Seq({0, 1}) /\ d \in Seq({0, 1}) /\ c[j] \in Seq({0, 1})
      /\ Len(c[j]) = Len(c[i]) + Len(d) /\ Grows(c[j], z)
      /\ \A r \in 1..Len(d) : /\ Len(c[i]) + r \in 1..Len(z)
                              /\ z[Len(c[i]) + r] = d[r]
  BY <1>3, <1>5, <1>6, Zenon DEF JoinsAt
<1>9. PICK x, y, lz, ld, lb, lj : /\ x = Len(f[k - 1]) /\ y = Len(c[i]) /\ lz = Len(z)
                                  /\ ld = Len(d) /\ lb = Len(B) /\ lj = Len(c[j])
  OBVIOUS
<1>10. /\ x \in Nat /\ y \in Nat /\ lz \in Nat /\ ld \in Nat /\ lb \in Nat
       /\ lj = y + ld /\ lj <= lz /\ lj \in Nat
  <2>1. lj <= lz  BY <1>8, <1>9, Zenon DEF Grows
  <2> QED  BY <2>1, <1>4, <1>6, <1>7, <1>8, <1>9
<1>11. x + lz <= lb
  <2>1. CASE lz = 0
    <3>1. f[k] \in Seq({0, 1}) /\ Grows(f[k], B)  BY <1>3, <1>4, Zenon DEF JoinsAt
    <3>2. Len(f[k]) = x + lz /\ Len(f[k]) <= lb  BY <3>1, <1>7, <1>9, Zenon DEF Grows
    <3> QED  BY <3>2, Zenon
  <2>2. CASE lz # 0
    <3>1. lz \in 1..lz  BY <2>2, <1>10
    <3>2. x + lz \in 1..lb  BY <3>1, <1>7, <1>9, Zenon
    <3> QED  BY <3>2, <1>10
  <2> QED  BY <2>1, <2>2
<1>12. Pos(E, k, i) = x + y
  <2>1. CASE i = 0
    <3>1. y = 0
      <4>1. c[i] = << >>  BY <2>1, <1>6
      <4> QED  BY <4>1, <1>9
    <3>2. Pos(E, k, i) = x + 0  BY <2>1, <1>1, <1>9, Zenon DEF Pos
    <3> QED  BY <3>1, <3>2, Zenon
  <2>2. CASE i # 0  BY <2>2, <1>1, <1>9, Zenon DEF Pos
  <2> QED  BY <2>1, <2>2
<1>13. Pos(E, k, j) = x + lj
  <2>1. j # 0  BY <1>5
  <2> QED  BY <2>1, <1>1, <1>9, Zenon DEF Pos
<1>14. PICK p, q : p = Pos(E, k, i) /\ q = Pos(E, k, j)  OBVIOUS
<1>15. p \in Nat /\ q = p + ld /\ p + ld <= lb  BY <1>10, <1>11, <1>12, <1>13, <1>14
<1>16. ASSUME NEW r \in 1..ld PROVE B[p + r] = d[r]
  <2>1. PICK t : t = y + r  OBVIOUS
  <2>2. t \in 1..lz /\ z[t] = d[r]  BY <2>1, <1>8, <1>9, Zenon
  <2>3. B[x + t] = z[t]  BY <2>2, <1>7, <1>9, Zenon
  <2>4. x + t = p + r  BY <2>1, <1>10, <1>12, <1>14
  <2> QED  BY <2>2, <2>3, <2>4, Zenon
<1> QED
  <2>1. /\ Bits(E) = B /\ Code(E[k], i + 1) = d /\ Pos(E, k, i + 1) = q
        /\ Pos(E, k, i) = p /\ Len(B) = lb /\ Len(d) = ld
    BY <1>1, <1>3, <1>4, <1>9, <1>14, Zenon
  <2> QED  BY <2>1, <1>8, <1>15, <1>16, Zenon DEF CodePlace

\* The ends of elements.
RowEnds(E, N) ==
  /\ Bits(E) \in Seq({0, 1}) /\ Pos(E, 1, 0) = 0 /\ Pos(E, N + 1, 0) = Len(Bits(E))
  /\ \A k \in 1..N : /\ Len(E[k].values) \in Nat
                     /\ Pos(E, k + 1, 0) = Pos(E, k, Len(E[k].values))
                     /\ Pos(E, k, 0) \in Nat

\* The elements follow each other, from the first bit to the last.
LEMMA RowsEnd ==
  ASSUME NEW E, AllCoded(E), NEW N, N = Len(E), N \in Nat
  PROVE  RowEnds(E, N)
<1>1. PICK f, B : f = RowParts(E) /\ B = f[N]  OBVIOUS
<1>2. /\ Bits(E) = B /\ f[0] = << >> /\ B \in Seq({0, 1})
      /\ \A k \in 1..N : /\ RowsOf(E)[k] = ElementBits(E[k])
                         /\ JoinsAt(f, RowsOf(E), N, {0, 1}, k)
  BY <1>1, RowCodes, Zenon
<1>3. Pos(E, 1, 0) = 0
  <2>1. 1 - 1 = 0 /\ Len(f[0]) = 0 /\ 0 + 0 = 0  BY <1>2
  <2>2. Pos(E, 1, 0) = Len(f[1 - 1]) + 0  BY <1>1, Zenon DEF Pos
  <2> QED  BY <2>1, <2>2, Zenon
<1>4. Pos(E, N + 1, 0) = Len(B)
  <2>1. (N + 1) - 1 = N /\ Len(B) + 0 = Len(B)  BY <1>2
  <2>2. Pos(E, N + 1, 0) = Len(f[(N + 1) - 1]) + 0  BY <1>1, Zenon DEF Pos
  <2> QED  BY <2>1, <2>2, <1>1, Zenon
<1>5. ASSUME NEW k \in 1..N
      PROVE  /\ Len(E[k].values) \in Nat
             /\ Pos(E, k + 1, 0) = Pos(E, k, Len(E[k].values)) /\ Pos(E, k, 0) \in Nat
  <2>1. PICK e, n, c, z : e = E[k] /\ n = Len(e.values) /\ c = CodeParts(e) /\ z = c[n]
    OBVIOUS
  <2>2. HasCode(e)  BY <2>1, Zenon DEF AllCoded
  <2>3. n \in Nat /\ ElementBits(e) = z /\ c[0] = << >> /\ z \in Seq({0, 1})
    BY <2>1, <2>2, ElementCodes, Zenon
  <2>4. JoinsAt(f, RowsOf(E), N, {0, 1}, k) /\ RowsOf(E)[k] = z
    BY <2>1, <2>3, <1>2, Zenon
  <2>5. f[k - 1] \in Seq({0, 1}) /\ Len(f[k]) = Len(f[k - 1]) + Len(z)
    BY <2>4, Zenon DEF JoinsAt
  <2>6. PICK x, y, lz : x = Len(f[k - 1]) /\ y = Len(f[k]) /\ lz = Len(z)  OBVIOUS
  <2>7. x \in Nat /\ lz \in Nat /\ y = x + lz /\ (k + 1) - 1 = k /\ y + 0 = y /\ x + 0 = x
    BY <2>3, <2>5, <2>6
  <2>8. Pos(E, k + 1, 0) = y
    <3>1. Pos(E, k + 1, 0) = Len(f[(k + 1) - 1]) + 0  BY <1>1, Zenon DEF Pos
    <3> QED  BY <3>1, <2>6, <2>7, Zenon
  <2>9. Pos(E, k, n) = x + lz
    <3>1. CASE n = 0
      <4>1. lz = 0
        <5>1. z = << >>  BY <3>1, <2>1, <2>3
        <5> QED  BY <5>1, <2>6
      <4>2. Pos(E, k, n) = x + 0  BY <3>1, <1>1, <2>6, Zenon DEF Pos
      <4> QED  BY <4>1, <4>2, Zenon
    <3>2. CASE n # 0  BY <3>2, <1>1, <2>1, <2>6, Zenon DEF Pos
    <3> QED  BY <3>1, <3>2
  <2>10. Pos(E, k, 0) = x + 0  BY <1>1, <2>6, Zenon DEF Pos
  <2> QED  BY <2>1, <2>3, <2>7, <2>8, <2>9, <2>10, Zenon
<1> QED  BY <1>2, <1>3, <1>4, <1>5, Zenon DEF RowEnds

\* A buffer that begins with the payload of the bits B.
Holds(b, B) ==
  /\ b \in Seq(Nat) /\ 8 * Len(b) > Len(B)
  /\ \A k \in 0..Len(B) - 1 : Bit(b, k) = B[k + 1]

\* The code of a value is at its position in it.
LEMMA CodeFound ==
  ASSUME NEW E, NEW B \in Seq({0, 1}), NEW k, NEW i, CodePlace(E, B, k, i),
         NEW b, Holds(b, B)
  PROVE  CodeAt(b, Pos(E, k, i), Code(E[k], i + 1))
<1>1. PICK p, d : p = Pos(E, k, i) /\ d = Code(E[k], i + 1)  OBVIOUS
<1>2. /\ p \in Nat /\ d \in Seq({0, 1}) /\ p + Len(d) <= Len(B)
      /\ \A r \in 1..Len(d) : B[p + r] = d[r]
  BY <1>1, Zenon DEF CodePlace
<1>3. /\ b \in Seq(Nat) /\ 8 * Len(b) > Len(B)
      /\ \A m \in 0..Len(B) - 1 : Bit(b, m) = B[m + 1]
  BY Zenon DEF Holds
<1>4. ASSUME NEW r \in 1..Len(d) PROVE Bit(b, p + r - 1) = d[r]
  <2>1. PICK m : m = p + r - 1  OBVIOUS
  <2>2. m \in 0..Len(B) - 1 /\ m + 1 = p + r  BY <2>1, <1>2
  <2>3. Bit(b, m) = B[p + r]  BY <2>2, <1>3, Zenon
  <2> QED  BY <2>1, <2>3, <1>2, Zenon
<1>5. p + Len(d) <= 8 * Len(b)  BY <1>2, <1>3
<1>6. CodeAt(b, p, d)  BY <1>2, <1>3, <1>4, <1>5, Zenon DEF CodeAt
<1> QED  BY <1>1, <1>6, Zenon

-----------------------------------------------------------------------------
(* Reads of any data.                                                       *)

\* A position in b or one behind it.
Within(c, b) == \E p \in 0..8 * Len(b) : c = Context(b, p)

\* A bit of the data is a bit.
LEMMA DataBit ==
  ASSUME NEW b \in Seq(Nat), NEW k \in 0..8 * Len(b) - 1
  PROVE  Bit(b, k) \in {0, 1}
<1>1. PICK w, m : w = b[k \div 8 + 1] /\ m = 7 - (k % 8)  OBVIOUS
<1>2. k \div 8 + 1 \in 1..Len(b) /\ m \in 0..7  BY <1>1
<1>3. w \in Nat  BY <1>1, <1>2
<1>4. 2^m \in Nat \ {0}
  <2>1. m \in 0..30  BY <1>2
  <2> QED  BY <2>1, PowerDoubles
<1>5. (w \div 2^m) % 2 \in {0, 1}  BY <1>3, <1>4, Halves
<1> QED  BY <1>1, <1>5 DEF Bit

\* get_1bit in the data.
LEMMA FlagStays ==
  ASSUME NEW b \in Seq(Nat), NEW c, Within(c, b), c.bit_pos < Total(c)
  PROVE  Get1Bit(c).val \in {0, 1} /\ Within(Get1Bit(c).ctx, b)
<1>1. PICK p \in 0..8 * Len(b) : c = Context(b, p)  BY DEF Within
<1>2. c.buf = b /\ c.bit_pos = p /\ Total(c) = 8 * Len(b) /\ Moved(c, 1) = Context(b, p + 1)
  BY <1>1, Contexts
<1>3. p \in 0..8 * Len(b) - 1 /\ p + 1 \in 0..8 * Len(b)  BY <1>2
<1>4. Get1Bit(c).val = Bit(b, p) /\ Get1Bit(c).ctx = Context(b, p + 1)
  BY <1>2 DEF Get1Bit
<1>5. Within(Context(b, p + 1), b)  BY <1>3, Zenon DEF Within
<1> QED  BY <1>3, <1>4, <1>5, DataBit

\* get_bits stays in the data, whatever it is asked for.
LEMMA BitsStay ==
  ASSUME NEW b \in Seq(Nat), NEW c, Within(c, b), NEW n \in Nat
  PROVE  GetBits(c, n).val \in Nat /\ Within(GetBits(c, n).ctx, b)
<1>1. PICK p \in 0..8 * Len(b) : c = Context(b, p)  BY DEF Within
<1>2. c.buf = b /\ c.bit_pos = p /\ Total(c) = 8 * Len(b)
      /\ \A k : Moved(c, k) = Context(b, p + k)
  BY <1>1, Contexts
<1>3. PICK m, d : m = Granted(c, n) /\ d = Dropped(c, m)  OBVIOUS
<1>4. m \in Nat /\ p + m <= 8 * Len(b)
  <2>1. MaxLen \in Nat  BY BitReaderAssumption
  <2>2. PICK k : k = IF n > MaxLen THEN MaxLen ELSE n  OBVIOUS
  <2>3. k \in Nat  BY <2>1, <2>2
  <2>4. m = IF p + k > 8 * Len(b) THEN 8 * Len(b) - p ELSE k
    BY <1>2, <1>3, <2>2, Zenon DEF Granted
  <2> QED  BY <2>3, <2>4
<1>5. PICK bits : bits = [i \in 1..m |-> IF i <= d THEN 0 ELSE Bit(b, p + i - 1)]
  OBVIOUS
<1>6. bits \in Seq({0, 1})
  <2>1. ASSUME NEW i \in 1..m PROVE Bit(b, p + i - 1) \in {0, 1}
    <3>1. p + i - 1 \in 0..8 * Len(b) - 1  BY <1>4
    <3> QED  BY <3>1, DataBit
  <2>2. \A i \in 1..m : (IF i <= d THEN 0 ELSE Bit(b, p + i - 1)) \in {0, 1}
    BY <2>1
  <2> QED  BY <1>4, <1>5, <2>2
<1>7. GetBits(c, n) = [val |-> Number(bits), ctx |-> Context(b, p + m)]
  BY <1>2, <1>3, <1>5, Zenon DEF GetBits
<1>8. Within(Context(b, p + m), b)
  <2>1. p + m \in 0..8 * Len(b)  BY <1>4
  <2> QED  BY <2>1, Zenon DEF Within
<1>9. Number(bits) \in Nat  BY <1>6, NumberNat
<1>10. GetBits(c, n).val = Number(bits) /\ GetBits(c, n).ctx = Context(b, p + m)
  BY <1>7
<1> QED  BY <1>8, <1>9, <1>10, Zenon

\* A code has its 1 in the data.
CodeIn(b, p) == \E k \in p..p + 30 : k < 8 * Len(b) /\ Bit(b, k) = 1

\* parse_ue of such a code.
LEMMA UeStays ==
  ASSUME NEW b \in Seq(Nat), NEW c, Within(c, b), CodeIn(b, c.bit_pos)
  PROVE  ParseUe(c).val \in Nat /\ Within(ParseUe(c).ctx, b)
<1>1. PICK p \in 0..8 * Len(b) : c = Context(b, p)  BY DEF Within
<1>2. c.buf = b /\ c.bit_pos = p /\ Total(c) = 8 * Len(b)
      /\ \A k : Moved(c, k) = Context(b, p + k)
  BY <1>1, Contexts
<1>3. PICK k \in p..p + 30 : k < 8 * Len(b) /\ Bit(b, k) = 1
  <2>1. CodeIn(b, p)  BY <1>2
  <2> QED  BY <2>1 DEF CodeIn
<1>4. PICK z : z = LeadingZeros(c)  OBVIOUS
<1>5. z \in 0..30 /\ p + z + 1 <= 8 * Len(b)
  <2> DEFINE Is(j) == /\ Bit(b, p + j) = 1
                      /\ \A i \in 0..j - 1 : Bit(b, p + i) = 0
             N == 8 * Len(b) - p
             T == {j \in 0..30 : p + j < 8 * Len(b) /\ Bit(b, p + j) = 1}
  <2>1. z = CHOOSE j \in 0..N : Is(j)  BY <1>2, <1>4 DEF LeadingZeros
  <2>2. k - p \in T
    <3>1. k - p \in 0..30 /\ p + (k - p) = k  BY <1>3
    <3> QED  BY <3>1, <1>3
  <2>3. PICK l \in T : \A j \in T : l <= j
    <3>1. \A j \in 0..30 : j \in Nat  OBVIOUS
    <3>2. T \in SUBSET Nat  BY <3>1, Zenon
    <3> HIDE DEF T
    <3>3. T # {}  BY <2>2, Zenon
    <3> QED  BY <3>2, <3>3, LeastNat
  <2>4. l \in 0..30 /\ p + l < 8 * Len(b) /\ Bit(b, p + l) = 1  BY <2>3
  <2>5. ASSUME NEW i \in 0..l - 1 PROVE Bit(b, p + i) = 0
    <3>1. i \in 0..30 /\ p + i < 8 * Len(b) /\ ~ (l <= i)  BY <2>4
    <3>2. i \notin T  BY <3>1, <2>3
    <3>3. Bit(b, p + i) # 1  BY <3>1, <3>2
    <3>4. Bit(b, p + i) \in {0, 1}
      <4>1. p + i \in 0..8 * Len(b) - 1  BY <3>1
      <4> QED  BY <4>1, DataBit
    <3> QED  BY <3>3, <3>4
  <2>6. l \in 0..N /\ Is(l)  BY <2>4, <2>5
  <2>7. ASSUME NEW j \in 0..N, Is(j) PROVE j = l
    <3>1. CASE j < l
      <4>1. j \in 0..l - 1  BY <3>1, <2>4
      <4>2. Bit(b, p + j) = 0  BY <4>1, <2>5
      <4> QED  BY <4>2, <2>7
    <3>2. CASE l < j
      <4>1. l \in 0..j - 1  BY <3>2, <2>4
      <4>2. Bit(b, p + l) = 0  BY <4>1, <2>7
      <4> QED  BY <4>2, <2>4
    <3> QED  BY <3>1, <3>2, <2>4
  <2> HIDE DEF Is
  <2>8. z = l  BY <2>1, <2>6, <2>7, Zenon
  <2> QED  BY <2>4, <2>8
<1>6. PICK d, r : d = Context(b, p + (z + 1)) /\ r = GetBits(d, z)  OBVIOUS
<1>7. r.val \in Nat /\ Within(r.ctx, b)
  <2>1. p + (z + 1) \in 0..8 * Len(b) /\ z \in Nat  BY <1>5
  <2>2. Within(d, b)  BY <2>1, <1>6, Zenon DEF Within
  <2> QED  BY <2>1, <2>2, <1>6, BitsStay
<1>8. ParseUe(c) = [val |-> 2^z - 1 + r.val, ctx |-> r.ctx]
  BY <1>2, <1>4, <1>6, Zenon DEF ParseUe
<1>9. ParseUe(c).val = 2^z - 1 + r.val /\ ParseUe(c).ctx = r.ctx  BY <1>8
<1>10. PICK q : q = 2^z  OBVIOUS
<1>11. q \in Nat \ {0}
  <2>1. z \in 0..30  BY <1>5
  <2> QED  BY <2>1, <1>10, PowerDoubles
<1>12. q - 1 + r.val \in Nat  BY <1>7, <1>11
<1> QED  BY <1>7, <1>9, <1>10, <1>12, Zenon

\* parse_se.
LEMMA SeStays ==
  ASSUME NEW b \in Seq(Nat), NEW c, Within(c, b), CodeIn(b, c.bit_pos)
  PROVE  ParseSe(c).val \in Int /\ Within(ParseSe(c).ctx, b)
<1>1. PICK r : r = ParseUe(c)  OBVIOUS
<1>2. r.val \in Nat /\ Within(r.ctx, b)  BY <1>1, UeStays
<1>3. ParseSe(c).val = Signed(r.val) /\ ParseSe(c).ctx = r.ctx  BY <1>1 DEF ParseSe
<1>4. Signed(r.val) \in Int  BY <1>2 DEF Signed
<1> QED  BY <1>2, <1>3, <1>4, Zenon

\* The buffer after the removals is made of bytes.
LEMMA DeEmulatedIn ==
  ASSUME NEW bytes \in Seq(Nat)
  PROVE  DeEmulated(bytes) \in Seq(Nat)
<1>1. PICK e, n : e = Unescaping(bytes) /\ n = LoopEnd(bytes)  OBVIOUS
<1>2. n \in Nat  BY <1>1 DEF LoopEnd
<1>3. UnescapeSteps(e, bytes)  BY <1>1, UnescapingDef
<1>4. /\ e \in [0..n -> Buffers] /\ e[0] = [bytes |-> bytes, size |-> Len(bytes)]
      /\ \A i \in 1..n : e[i] = Unescaped(e[i - 1], i - 1)
  BY <1>1, <1>3 DEF UnescapeSteps
<1> DEFINE A == {i \in Nat : i <= n => e[i].size <= Len(e[i].bytes)}
<1>5. 0 \in A  BY <1>4
<1>6. ASSUME NEW i \in Nat, i \in A PROVE i + 1 \in A
  <2> SUFFICES ASSUME i + 1 <= n PROVE e[i + 1].size <= Len(e[i + 1].bytes)  OBVIOUS
  <2>1. i \in 0..n /\ i + 1 \in 1..n /\ (i + 1) - 1 = i  BY <1>2
  <2>2. PICK s, t, u : s = e[i] /\ t = e[i + 1] /\ u = s.bytes  OBVIOUS
  <2>3. t = Unescaped(s, i)  BY <2>1, <2>2, <1>4
  <2>4. s \in Buffers /\ s.size <= Len(s.bytes)  BY <2>1, <2>2, <1>4, <1>6
  <2>5. s.bytes \in Seq(Nat) /\ s.size \in Int  BY <2>4 DEF Buffers
  <2>6. Len(Shifted(u, i + 2)) = Len(u)
    <3>1. u \in Seq(Nat) /\ Len(u) \in Nat  BY <2>2, <2>5
    <3>2. Shifted(u, i + 2) \in [1..Len(u) -> {Shifted(u, i + 2)[j] : j \in 1..Len(u)}]
      BY DEF Shifted
    <3>3. \A S, f, m : m \in Nat /\ f \in [1..m -> S] => Len(f) = m  OBVIOUS
    <3> QED  BY <3>1, <3>2, <3>3
  <2>7. t = s \/ (t.size = s.size - 1 /\ t.bytes = Shifted(u, i + 2))
    BY <2>2, <2>3 DEF Unescaped
  <2>8. t.size <= Len(t.bytes)  BY <2>2, <2>4, <2>5, <2>6, <2>7
  <2> QED  BY <2>2, <2>8
<1> HIDE DEF A
<1>7. \A i \in Nat : i \in A  BY <1>5, <1>6, CountUp
<1>8. PICK s, m, z : s = e[n].bytes /\ m = e[n].size /\ z = Len(s)  OBVIOUS
<1>9. s \in Seq(Nat) /\ m \in Int /\ m <= z /\ z \in Nat
  <2>1. e[n] \in Buffers  BY <1>2, <1>4
  <2>2. n \in A  BY <1>2, <1>7
  <2>3. e[n].size <= Len(e[n].bytes)  BY <2>2, <1>2 DEF A
  <2> QED  BY <2>1, <2>3, <1>8 DEF Buffers
<1>10. SubSeq(s, 1, m) \in Seq(Nat)
  <2>1. CASE m < 1
    <3>1. SubSeq(s, 1, m) = << >>  BY <2>1, <1>9
    <3>2. << >> \in Seq(Nat)  OBVIOUS
    <3> QED  BY <3>1, <3>2, Zenon
  <2>2. CASE ~ (m < 1)
    <3>1. m \in 1..z /\ Len(s) = z  BY <2>2, <1>8, <1>9
    <3>2. SubSeq(s, 1, m) = [i \in 1..m - 1 + 1 |-> s[1 + i - 1]]  BY <3>1, <1>9
    <3>3. \A i \in 1..m : s[i] \in Nat /\ 1 + i - 1 = i  BY <3>1, <1>9
    <3>4. m - 1 + 1 = m /\ m \in Nat  BY <3>1, <1>9
    <3> QED  BY <3>2, <3>3, <3>4
  <2> QED  BY <2>1, <2>2
<1> QED  BY <1>1, <1>8, <1>10 DEF DeEmulated
=============================================================================
