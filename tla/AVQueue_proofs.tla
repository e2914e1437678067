--------------------------- MODULE AVQueue_proofs ---------------------------
(***************************************************************************)
(* The invariants of AVQueue, proved for every set of threads, packets and *)
(* cells and every limit that meets QueueAssumption.                       *)
(*                                                                         *)
(* The inductive invariant is built in three layers, each proved with the  *)
(* help of the one before: who holds the mutex, the shape of the list, and *)
(* the counters.                                                           *)
(***************************************************************************)
EXTENDS AVQueue, TLAPS, FiniteSetTheorems, SequenceTheorems

\* First layer: the mutex.
MutexInv ==
  /\ pc \in [Threads -> Steps]
  /\ mutex \in Threads \cup {NULL}
  /\ MutualExclusion

\* Initially nobody has the mutex.
LEMMA MutexInit == Init => MutexInv
BY QueueAssumption DEF Init, MutexInv, MutualExclusion, Steps, CriticalSteps

\* Only its owner gives the mutex up, and only a free one is taken.
LEMMA MutexStep == MutexInv /\ [Next]_vars => MutexInv'
<1> SUFFICES ASSUME MutexInv, [Next]_vars PROVE MutexInv'
  OBVIOUS
<1> USE QueueAssumption DEF MutexInv, MutualExclusion, Steps, CriticalSteps, Goto, At
<1>1. ASSUME NEW t \in Producers, Put(t) PROVE MutexInv'
  <2> t \in Threads
    BY DEF Threads
  <2>1. CASE \E p \in Packets : PutCheck(t, p)
    BY <2>1 DEF PutCheck
  <2>2. CASE PutAlloc(t)
    BY <2>2 DEF PutAlloc
  <2>3. CASE PutNoMemory(t)
    BY <2>3 DEF PutNoMemory
  <2>4. CASE PutLock(t)
    BY <2>4 DEF PutLock
  <2>5. CASE PutLink(t)
    BY <2>5 DEF PutLink
  <2>6. CASE PutCount(t)
    BY <2>6 DEF PutCount
  <2> QED
    BY <1>1, <2>1, <2>2, <2>3, <2>4, <2>5, <2>6 DEF Put
<1>2. ASSUME NEW t \in Consumers, Get(t) PROVE MutexInv'
  <2> t \in Threads
    BY DEF Threads
  <2>1. CASE Count(t)
    BY <2>1 DEF Count
  <2>2. CASE GetLock(t)
    BY <2>2 DEF GetLock
  <2>3. CASE GetUnlink(t)
    BY <2>3 DEF GetUnlink
  <2>4. CASE GetEmpty(t)
    BY <2>4 DEF GetEmpty
  <2>5. CASE GetCount(t)
    BY <2>5 DEF GetCount
  <2> QED
    BY <1>2, <2>1, <2>2, <2>3, <2>4, <2>5 DEF Get
<1>3. ASSUME NEW t \in Flushers, Release(t) PROVE MutexInv'
  <2> t \in Threads
    BY DEF Threads
  <2>1. CASE FlushLock(t)
    BY <2>1 DEF FlushLock
  <2>2. CASE FlushFree(t)
    BY <2>2 DEF FlushFree
  <2>3. CASE FlushReset(t)
    BY <2>3 DEF FlushReset
  <2> QED
    BY <1>3, <2>1, <2>2, <2>3 DEF Release
<1>4. ASSUME NEW t \in Threads, Unlock(t) PROVE MutexInv'
  BY <1>4 DEF Unlock
<1>5. CASE UNCHANGED vars
  BY <1>5 DEF vars
<1> QED
  BY <1>1, <1>2, <1>3, <1>4, <1>5 DEF Next

\* A thread is between lock and unlock in avqueue.c exactly while it holds
\* q->mutex, whatever the number of threads.
THEOREM MutualExclusionHolds == Spec => []MutualExclusion
<1>1. Spec => []MutexInv
  BY MutexInit, MutexStep, PTL DEF Spec
<1> QED
  BY <1>1, PTL DEF MutexInv

-----------------------------------------------------------------------------
\* Second layer: the list and the heap.
ShapeInv ==
  /\ first_pkt \in Nodes \cup {NULL} /\ last_pkt \in Nodes \cup {NULL}
  /\ node \in [Nodes -> [pkt : Packets \cup {NULL}, next : Nodes \cup {NULL}]]
  /\ live \subseteq Nodes
  /\ \A n \in live : node[n].pkt \in Packets
  /\ pkt1 \in [Threads -> Nodes \cup {NULL}]
  /\ pkt \in [Threads -> Packets \cup {NULL}]
  /\ chain \in Seq(Nodes)
  /\ ListSound
  /\ NoLeak
  /\ \A t \in Threads : At(t, "put_alloc") => pkt[t] \in Packets
  /\ \A t \in Threads : At(t, "put_count") => pkt1[t] \in Linked
  /\ \A t \in Threads :
       pc[t] \in {"put_lock", "put_link"} => node[pkt1[t]].next = NULL

\* What a get or the flush loop takes off the chain, and what a put adds.
LEMMA TailFacts ==
  ASSUME NEW S, NEW s \in Seq(S), s # << >>
  PROVE  /\ Tail(s) \in Seq(S)
         /\ Len(s) \in Nat /\ Len(s) >= 1
         /\ Len(Tail(s)) = Len(s) - 1
         /\ \A i \in 1..Len(s) - 1 : Tail(s)[i] = s[i + 1]
BY HeadTailProperties, EmptySeq, LenProperties

\* What Append does to a sequence.
LEMMA AppendFacts ==
  ASSUME NEW S, NEW s \in Seq(S), NEW e \in S
  PROVE  /\ Append(s, e) \in Seq(S)
         /\ Len(Append(s, e)) = Len(s) + 1
         /\ \A i \in 1..Len(s) : Append(s, e)[i] = s[i]
         /\ Append(s, e)[Len(s) + 1] = e
BY AppendProperties, LenProperties

\* Initially the list is empty.
LEMMA ShapeInit == Init => ShapeInv
<1> SUFFICES ASSUME Init PROVE ShapeInv
  OBVIOUS
<1> USE QueueAssumption DEF Init, At
<1>1. ListSound
  BY DEF ListSound, Flushing
<1>2. NoLeak
  BY DEF NoLeak, Linked, InHand
<1> QED
  BY <1>1, <1>2 DEF ShapeInv

\* An action that leaves the list, the heap and the hands alone.
LEMMA ShapeKept ==
  ASSUME ShapeInv, UNCHANGED <<list, live, pkt1, chain>>,
         Flushing' <=> Flushing, InHand' = InHand,
         \A t \in Threads : At(t, "flush")' => At(t, "flush"),
         \A t \in Threads : At(t, "put_count")' => At(t, "put_count"),
         \A t \in Threads : At(t, "put_alloc")' => pkt'[t] \in Packets,
         \A t \in Threads :
           pc'[t] \in {"put_lock", "put_link"} => pc[t] \in {"put_lock", "put_link"},
         pkt' \in [Threads -> Packets \cup {NULL}]
  PROVE  ShapeInv'
<1>1. ListSound'
  BY DEF ShapeInv, ListSound, list
<1>2. NoLeak'
  BY DEF ShapeInv, NoLeak, Linked, list
<1> QED
  BY <1>1, <1>2 DEF ShapeInv, list, Linked

\* Each step keeps the list in shape, whoever is in which section.
LEMMA ShapeStep == ShapeInv /\ MutexInv /\ MutexInv' /\ [Next]_vars => ShapeInv'
<1> SUFFICES ASSUME ShapeInv, MutexInv, MutexInv', [Next]_vars PROVE ShapeInv'
  OBVIOUS
<1> USE QueueAssumption DEF Goto, At
<1>pc. pc \in [Threads -> Steps]
  BY DEF MutexInv
<1>mx. \A t \in Threads : pc[t] \in CriticalSteps <=> mutex = t
  BY DEF MutexInv, MutualExclusion
<1>1. ASSUME NEW t \in Producers, Put(t) PROVE ShapeInv'
  <2> t \in Threads
    BY DEF Threads
  <2>1. CASE \E p \in Packets : PutCheck(t, p)
    <3>1. UNCHANGED <<list, live, pkt1, chain>>
      BY <2>1 DEF PutCheck, history
    <3>2. (Flushing' <=> Flushing) /\ InHand' = InHand
      BY <2>1, <1>pc DEF PutCheck, Flushing, InHand
    <3>3. \A u \in Threads : (At(u, "flush")' => At(u, "flush"))
                               /\ (At(u, "put_count")' => At(u, "put_count"))
                               /\ (pc'[u] \in {"put_lock", "put_link"}
                                     => pc[u] \in {"put_lock", "put_link"})
      BY <2>1, <1>pc DEF PutCheck
    <3>4. /\ \A u \in Threads : At(u, "put_alloc")' => pkt'[u] \in Packets
          /\ pkt' \in [Threads -> Packets \cup {NULL}]
      BY <2>1, <1>pc DEF PutCheck, ShapeInv
    <3> QED
      BY <3>1, <3>2, <3>3, <3>4, ShapeKept
  <2>2. CASE PutAlloc(t)
    <3>1. PICK n \in Nodes \ live :
            /\ live' = live \cup {n}
            /\ node' = [node EXCEPT ![n] = NewCell(t)]
            /\ pkt1' = [pkt1 EXCEPT ![t] = n]
      BY <2>2 DEF PutAlloc
    <3>2. /\ pc[t] = "put_alloc" /\ pc' = [pc EXCEPT ![t] = "put_lock"]
          /\ UNCHANGED <<first_pkt, last_pkt, pkt, chain>>
      BY <2>2 DEF PutAlloc, history
    <3>3. (Flushing' <=> Flushing) /\ InHand' = InHand \cup {t} /\ t \notin InHand
      BY <3>2, <1>pc DEF Flushing, InHand
    <3>4. pkt[t] \in Packets /\ n \notin Linked
      BY <3>2 DEF ShapeInv, NoLeak
    <3>5. /\ chain \in Seq(Nodes) /\ Len(chain) \in Nat
          /\ \A i \in 1..Len(chain) : chain[i] \in Linked /\ chain[i] \in Nodes
      BY DEF ShapeInv, Linked
    <3>6. \A m \in Linked : node'[m] = node[m]
      BY <3>1, <3>4 DEF ShapeInv, Linked
    <3>7. ListSound'
      <4>1. \A i \in 1..Len(chain) : node'[chain[i]] = node[chain[i]]
        BY <3>5, <3>6
      <4>2. \A u \in Threads : At(u, "flush")' => At(u, "flush") /\ pkt1'[u] = pkt1[u]
        BY <3>1, <3>2, <1>pc DEF ShapeInv
      <4> QED
        BY <3>1, <3>2, <3>3, <3>5, <4>1, <4>2 DEF ShapeInv, ListSound
    <3>8. NoLeak'
      <4>1. \A u \in InHand : pkt1'[u] = pkt1[u] /\ pkt1[u] \in live
        BY <3>1, <3>3 DEF ShapeInv, NoLeak, InHand
      <4>2. Linked' = Linked /\ pkt1'[t] = n
        BY <3>1, <3>2 DEF Linked, ShapeInv
      <4> QED
        BY <3>1, <3>3, <3>4, <4>1, <4>2 DEF ShapeInv, NoLeak
    <3>9. \A u \in Threads : At(u, "put_count")' => pkt1'[u] \in Linked'
      BY <3>1, <3>2, <1>pc DEF ShapeInv, Linked
    <3>10. \A u \in Threads :
             pc'[u] \in {"put_lock", "put_link"} => node'[pkt1'[u]].next = NULL
      <4> SUFFICES ASSUME NEW u \in Threads, pc'[u] \in {"put_lock", "put_link"}
                   PROVE  node'[pkt1'[u]].next = NULL
        OBVIOUS
      <4>1. CASE u = t
        BY <3>1, <4>1 DEF ShapeInv, NewCell
      <4>2. CASE u # t
        <5>1. pc[u] \in {"put_lock", "put_link"} /\ pkt1'[u] = pkt1[u]
          BY <3>1, <3>2, <4>2, <1>pc DEF ShapeInv
        <5>2. pkt1[u] \in live /\ pkt1[u] \in Nodes /\ node[pkt1[u]].next = NULL
          BY <5>1 DEF ShapeInv, NoLeak, InHand
        <5> QED
          BY <3>1, <5>1, <5>2 DEF ShapeInv
      <4> QED
        BY <4>1, <4>2
    <3> QED
      BY <3>1, <3>2, <3>4, <3>7, <3>8, <3>9, <3>10, <1>pc DEF ShapeInv, NewCell
  <2>3. CASE PutNoMemory(t)
    <3>1. UNCHANGED <<list, live, pkt1, pkt, chain>>
      BY <2>3 DEF PutNoMemory, history
    <3>2. (Flushing' <=> Flushing) /\ InHand' = InHand
      BY <2>3, <1>pc DEF PutNoMemory, Flushing, InHand
    <3> QED
      BY <2>3, <3>1, <3>2, <1>pc, ShapeKept DEF PutNoMemory, ShapeInv
  <2>4. CASE PutLock(t)
    <3>1. UNCHANGED <<list, live, pkt1, pkt, chain>>
      BY <2>4 DEF PutLock, history
    <3>2. (Flushing' <=> Flushing) /\ InHand' = InHand
      BY <2>4, <1>pc DEF PutLock, Flushing, InHand
    <3> QED
      BY <2>4, <3>1, <3>2, <1>pc, ShapeKept DEF PutLock, ShapeInv
  <2>5. CASE PutLink(t)
    <3> DEFINE c == pkt1[t]
               k == Len(chain)
    <3>1. /\ pc[t] = "put_link" /\ pc' = [pc EXCEPT ![t] = "put_count"]
          /\ last_pkt' = c /\ chain' = Append(chain, c)
          /\ UNCHANGED <<live, pkt1, pkt>>
      BY <2>5 DEF PutLink, NewLast
    <3>2. mutex = t /\ ~Flushing /\ ~Flushing'
      BY <3>1, <1>pc, <1>mx DEF Flushing, CriticalSteps
    <3>3. t \in InHand /\ InHand' = InHand \ {t}
      BY <3>1, <1>pc DEF InHand
    <3>4. c \in live /\ c \notin Linked /\ c \in Nodes
      BY <3>3 DEF ShapeInv, NoLeak, InHand
    <3>5. /\ chain \in Seq(Nodes) /\ k \in Nat
          /\ \A i \in 1..k : chain[i] \in Linked /\ chain[i] \in Nodes
      BY DEF ShapeInv, Linked
    <3>6. /\ chain' \in Seq(Nodes) /\ Len(chain') = k + 1
          /\ \A i \in 1..k : chain'[i] = chain[i]
          /\ chain'[k + 1] = c
      BY <3>1, <3>4, <3>5, AppendFacts
    <3>7. Linked' = Linked \cup {c}
      BY <3>5, <3>6 DEF Linked
    <3>8. node[c].next = NULL
      BY <3>1 DEF ShapeInv
    <3>9. /\ first_pkt' = IF k = 0 THEN c ELSE chain[1]
          /\ node' = IF k = 0 THEN node
                     ELSE [node EXCEPT ![chain[k]] = LinkedTo(@, c)]
      <4>1. CASE k = 0
        <5>1. first_pkt = NULL /\ last_pkt = NULL
          BY <3>2, <4>1 DEF ShapeInv, ListSound
        <5> QED
          BY <2>5, <4>1, <5>1 DEF PutLink
      <4>2. CASE k # 0
        <5>1. first_pkt = chain[1] /\ last_pkt = chain[k] /\ last_pkt # NULL
          BY <3>2, <3>5, <4>2 DEF ShapeInv, ListSound
        <5> QED
          BY <2>5, <4>2, <5>1 DEF PutLink
      <4> QED
        BY <4>1, <4>2
    <3>10. /\ node' \in [Nodes -> [pkt : Packets \cup {NULL}, next : Nodes \cup {NULL}]]
           /\ \A m \in Nodes : node'[m].pkt = node[m].pkt
           /\ \A m \in Nodes : (k = 0 \/ m # chain[k]) => node'[m] = node[m]
           /\ k # 0 => node'[chain[k]].next = c
      BY <3>4, <3>5, <3>9 DEF ShapeInv, LinkedTo
    <3>11. ListSound'
      <4>1. \A i \in 1..k + 1 : chain'[i] \in live'
        BY <3>1, <3>4, <3>5, <3>6 DEF ShapeInv, ListSound
      <4>2. \A i, j \in 1..k + 1 : chain'[i] = chain'[j] => i = j
        <5>1. \A i, j \in 1..k : chain'[i] = chain'[j] => i = j
          BY <3>5, <3>6 DEF ShapeInv, ListSound
        <5>2. \A i \in 1..k : chain'[i] # chain'[k + 1]
          BY <3>4, <3>5, <3>6
        <5>3. \A i \in 1..k + 1 : i \in 1..k \/ i = k + 1
          BY <3>5
        <5> QED
          BY <5>1, <5>2, <5>3
      <4>3. first_pkt' = chain'[1] /\ last_pkt' = chain'[k + 1]
        BY <3>1, <3>5, <3>6, <3>9
      <4>4. \A i \in 1..k : node'[chain'[i]].next = chain'[i + 1]
        <5> SUFFICES ASSUME NEW i \in 1..k PROVE node'[chain'[i]].next = chain'[i + 1]
          OBVIOUS
        <5>1. CASE i = k
          BY <3>5, <3>6, <3>10, <5>1
        <5>2. CASE i < k
          <6>1. chain[i] # chain[k] /\ i \in 1..k - 1 /\ i + 1 \in 1..k /\ k \in 1..k
            BY <3>5, <5>2 DEF ShapeInv, ListSound
          <6> QED
            BY <3>5, <3>6, <3>10, <6>1 DEF ShapeInv, ListSound
        <5> QED
          BY <3>5, <5>1, <5>2
      <4>5. node'[chain'[k + 1]].next = NULL
        <5>1. k = 0 \/ chain[k] # c
          BY <3>4, <3>5
        <5> QED
          BY <3>4, <3>6, <3>8, <3>10, <5>1
      <4> QED
        BY <3>1, <3>2, <3>5, <3>6, <4>1, <4>2, <4>3, <4>4, <4>5 DEF ListSound, Flushing
    <3>12. NoLeak'
      BY <3>1, <3>3, <3>4, <3>7 DEF ShapeInv, NoLeak
    <3>13. \A u \in Threads : At(u, "put_count")' => pkt1'[u] \in Linked'
      BY <3>1, <3>7, <1>pc DEF ShapeInv
    <3>14. \A u \in Threads :
             pc'[u] \in {"put_lock", "put_link"} => node'[pkt1'[u]].next = NULL
      <4> SUFFICES ASSUME NEW u \in Threads, pc'[u] \in {"put_lock", "put_link"}
                   PROVE  node'[pkt1'[u]].next = NULL
        OBVIOUS
      <4>1. pc[u] \in {"put_lock", "put_link"} /\ u \in InHand
        BY <3>1, <1>pc DEF InHand
      <4>2. pkt1[u] \in Nodes /\ pkt1[u] \notin Linked
        BY <4>1 DEF ShapeInv, NoLeak
      <4>3. k = 0 \/ pkt1[u] # chain[k]
        BY <3>5, <4>2
      <4> QED
        BY <3>1, <3>10, <4>1, <4>2, <4>3 DEF ShapeInv
    <3> HIDE DEF c, k
    <3>15. /\ first_pkt' \in Nodes \cup {NULL} /\ last_pkt' \in Nodes \cup {NULL}
           /\ \A n \in live' : node'[n].pkt \in Packets
      <4>1. k # 0 => chain[1] \in Nodes
        BY <3>5
      <4> QED
        BY <3>1, <3>4, <3>9, <3>10, <4>1 DEF ShapeInv
    <3>16. \A u \in Threads : At(u, "put_alloc")' => pkt'[u] \in Packets
      BY <3>1, <1>pc DEF ShapeInv
    <3> QED
      BY <3>1, <3>6, <3>10, <3>11, <3>12, <3>13, <3>14, <3>15, <3>16 DEF ShapeInv
  <2>6. CASE PutCount(t)
    <3>1. UNCHANGED <<list, live, pkt1, pkt, chain>>
      BY <2>6 DEF PutCount, history
    <3>2. (Flushing' <=> Flushing) /\ InHand' = InHand
      BY <2>6, <1>pc DEF PutCount, Flushing, InHand
    <3> QED
      BY <2>6, <3>1, <3>2, <1>pc, ShapeKept DEF PutCount, ShapeInv
  <2> QED
    BY <1>1, <2>1, <2>2, <2>3, <2>4, <2>5, <2>6 DEF Put
<1>tail. ASSUME chain # << >>, chain' = Tail(chain)
         PROVE  /\ Len(chain) \in Nat /\ Len(chain) >= 1
                /\ chain' \in Seq(Nodes) /\ Len(chain') = Len(chain) - 1
                /\ \A i \in 1..Len(chain') : chain'[i] = chain[i + 1]
                /\ chain[1] \in Linked /\ chain[1] \in live /\ chain[1] \in Nodes
                /\ Linked' = Linked \ {chain[1]}
                /\ \A i, j \in 1..Len(chain') : chain'[i] = chain'[j] => i = j
                /\ \A i \in 1..Len(chain') - 1 : node[chain'[i]].next = chain'[i + 1]
                /\ Len(chain') > 0 => node[chain'[Len(chain')]].next = NULL
                /\ node[chain[1]].next = IF Len(chain') = 0 THEN NULL ELSE chain'[1]
  <2>0. chain \in Seq(Nodes)
    BY DEF ShapeInv
  <2>1. /\ Len(chain) \in Nat /\ Len(chain) >= 1
        /\ chain' \in Seq(Nodes) /\ Len(chain') = Len(chain) - 1
        /\ \A i \in 1..Len(chain') : chain'[i] = chain[i + 1]
    BY <2>0, <1>tail, TailFacts
  <2>2. chain[1] \in Linked /\ chain[1] \in live /\ chain[1] \in Nodes
    BY <2>1 DEF ShapeInv, ListSound, Linked
  <2>3. \A i, j \in 1..Len(chain) : chain[i] = chain[j] => i = j
    BY DEF ShapeInv, ListSound
  <2>4. Linked' = Linked \ {chain[1]}
    <3>1. ASSUME NEW m \in Linked' PROVE m \in Linked \ {chain[1]}
      <4>1. PICK i \in 1..Len(chain') : m = chain'[i]
        BY <3>1 DEF Linked
      <4>2. m = chain[i + 1] /\ i + 1 \in 1..Len(chain) /\ i + 1 # 1 /\ 1 \in 1..Len(chain)
        BY <4>1, <2>1
      <4> QED
        BY <4>2, <2>3 DEF Linked
    <3>2. ASSUME NEW m \in Linked \ {chain[1]} PROVE m \in Linked'
      <4>1. PICK i \in 1..Len(chain) : m = chain[i]
        BY <3>2 DEF Linked
      <4>2. i - 1 \in 1..Len(chain') /\ (i - 1) + 1 = i
        BY <4>1, <3>2, <2>1
      <4>3. chain'[i - 1] = chain[i]
        BY <4>2, <2>1
      <4> QED
        BY <4>1, <4>2, <4>3 DEF Linked
    <3> QED
      BY <3>1, <3>2
  <2>5. \A i, j \in 1..Len(chain') : chain'[i] = chain'[j] => i = j
    BY <2>1, <2>3
  <2>6. \A i \in 1..Len(chain') - 1 : node[chain'[i]].next = chain'[i + 1]
    <3>1. \A i \in 1..Len(chain) - 1 : node[chain[i]].next = chain[i + 1]
      BY DEF ShapeInv, ListSound
    <3>2. ASSUME NEW i \in 1..Len(chain') - 1
          PROVE  /\ i \in 1..Len(chain') /\ i + 1 \in 1..Len(chain')
                 /\ i + 1 \in 1..Len(chain) - 1
      BY <2>1
    <3>3. ASSUME NEW i \in 1..Len(chain') - 1
          PROVE  chain'[i] = chain[i + 1] /\ chain'[i + 1] = chain[(i + 1) + 1]
      BY <2>1, <3>2
    <3> QED
      BY <3>1, <3>2, <3>3
  <2>7. Len(chain') > 0 => node[chain'[Len(chain')]].next = NULL
    <3>1. node[chain[Len(chain)]].next = NULL
      BY <2>1 DEF ShapeInv, ListSound
    <3>2. Len(chain') > 0 => chain'[Len(chain')] = chain[Len(chain)]
      BY <2>1
    <3> QED
      BY <3>1, <3>2
  <2>8. node[chain[1]].next = IF Len(chain') = 0 THEN NULL ELSE chain'[1]
    BY SMTT(30), <2>1 DEF ShapeInv, ListSound
  <2> QED
    BY <2>1, <2>2, <2>4, <2>5, <2>6, <2>7, <2>8
<1>2. ASSUME NEW t \in Consumers, Get(t) PROVE ShapeInv'
  <2> t \in Threads
    BY DEF Threads
  <2>1. CASE Count(t)
    BY <2>1, ShapeKept DEF Count, history, Flushing, InHand, ShapeInv
  <2>2. CASE GetLock(t)
    <3>1. UNCHANGED <<list, live, pkt1, pkt, chain>>
      BY <2>2 DEF GetLock, history
    <3>2. (Flushing' <=> Flushing) /\ InHand' = InHand
      BY <2>2, <1>pc DEF GetLock, Flushing, InHand
    <3> QED
      BY <2>2, <3>1, <3>2, <1>pc, ShapeKept DEF GetLock, ShapeInv
  <2>3. CASE GetUnlink(t)
    <3>1. /\ pc[t] = "get_unlink" /\ pc' = [pc EXCEPT ![t] = "get_count"]
          /\ first_pkt # NULL
          /\ pkt1' = [pkt1 EXCEPT ![t] = first_pkt]
          /\ first_pkt' = node[first_pkt].next /\ last_pkt' = LastAfter(first_pkt)
          /\ pkt' = [pkt EXCEPT ![t] = node[first_pkt].pkt]
          /\ chain' = Tail(chain)
          /\ UNCHANGED <<node, live>>
      BY <2>3 DEF GetUnlink
    <3>2. mutex = t /\ ~Flushing /\ ~Flushing'
      BY <3>1, <1>pc, <1>mx DEF Flushing, CriticalSteps
    <3>3. t \notin InHand /\ InHand' = InHand \cup {t}
      BY <3>1, <1>pc DEF InHand
    <3>4. chain # << >>
      BY <3>1, <3>2, EmptySeq DEF ShapeInv, ListSound
    <3>5. first_pkt = chain[1] /\ last_pkt = chain[Len(chain)]
      BY <3>2, <3>4, <3>1, <1>tail DEF ShapeInv, ListSound
    <3>6. ListSound'
      <4>1. first_pkt' = IF Len(chain') = 0 THEN NULL ELSE chain'[1]
        BY <3>1, <3>4, <3>5, <1>tail
      <4>2. last_pkt' = IF Len(chain') = 0 THEN NULL ELSE chain'[Len(chain')]
        <5>1. CASE Len(chain') = 0
          BY <3>1, <3>4, <3>5, <5>1, <1>tail DEF LastAfter
        <5>2. CASE Len(chain') # 0
          <6>1. chain'[1] \in Nodes /\ chain'[Len(chain')] = chain[Len(chain)]
            BY <3>1, <3>4, <5>2, <1>tail
          <6> QED
            BY <3>1, <3>4, <3>5, <5>2, <6>1, <1>tail DEF LastAfter
        <5> QED
          BY <5>1, <5>2
      <4>3. \A i \in 1..Len(chain') : chain'[i] \in live'
        <5>1. \A i \in 1..Len(chain') : i + 1 \in 1..Len(chain)
          BY <3>1, <3>4, <1>tail
        <5> QED
          BY <3>1, <3>4, <5>1, <1>tail DEF ShapeInv, ListSound
      <4> QED
        BY <3>1, <3>2, <3>4, <4>1, <4>2, <4>3, <1>tail DEF ListSound, Flushing
    <3>7. NoLeak'
      <4>1. pkt1'[t] = chain[1] /\ \A u \in InHand : pkt1'[u] = pkt1[u]
        BY <3>1, <3>3, <3>5 DEF ShapeInv, InHand
      <4>2. Linked = Linked' \cup {chain[1]} /\ chain[1] \notin Linked'
        BY <3>1, <3>4, <1>tail
      <4> QED
        BY <3>1, <3>3, <4>1, <4>2 DEF ShapeInv, NoLeak
    <3>8. \A u \in Threads : At(u, "put_count")' => pkt1'[u] \in Linked'
      BY <3>1, <3>2, <1>pc, <1>mx DEF CriticalSteps
    <3>9. \A u \in Threads :
            pc'[u] \in {"put_lock", "put_link"} => node'[pkt1'[u]].next = NULL
      BY <3>1, <1>pc DEF ShapeInv
    <3>10. \A u \in Threads : At(u, "put_alloc")' => pkt'[u] \in Packets
      BY <3>1, <1>pc DEF ShapeInv
    <3>11. /\ first_pkt' \in Nodes \cup {NULL} /\ last_pkt' \in Nodes \cup {NULL}
           /\ pkt' \in [Threads -> Packets \cup {NULL}]
           /\ pkt1' \in [Threads -> Nodes \cup {NULL}]
      BY <3>1, <3>4, <3>5, <1>tail DEF ShapeInv, LastAfter
    <3> QED
      BY <3>1, <3>4, <3>6, <3>7, <3>8, <3>9, <3>10, <3>11, <1>tail DEF ShapeInv
  <2>4. CASE GetEmpty(t)
    <3>1. UNCHANGED <<list, live, pkt1, chain>>
      BY <2>4 DEF GetEmpty, history
    <3>2. (Flushing' <=> Flushing) /\ InHand' = InHand
      BY <2>4, <1>pc DEF GetEmpty, Flushing, InHand
    <3>3. /\ \A u \in Threads : At(u, "put_alloc")' => pkt'[u] \in Packets
          /\ pkt' \in [Threads -> Packets \cup {NULL}]
      BY <2>4, <1>pc DEF GetEmpty, ShapeInv
    <3> QED
      BY <2>4, <3>1, <3>2, <3>3, <1>pc, ShapeKept DEF GetEmpty
  <2>5. CASE GetCount(t)
    <3>1. /\ pc[t] = "get_count" /\ pc' = [pc EXCEPT ![t] = "unlock"]
          /\ live' = live \ {pkt1[t]}
          /\ UNCHANGED <<list, pkt1, pkt, chain>>
      BY <2>5 DEF GetCount, Freed, history
    <3>2. mutex = t /\ ~Flushing /\ ~Flushing'
      BY <3>1, <1>pc, <1>mx DEF Flushing, CriticalSteps
    <3>3. t \in InHand /\ InHand' = InHand \ {t}
      BY <3>1, <1>pc DEF InHand
    <3>4. Linked' = Linked /\ pkt1[t] \notin Linked
      BY <3>1, <3>3 DEF ShapeInv, NoLeak, Linked
    <3>5. NoLeak'
      BY <3>1, <3>3, <3>4 DEF ShapeInv, NoLeak
    <3>6. ListSound'
      <4>1. \A i \in 1..Len(chain) : chain[i] \in live \ {pkt1[t]}
        BY <3>4 DEF ShapeInv, ListSound, Linked
      <4> QED
        BY <3>1, <3>2, <4>1 DEF ShapeInv, ListSound, list, Flushing
    <3> QED
      BY <3>1, <3>4, <3>5, <3>6, <1>pc DEF ShapeInv, list
  <2> QED
    BY <1>2, <2>1, <2>2, <2>3, <2>4, <2>5 DEF Get
<1>3. ASSUME NEW t \in Flushers, Release(t) PROVE ShapeInv'
  <2> t \in Threads
    BY DEF Threads
  <2>1. CASE FlushLock(t)
    <3>1. /\ pc[t] = "idle" /\ pc' = [pc EXCEPT ![t] = "flush"] /\ mutex = NULL
          /\ pkt1' = [pkt1 EXCEPT ![t] = first_pkt]
          /\ UNCHANGED <<list, live, pkt, chain>>
      BY <2>1 DEF FlushLock, history
    <3>2. /\ ~Flushing /\ \A u \in Threads : At(u, "flush")' => u = t
      BY <3>1, <1>pc, <1>mx DEF Flushing, CriticalSteps, Threads
    <3>3. t \notin InHand /\ InHand' = InHand
      BY <3>1, <1>pc DEF InHand
    <3>4. \A u \in InHand : pkt1'[u] = pkt1[u]
      BY <3>1, <3>3 DEF ShapeInv, InHand
    <3>5. NoLeak'
      BY <3>1, <3>3, <3>4 DEF ShapeInv, NoLeak, Linked
    <3>6. ListSound'
      <4>1. Flushing' /\ pkt1'[t] = first_pkt
        BY <3>1, <1>pc DEF Flushing, ShapeInv
      <4> QED
        BY <3>1, <3>2, <4>1 DEF ShapeInv, ListSound, list
    <3>7. \A u \in Threads : u # t => pkt1'[u] = pkt1[u]
      BY <3>1 DEF ShapeInv
    <3> QED
      BY <3>1, <3>5, <3>6, <3>7, <1>pc DEF ShapeInv, list, Linked
  <2>2. CASE FlushFree(t)
    <3>1. /\ pc[t] = "flush" /\ pkt1[t] # NULL
          /\ pkt1' = [pkt1 EXCEPT ![t] = node[pkt1[t]].next]
          /\ live' = live \ {pkt1[t]}
          /\ chain' = Tail(chain)
          /\ UNCHANGED <<list, pc, pkt>>
      BY <2>2 DEF FlushFree, Freed
    <3>2. Flushing /\ Flushing' /\ \A u \in Threads : pc[u] = "flush" => u = t
      BY <3>1, <1>pc, <1>mx DEF Flushing, CriticalSteps
    <3>3. chain # << >> /\ pkt1[t] = chain[1]
      BY <3>1, EmptySeq DEF ShapeInv, ListSound
    <3>4. t \notin InHand /\ InHand' = InHand
      BY <3>1 DEF InHand
    <3>5. \A u \in InHand : pkt1'[u] = pkt1[u]
      BY <3>1, <3>4 DEF ShapeInv, InHand
    <3>6. Linked' = Linked \ {chain[1]} /\ chain[1] \in Linked
      BY <3>1, <3>3, <1>tail
    <3>7. NoLeak'
      BY <3>1, <3>3, <3>4, <3>5, <3>6 DEF ShapeInv, NoLeak
    <3>8. ListSound'
      <4>1. pkt1'[t] = IF Len(chain') = 0 THEN NULL ELSE chain'[1]
        BY <3>1, <3>3, <1>tail DEF ShapeInv
      <4>2. \A i \in 1..Len(chain') : chain'[i] \in live'
        <5>1. \A i \in 1..Len(chain') : chain'[i] \in Linked'
          BY DEF Linked
        <5> QED
          BY <5>1, <3>1, <3>3, <3>6 DEF ShapeInv, NoLeak
      <4> QED
        BY <3>1, <3>2, <3>3, <4>1, <4>2, <1>tail DEF ListSound, list
    <3>9. \A u \in Threads : u # t => pkt1'[u] = pkt1[u]
      BY <3>1 DEF ShapeInv
    <3>10. \A u \in Threads : pc[u] # "put_count"
      BY <3>1, <1>pc, <1>mx DEF CriticalSteps
    <3>11. pkt1' \in [Threads -> Nodes \cup {NULL}]
      BY <3>1, <3>3, <1>tail DEF ShapeInv
    <3> QED
      BY <3>1, <3>3, <3>7, <3>8, <3>9, <3>10, <3>11, <1>tail DEF ShapeInv, list
  <2>3. CASE FlushReset(t)
    <3>1. /\ pc[t] = "flush" /\ pkt1[t] = NULL /\ pc' = [pc EXCEPT ![t] = "unlock"]
          /\ first_pkt' = NULL /\ last_pkt' = NULL
          /\ UNCHANGED <<node, live, pkt1, pkt, chain>>
      BY <2>3 DEF FlushReset, history
    <3>2. \A u \in Threads : ~At(u, "flush")'
      BY <3>1, <1>pc, <1>mx DEF CriticalSteps
    <3>3. Len(chain) = 0
      <4>1. Len(chain) \in Nat /\ \A i \in 1..Len(chain) : chain[i] \in Nodes
        BY DEF ShapeInv
      <4> QED
        BY <3>1, <4>1 DEF ShapeInv, ListSound
    <3>4. InHand' = InHand /\ Linked' = Linked
      BY <3>1, <1>pc DEF InHand, Linked
    <3>5. NoLeak'
      BY <3>1, <3>4 DEF ShapeInv, NoLeak
    <3>6. ListSound'
      BY <3>1, <3>2, <3>3 DEF ShapeInv, ListSound, Flushing
    <3> QED
      BY <3>1, <3>4, <3>5, <3>6, <1>pc DEF ShapeInv
  <2> QED
    BY <1>3, <2>1, <2>2, <2>3 DEF Release
<1>4. ASSUME NEW t \in Threads, Unlock(t) PROVE ShapeInv'
  <2>1. /\ pc[t] = "unlock" /\ pc' = [pc EXCEPT ![t] = "idle"]
        /\ pkt1' = [pkt1 EXCEPT ![t] = NULL]
        /\ UNCHANGED <<list, live, pkt, chain>>
    BY <1>4 DEF Unlock, history
  <2>2. t \notin InHand /\ InHand' = InHand
    BY <2>1, <1>pc DEF InHand
  <2>3. mutex = t /\ ~Flushing /\ ~Flushing'
    BY <2>1, <1>pc, <1>mx DEF Flushing, CriticalSteps
  <2>4. \A u \in InHand : pkt1'[u] = pkt1[u]
    BY <2>1, <2>2 DEF ShapeInv, InHand
  <2>5. NoLeak'
    BY <2>1, <2>2, <2>4 DEF ShapeInv, NoLeak, Linked
  <2>6. ListSound'
    BY <2>1, <2>3 DEF ShapeInv, ListSound, list, Flushing
  <2> QED
    BY <2>1, <2>5, <2>6, <1>pc DEF ShapeInv, list, Linked
<1>5. CASE UNCHANGED vars
  BY <1>5, ShapeKept DEF vars, history, Flushing, InHand, ShapeInv
<1> QED
  BY <1>1, <1>2, <1>3, <1>4, <1>5 DEF Next

\* The list is in shape, always.
LEMMA ShapeInvariant == Spec => [](MutexInv /\ ShapeInv)
BY MutexInit, MutexStep, ShapeInit, ShapeStep, PTL DEF Spec

\* first_pkt, last_pkt and the next pointers of avqueue.c always form the list
\* of the cells in the order they were put, none of them freed.
THEOREM ListSoundHolds == Spec => []ListSound
<1>1. ShapeInv => ListSound
  BY DEF ShapeInv
<1> QED
  BY ShapeInvariant, <1>1, PTL

\* Every cell that av_malloc handed to a put is in the list or in the hands of
\* one call: no cell of avqueue.c leaks and none is freed twice.
THEOREM NoLeakHolds == Spec => []NoLeak
<1>1. ShapeInv => NoLeak
  BY DEF ShapeInv
<1> QED
  BY ShapeInvariant, <1>1, PTL

-----------------------------------------------------------------------------
\* Third layer: the counters.  Between the pointer updates and the counter
\* updates of a call they are one packet behind or ahead of the list.
CostOf(t) == Cost[node[pkt1[t]].pkt]

CountersTrack ==
  /\ (\A t \in Threads : pc[t] \notin {"put_count", "get_count", "flush"}) =>
       nb_packets = Len(chain) /\ size = Bytes
  /\ \A t \in Threads : At(t, "put_count") =>
       nb_packets + 1 = Len(chain) /\ size + CostOf(t) = Bytes
  /\ \A t \in Threads : At(t, "get_count") =>
       nb_packets = Len(chain) + 1 /\ size = Bytes + CostOf(t)

\* Every packet costs something: the number of packets is at most their size.
UptoGrows ==
  /\ \A i \in 1..Len(upto) : upto[i] >= i
  /\ \A i, j \in 1..Len(upto) : i <= j => upto[j] - upto[i] >= j - i

CountInv ==
  /\ upto \in Seq(Nat)
  /\ nb_packets \in 0..UIntRange - 1 /\ size \in 0..UIntRange - 1
  /\ seen \in [Consumers -> 0..UIntRange - 1]
  /\ Totals
  /\ UptoGrows
  /\ CountersTrack
  /\ SizeBound

\* At most one packet of a producer is on its way into the list.
LEMMA InFlightFacts ==
  /\ IsFiniteSet(InFlight) /\ Cardinality(InFlight) \in Nat
  /\ Cardinality(Producers) \in Nat
  /\ Cardinality(InFlight) <= Cardinality(Producers)
  /\ Cardinality(Producers) * MaxCost \in Nat
  /\ Cardinality(InFlight) * MaxCost <= Cardinality(Producers) * MaxCost
<1>1. IsFiniteSet(Producers) /\ InFlight \subseteq Producers /\ MaxCost \in Nat
  BY QueueAssumption DEF InFlight
<1>2. /\ IsFiniteSet(InFlight) /\ Cardinality(InFlight) <= Cardinality(Producers)
      /\ Cardinality(InFlight) \in Nat /\ Cardinality(Producers) \in Nat
  BY <1>1, FS_Subset, FS_CardinalityType
<1>3. \A a, b, m \in Nat : a <= b => a * m <= b * m /\ b * m \in Nat
  OBVIOUS
<1> QED
  BY <1>1, <1>2, <1>3

\* Initially all counters are 0.
LEMMA CountInit == Init => CountInv
<1> SUFFICES ASSUME Init PROVE CountInv
  OBVIOUS
<1> USE QueueAssumption DEF Init
<1>1. upto \in Seq(Nat) /\ Len(upto) = 0 /\ Len(chain) = 0 /\ Bytes = 0
  BY DEF Bytes
<1>2. Totals /\ UptoGrows
  BY <1>1 DEF Totals, UptoGrows
<1>3. CountersTrack
  BY <1>1 DEF CountersTrack, At
<1>4. SizeBound /\ 0 < UIntRange
  BY InFlightFacts DEF SizeBound
<1> QED
  BY <1>1, <1>2, <1>3, <1>4 DEF CountInv

\* The sequence of running totals after its first element is dropped.
LEMMA DroppedFacts ==
  ASSUME ShapeInv, CountInv, chain # << >>,
         chain' = Tail(chain), upto' = Dropped(upto), UNCHANGED node
  PROVE  /\ upto' \in Seq(Nat) /\ Totals' /\ UptoGrows'
         /\ Bytes = Bytes' + Cost[node[chain[1]].pkt]
<1>1. chain \in Seq(Nodes) /\ upto \in Seq(Nat) /\ Len(upto) = Len(chain)
  BY DEF ShapeInv, CountInv, Totals
<1>2. /\ Len(chain) \in Nat /\ Len(chain) >= 1 /\ Len(chain') = Len(chain) - 1
      /\ \A i \in 1..Len(chain') : chain'[i] = chain[i + 1]
  BY <1>1, TailFacts
<1> DEFINE k == Len(chain)
<1>3. \A i \in 1..k : upto[i] \in Nat /\ upto[i] >= i /\ upto[i] - upto[1] >= i - 1
  BY <1>1, <1>2 DEF CountInv, UptoGrows
<1>4. upto' = [i \in 1..k - 1 |-> upto[i + 1] - upto[1]]
  BY <1>1 DEF Dropped
<1>5. upto' \in Seq(Nat) /\ Len(upto') = k - 1
  <2>1. \A i \in 1..k - 1 : upto[i + 1] - upto[1] \in Nat
    BY <1>2, <1>3
  <2>2. k - 1 \in Nat
    BY <1>2
  <2> HIDE DEF k
  <2> QED
    BY <1>4, <2>1, <2>2
<1>6. \A i \in 1..k - 1 : upto'[i] = upto[i + 1] - upto[1]
  BY <1>4
<1>7. Totals'
  <2>1. \A i \in 1..k : upto[i] = (IF i = 1 THEN 0 ELSE upto[i - 1]) + Cost[node[chain[i]].pkt]
    BY <1>1 DEF CountInv, Totals
  <2>2. ASSUME NEW i \in 1..k - 1
        PROVE  upto'[i] = (IF i = 1 THEN 0 ELSE upto'[i - 1]) + Cost[node[chain'[i]].pkt]
    <3>1. i + 1 \in 1..k /\ i + 1 # 1 /\ (i + 1) - 1 = i /\ i \in 1..k /\ 1 \in 1..k
      BY <1>2
    <3>2. upto[i + 1] = upto[i] + Cost[node[chain[i + 1]].pkt]
      BY <2>1, <3>1
    <3>3. chain'[i] = chain[i + 1]
      BY <1>2
    <3>4. upto[i] \in Nat /\ upto[i + 1] \in Nat /\ upto[1] \in Nat
      BY <1>3, <3>1
    <3>5. Cost[node[chain[i + 1]].pkt] \in Nat
      <4>1. node[chain[i + 1]].pkt \in Packets
        BY <3>1 DEF ShapeInv, ListSound
      <4> QED
        BY <4>1, QueueAssumption
    <3>6. CASE i = 1
      BY <1>6, <3>2, <3>3, <3>4, <3>5, <3>6
    <3>7. CASE i # 1
      <4>1. i - 1 \in 1..k - 1 /\ (i - 1) + 1 = i
        BY <1>2, <3>7
      <4>2. upto'[i - 1] = upto[i] - upto[1]
        BY <1>6, <4>1
      <4> QED
        BY <1>6, <3>2, <3>3, <3>4, <3>5, <3>7, <4>2
    <3> QED
      BY <3>6, <3>7
  <2> QED
    BY <1>2, <1>5, <2>2 DEF Totals
<1>8. UptoGrows'
  <2>1. \A i \in 1..k - 1 : upto'[i] >= i
    <3>1. \A i \in 1..k - 1 : i + 1 \in 1..k /\ 1 \in 1..k
      BY <1>2
    <3> QED
      BY <1>2, <1>3, <1>6, <3>1
  <2>2. ASSUME NEW i \in 1..k - 1, NEW j \in 1..k - 1, i <= j
        PROVE  upto'[j] - upto'[i] >= j - i
    <3>1. i + 1 \in 1..k /\ j + 1 \in 1..k /\ 1 \in 1..k /\ i + 1 <= j + 1
      BY <1>2, <2>2
    <3>2. upto[j + 1] - upto[i + 1] >= (j + 1) - (i + 1)
      BY <1>1, <3>1 DEF CountInv, UptoGrows
    <3> QED
      BY <1>3, <1>6, <3>1, <3>2
  <2> QED
    BY <1>5, <2>1, <2>2 DEF UptoGrows
<1>9. Bytes = Bytes' + Cost[node[chain[1]].pkt]
  <2>1. upto[1] = Cost[node[chain[1]].pkt] /\ upto[1] \in Nat
    <3>1. upto[1] = 0 + Cost[node[chain[1]].pkt] /\ 1 \in 1..k
      BY <1>1, <1>2 DEF CountInv, Totals
    <3>2. node[chain[1]].pkt \in Packets
      BY <3>1 DEF ShapeInv, ListSound
    <3> QED
      BY <1>3, <3>1, <3>2, QueueAssumption
  <2>2. Bytes = upto[k] /\ upto[k] \in Nat
    BY <1>1, <1>2, <1>3 DEF Bytes
  <2>3. Bytes' = IF k = 1 THEN 0 ELSE upto[k] - upto[1]
    <3>1. CASE k = 1
      <4>1. upto' = << >>
        BY <1>5, <3>1, EmptySeq
      <4> QED
        BY <3>1, <4>1 DEF Bytes
    <3>2. CASE k # 1
      <4>1. upto' # << >> /\ k - 1 \in 1..k - 1 /\ (k - 1) + 1 = k
        BY <1>2, <1>5, <3>2
      <4> QED
        BY <1>5, <1>6, <3>2, <4>1 DEF Bytes
    <3> QED
      BY <3>1, <3>2
  <2> QED
    BY <1>2, <2>1, <2>2, <2>3
<1> QED
  BY <1>5, <1>7, <1>8, <1>9

\* An action that leaves the list and the counters alone and does not take a
\* call into or out of the steps at which the counters lag.
Lagging == {t \in Threads : pc[t] \in {"put_count", "get_count", "flush"}}

\* Steps that leave list and counters alone.
LEMMA CountKept ==
  ASSUME ShapeInv, MutexInv, CountInv, UNCHANGED <<chain, upto, counters>>,
         \A n \in live : node'[n].pkt = node[n].pkt,
         \A t \in Lagging : pc'[t] = pc[t] /\ pkt1'[t] = pkt1[t],
         Lagging \subseteq Lagging',
         \A t \in Lagging' \ Lagging : pc'[t] = "flush",
         InFlight' \subseteq InFlight \/ size <= Limit,
         seen' \in [Consumers -> 0..UIntRange - 1]
  PROVE  CountInv'
<1>1. \A i \in 1..Len(chain) : chain[i] \in live
  BY DEF ShapeInv, ListSound
<1>2. Totals'
  BY <1>1 DEF CountInv, Totals
<1>3. UptoGrows'
  BY DEF CountInv, UptoGrows
<1>4. CountersTrack'
  <2>1. \A t \in Threads : pc[t] \in {"put_count", "get_count", "flush"}
                             => pc'[t] \in {"put_count", "get_count", "flush"}
    BY DEF Lagging
  <2>2. ASSUME NEW t \in Threads, pc[t] \in {"put_count", "get_count"}
        PROVE  CostOf(t)' = CostOf(t) /\ pc'[t] = pc[t]
    <3>1. pkt1[t] \in live
      BY <1>1, <2>2 DEF ShapeInv, NoLeak, InHand, Linked, At
    <3>2. pkt1'[t] = pkt1[t] /\ pc'[t] = pc[t]
      BY <2>2 DEF Lagging
    <3> QED
      BY <3>1, <3>2 DEF CostOf
  <2>3. Bytes' = Bytes
    BY DEF Bytes
  <2>4. ASSUME NEW t \in Threads, pc'[t] \in {"put_count", "get_count"}
        PROVE  pc[t] = pc'[t]
    <3>1. t \in Lagging
      BY <2>4 DEF Lagging
    <3> QED
      BY <3>1
  <2> QED
    BY <2>1, <2>2, <2>3, <2>4 DEF CountInv, CountersTrack, counters, At
<1>5. SizeBound'
  <2>1. IsFiniteSet(Producers) /\ InFlight' \subseteq Producers /\ IsFiniteSet(InFlight)
    BY QueueAssumption, InFlightFacts DEF InFlight
  <2>2. /\ Cardinality(InFlight') \in Nat
        /\ Cardinality(InFlight') <= Cardinality(Producers)
        /\ InFlight' \subseteq InFlight =>
             Cardinality(InFlight') <= Cardinality(InFlight)
    BY <2>1, FS_Subset, FS_CardinalityType
  <2>3. \A a, b, m \in Nat : a <= b => a * m <= b * m /\ a * m \in Nat /\ b * m \in Nat
    OBVIOUS
  <2>4. SizeBound /\ size \in Nat /\ size' = size /\ Limit \in Nat /\ MaxCost \in Nat
    BY QueueAssumption DEF CountInv, counters
  <2>5. CASE InFlight' \subseteq InFlight
    <3>1. /\ Cardinality(InFlight') * MaxCost <= Cardinality(InFlight) * MaxCost
          /\ Cardinality(InFlight') * MaxCost \in Nat
          /\ Cardinality(InFlight) * MaxCost \in Nat
      BY <2>2, <2>3, <2>4, <2>5, InFlightFacts
    <3> QED
      BY <2>4, <3>1, InFlightFacts DEF SizeBound
  <2>6. CASE size <= Limit
    <3>1. /\ Cardinality(InFlight') * MaxCost <= Cardinality(Producers) * MaxCost
          /\ Cardinality(InFlight') * MaxCost \in Nat
      BY <2>2, <2>3, <2>4, InFlightFacts
    <3> QED
      BY <2>4, <2>6, <3>1, InFlightFacts DEF SizeBound
  <2> QED
    BY <2>5, <2>6
<1> QED
  BY <1>2, <1>3, <1>4, <1>5 DEF CountInv, counters

\* Each step keeps the counters in step with the list.
LEMMA CountStep ==
  MutexInv /\ MutexInv' /\ ShapeInv /\ CountInv /\ [Next]_vars => CountInv'
<1> SUFFICES ASSUME MutexInv, MutexInv', ShapeInv, CountInv, [Next]_vars
             PROVE  CountInv'
  OBVIOUS
<1> USE QueueAssumption DEF Goto, At
<1>pc. pc \in [Threads -> Steps]
  BY DEF MutexInv
<1>mx. \A t \in Threads : pc[t] \in CriticalSteps <=> mutex = t
  BY DEF MutexInv, MutualExclusion
<1>alone. ASSUME NEW t \in Threads, pc[t] \in CriticalSteps
          PROVE  \A u \in Threads : u # t => pc[u] \notin CriticalSteps
  BY <1>alone, <1>mx
<1>seen. /\ seen \in [Consumers -> 0..UIntRange - 1]
         /\ nb_packets \in 0..UIntRange - 1
         /\ 0 \in 0..UIntRange - 1
  BY DEF CountInv
<1>node. UNCHANGED node => \A n \in live : node'[n].pkt = node[n].pkt
  OBVIOUS
<1>1. ASSUME NEW t \in Producers, Put(t) PROVE CountInv'
  <2> t \in Threads
    BY DEF Threads
  <2>1. CASE \E p \in Packets : PutCheck(t, p)
    <3>1. /\ UNCHANGED <<chain, upto, counters, seen, node, pkt1>>
          /\ pc[t] = "idle" /\ pc' = [pc EXCEPT ![t] = "put_alloc"] /\ ~Overrun
      BY <2>1 DEF PutCheck, history, list
    <3>2. Lagging' = Lagging /\ \A u \in Lagging : pc'[u] = pc[u]
      BY <3>1, <1>pc DEF Lagging
    <3>3. size <= Limit
      BY <3>1 DEF Overrun, CountInv
    <3> QED
      BY <3>1, <3>2, <3>3, <1>node, <1>seen, CountKept
  <2>2. CASE PutAlloc(t)
    <3>1. /\ UNCHANGED <<chain, upto, counters, seen>>
          /\ pc[t] = "put_alloc" /\ pc' = [pc EXCEPT ![t] = "put_lock"]
      BY <2>2 DEF PutAlloc, history
    <3>2. PICK m \in Nodes \ live : /\ node' = [node EXCEPT ![m] = NewCell(t)]
                                    /\ pkt1' = [pkt1 EXCEPT ![t] = m]
      BY <2>2 DEF PutAlloc
    <3>3. \A n \in live : node'[n].pkt = node[n].pkt
      BY <3>2 DEF ShapeInv
    <3>4. /\ Lagging' = Lagging /\ InFlight' \subseteq InFlight
          /\ \A u \in Lagging : u # t
      BY <3>1, <1>pc DEF Lagging, InFlight
    <3>5. \A u \in Lagging : pc'[u] = pc[u] /\ pkt1'[u] = pkt1[u]
      BY <3>1, <3>2, <3>4, <1>pc DEF Lagging, ShapeInv
    <3> QED
      BY <3>1, <3>3, <3>4, <3>5, <1>seen, CountKept
  <2>3. CASE PutNoMemory(t)
    <3>1. /\ UNCHANGED <<chain, upto, counters, seen, node, pkt1>>
          /\ pc[t] = "put_alloc" /\ pc' = [pc EXCEPT ![t] = "idle"]
      BY <2>3 DEF PutNoMemory, history, list
    <3>2. /\ Lagging' = Lagging /\ InFlight' \subseteq InFlight
          /\ \A u \in Lagging : pc'[u] = pc[u]
      BY <3>1, <1>pc DEF Lagging, InFlight
    <3> QED
      BY <3>1, <3>2, <1>node, <1>seen, CountKept
  <2>4. CASE PutLock(t)
    <3>1. /\ UNCHANGED <<chain, upto, counters, seen, node, pkt1>>
          /\ pc[t] = "put_lock" /\ pc' = [pc EXCEPT ![t] = "put_link"]
      BY <2>4 DEF PutLock, history, list
    <3>2. /\ Lagging' = Lagging /\ InFlight' \subseteq InFlight
          /\ \A u \in Lagging : pc'[u] = pc[u]
      BY <3>1, <1>pc DEF Lagging, InFlight
    <3> QED
      BY <3>1, <3>2, <1>node, <1>seen, CountKept
  <2>5. CASE PutLink(t)
    <3> DEFINE c == pkt1[t]
               k == Len(chain)
               C == Cost[node[c].pkt]
    <3>1. /\ pc[t] = "put_link" /\ pc' = [pc EXCEPT ![t] = "put_count"]
          /\ chain' = Append(chain, c) /\ upto' = Append(upto, Bytes + C)
          /\ UNCHANGED <<live, pkt1, counters, seen>>
      BY <2>5 DEF PutLink
    <3>2. c \in live /\ c \in Nodes /\ C \in Nat /\ C >= 1
      <4>1. c \in live
        BY <3>1 DEF ShapeInv, NoLeak, InHand
      <4>2. node[c].pkt \in Packets
        BY <4>1 DEF ShapeInv
      <4> QED
        BY <4>1, <4>2 DEF ShapeInv
    <3>3. /\ chain \in Seq(Nodes) /\ upto \in Seq(Nat)
          /\ k \in Nat /\ Len(upto) = k
          /\ \A i \in 1..k : chain[i] \in live /\ chain[i] \in Nodes
          /\ \A i \in 1..k : upto[i] \in Nat
          /\ k # 0 => k \in 1..k
      <4>1. chain \in Seq(Nodes) /\ upto \in Seq(Nat) /\ Len(upto) = k
        BY DEF ShapeInv, CountInv, Totals
      <4>2. \A i \in 1..k : chain[i] \in live
        BY DEF ShapeInv, ListSound
      <4>3. k \in Nat
        BY <4>1
      <4>4. \A i \in 1..k : upto[i] \in Nat
        BY <4>1
      <4>5. k # 0 => k \in 1..k
        BY <4>3
      <4> HIDE DEF k
      <4> QED
        BY <4>1, <4>2, <4>3, <4>4, <4>5 DEF ShapeInv
    <3>4. Bytes \in Nat /\ Bytes = IF k = 0 THEN 0 ELSE upto[k]
      BY <3>3, EmptySeq DEF Bytes
    <3>5. /\ Len(chain') = k + 1 /\ \A i \in 1..k : chain'[i] = chain[i]
          /\ chain'[k + 1] = c
      BY <3>1, <3>2, <3>3, AppendFacts
    <3>6. /\ upto' \in Seq(Nat) /\ Len(upto') = k + 1
          /\ \A i \in 1..k : upto'[i] = upto[i]
          /\ upto'[k + 1] = Bytes + C
      <4>1. Bytes + C \in Nat
        BY <3>2, <3>4
      <4> HIDE DEF C
      <4> QED
        BY <3>1, <3>3, <4>1, AppendFacts
    <3>7. Bytes' = Bytes + C
      <4>1. upto' # << >>
        BY <3>3, <3>6, EmptySeq
      <4> QED
        BY <3>6, <4>1 DEF Bytes
    <3>8. \A m \in Nodes : node'[m].pkt = node[m].pkt
      <4>1. node' = node \/ node' = [node EXCEPT ![last_pkt] = LinkedTo(@, c)]
        BY <2>5 DEF PutLink
      <4> QED
        BY <4>1 DEF ShapeInv, LinkedTo
    <3>9. Totals'
      <4>1. ASSUME NEW i \in 1..k
            PROVE  upto'[i] = (IF i = 1 THEN 0 ELSE upto'[i - 1]) + Cost[node'[chain'[i]].pkt]
        <5>1. upto[i] = (IF i = 1 THEN 0 ELSE upto[i - 1]) + Cost[node[chain[i]].pkt]
          BY <3>3 DEF CountInv, Totals
        <5>2. node'[chain'[i]].pkt = node[chain[i]].pkt
          BY <3>3, <3>5, <3>8
        <5>3. i # 1 => i - 1 \in 1..k
          BY <3>3
        <5> QED
          BY <3>6, <5>1, <5>2, <5>3
      <4>2. upto'[k + 1] = (IF k + 1 = 1 THEN 0 ELSE upto'[(k + 1) - 1]) + Cost[node'[chain'[k + 1]].pkt]
        <5>1. node'[chain'[k + 1]].pkt = node[c].pkt
          BY <3>2, <3>5, <3>8
        <5>2. Bytes = IF k + 1 = 1 THEN 0 ELSE upto'[(k + 1) - 1]
          <6>1. (k + 1) - 1 = k /\ (k + 1 = 1 <=> k = 0)
            BY <3>3
          <6> QED
            BY <3>3, <3>4, <3>6, <6>1
        <5> QED
          BY <3>6, <5>1, <5>2
      <4>3. \A i \in 1..k + 1 : i \in 1..k \/ i = k + 1
        BY <3>3
      <4> QED
        BY <3>5, <3>6, <4>1, <4>2, <4>3 DEF Totals
    <3>10. UptoGrows'
      <4>1. \A i \in 1..k : upto[i] >= i /\ upto[k] - upto[i] >= k - i
        <5>1. \A i \in 1..k : k \in 1..k /\ i <= k
          BY <3>3
        <5> QED
          BY <3>3, <5>1 DEF CountInv, UptoGrows
      <4>2. \A i, j \in 1..k : i <= j => upto'[j] - upto'[i] >= j - i
        BY <3>3, <3>6 DEF CountInv, UptoGrows
      <4>3. upto'[k + 1] >= k + 1
        <5>1. Bytes >= k
          BY <3>3, <3>4, <4>1
        <5> HIDE DEF C, k, c
        <5> QED
          BY <3>2, <3>3, <3>4, <3>6, <5>1
      <4>4. ASSUME NEW i \in 1..k
            PROVE  upto'[k + 1] - upto'[i] >= (k + 1) - i
        <5>1. i \in Nat /\ k \in Nat /\ k # 0
          BY <3>3
        <5>2. Bytes = upto[k] /\ upto[k] - upto[i] >= k - i
          BY <3>4, <4>1, <5>1
        <5>3. upto'[i] = upto[i] /\ upto[i] \in Nat /\ upto[k] \in Nat
          BY <3>3, <3>6, <5>1
        <5>4. upto'[k + 1] = upto[k] + C /\ C \in Nat /\ C >= 1
          BY <3>2, <3>6, <5>2
        <5> HIDE DEF C, k, c
        <5> QED
          BY <5>1, <5>2, <5>3, <5>4
      <4>5. upto'[k + 1] - upto'[k + 1] >= (k + 1) - (k + 1)
        BY <3>2, <3>3, <3>4, <3>6
      <4>6. \A i \in 1..k + 1 : i \in 1..k \/ i = k + 1
        BY <3>3
      <4>7. \A i \in 1..k + 1 : upto'[i] >= i
        BY <3>6, <4>1, <4>3, <4>6
      <4>8. \A i, j \in 1..k + 1 : i <= j => upto'[j] - upto'[i] >= j - i
        <5>1. \A j \in 1..k : ~(k + 1 <= j)
          BY <3>3
        <5> QED
          BY <4>2, <4>4, <4>5, <4>6, <5>1
      <4> QED
        BY <3>6, <4>7, <4>8 DEF UptoGrows
    <3>11. CountersTrack'
      <4>1. nb_packets = k /\ size = Bytes
        <5>1. \A u \in Threads : pc[u] \notin {"put_count", "get_count", "flush"}
          BY <3>1, <1>alone DEF CriticalSteps
        <5> QED
          BY <5>1 DEF CountInv, CountersTrack
      <4>2. pc'[t] = "put_count"
            /\ \A u \in Threads : u # t => pc'[u] \notin {"put_count", "get_count"}
        BY <3>1, <1>pc, <1>alone DEF CriticalSteps
      <4>3. CostOf(t)' = C
        BY <3>1, <3>2, <3>8 DEF CostOf
      <4>4. nb_packets' + 1 = Len(chain') /\ size' + C = Bytes'
        BY <3>1, <3>5, <3>7, <4>1 DEF counters
      <4> HIDE DEF C
      <4> QED
        BY <4>2, <4>3, <4>4 DEF CountersTrack
    <3>12. SizeBound'
      <4>1. InFlight' = InFlight
        BY <3>1, <1>pc DEF InFlight
      <4> QED
        BY <3>1, <4>1 DEF CountInv, SizeBound, counters
    <3> QED
      BY <3>1, <3>6, <3>9, <3>10, <3>11, <3>12, <1>seen DEF CountInv, counters
  <2>6. CASE PutCount(t)
    <3> DEFINE C == CostOf(t)
    <3>1. /\ pc[t] = "put_count" /\ pc' = [pc EXCEPT ![t] = "unlock"]
          /\ nb_packets' = UInt(nb_packets + 1) /\ size' = UInt(size + C)
          /\ UNCHANGED <<node, chain, upto, seen>>
      BY <2>6 DEF PutCount, CostOf, list, history
    <3>2. nb_packets + 1 = Len(chain) /\ size + C = Bytes
      BY <3>1 DEF CountInv, CountersTrack
    <3>3. C \in 1..MaxCost
      <4>1. pkt1[t] \in live
        BY <3>1 DEF ShapeInv, NoLeak
      <4>2. node[pkt1[t]].pkt \in Packets
        BY <4>1 DEF ShapeInv
      <4> QED
        BY <4>2 DEF CostOf
    <3> HIDE DEF C
    <3>4. InFlight' = InFlight \ {t} /\ t \in InFlight
      BY <3>1, <1>pc DEF InFlight
    <3>5. /\ Cardinality(InFlight) = Cardinality(InFlight') + 1
          /\ Cardinality(InFlight') \in Nat
      <4>1. IsFiniteSet(InFlight) /\ Cardinality(InFlight) \in Nat
        BY InFlightFacts
      <4>2. /\ IsFiniteSet(InFlight \ {t})
            /\ Cardinality(InFlight \ {t}) = Cardinality(InFlight) - 1
        BY <3>4, <4>1, FS_RemoveElement
      <4>3. Cardinality(InFlight \ {t}) \in Nat
        BY <4>2, FS_CardinalityType
      <4> QED
        BY <3>4, <4>1, <4>2, <4>3
    <3>6. /\ Cardinality(InFlight) * MaxCost = Cardinality(InFlight') * MaxCost + MaxCost
          /\ Cardinality(InFlight') * MaxCost \in Nat
      <4>1. \A a, m \in Nat : (a + 1) * m = a * m + m /\ a * m \in Nat
        OBVIOUS
      <4> QED
        BY <3>5, <4>1
    <3>7. size \in Nat /\ size + C + Cardinality(InFlight') * MaxCost
                            <= Limit + Cardinality(Producers) * MaxCost
      BY SMTT(30), <3>3, <3>6, InFlightFacts DEF CountInv, SizeBound
    <3>8. size + C < UIntRange /\ size + C \in Nat
      BY <3>3, <3>6, <3>7, InFlightFacts
    <3>9. nb_packets + 1 <= size + C /\ nb_packets \in Nat
      <4>1. Len(upto) = Len(chain) /\ Len(chain) # 0 /\ upto # << >> /\ Len(upto) \in Nat
        BY <3>2, EmptySeq DEF CountInv, Totals, ShapeInv
      <4>2. Bytes = upto[Len(upto)] /\ upto[Len(upto)] >= Len(upto)
        BY <4>1 DEF Bytes, CountInv, UptoGrows
      <4> QED
        BY <3>2, <4>1, <4>2 DEF CountInv
    <3>10. nb_packets' = nb_packets + 1 /\ size' = size + C
      BY <3>1, <3>8, <3>9 DEF UInt
    <3>11. Totals' /\ UptoGrows' /\ Bytes' = Bytes
      BY <3>1 DEF CountInv, Totals, UptoGrows, Bytes
    <3>12. CountersTrack'
      <4>1. \A u \in Threads : pc'[u] \notin {"put_count", "get_count"}
        BY <3>1, <1>pc, <1>alone DEF CriticalSteps
      <4> QED
        BY <3>1, <3>2, <3>10, <3>11, <4>1 DEF CountersTrack
    <3>13. SizeBound'
      BY <3>7, <3>10 DEF SizeBound
    <3> QED
      BY <3>1, <3>8, <3>9, <3>10, <3>11, <3>12, <3>13, <1>seen DEF CountInv
  <2> QED
    BY <1>1, <2>1, <2>2, <2>3, <2>4, <2>5, <2>6 DEF Put
<1>2. ASSUME NEW t \in Consumers, Get(t) PROVE CountInv'
  <2> t \in Threads
    BY DEF Threads
  <2>1. CASE Count(t)
    <3>1. /\ UNCHANGED <<chain, upto, counters, node, pkt1, pc>>
          /\ seen' = [seen EXCEPT ![t] = nb_packets]
      BY <2>1 DEF Count, history, list
    <3>2. Lagging' = Lagging /\ InFlight' = InFlight
      BY <3>1 DEF Lagging, InFlight
    <3>3. seen' \in [Consumers -> 0..UIntRange - 1]
      BY <3>1, <1>seen
    <3> QED
      BY <3>1, <3>2, <3>3, <1>node, CountKept
  <2>2. CASE GetLock(t)
    <3>1. /\ UNCHANGED <<chain, upto, counters, seen, node, pkt1>>
          /\ pc[t] = "idle" /\ pc' = [pc EXCEPT ![t] = "get_unlink"]
      BY <2>2 DEF GetLock, history, list
    <3>2. /\ Lagging' = Lagging /\ InFlight' \subseteq InFlight
          /\ \A u \in Lagging : pc'[u] = pc[u]
      BY <3>1, <1>pc DEF Lagging, InFlight
    <3> QED
      BY <3>1, <3>2, <1>node, <1>seen, CountKept
  <2>3. CASE GetUnlink(t)
    <3>1. /\ pc[t] = "get_unlink" /\ pc' = [pc EXCEPT ![t] = "get_count"]
          /\ first_pkt # NULL
          /\ pkt1' = [pkt1 EXCEPT ![t] = first_pkt]
          /\ chain' = Tail(chain) /\ upto' = Dropped(upto)
          /\ UNCHANGED <<node, counters, seen>>
      BY <2>3 DEF GetUnlink
    <3>2. ~Flushing
      BY <3>1, <1>alone DEF Flushing, CriticalSteps
    <3>3. chain # << >> /\ first_pkt = chain[1]
      BY <3>1, <3>2, EmptySeq DEF ShapeInv, ListSound
    <3>4. /\ upto' \in Seq(Nat) /\ Totals' /\ UptoGrows'
          /\ Bytes = Bytes' + Cost[node[chain[1]].pkt]
      BY <3>1, <3>3, DroppedFacts
    <3>5. Len(chain) = Len(chain') + 1
      BY <3>1, <3>3, TailFacts DEF ShapeInv
    <3>6. CountersTrack'
      <4>1. nb_packets = Len(chain) /\ size = Bytes
        <5>1. \A u \in Threads : pc[u] \notin {"put_count", "get_count", "flush"}
          BY <3>1, <1>alone DEF CriticalSteps
        <5> QED
          BY <5>1 DEF CountInv, CountersTrack
      <4>2. pc'[t] = "get_count"
            /\ \A u \in Threads : u # t => pc'[u] \notin {"put_count", "get_count"}
        BY <3>1, <1>pc, <1>alone DEF CriticalSteps
      <4>3. CostOf(t)' = Cost[node[chain[1]].pkt]
        BY <3>1, <3>3 DEF CostOf, ShapeInv
      <4>4. nb_packets' = Len(chain') + 1 /\ size' = Bytes' + CostOf(t)'
        BY <3>1, <3>4, <3>5, <4>1, <4>3 DEF counters
      <4> QED
        BY <4>2, <4>4 DEF CountersTrack
    <3>7. SizeBound'
      <4>1. InFlight' = InFlight
        BY <3>1, <1>pc DEF InFlight
      <4> QED
        BY <3>1, <4>1 DEF CountInv, SizeBound, counters
    <3> QED
      BY <3>1, <3>4, <3>6, <3>7, <1>seen DEF CountInv, counters
  <2>4. CASE GetEmpty(t)
    <3>1. /\ UNCHANGED <<chain, upto, counters, node, pkt1>>
          /\ seen' = [seen EXCEPT ![t] = 0]
          /\ pc[t] = "get_unlink" /\ pc' = [pc EXCEPT ![t] = "unlock"]
      BY <2>4 DEF GetEmpty, history, list
    <3>2. /\ Lagging' = Lagging /\ InFlight' \subseteq InFlight
          /\ \A u \in Lagging : pc'[u] = pc[u]
      BY <3>1, <1>pc DEF Lagging, InFlight
    <3>3. seen' \in [Consumers -> 0..UIntRange - 1]
      BY <3>1, <1>seen
    <3> QED
      BY <3>1, <3>2, <3>3, <1>node, CountKept
  <2>5. CASE GetCount(t)
    <3> DEFINE C == CostOf(t)
    <3>1. /\ pc[t] = "get_count" /\ pc' = [pc EXCEPT ![t] = "unlock"]
          /\ nb_packets' = UInt(nb_packets - 1) /\ size' = UInt(size - C)
          /\ seen' = [seen EXCEPT ![t] = 0]
          /\ UNCHANGED <<node, chain, upto>>
      BY <2>5 DEF GetCount, CostOf, OneLess, list, history
    <3>2. nb_packets = Len(chain) + 1 /\ size = Bytes + C
      BY <3>1 DEF CountInv, CountersTrack
    <3>3. C \in 1..MaxCost
      <4>1. pkt1[t] \in live
        BY <3>1 DEF ShapeInv, NoLeak, InHand
      <4>2. node[pkt1[t]].pkt \in Packets
        BY <4>1 DEF ShapeInv
      <4> QED
        BY <4>2 DEF CostOf
    <3> HIDE DEF C
    <3>4. Bytes \in Nat /\ Len(chain) \in Nat
      BY EmptySeq DEF Bytes, CountInv, ShapeInv
    <3>5. nb_packets' = Len(chain) /\ size' = Bytes
      BY <3>1, <3>2, <3>3, <3>4 DEF UInt, CountInv
    <3>6. /\ nb_packets' \in 0..UIntRange - 1 /\ size' \in 0..UIntRange - 1
          /\ size' <= size
      BY <3>2, <3>3, <3>4, <3>5 DEF CountInv
    <3>7. Totals' /\ UptoGrows' /\ Bytes' = Bytes
      BY <3>1 DEF CountInv, Totals, UptoGrows, Bytes
    <3>8. CountersTrack'
      <4>1. \A u \in Threads : pc'[u] \notin {"put_count", "get_count"}
        BY <3>1, <1>pc, <1>alone DEF CriticalSteps
      <4> QED
        BY <3>1, <3>5, <3>7, <4>1 DEF CountersTrack
    <3>9. SizeBound'
      <4>1. InFlight' = InFlight
        BY <3>1, <1>pc DEF InFlight
      <4>2. Cardinality(InFlight) * MaxCost \in Nat
        BY InFlightFacts
      <4>3. size \in Nat /\ size' \in Nat /\ UIntRange \in Nat
        BY <3>6 DEF CountInv
      <4>4. size + Cardinality(InFlight) * MaxCost
              <= Limit + Cardinality(Producers) * MaxCost
        BY DEF CountInv, SizeBound
      <4>5. size' + Cardinality(InFlight) * MaxCost
              <= Limit + Cardinality(Producers) * MaxCost
        BY <3>6, <4>2, <4>3, <4>4, InFlightFacts
      <4> QED
        BY <4>1, <4>5 DEF SizeBound
    <3>10. seen' \in [Consumers -> 0..UIntRange - 1]
      BY <3>1, <1>seen
    <3> QED
      BY <3>1, <3>6, <3>7, <3>8, <3>9, <3>10 DEF CountInv
  <2> QED
    BY <1>2, <2>1, <2>2, <2>3, <2>4, <2>5 DEF Get
<1>3. ASSUME NEW t \in Flushers, Release(t) PROVE CountInv'
  <2> t \in Threads
    BY DEF Threads
  <2>1. CASE FlushLock(t)
    <3>1. /\ UNCHANGED <<chain, upto, counters, seen, node>>
          /\ pc[t] = "idle" /\ pc' = [pc EXCEPT ![t] = "flush"]
          /\ pkt1' = [pkt1 EXCEPT ![t] = first_pkt]
      BY <2>1 DEF FlushLock, history, list
    <3>2. /\ t \notin Lagging /\ Lagging' = Lagging \cup {t} /\ pc'[t] = "flush"
          /\ InFlight' = InFlight
      BY <3>1, <1>pc DEF Lagging, InFlight
    <3>3. \A u \in Lagging : pc'[u] = pc[u] /\ pkt1'[u] = pkt1[u]
      BY <3>1, <3>2, <1>pc DEF Lagging, ShapeInv
    <3> QED
      BY <3>1, <3>2, <3>3, <1>node, <1>seen, CountKept
  <2>2. CASE FlushFree(t)
    <3>1. /\ pc[t] = "flush" /\ pkt1[t] # NULL
          /\ chain' = Tail(chain) /\ upto' = Dropped(upto)
          /\ UNCHANGED <<node, counters, seen, pc>>
      BY <2>2 DEF FlushFree, list
    <3>2. chain # << >>
      BY <3>1, EmptySeq DEF ShapeInv, ListSound
    <3>3. upto' \in Seq(Nat) /\ Totals' /\ UptoGrows'
      BY <3>1, <3>2, DroppedFacts
    <3>4. CountersTrack'
      <4>1. pc'[t] = "flush"
            /\ \A u \in Threads : pc'[u] \notin {"put_count", "get_count"}
        BY <3>1, <1>alone DEF CriticalSteps
      <4> QED
        BY <4>1 DEF CountersTrack
    <3>5. SizeBound'
      <4>1. InFlight' = InFlight
        BY <3>1 DEF InFlight
      <4> QED
        BY <3>1, <4>1 DEF CountInv, SizeBound, counters
    <3> QED
      BY <3>1, <3>3, <3>4, <3>5, <1>seen DEF CountInv, counters
  <2>3. CASE FlushReset(t)
    <3>1. /\ pc[t] = "flush" /\ pkt1[t] = NULL
          /\ pc' = [pc EXCEPT ![t] = "unlock"]
          /\ nb_packets' = 0 /\ size' = 0
          /\ UNCHANGED <<node, chain, upto, seen>>
      BY <2>3 DEF FlushReset, history
    <3>2. Len(chain) = 0
      <4>1. Len(chain) \in Nat /\ \A i \in 1..Len(chain) : chain[i] \in Nodes
        BY DEF ShapeInv
      <4> QED
        BY <3>1, <4>1 DEF ShapeInv, ListSound
    <3>3. Bytes = 0
      <4>1. upto = << >>
        BY <3>2, EmptySeq DEF CountInv, Totals
      <4> QED
        BY <4>1 DEF Bytes
    <3>4. Totals' /\ UptoGrows' /\ Bytes' = Bytes
      BY <3>1 DEF CountInv, Totals, UptoGrows, Bytes
    <3>5. CountersTrack'
      <4>1. \A u \in Threads : pc'[u] \notin {"put_count", "get_count"}
        BY <3>1, <1>pc, <1>alone DEF CriticalSteps
      <4> QED
        BY <3>1, <3>2, <3>3, <3>4, <4>1 DEF CountersTrack
    <3>6. SizeBound'
      <4>1. InFlight' = InFlight
        BY <3>1, <1>pc DEF InFlight
      <4> QED
        BY <3>1, <4>1, InFlightFacts DEF SizeBound
    <3> QED
      BY <3>1, <3>4, <3>5, <3>6, <1>seen DEF CountInv
  <2> QED
    BY <1>3, <2>1, <2>2, <2>3 DEF Release
<1>4. ASSUME NEW t \in Threads, Unlock(t) PROVE CountInv'
  <2>1. /\ UNCHANGED <<chain, upto, counters, seen, node>>
        /\ pkt1' = [pkt1 EXCEPT ![t] = NULL]
        /\ pc[t] = "unlock" /\ pc' = [pc EXCEPT ![t] = "idle"]
    BY <1>4 DEF Unlock, history, list
  <2>2. /\ Lagging' = Lagging /\ InFlight' \subseteq InFlight
        /\ \A u \in Lagging : pc'[u] = pc[u] /\ pkt1'[u] = pkt1[u]
    BY <2>1, <1>pc DEF Lagging, InFlight, ShapeInv
  <2> QED
    BY <2>1, <2>2, <1>node, <1>seen, CountKept
<1>5. CASE UNCHANGED vars
  <2>1. UNCHANGED <<chain, upto, counters, node, pkt1, pc, seen>>
    BY <1>5 DEF vars, history, list
  <2>2. Lagging' = Lagging /\ InFlight' = InFlight
    BY <2>1 DEF Lagging, InFlight
  <2> QED
    BY <2>1, <2>2, <1>node, <1>seen, CountKept
<1> QED
  BY <1>1, <1>2, <1>3, <1>4, <1>5 DEF Next

-----------------------------------------------------------------------------
IInv == MutexInv /\ ShapeInv /\ CountInv

\* The inductive invariant.
LEMMA IInvHolds == Spec => []IInv
<1>1. Init => IInv
  BY MutexInit, ShapeInit, CountInit DEF IInv
<1>2. IInv /\ [Next]_vars => IInv'
  BY MutexStep, ShapeStep, CountStep DEF IInv
<1> QED
  BY <1>1, <1>2, PTL DEF Spec

\* The types of AVQueue's variables; in particular the unsigned counters never
\* wrap, because the list never outgrows the limit of avpacket_queue_put.
THEOREM TypeCorrect == Spec => []TypeOK
<1>1. IInv => TypeOK
  BY DEF IInv, MutexInv, ShapeInv, CountInv, TypeOK
<1> QED
  BY IInvHolds, <1>1, PTL

\* Whenever q->mutex is free, nb_packets and size describe the list exactly.
THEOREM AccountingHolds == Spec => []Accounting
<1>1. IInv => Accounting
  <2> SUFFICES ASSUME IInv, mutex = NULL
               PROVE  nb_packets = Len(chain) /\ size = Bytes
    BY DEF Accounting
  <2>1. \A t \in Threads : pc[t] \notin {"put_count", "get_count", "flush"}
    BY QueueAssumption DEF IInv, MutexInv, MutualExclusion, CriticalSteps
  <2> QED
    BY <2>1 DEF IInv, CountInv, CountersTrack
<1> QED
  BY IInvHolds, <1>1, PTL

\* The check-then-act of avpacket_queue_put overshoots its limit by at most one
\* packet for every producer.
THEOREM SizeBoundHolds == Spec => []SizeBound
<1>1. IInv => SizeBound
  BY DEF IInv, CountInv
<1> QED
  BY IInvHolds, <1>1, PTL

-----------------------------------------------------------------------------
\* The sole consumer's count is a lower bound of what its next get will find.
LEMMA CountStaysValidInit == Init => CountStaysValid
BY DEF Init, CountStaysValid, At

\* No step takes away what a consumer has counted.
LEMMA CountStaysValidStep ==
  IInv /\ CountStaysValid /\ [Next]_vars => CountStaysValid'
<1> SUFFICES ASSUME IInv, [Next]_vars,
                    NEW c \in Consumers, Consumers = {c}, Flushers = {},
                    seen[c] <= Len(chain) + (IF At(c, "get_count") THEN 1 ELSE 0)
             PROVE  seen'[c] <= Len(chain') + (IF At(c, "get_count")' THEN 1 ELSE 0)
  BY DEF CountStaysValid
<1> USE QueueAssumption DEF At, Goto
<1>1. /\ pc \in [Threads -> Steps] /\ c \in Threads
      /\ seen \in [Consumers -> 0..UIntRange - 1] /\ seen[c] \in Nat
      /\ chain \in Seq(Nodes) /\ Len(chain) \in Nat /\ pkt1 \in [Threads -> Nodes \cup {NULL}]
  BY DEF IInv, MutexInv, CountInv, ShapeInv, Threads
<1>2. ASSUME NEW t \in Producers, Put(t)
      PROVE  seen'[c] <= Len(chain') + (IF At(c, "get_count")' THEN 1 ELSE 0)
  <2>1. t # c /\ t \in Threads
    BY DEF Threads
  <2>2. UNCHANGED seen /\ pc'[c] = pc[c]
    BY <1>1, <1>2, <2>1 DEF Put, PutCheck, PutAlloc, PutNoMemory, PutLock, PutLink, PutCount
  <2>3. CASE PutLink(t)
    <3>1. pkt1[t] \in Nodes /\ chain' = Append(chain, pkt1[t])
      BY <2>1, <2>3 DEF PutLink, IInv, ShapeInv, NoLeak, InHand
    <3>2. Len(chain') = Len(chain) + 1
      BY <1>1, <3>1, AppendFacts
    <3> QED
      BY <1>1, <2>2, <3>2
  <2>4. CASE ~PutLink(t)
    <3>1. chain' = chain
      BY <1>2, <2>4 DEF Put, PutCheck, PutAlloc, PutNoMemory, PutLock, PutCount, history
    <3> QED
      BY <2>2, <3>1
  <2> QED
    BY <2>3, <2>4
<1>3. CASE Count(c)
  <2>1. mutex = NULL /\ pc[c] = "idle" /\ seen'[c] = nb_packets /\ UNCHANGED <<chain, pc>>
    BY <1>1, <1>3 DEF Count, history
  <2>2. \A t \in Threads : pc[t] \notin {"put_count", "get_count", "flush"}
    BY <2>1 DEF IInv, MutexInv, MutualExclusion, CriticalSteps
  <2>3. nb_packets = Len(chain)
    BY <2>2 DEF IInv, CountInv, CountersTrack
  <2> QED
    BY <1>1, <2>1, <2>3
<1>4. CASE GetLock(c)
  BY <1>1, <1>4 DEF GetLock, history
<1>5. CASE GetUnlink(c)
  <2>1. /\ pc[c] = "get_unlink" /\ pc'[c] = "get_count" /\ first_pkt # NULL
        /\ chain' = Tail(chain) /\ seen' = seen
    BY <1>1, <1>5 DEF GetUnlink
  <2>2. ~Flushing
    BY <1>1, <2>1 DEF Flushing, IInv, MutexInv, MutualExclusion, CriticalSteps
  <2>3. chain # << >>
    BY <2>1, <2>2, EmptySeq DEF IInv, ShapeInv, ListSound
  <2>4. Len(chain') = Len(chain) - 1
    BY <1>1, <2>1, <2>3, TailFacts
  <2> QED
    BY <1>1, <2>1, <2>4
<1>6. CASE GetEmpty(c)
  BY <1>1, <1>6 DEF GetEmpty, history
<1>7. CASE GetCount(c)
  BY <1>1, <1>7 DEF GetCount, history
<1>8. ASSUME NEW t \in Threads, Unlock(t)
      PROVE  seen'[c] <= Len(chain') + (IF At(c, "get_count")' THEN 1 ELSE 0)
  <2>1. UNCHANGED <<seen, chain>> /\ pc' = [pc EXCEPT ![t] = "idle"] /\ pc[t] = "unlock"
    BY <1>8 DEF Unlock, history
  <2>2. pc[c] = "get_count" <=> pc'[c] = "get_count"
    BY <1>1, <2>1
  <2> QED
    BY <2>1, <2>2
<1>9. CASE UNCHANGED vars
  BY <1>9 DEF vars, history
<1> QED
  BY <1>2, <1>3, <1>4, <1>5, <1>6, <1>7, <1>8, <1>9 DEF Next, Get

\* What handleVideoThread counted is still in the queue when it gets: with one
\* consumer and no flush, nothing makes the count go stale downwards.
THEOREM CountStaysValidHolds == Spec => []CountStaysValid
<1>1. Spec => [](IInv /\ CountStaysValid)
  BY CountStaysValidInit, CountStaysValidStep, IInvHolds, PTL DEF Spec
<1> QED
  BY <1>1, PTL

-----------------------------------------------------------------------------
\* Refinement: a call takes effect where it changes the list.
LEMMA FifoInit == Init => Fifo!Init
<1> SUFFICES ASSUME Init PROVE Fifo!Init
  OBVIOUS
<1>1. ~Flushing /\ Len(chain) = 0
  BY DEF Init, Flushing, At
<1>2. Contents = << >>
  BY <1>1 DEF Contents
<1>3. [c \in Consumers |-> pkt[c]] = [c \in Consumers |-> NULL]
  BY DEF Init, Threads
<1> QED
  BY <1>2, <1>3 DEF Fifo!Init

Delivered == [c \in Consumers |-> pkt[c]]

\* The packets are the same if list and packets are.
LEMMA ContentsKept ==
  ASSUME ShapeInv, chain' = chain, Flushing' <=> Flushing,
         \A n \in live : node'[n].pkt = node[n].pkt
  PROVE  Contents' = Contents
<1>1. \A i \in 1..Len(chain) : chain[i] \in live
  BY DEF ShapeInv, ListSound
<1>2. \A i \in 1..Len(chain) : node'[chain[i]].pkt = node[chain[i]].pkt
  BY <1>1
<1>3. [i \in 1..Len(chain') |-> node'[chain'[i]].pkt] = [i \in 1..Len(chain) |-> node[chain[i]].pkt]
  BY <1>2
<1> QED
  BY <1>3 DEF Contents

\* A step is one of PacketFifo, or none of its steps.
LEMMA FifoStep == IInv /\ IInv' /\ [Next]_vars => [Fifo!Next]_(Fifo!vars)
<1> SUFFICES ASSUME IInv, IInv', [Next]_vars
             PROVE  Fifo!Next \/ (Contents' = Contents /\ Delivered' = Delivered)
  BY DEF Fifo!vars, Delivered
<1> USE QueueAssumption DEF At, Goto
<1>ty. /\ pc \in [Threads -> Steps] /\ ShapeInv
       /\ node \in [Nodes -> [pkt : Packets \cup {NULL}, next : Nodes \cup {NULL}]]
       /\ pkt \in [Threads -> Packets \cup {NULL}]
       /\ chain \in Seq(Nodes) /\ Len(chain) \in Nat
       /\ \A i \in 1..Len(chain) : chain[i] \in Nodes
  BY DEF IInv, MutexInv, ShapeInv
<1>mx. \A t, u \in Threads :
         t # u /\ pc[t] \in CriticalSteps => pc[u] \notin CriticalSteps
  BY DEF IInv, MutexInv, MutualExclusion
<1>same. ASSUME UNCHANGED node PROVE \A n \in live : node'[n].pkt = node[n].pkt
  BY <1>same
<1>1. ASSUME NEW t \in Producers, Put(t)
      PROVE  Fifo!Next \/ (Contents' = Contents /\ Delivered' = Delivered)
  <2> t \in Threads /\ t \notin Consumers
    BY DEF Threads
  <2>1. Delivered' = Delivered
    <3>1. \A c \in Consumers : pkt'[c] = pkt[c]
      BY <1>1, <1>ty DEF Put, PutCheck, PutAlloc, PutNoMemory, PutLock, PutLink, PutCount, Threads
    <3> QED
      BY <3>1 DEF Delivered
  <2>2. Flushing' <=> Flushing
    BY <1>1, <1>ty DEF Put, PutCheck, PutAlloc, PutNoMemory, PutLock, PutLink, PutCount, Flushing
  <2>3. CASE PutLink(t)
    <3> DEFINE c == pkt1[t]
               k == Len(chain)
               p == node[c].pkt
    <3>1. pc[t] = "put_link" /\ chain' = Append(chain, c)
      BY <2>3 DEF PutLink
    <3>2. c \in live /\ c \in Nodes /\ p \in Packets
      BY <3>1, <1>ty DEF ShapeInv, NoLeak, InHand
    <3>3. ~Flushing
      BY <3>1, <1>mx DEF Flushing, CriticalSteps
    <3>4. \A m \in Nodes : node'[m].pkt = node[m].pkt
      <4>1. node' = node \/ node' = [node EXCEPT ![last_pkt] = LinkedTo(@, c)]
        BY <2>3 DEF PutLink
      <4> QED
        BY <4>1 DEF IInv, ShapeInv, LinkedTo
    <3>5. /\ Len(chain') = k + 1 /\ \A i \in 1..k : chain'[i] = chain[i]
          /\ chain'[k + 1] = c
      BY <3>1, <3>2, <1>ty, AppendFacts
    <3>6. /\ Contents = [i \in 1..k |-> node[chain[i]].pkt]
          /\ Contents' = [i \in 1..k + 1 |-> node'[chain'[i]].pkt]
      BY <2>2, <3>3, <3>5 DEF Contents
    <3>7. Contents \in Seq(Packets \cup {NULL}) /\ Len(Contents) = k
      BY <3>6, <1>ty
    <3>8. \A i \in 1..k + 1 : Contents'[i] = IF i <= k THEN Contents[i] ELSE p
      <4>1. \A i \in 1..k : Contents'[i] = Contents[i]
        <5>1. \A i \in 1..k : i \in 1..k + 1
          BY <1>ty
        <5>2. \A i \in 1..k : Contents'[i] = node'[chain'[i]].pkt
          BY <3>6, <5>1
        <5>3. \A i \in 1..k : Contents[i] = node[chain[i]].pkt
          BY <3>6
        <5>4. \A i \in 1..k : chain[i] \in Nodes /\ chain'[i] = chain[i]
          BY <3>5, <1>ty
        <5>5. \A i \in 1..k : node'[chain[i]].pkt = node[chain[i]].pkt
          BY <3>4, <5>4
        <5> HIDE DEF k, c, p
        <5> QED
          BY <5>2, <5>3, <5>4, <5>5
      <4>2. Contents'[k + 1] = p
        BY <3>2, <3>4, <3>5, <3>6, <1>ty
      <4>3. \A i \in 1..k + 1 : (i \in 1..k /\ i <= k) \/ (i = k + 1 /\ ~(i <= k))
        BY <1>ty
      <4> QED
        BY <4>1, <4>2, <4>3
    <3>9. Contents' = Append(Contents, p)
      <4>1. Append(Contents, p) = [i \in 1..k + 1 |-> IF i = k + 1 THEN p ELSE Contents[i]]
        BY <3>7, <1>ty
      <4>2. \A i \in 1..k + 1 : i <= k <=> i # k + 1
        BY <1>ty
      <4> HIDE DEF p, k, c
      <4> QED
        BY <3>6, <3>8, <4>1, <4>2
    <3> QED
      BY <2>1, <3>2, <3>9 DEF Fifo!Next, Fifo!Put, Delivered
  <2>4. CASE ~PutLink(t)
    <3>1. chain' = chain
      BY <1>1, <2>4 DEF Put, PutCheck, PutAlloc, PutNoMemory, PutLock, PutCount, history
    <3>2. \A n \in live : node'[n].pkt = node[n].pkt
      <4>1. CASE PutAlloc(t)
        BY <4>1, <1>ty DEF PutAlloc
      <4>2. CASE ~PutAlloc(t)
        BY <1>1, <2>4, <4>2 DEF Put, PutCheck, PutNoMemory, PutLock, PutCount, list
      <4> QED
        BY <4>1, <4>2
    <3> QED
      BY <1>ty, <2>1, <2>2, <3>1, <3>2, ContentsKept
  <2> QED
    BY <2>3, <2>4
<1>2. ASSUME NEW t \in Consumers, Get(t)
      PROVE  Fifo!Next \/ (Contents' = Contents /\ Delivered' = Delivered)
  <2> t \in Threads
    BY DEF Threads
  <2>1. Flushing' <=> Flushing
    BY <1>2, <1>ty DEF Get, Count, GetLock, GetUnlink, GetEmpty, GetCount, Flushing
  <2>2. CASE Count(t) \/ GetLock(t) \/ GetCount(t)
    <3>1. UNCHANGED <<chain, node, pkt>>
      BY <2>2 DEF Count, GetLock, GetCount, history, list
    <3> QED
      BY <1>ty, <1>same, <2>1, <3>1, ContentsKept DEF Delivered
  <2>3. CASE GetUnlink(t)
    <3> DEFINE k == Len(chain)
    <3>1. /\ pc[t] = "get_unlink" /\ first_pkt # NULL
          /\ pkt' = [pkt EXCEPT ![t] = node[first_pkt].pkt]
          /\ chain' = Tail(chain) /\ node' = node
      BY <2>3 DEF GetUnlink
    <3>2. ~Flushing
      BY <3>1, <1>mx DEF Flushing, CriticalSteps
    <3>3. chain # << >> /\ first_pkt = chain[1]
      BY <3>1, <3>2, EmptySeq DEF IInv, ShapeInv, ListSound
    <3>4. /\ k >= 1 /\ Len(chain') = k - 1
          /\ \A i \in 1..k - 1 : chain'[i] = chain[i + 1]
      BY <3>1, <3>3, <1>ty, TailFacts
    <3>5. /\ Contents = [i \in 1..k |-> node[chain[i]].pkt]
          /\ Contents' = [i \in 1..k - 1 |-> node[chain'[i]].pkt]
      BY <2>1, <3>1, <3>2, <3>4 DEF Contents
    <3>6. /\ Contents \in Seq(Packets \cup {NULL}) /\ Len(Contents) = k
          /\ Contents # << >> /\ Head(Contents) = node[chain[1]].pkt
      <4>1. Contents \in Seq(Packets \cup {NULL}) /\ Len(Contents) = k
        BY <3>5, <1>ty
      <4>2. Contents # << >> /\ 1 \in 1..k
        BY <3>4, <4>1, EmptySeq, <1>ty
      <4>3. Head(Contents) = Contents[1]
        BY <4>1, <4>2, HeadTailProperties
      <4> QED
        BY <3>5, <4>1, <4>2, <4>3
    <3>7. Contents' = Tail(Contents)
      <4>1. /\ Tail(Contents) \in Seq(Packets \cup {NULL})
            /\ Len(Tail(Contents)) = k - 1
            /\ \A i \in 1..k - 1 : Tail(Contents)[i] = Contents[i + 1]
        BY <3>6, TailFacts
      <4>2. \A i \in 1..k - 1 : Contents[i + 1] = node[chain'[i]].pkt
        BY <3>4, <3>5, <1>ty
      <4>3. Tail(Contents) = [i \in 1..k - 1 |-> Tail(Contents)[i]]
        BY <4>1, LenProperties
      <4> HIDE DEF k
      <4> QED
        BY <3>5, <4>1, <4>2, <4>3
    <3>8. Delivered' = [Delivered EXCEPT ![t] = Head(Contents)]
      BY <3>1, <3>3, <3>6, <1>ty DEF Delivered, Threads
    <3> QED
      BY <3>6, <3>7, <3>8 DEF Fifo!Next, Fifo!Get, Delivered
  <2>4. CASE GetEmpty(t)
    <3>1. /\ pc[t] = "get_unlink" /\ first_pkt = NULL /\ UNCHANGED <<chain, node>>
          /\ pkt' = [pkt EXCEPT ![t] = NULL]
      BY <2>4 DEF GetEmpty, history, list
    <3>2. ~Flushing
      BY <3>1, <1>mx DEF Flushing, CriticalSteps
    <3>3. Len(chain) = 0
      BY <3>1, <3>2, <1>ty DEF IInv, ShapeInv, ListSound
    <3>4. Contents = << >> /\ Contents' = Contents
      BY <1>ty, <1>same, <2>1, <3>1, <3>3, ContentsKept DEF Contents
    <3>5. Delivered' = [Delivered EXCEPT ![t] = NULL]
      BY <3>1, <1>ty DEF Delivered, Threads
    <3> QED
      BY <3>4, <3>5 DEF Fifo!Next, Fifo!Miss, Delivered
  <2> QED
    BY <1>2, <2>2, <2>3, <2>4 DEF Get
<1>3. ASSUME NEW t \in Flushers, Release(t)
      PROVE  Fifo!Next \/ (Contents' = Contents /\ Delivered' = Delivered)
  <2> t \in Threads
    BY DEF Threads
  <2>1. Delivered' = Delivered
    BY <1>3 DEF Release, FlushLock, FlushFree, FlushReset, Delivered
  <2>2. CASE FlushLock(t)
    <3>1. Flushing'
      BY <2>2, <1>ty DEF FlushLock, Flushing
    <3>2. Contents' = << >>
      BY <3>1 DEF Contents
    <3> QED
      BY <2>1, <3>2 DEF Fifo!Next, Fifo!Flush, Delivered
  <2>3. CASE FlushFree(t)
    <3>1. Flushing /\ Flushing'
      BY <2>3 DEF FlushFree, Flushing
    <3> QED
      BY <2>1, <3>1 DEF Contents
  <2>4. CASE FlushReset(t)
    <3>1. /\ pc[t] = "flush" /\ pkt1[t] = NULL /\ chain' = chain
          /\ pc' = [pc EXCEPT ![t] = "unlock"]
      BY <2>4 DEF FlushReset, history
    <3>2. Len(chain) = 0
      BY <3>1, <1>ty DEF IInv, ShapeInv, ListSound
    <3>3. Contents = << >> /\ Contents' = << >>
      BY <3>1, <3>2, <1>ty DEF Contents
    <3> QED
      BY <2>1, <3>3
  <2> QED
    BY <1>3, <2>2, <2>3, <2>4 DEF Release
<1>4. ASSUME NEW t \in Threads, Unlock(t)
      PROVE  Fifo!Next \/ (Contents' = Contents /\ Delivered' = Delivered)
  <2>1. UNCHANGED <<chain, node, pkt>> /\ (Flushing' <=> Flushing)
    BY <1>4, <1>ty DEF Unlock, history, list, Flushing
  <2> QED
    BY <1>ty, <1>same, <2>1, ContentsKept DEF Delivered
<1>5. CASE UNCHANGED vars
  BY <1>5 DEF vars, history, list, Contents, Flushing, Delivered
<1> QED
  BY <1>1, <1>2, <1>3, <1>4, <1>5 DEF Next

\* Behind its mutex, the linked list of avqueue.c is a FIFO queue: every packet
\* put comes out once, in order, and get misses only when there is none.
THEOREM ImplementsFifoHolds == Spec => ImplementsFifo
<1>1. Spec => []IInv
  BY IInvHolds
<1> QED
  BY <1>1, FifoInit, FifoStep, PTL DEF Spec, ImplementsFifo, Fifo!Spec
=============================================================================
