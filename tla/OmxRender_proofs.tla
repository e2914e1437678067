-------------------------- MODULE OmxRender_proofs --------------------------
(***************************************************************************)
(* Proofs about OmxRender: for every number of buffers, every set of       *)
(* widths and every backlog of commands, no buffer is lost, and a renderer *)
(* that was opened has a ring of buffers that frames fit into.             *)
(***************************************************************************)
EXTENDS OmxRender, FunctionTheorems, FiniteSetTheorems, SequenceTheorems, TLAPS

-----------------------------------------------------------------------------
(* What the steps share.                                                    *)

Commands == {"flush", "idle", "disable", "loaded", "enable", "executing"}

Control ==
  /\ commands \in Seq(Commands)
  /\ pc \in Pcs /\ err \in BOOLEAN /\ opened \in BOOLEAN /\ width \in Widths \cup {0}
  /\ comp = [state |-> comp.state, enabled |-> comp.enabled, width |-> comp.width]
  /\ comp.state \in {"loaded", "idle", "executing"} /\ comp.enabled \in BOOLEAN

\* A call may always succeed, and fails only where that fault is.
LEMMA FailsFacts ==
  ASSUME NEW fault
  PROVE  /\ Fails(fault) \subseteq BOOLEAN
         /\ fault \notin faults => Fails(fault) = {FALSE}
BY DEF Fails

\* What a command does to the component.
LEMMA ObeyedFacts ==
  ASSUME Control, NEW c \in Commands
  PROVE  /\ Obeyed(c) = [state |-> Obeyed(c).state, enabled |-> Obeyed(c).enabled,
                         width |-> comp.width]
         /\ Obeyed(c).state \in {"loaded", "idle", "executing"}
         /\ Obeyed(c).enabled \in BOOLEAN
         /\ Obeyed(c).enabled <=> c = "enable" \/ (c # "disable" /\ comp.enabled)
         /\ c \in {"enable", "disable", "flush"} => Obeyed(c).state = comp.state
         /\ c = "idle" => Obeyed(c).state = "idle"
         /\ c = "loaded" /\ comp.state = "idle" => Obeyed(c).state = "loaded"
         /\ c = "executing" /\ comp.state = "idle" => Obeyed(c).state = "executing"
<1> DEFINE C(s, e) == [state |-> s, enabled |-> e, width |-> comp.width]
<1>0. \A r, s, e : r = C(s, e) => r.state = s /\ r.enabled = e
  OBVIOUS
<1>1. comp = C(comp.state, comp.enabled)
  BY DEF Control
<1>2. CASE c = "enable"
  <2>1. Obeyed(c) = C(comp.state, TRUE)
    BY <1>1, <1>2 DEF Obeyed
  <2>2. Obeyed(c).enabled = TRUE /\ Obeyed(c).state = comp.state
    BY <2>1, <1>0, Zenon
  <2>3. Obeyed(c) = C(Obeyed(c).state, Obeyed(c).enabled)
    BY <2>1, <2>2, Zenon
  <2> QED
    BY <1>2, <2>2, <2>3 DEF Control
<1>3. CASE c = "disable"
  <2>1. Obeyed(c) = C(comp.state, FALSE)
    BY <1>1, <1>3 DEF Obeyed
  <2>2. Obeyed(c).enabled = FALSE /\ Obeyed(c).state = comp.state
    BY <2>1, <1>0, Zenon
  <2>3. Obeyed(c) = C(Obeyed(c).state, Obeyed(c).enabled)
    BY <2>1, <2>2, Zenon
  <2> QED
    BY <1>3, <2>2, <2>3 DEF Control
<1>4. CASE c = "flush"
  <2>1. Obeyed(c) = C(comp.state, comp.enabled)
    BY <1>1, <1>4 DEF Obeyed
  <2> QED
    BY <1>4, <2>1 DEF Control
<1>5. CASE c = "idle"
  <2>1. Obeyed(c) = C("idle", comp.enabled)
    BY <1>1, <1>5 DEF Obeyed
  <2> QED
    BY <1>5, <2>1 DEF Control
<1>6. CASE c = "loaded"
  <2>1. Obeyed(c) = C(IF comp.state = "idle" THEN "loaded" ELSE comp.state, comp.enabled)
    BY <1>1, <1>6 DEF Obeyed
  <2> QED
    BY <1>6, <2>1 DEF Control
<1>7. CASE c = "executing"
  <2>1. Obeyed(c) = C(IF comp.state = "idle" THEN "executing" ELSE comp.state, comp.enabled)
    BY <1>1, <1>7 DEF Obeyed
  <2> QED
    BY <1>7, <2>1 DEF Control
<1> QED
  BY <1>2, <1>3, <1>4, <1>5, <1>6, <1>7 DEF Commands

\* Initially the component is loaded and closed.
LEMMA ControlInit == Init => Control
<1> SUFFICES ASSUME Init PROVE Control
  OBVIOUS
<1>1. comp \in [state : {"loaded"}, enabled : BOOLEAN, width : {0}] /\ commands \in Seq(Commands)
  BY DEF Init
<1> QED
  BY <1>1 DEF Init, Control, Pcs

\* Each step keeps Control.
LEMMA ControlStep == Control /\ [Next]_vars => Control'
<1> SUFFICES ASSUME Control, [Next]_vars PROVE Control'
  OBVIOUS
<1> USE DEF Control, Step, Pcs, client, component
<1>1. CASE Enable
  BY <1>1 DEF Enable
<1>2. CASE Reopen
  <2>1. <<"flush", "idle", "disable">> \in Seq(Commands)
    BY DEF Commands
  <2>2. commands' \in Seq(Commands)
    BY <1>2, <2>1, ConcatProperties DEF Reopen, Tell
  <2> QED
    BY <1>2, <2>2 DEF Reopen
<1>3. CASE Free
  <2>1. <<"loaded">> \in Seq(Commands)
    BY DEF Commands
  <2>2. commands' \in Seq(Commands)
    BY <1>3, <2>1, ConcatProperties DEF Free, Tell
  <2> QED
    BY <1>3, <2>2 DEF Free
<1>4. CASE Config
  BY <1>4, FailsFacts DEF Config
<1>5. CASE OpenPort
  <2>1. EnablePort \in Seq(Commands)
    <3>1. <<"enable">> \in Seq(Commands)
      BY DEF Commands
    <3> QED
      BY <3>1 DEF EnablePort
  <2>2. commands' \in Seq(Commands)
    BY <1>5, <2>1, ConcatProperties DEF OpenPort, Tell
  <2> QED
    BY <1>5, <2>2 DEF OpenPort
<1>6. CASE SetPort
  BY <1>6, FailsFacts DEF SetPort
<1>7. CASE WaitPort
  BY <1>7 DEF WaitPort
<1>8. CASE Check
  BY <1>8 DEF Check
<1>9. CASE Idle
  <2>1. <<"idle">> \in Seq(Commands)
    BY DEF Commands
  <2>2. commands' \in Seq(Commands)
    BY <1>9, <2>1, ConcatProperties DEF Idle, Tell
  <2> QED
    BY <1>9, <2>2 DEF Idle
<1>10. CASE Allocate
  BY <1>10, FailsFacts DEF Allocate
<1>11. CASE Execute
  <2>1. <<"executing">> \in Seq(Commands)
    BY DEF Commands
  <2>2. commands' \in Seq(Commands)
    BY <1>11, <2>1, ConcatProperties DEF Execute, Tell
  <2> QED
    BY <1>11, <2>2 DEF Execute
<1>12. CASE WaitState
  BY <1>12 DEF WaitState
<1>13. CASE Exit
  BY <1>13 DEF Exit
<1>14. CASE Input
  BY <1>14 DEF Input
<1>15. CASE Flush
  BY <1>15 DEF Flush
<1>16. CASE Disable
  BY <1>16 DEF Disable
<1>17. CASE Obey
  <2>1. Head(commands) \in Commands /\ Tail(commands) \in Seq(Commands)
    BY <1>17, HeadTailProperties DEF Obey, Busy
  <2> QED
    BY <1>17, <2>1, ObeyedFacts DEF Obey
<1>18. CASE UNCHANGED vars
  BY <1>18 DEF vars
<1> QED
  BY <1>1, <1>2, <1>3, <1>4, <1>5, <1>6, <1>7, <1>8, <1>9, <1>10, <1>11, <1>12,
     <1>13, <1>14, <1>15, <1>16, <1>17, <1>18 DEF Next, Opening

-----------------------------------------------------------------------------
(* The ring and the buffers of the component.                               *)

Slots == 1..NBuf

\* The first k slots hold the buffers there are.
Filled(k) ==
  /\ st.num = NBuf /\ st.buffers \in [Slots -> Ids \cup {Unset}]
  /\ \A i \in Slots : st.buffers[i] # Unset <=> i <= k
  /\ \A i, j \in 1..k : st.buffers[i] = st.buffers[j] => i = j
  /\ {b.id : b \in live} = {st.buffers[i] : i \in 1..k}
  /\ IsFiniteSet(live) /\ Cardinality(live) = k

NoRing == st.num = 0 /\ st.buffers = NULL /\ live = {}

RingInv ==
  /\ NoRing \/ \E k \in 0..NBuf : Filled(k)
  /\ st = [buffers |-> st.buffers, num |-> st.num, current |-> st.current]
  /\ st.current \in 0..NBuf - 1
  /\ pc = "alloc" => \E k \in 0..NBuf - 1 : Filled(k)
  /\ pc = "filled" => st.num = NBuf

\* A full ring is not the pointer that was never set.
LEMMA FilledFacts ==
  ASSUME NEW k \in 0..NBuf, Filled(k)
  PROVE  /\ st.buffers # NULL /\ st.buffers \in Seq(Ids \cup {Unset}) /\ Len(st.buffers) = NBuf
         /\ \A i \in 1..k : st.buffers[i] \in Ids
         /\ \A b \in live : \E i \in 1..k : st.buffers[i] = b.id
         /\ \A i \in 1..k : \E b \in live : st.buffers[i] = b.id
<1>1. st.buffers \in Seq(Ids \cup {Unset})
  BY OmxAssumption, SeqDef DEF Filled, Slots
<1>2. Len(st.buffers) = NBuf
  <2>1. 1..Len(st.buffers) = 1..NBuf /\ Len(st.buffers) \in Nat
    BY <1>1, LenProperties DEF Filled, Slots
  <2> QED
    BY <2>1, OmxAssumption
<1>3. st.buffers # NULL
  BY <1>2, EmptySeq, OmxAssumption DEF NULL
<1>4. \A i \in 1..k : st.buffers[i] \in Ids
  BY OmxAssumption DEF Filled, Slots
<1>5. \A b \in live : \E i \in 1..k : st.buffers[i] = b.id
  <2> TAKE b \in live
  <2>1. b.id \in {st.buffers[i] : i \in 1..k}
    BY DEF Filled
  <2> QED
    BY <2>1
<1>6. \A i \in 1..k : \E b \in live : st.buffers[i] = b.id
  <2> TAKE i \in 1..k
  <2>1. st.buffers[i] \in {b.id : b \in live}
    BY DEF Filled
  <2> QED
    BY <2>1
<1> QED
  BY <1>1, <1>2, <1>3, <1>4, <1>5, <1>6

\* While a slot is empty there is a buffer the component has not given yet: with
\* fewer than NBuf slots set, not all of the NBuf identifiers are taken.
LEMMA FreeId ==
  ASSUME NEW k \in 0..NBuf - 1, Filled(k)
  PROVE  \E n \in Ids : \A b \in live : b.id # n
<1> SUFFICES ASSUME \A n \in Ids : \E b \in live : b.id = n PROVE FALSE
  OBVIOUS
<1> USE OmxAssumption
<1>1. k \in 0..NBuf
  OBVIOUS
<1> DEFINE f == [i \in 1..k |-> st.buffers[i]]
<1>2. f \in Surjection(1..k, Ids)
  <2>0. /\ \A i \in 1..k : st.buffers[i] \in Ids
        /\ \A b \in live : \E i \in 1..k : st.buffers[i] = b.id
    BY <1>1, FilledFacts
  <2>1. f \in [1..k -> Ids]
    BY <2>0
  <2>2. \A n \in Ids : \E i \in 1..k : f[i] = n
    <3> TAKE n \in Ids
    <3>1. PICK b \in live : b.id = n
      OBVIOUS
    <3>2. PICK i \in 1..k : st.buffers[i] = n
      BY <2>0, <3>1
    <3> QED
      BY <3>2
  <2> HIDE DEF f
  <2> QED
    BY <2>1, <2>2, Fun_IsSurj
<1> HIDE DEF f
<1>3. IsFiniteSet(1..k) /\ Cardinality(1..k) = k
  BY FS_Interval
<1>4. Cardinality(Ids) <= k
  BY <1>2, <1>3, FS_Surjection
<1>5. Cardinality(Ids) = NBuf
  BY FS_Interval DEF Ids
<1> QED
  BY <1>4, <1>5

\* The slot and the identifier Allocate takes, and what comes of them.
LEMMA AllocateFills ==
  ASSUME NEW k \in 0..NBuf - 1, Filled(k), Control, Allocate,
         st = [buffers |-> st.buffers, num |-> st.num, current |-> st.current]
  PROVE  \/ /\ UNCHANGED <<st, live>> /\ pc' = "exit" /\ err' = TRUE
            /\ "alloc" \in faults
         \/ /\ Filled(k + 1)' /\ err' = FALSE
            /\ \A b \in live' : b \in live \/ b.size = portdef.width
            /\ st' = [buffers |-> st'.buffers, num |-> st.num, current |-> st.current]
            /\ pc' = IF k + 1 = NBuf THEN "execute" ELSE "alloc"
<1> USE OmxAssumption
<1> DEFINE i == CHOOSE m \in 1..NBuf : /\ st.buffers[m] = Unset
                                       /\ \A j \in 1..m - 1 : st.buffers[j] # Unset
           id == CHOOSE n \in Ids : \A b \in live : b.id # n
<1>1. i = k + 1
  <2>1. st.buffers[k + 1] = Unset /\ \A j \in 1..k : st.buffers[j] # Unset
    BY DEF Filled, Slots
  <2>2. \E m \in 1..NBuf : st.buffers[m] = Unset /\ \A j \in 1..m - 1 : st.buffers[j] # Unset
    BY <2>1
  <2>3. i \in 1..NBuf /\ st.buffers[i] = Unset /\ \A j \in 1..i - 1 : st.buffers[j] # Unset
    BY <2>2
  <2> HIDE DEF i
  <2>4. ~(i < k + 1)
    BY <2>1, <2>3
  <2>5. ~(k + 1 < i)
    BY <2>1, <2>3
  <2> QED
    BY <2>3, <2>4, <2>5
<1>2. id \in Ids /\ \A b \in live : b.id # id
  BY FreeId
<1>3. PICK failed \in Fails("alloc") :
        /\ Step("alloc", IF failed THEN "exit" ELSE IF i = NBuf THEN "execute" ELSE "alloc")
        /\ err' = failed
        /\ IF failed THEN UNCHANGED <<st, live>>
           ELSE /\ st' = [st EXCEPT !.buffers[i] = id]
                /\ live' = live \cup {Header(id, portdef.width)}
  BY DEF Allocate
<1> HIDE DEF i, id
<1>4. CASE failed
  BY <1>3, <1>4, FailsFacts DEF Step
<1>5. CASE ~failed
  <2>1. live' = live \cup {Header(id, portdef.width)}
    BY <1>3, <1>5
  <2>2. /\ st' = [buffers |-> [st.buffers EXCEPT ![k + 1] = id], num |-> st.num,
                  current |-> st.current]
    BY <1>1, <1>3, <1>5
  <2>3. st'.buffers = [st.buffers EXCEPT ![k + 1] = id] /\ st'.num = st.num
    BY <2>2
  <2>4. id # Unset /\ id \in Ids \cup {Unset}
    BY <1>2 DEF Ids, Unset
  <2>5. \A j \in Slots : st'.buffers[j] = IF j = k + 1 THEN id ELSE st.buffers[j]
    BY <2>3 DEF Filled
  <2>6. st'.buffers \in [Slots -> Ids \cup {Unset}]
    BY <2>3, <2>4 DEF Filled
  <2>7. \A j \in Slots : st'.buffers[j] # Unset <=> j <= k + 1
    BY <2>4, <2>5 DEF Filled, Slots
  <2>8. \A j \in 1..k : st.buffers[j] # id
    <3>1. k \in 0..NBuf
      OBVIOUS
    <3> QED
      BY <1>2, <3>1, FilledFacts
  <2>9. \A j, m \in 1..k + 1 : st'.buffers[j] = st'.buffers[m] => j = m
    BY <2>5, <2>8 DEF Filled, Slots
  <2>10. {b.id : b \in live'} = {st'.buffers[j] : j \in 1..k + 1}
    <3>1. {b.id : b \in live'} = {b.id : b \in live} \cup {id}
      <4> DEFINE h == Header(id, portdef.width)
      <4>1. h.id = id
        BY DEF Header
      <4>2. live' = live \cup {h}
        BY <2>1
      <4> HIDE DEF h
      <4> QED
        BY <4>1, <4>2
    <3>2. {st'.buffers[j] : j \in 1..k + 1} = {st.buffers[j] : j \in 1..k} \cup {id}
      BY <2>5 DEF Slots
    <3> QED
      BY <3>1, <3>2 DEF Filled
  <2>11. IsFiniteSet(live') /\ Cardinality(live') = k + 1
    <3>1. Header(id, portdef.width) \notin live
      BY <1>2 DEF Header
    <3> QED
      BY <2>1, <3>1, FS_AddElement DEF Filled
  <2>12. Filled(k + 1)'
    BY <2>3, <2>6, <2>7, <2>9, <2>10, <2>11 DEF Filled
  <2>13. \A b \in live' : b \in live \/ b.size = portdef.width
    BY <2>1 DEF Header
  <2>14. pc' = IF k + 1 = NBuf THEN "execute" ELSE "alloc"
    BY <1>1, <1>3, <1>5 DEF Step
  <2>15. err' = FALSE
    BY <1>3, <1>5, FailsFacts
  <2> QED
    BY <2>2, <2>3, <2>12, <2>13, <2>14, <2>15
<1> QED
  BY <1>4, <1>5

\* Initially there is no ring.
LEMMA RingInit == Init => RingInv
<1> SUFFICES ASSUME Init PROVE RingInv
  OBVIOUS
<1>1. st = [buffers |-> NULL, num |-> 0, current |-> 0] /\ live = {} /\ pc = "closed"
  BY DEF Init
<1> QED
  BY <1>1, OmxAssumption DEF RingInv, NoRing

\* A step that leaves the ring and the buffers alone.
LEMMA RingKept ==
  ASSUME RingInv, UNCHANGED <<st, live>>,
         pc' = "alloc" => pc = "alloc", pc' = "filled" => st.num = NBuf
  PROVE  RingInv'
<1>1. NoRing' <=> NoRing
  BY DEF NoRing
<1>2. \A k : Filled(k)' <=> Filled(k)
  BY DEF Filled
<1> QED
  BY <1>1, <1>2 DEF RingInv

\* The buffers of a ring are all the component has: freeing those leaves none.
LEMMA FreedIsEmpty == ASSUME RingInv PROVE FreedAll = {}
<1> SUFFICES ASSUME NEW b \in live PROVE \E i \in 1..Len(st.buffers) : st.buffers[i] = b.id
  BY DEF FreedAll
<1>1. PICK k \in 0..NBuf : Filled(k)
  BY DEF RingInv, NoRing
<1> QED
  BY <1>1, FilledFacts, OmxAssumption

\* Each step keeps what is in the ring the same as what the component has given.
LEMMA RingStep == RingInv /\ Control /\ [Next]_vars => RingInv'
<1> SUFFICES ASSUME RingInv, Control, [Next]_vars PROVE RingInv'
  OBVIOUS
<1> USE DEF Step, client, component
<1>1. CASE Enable
  BY <1>1, RingKept DEF Enable
<1>2. CASE Reopen
  BY <1>2, RingKept DEF Reopen
<1>3. CASE Free
  <2>1. CASE st.buffers = NULL
    BY <1>3, <2>1, RingKept DEF Free
  <2>2. CASE st.buffers # NULL
    <3>1. live' = {} /\ st' = [buffers |-> NULL, num |-> 0, current |-> 0]
      BY <1>3, <2>2, FreedIsEmpty DEF Free, Released
    <3>2. pc' \in {"lost", "config"}
      BY <1>3 DEF Free
    <3> QED
      BY <3>1, <3>2, OmxAssumption DEF RingInv, NoRing
  <2> QED
    BY <2>1, <2>2
<1>4. CASE Config
  BY <1>4, RingKept DEF Config
<1>5. CASE OpenPort
  BY <1>5, RingKept DEF OpenPort
<1>6. CASE SetPort
  BY <1>6, RingKept DEF SetPort
<1>7. CASE WaitPort
  BY <1>7, RingKept DEF WaitPort
<1>8. CASE Check
  BY <1>8, RingKept DEF Check
<1>9. CASE Idle
  <2>1. CASE st.buffers # NULL
    BY <1>9, <2>1, RingKept DEF Idle
  <2>2. CASE st.buffers = NULL
    <3>1. /\ st' = [buffers |-> [i \in 1..NBuf |-> Unset], num |-> NBuf, current |-> 0]
          /\ live' = live /\ pc' = "alloc"
      BY <1>9, <2>2 DEF Idle
    <3>2. live = {}
      BY <2>2, FilledFacts DEF RingInv, NoRing
    <3>3. Filled(0)'
      <4>1. /\ st'.num = NBuf /\ st'.buffers \in [Slots -> Ids \cup {Unset}]
            /\ \A i \in Slots : st'.buffers[i] = Unset
        BY <3>1 DEF Slots
      <4>2. IsFiniteSet(live') /\ Cardinality(live') = 0
        BY <3>1, <3>2, FS_EmptySet
      <4>3. {b.id : b \in live'} = {st'.buffers[i] : i \in 1..0}
        BY <3>1, <3>2
      <4>4. \A i \in Slots : ~(i <= 0)
        BY DEF Slots
      <4> QED
        BY <4>1, <4>2, <4>3, <4>4 DEF Filled
    <3>4. 0 \in 0..NBuf - 1 /\ 0 \in 0..NBuf
      BY OmxAssumption
    <3> QED
      BY <3>1, <3>3, <3>4 DEF RingInv
  <2> QED
    BY <2>1, <2>2
<1>10. CASE Allocate
  <2>1. PICK k \in 0..NBuf - 1 : Filled(k)
    BY <1>10 DEF Allocate, RingInv
  <2>2. st = [buffers |-> st.buffers, num |-> st.num, current |-> st.current]
    BY DEF RingInv
  <2>3. CASE UNCHANGED <<st, live>> /\ pc' = "exit"
    BY <2>3, RingKept
  <2>4. CASE /\ Filled(k + 1)' /\ pc' = IF k + 1 = NBuf THEN "execute" ELSE "alloc"
             /\ st' = [buffers |-> st'.buffers, num |-> st.num, current |-> st.current]
    <3>1. k + 1 \in 0..NBuf /\ (k + 1 # NBuf => k + 1 \in 0..NBuf - 1)
      BY OmxAssumption
    <3>2. st'.current = st.current /\ st'.num = st.num
      BY <2>4
    <3> QED
      BY <2>4, <3>1, <3>2 DEF RingInv
  <2> QED
    BY <1>10, <2>1, <2>2, <2>3, <2>4, AllocateFills
<1>11. CASE Execute
  BY <1>11, RingKept DEF Execute
<1>12. CASE WaitState
  BY <1>12, RingKept DEF WaitState
<1>13. CASE Exit
  BY <1>13, RingKept DEF Exit
<1>14. CASE Input
  <2>1. pc' = "filled" => st.num = NBuf
    BY <1>14 DEF Input, NoBuffer, RingInv, NoRing, Filled
  <2> QED
    BY <1>14, <2>1, RingKept DEF Input
<1>15. CASE Flush
  <2>1. st.num = NBuf
    BY <1>15 DEF Flush, RingInv
  <2>2. st' = [buffers |-> st.buffers, num |-> st.num, current |-> NextBuffer]
    BY <1>15 DEF Flush, RingInv
  <2>3. NextBuffer \in 0..NBuf - 1
    BY <2>1, OmxAssumption DEF NextBuffer, RingInv
  <2>4. PICK k \in 0..NBuf : Filled(k)
    BY <2>1, OmxAssumption DEF RingInv, NoRing
  <2>5. Filled(k)'
    <3>1. st'.buffers = st.buffers /\ st'.num = st.num /\ live' = live
      BY <1>15, <2>2 DEF Flush
    <3>2. {st'.buffers[i] : i \in 1..k} = {st.buffers[i] : i \in 1..k}
      BY <3>1
    <3> QED
      BY <2>4, <3>1, <3>2 DEF Filled
  <2> QED
    BY <1>15, <2>1, <2>2, <2>3, <2>5 DEF Flush, RingInv
<1>16. CASE Disable
  BY <1>16, RingKept DEF Disable
<1>17. CASE Obey
  BY <1>17, RingKept DEF Obey, RingInv
<1>18. CASE UNCHANGED vars
  BY <1>18, RingKept DEF vars, RingInv
<1> QED
  BY <1>1, <1>2, <1>3, <1>4, <1>5, <1>6, <1>7, <1>8, <1>9, <1>10, <1>11, <1>12,
     <1>13, <1>14, <1>15, <1>16, <1>17, <1>18 DEF Next, Opening

\* The ring is whole, always.
LEMMA RingHolds == Spec => [](Control /\ RingInv)
BY ControlInit, ControlStep, RingInit, RingStep, PTL DEF Spec

\* The ring has all its slots once it is there, and its cursor never leaves it
\* (omx.c: current_buffer wraps at num_buffers).
THEOREM TypeCorrect == Spec => []TypeOK
<1>1. Control /\ RingInv => TypeOK
  <2> SUFFICES ASSUME Control, RingInv PROVE TypeOK
    OBVIOUS
  <2>1. CASE NoRing
    BY <2>1, EmptySeq DEF NoRing, NULL, TypeOK, Control, RingInv
  <2>2. CASE ~NoRing
    <3>1. PICK k \in 0..NBuf : Filled(k)
      BY <2>2 DEF RingInv
    <3>2. Len(st.buffers) = NBuf /\ st.num = NBuf
      BY <3>1, FilledFacts DEF Filled
    <3> QED
      BY <3>1, <3>2 DEF TypeOK, Control, RingInv, Filled, Slots
  <2> QED
    BY <2>1, <2>2
<1> QED
  BY <1>1, RingHolds, PTL

\* Over any number of sessions, refused or not, omx_display_enable neither
\* forgets a buffer of the component nor keeps one that was freed.
THEOREM NoBufferLostHolds == Spec => []NoBufferLost
<1>1. RingInv => NoBufferLost
  <2> SUFFICES ASSUME RingInv PROVE NoBufferLost
    OBVIOUS
  <2>1. CASE NoRing
    BY <2>1 DEF NoRing, NoBufferLost
  <2>2. CASE ~NoRing
    <3>1. PICK k \in 0..NBuf : Filled(k)
      BY <2>2 DEF RingInv
    <3>2. {st.buffers[i] : i \in 1..st.num} \ {Unset} = {st.buffers[i] : i \in 1..k}
      BY <3>1, OmxAssumption DEF Filled, Slots
    <3> QED
      BY <3>1, <3>2 DEF Filled, NoBufferLost
  <2> QED
    BY <2>1, <2>2
<1> QED
  BY <1>1, RingHolds, PTL

-----------------------------------------------------------------------------
(* The commands that are on their way, where no allocation fails and no     *)
(* wait is too short.                                                       *)

Sound == faults \cap {"alloc", "timeout"} = {}

Follows(c, d) ==
  /\ c = "flush" => d = "idle"
  /\ c = "idle" => d = "disable"
  /\ c = "disable" => d = "loaded"
  /\ c = "loaded" => d \in {"flush", "enable"}
  /\ c = "enable" => d = "enable"

\* commands[1..n] all enable the port.
Enabling(n) == \A i \in 1..n : commands[i] = "enable"

EnablesNothing == \A i \in 1..Len(commands) : commands[i] # "enable"

\* What the component still has to do to unload, once or several times, and
\* to enable its port after that; and how far it has got.
Leaving ==
  /\ \A i \in 1..Len(commands) : commands[i] # "executing"
  /\ \A i \in 1..Len(commands) - 1 : Follows(commands[i], commands[i + 1])
  /\ \A i, j \in 1..Len(commands) : i < j /\ commands[i] = "enable" => commands[j] = "enable"
  /\ comp.state = "executing" => comp.enabled /\ EnablesNothing
  /\ Len(commands) > 0 =>
       /\ commands[1] \in {"flush", "idle"} =>
            comp.state = IF comp.enabled THEN "executing" ELSE "loaded"
       /\ commands[1] \in {"disable", "loaded"} => comp.state = "idle"
       /\ commands[1] = "loaded" => ~comp.enabled
       /\ commands[1] = "enable" => comp.state = "loaded"

\* In the end the component is unloaded.
Unloading ==
  /\ Leaving
  /\ IF Len(commands) = 0 THEN comp.state = "loaded"
                          ELSE commands[Len(commands)] \in {"loaded", "enable"}

\* It still has to be told to free its buffers.
Releasing ==
  /\ Leaving /\ EnablesNothing
  /\ IF Len(commands) = 0 THEN comp.state = "idle" /\ ~comp.enabled
                          ELSE commands[Len(commands)] = "disable"

\* There is no ring, and in the end the component is unloaded.
Unloaded == NoRing /\ Unloading

\* The component plays from a full ring and nothing is on its way.
Playing ==
  comp.state = "executing" /\ comp.enabled /\ Len(commands) = 0 /\ Filled(NBuf)

Fitting == \A b \in live : b.size = AlignUp(width)

Loaded == comp.state = "loaded" /\ comp.enabled

ToIdle ==
  /\ Loaded /\ Len(commands) > 0 /\ commands[Len(commands)] = "idle"
  /\ Enabling(Len(commands) - 1)

ToExecuting ==
  /\ Loaded /\ Len(commands) > 1 /\ commands[Len(commands)] = "executing"
  /\ commands[Len(commands) - 1] = "idle" /\ Enabling(Len(commands) - 2)

IsIdle == ToIdle \/ (comp.state = "idle" /\ comp.enabled /\ Len(commands) = 0)

IsExecuting ==
  \/ ToExecuting
  \/ /\ comp.state = "idle" /\ comp.enabled
     /\ Len(commands) = 1 /\ commands[1] = "executing"
  \/ comp.state = "executing" /\ comp.enabled /\ Len(commands) = 0

Attempting ==
  {"reopen", "free", "config", "port", "set", "wait_port", "check", "idle", "alloc",
   "execute", "wait_state"}

\* What is so at each place.
CommandInv ==
  /\ pc \in {"closed", "open", "filled"} =>
       IF opened THEN Playing /\ Fitting ELSE Unloaded
  /\ pc = "exit" => IF err THEN Unloaded ELSE Playing /\ Fitting
  /\ pc = "lost" => ~opened
  /\ pc = "reopen" =>
       Playing \/ (Unloaded /\ EnablesNothing /\ (Len(commands) = 0 => ~comp.enabled))
  /\ pc = "free" => (NoRing \/ Filled(NBuf)) /\ Releasing
  /\ pc \in {"config", "port", "set", "wait_port", "check"} => Unloaded
  /\ pc = "port" => portdef.enabled \/ comp.state # "executing"
  /\ pc \in {"wait_port", "check"} =>
       /\ comp.width = AlignUp(width)
       /\ comp.enabled => Loaded /\ Enabling(Len(commands))
  /\ pc = "idle" => NoRing /\ Loaded /\ Enabling(Len(commands))
  /\ pc = "alloc" => ToIdle
  /\ pc = "execute" => Filled(NBuf) /\ IsIdle
  /\ pc = "wait_state" => Filled(NBuf) /\ IsExecuting
  /\ pc \in {"idle", "alloc", "execute", "wait_state"} =>
       width = AlignUp(width) /\ portdef.width = width /\ Fitting
  /\ pc \in Attempting => err = FALSE

\* With a component that is never late and refuses nothing.
PromptInv ==
  /\ pc = "port" => Len(commands) = 0 /\ (portdef.enabled <=> comp.enabled)
  /\ pc = "set" => comp.enabled \/ (Len(commands) = 1 /\ commands[1] = "enable")
  /\ pc \in {"set", "wait_port", "check"} => comp.state = "loaded"
  /\ pc \in {"wait_port", "check"} => comp.enabled
  /\ pc = "exit" => (err <=> width # AlignUp(width))
  /\ pc \in {"open", "filled"} => (opened <=> width = AlignUp(width))

\* What telling the component cs adds to what it has to do.
LEMMA TellFacts ==
  ASSUME Control, NEW cs \in Seq(Commands), Tell(cs)
  PROVE  /\ Len(commands) \in Nat /\ Len(cs) \in Nat
         /\ Len(commands') = Len(commands) + Len(cs)
         /\ \A i \in 1..Len(commands) : commands'[i] = commands[i]
         /\ \A i \in 1..Len(cs) : commands'[Len(commands) + i] = cs[i]
<1>1. commands \in Seq(Commands) /\ commands' = commands \o cs
  BY DEF Control, Tell
<1>2. Len(commands) \in Nat /\ Len(cs) \in Nat
  BY <1>1, LenProperties
<1> QED
  BY <1>1, <1>2, ConcatProperties

\* One command done: what it was, what it did, and what is left.
LEMMA ObeyFacts ==
  ASSUME Control, Obey
  PROVE  /\ Len(commands) \in Nat /\ Len(commands) > 0
         /\ Len(commands') = Len(commands) - 1
         /\ \A i \in 1..Len(commands) - 1 : commands'[i] = commands[i + 1]
         /\ commands[1] \in Commands
         /\ comp'.enabled <=> commands[1] = "enable" \/ (commands[1] # "disable" /\ comp.enabled)
         /\ commands[1] \in {"enable", "disable", "flush"} => comp'.state = comp.state
         /\ commands[1] = "idle" => comp'.state = "idle"
         /\ commands[1] = "loaded" /\ comp.state = "idle" => comp'.state = "loaded"
         /\ commands[1] = "executing" /\ comp.state = "idle" => comp'.state = "executing"
         /\ comp'.width = comp.width
         /\ commands[1] = "idle" /\ Loaded => Cardinality(live) = NBuf
         /\ UNCHANGED <<client, live, faults>>
<1>1. commands \in Seq(Commands) /\ commands # << >>
  BY DEF Control, Obey, Busy
<1>2. Head(commands) = commands[1] /\ Head(commands) \in Commands
  BY <1>1, HeadTailProperties
<1>3. /\ Len(commands) \in Nat /\ Len(commands) > 0
      /\ Len(commands') = Len(commands) - 1
      /\ \A i \in 1..Len(commands) - 1 : commands'[i] = commands[i + 1]
  BY <1>1, HeadTailProperties, EmptySeq, LenProperties DEF Obey
<1>4. comp' = Obeyed(commands[1]) /\ Obeyable(commands[1])
  BY <1>2 DEF Obey, Busy
<1>5. comp'.width = comp.width
  BY <1>2, <1>4, ObeyedFacts
<1>6. commands[1] = "idle" /\ Loaded => Cardinality(live) = NBuf
  BY <1>4 DEF Obeyable, Loaded
<1> QED
  BY <1>2, <1>3, <1>4, <1>5, <1>6, ObeyedFacts DEF Obey

\* A component that is not busy has done everything, or waits for the client.
LEMMA IdleFacts ==
  ASSUME Control, ~Busy
  PROVE  \/ Len(commands) = 0
         \/ commands[1] = "idle" /\ Loaded /\ Cardinality(live) # NBuf
         \/ commands[1] = "loaded" /\ live # {}
<1>1. commands \in Seq(Commands)
  BY DEF Control
<1>2. CASE commands = << >>
  BY <1>2
<1>3. CASE commands # << >>
  <2>1. Head(commands) = commands[1]
    BY <1>1, <1>3
  <2>2. ~Obeyable(commands[1])
    BY <1>3, <2>1 DEF Busy
  <2> QED
    BY <2>2 DEF Obeyable, Loaded
<1> QED
  BY <1>2, <1>3

\* The shapes above depend on nothing else.
LEMMA ShapesKept ==
  ASSUME UNCHANGED commands, comp'.state = comp.state, comp'.enabled = comp.enabled
  PROVE  /\ (Leaving <=> Leaving') /\ (Unloading <=> Unloading') /\ (Releasing <=> Releasing')
         /\ (ToIdle <=> ToIdle') /\ (IsIdle <=> IsIdle') /\ (IsExecuting <=> IsExecuting')
         /\ (Loaded <=> Loaded') /\ (EnablesNothing <=> EnablesNothing')
         /\ (Enabling(Len(commands)) <=> Enabling(Len(commands))')
BY DEF Leaving, Unloading, Releasing, ToIdle, ToExecuting, IsIdle, IsExecuting,
       Loaded, EnablesNothing, Enabling

\* Nothing about the ring changes without the ring.
LEMMA RingShapesKept ==
  ASSUME UNCHANGED <<st, live>>
  PROVE  (NoRing <=> NoRing') /\ (Filled(NBuf) <=> Filled(NBuf)')
BY DEF NoRing, Filled

\* A command done leaves the rest in shape.
LEMMA LeavingObeyed ==
  ASSUME Control, Obey, Leaving
  PROVE  /\ Leaving'
         /\ EnablesNothing => EnablesNothing'
         /\ Unloading => Unloading'
         /\ Releasing => Releasing'
<1> DEFINE n == Len(commands)
<1>1. /\ n \in Nat /\ n > 0 /\ Len(commands') = n - 1
      /\ \A i \in 1..n - 1 : commands'[i] = commands[i + 1]
      /\ commands[1] \in Commands
      /\ comp'.enabled <=> commands[1] = "enable" \/ (commands[1] # "disable" /\ comp.enabled)
      /\ commands[1] \in {"enable", "disable", "flush"} => comp'.state = comp.state
      /\ commands[1] = "idle" => comp'.state = "idle"
      /\ commands[1] = "loaded" /\ comp.state = "idle" => comp'.state = "loaded"
  BY ObeyFacts
<1>2. comp.enabled \in BOOLEAN /\ comp.state \in {"loaded", "idle", "executing"}
  BY DEF Control
<1> HIDE DEF n
<1>3. commands[1] # "executing" /\ (n > 1 => Follows(commands[1], commands[2]))
  BY <1>1 DEF Leaving, n
<1>4. \A i \in 1..n - 1 : commands'[i] # "executing"
  BY <1>1 DEF Leaving, n
<1>5. \A i \in 1..n - 2 : Follows(commands'[i], commands'[i + 1])
  <2> TAKE i \in 1..n - 2
  <2>1. commands'[i] = commands[i + 1] /\ commands'[i + 1] = commands[(i + 1) + 1]
    BY <1>1
  <2>2. Follows(commands[i + 1], commands[(i + 1) + 1])
    BY <1>1 DEF Leaving, n
  <2> QED
    BY <2>1, <2>2
<1>6. \A i, j \in 1..n - 1 :
        i < j /\ commands'[i] = "enable" => commands'[j] = "enable"
  <2> TAKE i, j \in 1..n - 1
  <2>1. commands'[i] = commands[i + 1] /\ commands'[j] = commands[j + 1]
    BY <1>1
  <2>2. i + 1 \in 1..n /\ j + 1 \in 1..n /\ (i < j => i + 1 < j + 1)
    BY <1>1
  <2> QED
    BY <2>1, <2>2 DEF Leaving, n
<1>7. EnablesNothing => EnablesNothing'
  BY <1>1 DEF EnablesNothing, n
<1>8. comp'.state = "executing" => comp'.enabled /\ EnablesNothing'
  <2>1. comp'.state = "executing" => comp.state = "executing" /\ commands[1] = "flush"
    <3>1. commands[1] \in {"disable", "loaded"} => comp.state = "idle"
      BY <1>1 DEF Leaving, n
    <3>2. commands[1] = "enable" => comp.state = "loaded"
      BY <1>1 DEF Leaving, n
    <3> QED
      BY <1>1, <1>2, <1>3, <3>1, <3>2 DEF Commands
  <2> QED
    BY <1>1, <1>7, <2>1 DEF Leaving
<1>9. n > 1 =>
       /\ commands[2] \in {"flush", "idle"} =>
            comp'.state = IF comp'.enabled THEN "executing" ELSE "loaded"
       /\ commands[2] \in {"disable", "loaded"} => comp'.state = "idle"
       /\ commands[2] = "loaded" => ~comp'.enabled
       /\ commands[2] = "enable" => comp'.state = "loaded"
  BY <1>1, <1>2, <1>3 DEF Leaving, Follows, n, Commands
<1>10. n > 1 => commands'[1] = commands[2]
  BY <1>1
<1>11. Leaving'
  BY <1>1, <1>4, <1>5, <1>6, <1>8, <1>9, <1>10 DEF Leaving
<1>12. n > 1 => commands'[n - 1] = commands[n]
  BY <1>1
<1>13. Unloading => Unloading'
  <2> SUFFICES ASSUME Unloading PROVE Unloading'
    OBVIOUS
  <2>1. commands[n] \in {"loaded", "enable"}
    BY <1>1 DEF Unloading, n
  <2>2. CASE n > 1
    BY <1>1, <1>11, <1>12, <2>1, <2>2 DEF Unloading
  <2>3. CASE n = 1
    <3>1. commands[1] \in {"loaded", "enable"}
      BY <2>1, <2>3
    <3>2. comp'.state = "loaded"
      BY <1>1, <3>1 DEF Leaving, n
    <3> QED
      BY <1>1, <1>11, <2>3, <3>2 DEF Unloading
  <2> QED
    BY <1>1, <2>2, <2>3
<1>14. Releasing => Releasing'
  <2> SUFFICES ASSUME Releasing PROVE Releasing'
    OBVIOUS
  <2>1. commands[n] = "disable" /\ EnablesNothing'
    BY <1>1, <1>7 DEF Releasing, n
  <2>2. CASE n > 1
    BY <1>1, <1>11, <1>12, <2>1, <2>2 DEF Releasing
  <2>3. CASE n = 1
    <3>1. commands[1] = "disable"
      BY <2>1, <2>3
    <3>2. comp'.state = "idle" /\ ~comp'.enabled
      BY <1>1, <3>1 DEF Leaving, n
    <3> QED
      BY <1>1, <1>11, <2>1, <2>3, <3>2 DEF Releasing
  <2> QED
    BY <1>1, <2>2, <2>3
<1> QED
  BY <1>7, <1>11, <1>13, <1>14

\* A command more for the component.
LEMMA TellOne ==
  ASSUME Control, NEW c \in Commands, Tell(<<c>>)
  PROVE  /\ Len(commands) \in Nat /\ Len(commands') = Len(commands) + 1
         /\ \A i \in 1..Len(commands) : commands'[i] = commands[i]
         /\ commands'[Len(commands) + 1] = c
<1> DEFINE cs == <<c>>
<1>1. cs \in Seq(Commands) /\ Len(cs) = 1 /\ cs[1] = c
  OBVIOUS
<1>2. Tell(cs)
  OBVIOUS
<1> HIDE DEF cs
<1>3. \A i \in 1..Len(cs) : commands'[Len(commands) + i] = cs[i]
  BY <1>1, <1>2, TellFacts
<1>4. commands'[Len(commands) + 1] = c
  BY <1>1, <1>3
<1>5. /\ Len(commands) \in Nat /\ Len(commands') = Len(commands) + Len(cs)
      /\ \A i \in 1..Len(commands) : commands'[i] = commands[i]
  BY <1>1, <1>2, TellFacts
<1> QED
  BY <1>1, <1>4, <1>5

\* A flush, the way to Idle and a closed port on top of the rest.
LEMMA ReopenTold ==
  ASSUME Control, Reopen, Leaving, EnablesNothing,
         \/ Len(commands) = 0
            /\ comp.state = IF comp.enabled THEN "executing" ELSE "loaded"
         \/ Len(commands) > 0 /\ commands[Len(commands)] = "loaded"
  PROVE  Releasing'
<1> DEFINE n == Len(commands)
           cs == <<"flush", "idle", "disable">>
<1>1. /\ n \in Nat /\ Len(commands') = n + 3
      /\ \A i \in 1..n : commands'[i] = commands[i]
      /\ commands'[n + 1] = "flush" /\ commands'[n + 2] = "idle" /\ commands'[n + 3] = "disable"
      /\ UNCHANGED comp
  <2>1. cs \in Seq(Commands) /\ Len(cs) = 3
    BY DEF Commands
  <2>2. Tell(cs) /\ UNCHANGED comp
    BY DEF Reopen
  <2> HIDE DEF cs
  <2>3. \A i \in 1..Len(cs) : commands'[Len(commands) + i] = cs[i]
    BY <2>1, <2>2, TellFacts
  <2>4. commands'[n + 1] = cs[1] /\ commands'[n + 2] = cs[2] /\ commands'[n + 3] = cs[3]
    BY <2>1, <2>3
  <2> QED
    BY <2>1, <2>2, <2>4, TellFacts DEF cs
<1> HIDE DEF n
<1>2. \A i \in 1..n + 3 : commands'[i] # "executing" /\ commands'[i] # "enable"
  BY <1>1 DEF Leaving, EnablesNothing, n
<1>3. \A i \in 1..n + 2 : Follows(commands'[i], commands'[i + 1])
  <2> TAKE i \in 1..n + 2
  <2>1. CASE i < n
    <3>1. Follows(commands[i], commands[i + 1])
      BY <1>1, <2>1 DEF Leaving, n
    <3> QED
      BY <1>1, <2>1, <3>1
  <2>2. CASE i = n
    BY <1>1, <2>2 DEF n, Follows
  <2>3. CASE i \in {n + 1, n + 2}
    BY <1>1, <2>3 DEF Follows
  <2> QED
    BY <1>1, <2>1, <2>2, <2>3
<1>4. commands'[1] = IF n = 0 THEN "flush" ELSE commands[1]
  BY <1>1
<1>5. Leaving' /\ EnablesNothing'
  BY <1>1, <1>2, <1>3, <1>4 DEF Leaving, EnablesNothing, n
<1> QED
  BY <1>1, <1>5 DEF Releasing

\* The way to Loaded, once the buffers are given back.
LEMMA FreeTold ==
  ASSUME Control, Free, Releasing
  PROVE  Unloading'
<1> DEFINE n == Len(commands)
<1>1. /\ n \in Nat /\ Len(commands') = n + 1
      /\ \A i \in 1..n : commands'[i] = commands[i]
      /\ commands'[n + 1] = "loaded" /\ UNCHANGED comp
  <2>1. "loaded" \in Commands
    BY DEF Commands
  <2> QED
    BY <2>1, TellOne DEF Free
<1> HIDE DEF n
<1>2. \A i \in 1..n + 1 : commands'[i] # "executing" /\ commands'[i] # "enable"
  BY <1>1 DEF Leaving, Releasing, EnablesNothing, n
<1>3. \A i \in 1..n : Follows(commands'[i], commands'[i + 1])
  <2> TAKE i \in 1..n
  <2>1. CASE i < n
    <3>1. Follows(commands[i], commands[i + 1])
      BY <1>1, <2>1 DEF Releasing, Leaving, n
    <3> QED
      BY <1>1, <2>1, <3>1
  <2>2. CASE i = n
    BY <1>1, <2>2 DEF Releasing, n, Follows
  <2> QED
    BY <1>1, <2>1, <2>2
<1>4. commands'[1] = IF n = 0 THEN "loaded" ELSE commands[1]
  BY <1>1
<1>5. Leaving'
  BY <1>1, <1>2, <1>3, <1>4 DEF Releasing, Leaving, EnablesNothing, n
<1> QED
  BY <1>1, <1>5 DEF Unloading

\* The port is only opened where the component no longer plays.
LEMMA PortTold ==
  ASSUME Control, OpenPort, Unloading, portdef.enabled \/ comp.state # "executing"
  PROVE  Unloading'
<1> DEFINE n == Len(commands)
<1>0. commands \in Seq(Commands) /\ n \in Nat
  BY LenProperties DEF Control
<1>1. CASE portdef.enabled
  <2>1. commands' = commands /\ comp' = comp
    BY <1>0, <1>1, ConcatEmptySeq DEF OpenPort, Tell, EnablePort
  <2> QED
    BY <2>1, ShapesKept
<1>2. CASE ~portdef.enabled
  <2>1. /\ Len(commands') = n + 1
        /\ \A i \in 1..n : commands'[i] = commands[i]
        /\ commands'[n + 1] = "enable" /\ UNCHANGED comp
    <3>1. "enable" \in Commands
      BY DEF Commands
    <3>2. Tell(<<"enable">>) /\ UNCHANGED comp
      BY <1>2 DEF OpenPort, EnablePort
    <3> QED
      BY <3>1, <3>2, TellOne
  <2> HIDE DEF n
  <2>2. \A i \in 1..n + 1 : commands'[i] # "executing"
    BY <1>0, <2>1 DEF Leaving, Unloading, n
  <2>3. \A i \in 1..n : Follows(commands'[i], commands'[i + 1])
    <3> TAKE i \in 1..n
    <3>1. CASE i < n
      <4>1. Follows(commands[i], commands[i + 1])
        BY <1>0, <3>1 DEF Unloading, Leaving, n
      <4> QED
        BY <1>0, <2>1, <3>1, <4>1
    <3>2. CASE i = n
      BY <1>0, <2>1, <3>2 DEF Unloading, n, Follows
    <3> QED
      BY <1>0, <3>1, <3>2
  <2>4. commands'[1] = IF n = 0 THEN "enable" ELSE commands[1]
    BY <1>0, <2>1
  <2>5. \A i, j \in 1..n + 1 :
          i < j /\ commands'[i] = "enable" => commands'[j] = "enable"
    <3> TAKE i, j \in 1..n + 1
    <3>1. CASE j = n + 1
      BY <2>1, <3>1
    <3>2. CASE i \in 1..n /\ j \in 1..n
      BY <2>1, <3>2 DEF Unloading, Leaving, n
    <3> QED
      BY <1>0, <3>1, <3>2
  <2>6. Leaving'
    BY <1>0, <1>2, <2>1, <2>2, <2>3, <2>4, <2>5 DEF Unloading, Leaving, n
  <2> QED
    BY <1>0, <2>1, <2>6 DEF Unloading
<1> QED
  BY <1>1, <1>2

\* A port that is open in a component that is unloaded: all that can be on its
\* way is the order to open it, once more.
LEMMA OpenIsLoaded ==
  ASSUME Control, Leaving, comp.enabled, comp.state = "loaded"
  PROVE  Enabling(Len(commands))
<1>1. Len(commands) \in Nat
  BY LenProperties DEF Control
<1>2. Len(commands) > 0 => commands[1] = "enable"
  <2> SUFFICES ASSUME Len(commands) > 0 PROVE commands[1] = "enable"
    OBVIOUS
  <2>1. commands[1] \in Commands
    BY <1>1, ElementOfSeq DEF Control
  <2> QED
    BY <2>1 DEF Leaving, Commands
<1> QED
  BY <1>1, <1>2 DEF Leaving, Enabling

\* The orders of an opening that has got as far as the ring.
LEMMA OpeningTold ==
  ASSUME Control
  PROVE  /\ Loaded /\ Enabling(Len(commands)) /\ Tell(<<"idle">>) /\ UNCHANGED comp => ToIdle'
         /\ IsIdle /\ Tell(<<"executing">>) /\ UNCHANGED comp => IsExecuting'
<1>0. "idle" \in Commands /\ "executing" \in Commands
  BY DEF Commands
<1>1. ASSUME Loaded, Enabling(Len(commands)), Tell(<<"idle">>), UNCHANGED comp
      PROVE  ToIdle'
  <2>1. /\ Len(commands) \in Nat /\ Len(commands') = Len(commands) + 1
        /\ \A i \in 1..Len(commands) : commands'[i] = commands[i]
        /\ commands'[Len(commands) + 1] = "idle"
    BY <1>0, <1>1, TellOne
  <2> QED
    BY <1>1, <2>1 DEF ToIdle, Loaded, Enabling
<1>2. ASSUME IsIdle, Tell(<<"executing">>), UNCHANGED comp
      PROVE  IsExecuting'
  <2>1. /\ Len(commands) \in Nat /\ Len(commands') = Len(commands) + 1
        /\ \A i \in 1..Len(commands) : commands'[i] = commands[i]
        /\ commands'[Len(commands) + 1] = "executing"
    BY <1>0, <1>2, TellOne
  <2>2. CASE ToIdle
    BY <1>2, <2>1, <2>2 DEF IsExecuting, ToIdle, ToExecuting, Loaded, Enabling
  <2>3. CASE comp.state = "idle" /\ comp.enabled /\ Len(commands) = 0
    BY <1>2, <2>1, <2>3 DEF IsExecuting
  <2> QED
    BY <1>2, <2>2, <2>3 DEF IsIdle
<1> QED
  BY <1>1, <1>2

\* And as they are obeyed.
LEMMA OpeningObeyed ==
  ASSUME Control, Obey
  PROVE  /\ Loaded /\ Enabling(Len(commands)) => Loaded' /\ Enabling(Len(commands))'
         /\ ToIdle /\ Cardinality(live) # NBuf => ToIdle'
         /\ IsIdle => IsIdle'
         /\ IsExecuting => IsExecuting'
<1> DEFINE n == Len(commands)
<1>1. /\ n \in Nat /\ n > 0 /\ Len(commands') = n - 1
      /\ \A i \in 1..n - 1 : commands'[i] = commands[i + 1]
      /\ commands[1] \in Commands
      /\ comp'.enabled <=> commands[1] = "enable" \/ (commands[1] # "disable" /\ comp.enabled)
      /\ commands[1] \in {"enable", "disable", "flush"} => comp'.state = comp.state
      /\ commands[1] = "idle" => comp'.state = "idle"
      /\ commands[1] = "executing" /\ comp.state = "idle" => comp'.state = "executing"
      /\ commands[1] = "idle" /\ Loaded => Cardinality(live) = NBuf
  BY ObeyFacts
<1>2. n > 1 => commands'[n - 1] = commands[n]
  BY <1>1
<1>3. n > 2 => commands'[n - 2] = commands[n - 1]
  BY <1>1
<1>4. ASSUME Loaded, Enabling(n) PROVE Loaded' /\ Enabling(Len(commands))'
  BY <1>1, <1>4 DEF Loaded, Enabling
<1>5. ASSUME ToIdle, n > 1 PROVE ToIdle'
  BY <1>1, <1>2, <1>5 DEF ToIdle, Loaded, Enabling
<1>6. ASSUME ToIdle, n = 1
      PROVE  Cardinality(live) = NBuf /\ IsIdle'
  <2>1. commands[1] = "idle" /\ Loaded
    BY <1>6 DEF ToIdle
  <2> QED
    <3>1. Cardinality(live) = NBuf /\ comp'.state = "idle" /\ Len(commands') = 0
      BY <1>1, <1>6, <2>1
    <3>2. comp'.enabled
      BY <1>1, <2>1 DEF Loaded
    <3> QED
      BY <3>1, <3>2 DEF IsIdle
<1>7. ASSUME ToExecuting, n > 2 PROVE ToExecuting'
  <2> HIDE DEF n
  <2>1. /\ commands[n] = "executing" /\ commands[n - 1] = "idle" /\ Loaded
        /\ \A i \in 1..n - 2 : commands[i] = "enable"
    BY <1>7 DEF ToExecuting, Enabling, n
  <2>2. commands[1] = "enable"
    BY <1>1, <1>7, <2>1
  <2>3. Loaded'
    BY <1>1, <2>1, <2>2 DEF Loaded
  <2>4. \A i \in 1..n - 3 : commands'[i] = "enable"
    BY <1>1, <2>1
  <2>5. commands'[n - 1] = "executing" /\ commands'[n - 2] = "idle"
    BY <1>2, <1>3, <1>7, <2>1, <1>1
  <2>6. Len(commands') = n - 1 /\ n - 1 > 1 /\ (n - 1) - 1 = n - 2 /\ (n - 1) - 2 = n - 3
    BY <1>1, <1>7
  <2> QED
    BY <2>3, <2>4, <2>5, <2>6 DEF ToExecuting, Enabling
<1>8. ASSUME ToExecuting, n = 2 PROVE IsExecuting'
  BY <1>1, <1>8 DEF ToExecuting, IsExecuting, Loaded
<1>9. ASSUME comp.state = "idle", comp.enabled, n = 1, commands[1] = "executing"
      PROVE  IsExecuting'
  BY <1>1, <1>9 DEF IsExecuting
<1> HIDE DEF n
<1>10. ToIdle => n > 0 /\ (n > 1 \/ n = 1)
  BY <1>1
<1>11. ToExecuting => n > 2 \/ n = 2
  BY <1>1 DEF ToExecuting, n
<1>12. IsIdle => ToIdle
  BY <1>1 DEF IsIdle, n
<1>13. IsExecuting => \/ ToExecuting
                      \/ comp.state = "idle" /\ comp.enabled /\ n = 1 /\ commands[1] = "executing"
  BY <1>1 DEF IsExecuting, n
<1>14. ToIdle' => IsIdle'
  BY DEF IsIdle
<1>15. ToExecuting' => IsExecuting'
  BY DEF IsExecuting
<1> QED
  BY <1>4, <1>5, <1>6, <1>7, <1>8, <1>9, <1>10, <1>11, <1>12, <1>13, <1>14, <1>15 DEF n

\* Initially no command is under way.
LEMMA CommandInit == Init => CommandInv
<1> SUFFICES ASSUME Init PROVE CommandInv
  OBVIOUS
<1>1. /\ pc = "closed" /\ opened = FALSE /\ comp.state = "loaded"
      /\ st = [buffers |-> NULL, num |-> 0, current |-> 0]
      /\ commands = << >> /\ live = {}
  BY DEF Init
<1>2. NoRing
  BY <1>1 DEF NoRing
<1>3. Len(commands) = 0
  BY <1>1, EmptySeq
<1>4. Unloaded
  BY <1>1, <1>2, <1>3 DEF Unloaded, Unloading, Leaving, EnablesNothing
<1> QED
  BY <1>1, <1>4 DEF CommandInv, Attempting

\* The component goes on while the client waits, wherever the client is.
LEMMA CommandObeyed ==
  ASSUME Control, RingInv, CommandInv, Obey
  PROVE  CommandInv'
<1>1. /\ Len(commands) \in Nat /\ Len(commands) > 0 /\ comp'.width = comp.width
      /\ UNCHANGED <<client, live, faults>>
  BY ObeyFacts
<1>2. UNCHANGED <<pc, st, width, portdef, err, opened, live>>
  BY <1>1 DEF client
<1>3. (NoRing <=> NoRing') /\ (Filled(NBuf) <=> Filled(NBuf)') /\ (Fitting <=> Fitting')
  BY <1>2, RingShapesKept DEF Fitting
<1>4. ~Playing
  BY <1>1 DEF Playing
<1>5. Unloaded => Unloaded'
  BY <1>3, LeavingObeyed DEF Unloaded, Unloading
<1>6. ASSUME pc \in {"closed", "open", "filled", "exit", "lost"} PROVE CommandInv'
  BY <1>2, <1>4, <1>5, <1>6 DEF CommandInv, Attempting
<1>7. ASSUME pc = "reopen" PROVE CommandInv'
  <2>1. Unloaded' /\ EnablesNothing'
    BY <1>4, <1>5, <1>7, LeavingObeyed DEF CommandInv, Unloaded, Unloading
  <2>2. Len(commands') = 0 => ~comp'.enabled
    <3> SUFFICES ASSUME Len(commands') = 0 PROVE ~comp'.enabled
      OBVIOUS
    <3>1. Len(commands) = 1
      BY <1>1, ObeyFacts
    <3>2. commands[1] = "loaded"
      <4>1. Unloading /\ EnablesNothing
        BY <1>4, <1>7 DEF CommandInv, Unloaded
      <4> QED
        BY <3>1, <4>1 DEF Unloading, EnablesNothing
    <3>3. ~comp.enabled
      BY <1>4, <1>7, <3>1, <3>2 DEF CommandInv, Unloaded, Unloading, Leaving
    <3> QED
      BY <3>2, <3>3, ObeyFacts
  <2> QED
    BY <1>2, <1>7, <2>1, <2>2 DEF CommandInv, Attempting
<1>8. ASSUME pc = "free" PROVE CommandInv'
  <2>1. Releasing'
    BY <1>8, LeavingObeyed DEF CommandInv, Releasing
  <2> QED
    BY <1>2, <1>3, <1>8, <2>1 DEF CommandInv, Attempting
<1>9. ASSUME pc \in {"config", "port", "set"} PROVE CommandInv'
  <2>1. Unloaded'
    BY <1>5, <1>9 DEF CommandInv
  <2>2. comp'.state = "executing" => comp.state = "executing"
    <3>1. Leaving /\ commands[1] \in Commands
      BY <1>9, ObeyFacts DEF CommandInv, Unloaded, Unloading
    <3>2. commands[1] # "executing"
      BY <1>1, <3>1 DEF Leaving
    <3>3. commands[1] = "loaded" => comp.state = "idle"
      BY <1>1, <3>1 DEF Leaving
    <3> QED
      BY <3>1, <3>2, <3>3, ObeyFacts DEF Commands
  <2> QED
    BY <1>2, <1>9, <2>1, <2>2 DEF CommandInv, Attempting
<1>10. ASSUME pc \in {"wait_port", "check"} PROVE CommandInv'
  <2>1. Unloaded' /\ Leaving
    BY <1>5, <1>10 DEF CommandInv, Unloaded, Unloading
  <2>2. comp'.enabled => Loaded' /\ Enabling(Len(commands))'
    <3> SUFFICES ASSUME comp'.enabled PROVE Loaded' /\ Enabling(Len(commands))'
      OBVIOUS
    <3>1. CASE comp.enabled
      BY <1>10, <3>1, OpeningObeyed DEF CommandInv
    <3>2. CASE ~comp.enabled
      <4>1. commands[1] = "enable"
        BY <3>2, ObeyFacts
      <4>2. comp.state = "loaded" /\ Enabling(Len(commands))
        BY <1>1, <2>1, <4>1 DEF Leaving, Enabling
      <4>3. Loaded'
        BY <4>1, <4>2, ObeyFacts DEF Loaded
      <4>4. Enabling(Len(commands))'
        BY <4>2, ObeyFacts DEF Enabling
      <4> QED
        BY <4>3, <4>4
    <3> QED
      BY <3>1, <3>2
  <2> QED
    BY <1>1, <1>2, <1>10, <2>1, <2>2 DEF CommandInv, Attempting
<1>11. ASSUME pc = "idle" PROVE CommandInv'
  <2>1. Loaded' /\ Enabling(Len(commands))'
    BY <1>11, OpeningObeyed DEF CommandInv
  <2> QED
    BY <1>2, <1>3, <1>11, <2>1 DEF CommandInv, Attempting
<1>12. ASSUME pc = "alloc" PROVE CommandInv'
  <2>1. Cardinality(live) # NBuf
    BY <1>12, OmxAssumption DEF RingInv, Filled
  <2>2. ToIdle'
    BY <1>12, <2>1, OpeningObeyed DEF CommandInv
  <2> QED
    BY <1>2, <1>3, <1>12, <2>2 DEF CommandInv, Attempting
<1>13. ASSUME pc = "execute" PROVE CommandInv'
  <2>1. IsIdle'
    BY <1>13, OpeningObeyed DEF CommandInv
  <2> QED
    BY <1>2, <1>3, <1>13, <2>1 DEF CommandInv, Attempting
<1>14. ASSUME pc = "wait_state" PROVE CommandInv'
  <2>1. IsExecuting'
    BY <1>14, OpeningObeyed DEF CommandInv
  <2> QED
    BY <1>2, <1>3, <1>14, <2>1 DEF CommandInv, Attempting
<1> QED
  BY <1>6, <1>7, <1>8, <1>9, <1>10, <1>11, <1>12, <1>13, <1>14 DEF Control, Pcs

\* The client's steps up to the port.
LEMMA CommandClosing ==
  ASSUME Control, RingInv, CommandInv, RingInv', Enable \/ Reopen \/ Free \/ Config
  PROVE  CommandInv'
<1> USE DEF Step, client, component
<1>0. Len(commands) \in Nat
  BY LenProperties DEF Control
<1>1. CASE Enable
  <2>1. UNCHANGED <<st, live, comp, commands>> /\ err' = FALSE /\ pc = "closed"
    BY <1>1 DEF Enable
  <2>2. pc' = IF comp.state = "executing" THEN "reopen" ELSE "config"
    BY <1>1 DEF Enable
  <2>3. (Unloaded <=> Unloaded') /\ (Playing <=> Playing') /\ (EnablesNothing <=> EnablesNothing')
    BY <2>1, ShapesKept, RingShapesKept DEF Unloaded, Playing
  <2>4. CASE opened
    <3>1. Playing /\ pc' = "reopen"
      BY <2>1, <2>2, <2>4 DEF CommandInv, Playing
    <3> QED
      BY <2>1, <2>3, <3>1 DEF CommandInv, Attempting
  <2>5. CASE ~opened
    <3>1. Unloaded
      BY <2>1, <2>5 DEF CommandInv
    <3>2. comp.state = "executing" => EnablesNothing /\ Len(commands) # 0
      BY <3>1 DEF Unloaded, Unloading, Leaving
    <3> QED
      BY <2>1, <2>2, <2>3, <3>1, <3>2 DEF CommandInv, Attempting
  <2> QED
    BY <2>4, <2>5
<1>2. CASE Reopen
  <2>1. UNCHANGED <<st, live, err>> /\ pc = "reopen" /\ pc' = "free"
    BY <1>2 DEF Reopen
  <2>2. (NoRing <=> NoRing') /\ (Filled(NBuf) <=> Filled(NBuf)')
    BY <2>1, RingShapesKept
  <2>3. NoRing \/ Filled(NBuf)
    BY <2>1 DEF CommandInv, Playing, Unloaded
  <2>4. Releasing'
    <3>1. CASE Playing
      <4>1. Leaving /\ EnablesNothing
        BY <3>1 DEF Playing, Leaving, EnablesNothing
      <4> QED
        BY <1>2, <3>1, <4>1, ReopenTold DEF Playing
    <3>2. CASE ~Playing
      <4>1. Unloading /\ EnablesNothing /\ (Len(commands) = 0 => ~comp.enabled)
        BY <2>1, <3>2 DEF CommandInv, Unloaded
      <4>2. CASE Len(commands) = 0
        BY <1>2, <4>1, <4>2, ReopenTold DEF Unloading
      <4>3. CASE Len(commands) > 0
        <5>1. commands[Len(commands)] = "loaded"
          BY <1>0, <4>1, <4>3 DEF Unloading, EnablesNothing
        <5> QED
          BY <1>2, <4>1, <4>3, <5>1, ReopenTold DEF Unloading
      <4> QED
        BY <1>0, <4>2, <4>3
    <3> QED
      BY <3>1, <3>2
  <2>5. err' = FALSE
    BY <2>1 DEF CommandInv, Attempting
  <2> QED
    BY <2>1, <2>2, <2>3, <2>4, <2>5 DEF CommandInv, Attempting
<1>3. CASE Free
  <2>1. (NoRing \/ Filled(NBuf)) /\ Releasing /\ err = FALSE /\ pc = "free"
    BY <1>3 DEF Free, CommandInv, Attempting
  <2>2. Unloading'
    BY <1>3, <2>1, FreeTold
  <2>3. NoRing'
    <3>1. CASE st.buffers = NULL
      <4>1. NoRing
        BY <2>1, <3>1, FilledFacts, OmxAssumption
      <4> QED
        BY <1>3, <3>1, <4>1, RingShapesKept DEF Free
    <3>2. CASE st.buffers # NULL
      BY <1>3, <3>2, FreedIsEmpty DEF Free, Released, NoRing
    <3> QED
      BY <3>1, <3>2
  <2>4. \A i \in 1..st.num : st.buffers[i] # Unset
    BY <2>1, OmxAssumption DEF NoRing, Filled, Slots
  <2>5. pc' = "config" /\ err' = err
    BY <1>3, <2>4 DEF Free
  <2> QED
    BY <2>1, <2>2, <2>3, <2>5 DEF CommandInv, Unloaded, Attempting
<1>4. CASE Config
  <2>1. UNCHANGED <<st, live, comp, commands>> /\ pc = "config" /\ portdef' = comp
    BY <1>4 DEF Config
  <2>2. PICK failed \in Fails("set") :
          err' = (err \/ failed) /\ pc' = IF err \/ failed THEN "exit" ELSE "port"
    BY <1>4 DEF Config
  <2>3. Unloaded /\ err = FALSE
    BY <2>1 DEF CommandInv, Attempting
  <2>4. Unloaded'
    BY <2>1, <2>3, ShapesKept, RingShapesKept DEF Unloaded
  <2>5. comp.enabled \/ comp.state # "executing"
    BY <2>3 DEF Unloaded, Unloading, Leaving
  <2>6. failed \in BOOLEAN
    BY FailsFacts
  <2>7. CASE failed
    BY <2>2, <2>3, <2>4, <2>7 DEF CommandInv, Attempting
  <2>8. CASE ~failed
    BY <2>1, <2>2, <2>3, <2>4, <2>5, <2>6, <2>8 DEF CommandInv, Attempting
  <2> QED
    BY <2>7, <2>8
<1> QED
  BY <1>1, <1>2, <1>3, <1>4

\* From the port to the ring.
LEMMA CommandPort ==
  ASSUME Control, RingInv, CommandInv, RingInv', Sound,
         OpenPort \/ SetPort \/ WaitPort \/ Check \/ Idle
  PROVE  CommandInv'
<1> USE DEF Step, client, component
<1>1. CASE OpenPort
  <2>1. UNCHANGED <<st, live, err>> /\ pc = "port" /\ pc' = "set"
    BY <1>1 DEF OpenPort
  <2>2. Unloaded /\ err = FALSE /\ (portdef.enabled \/ comp.state # "executing")
    BY <2>1 DEF CommandInv, Attempting
  <2>3. Unloaded'
    BY <1>1, <2>1, <2>2, PortTold, RingShapesKept DEF Unloaded
  <2> QED
    BY <2>1, <2>2, <2>3 DEF CommandInv, Attempting
<1>2. CASE SetPort
  <2>1. UNCHANGED <<st, live, commands, width>> /\ pc = "set"
    BY <1>2 DEF SetPort
  <2>2. Unloaded /\ err = FALSE
    BY <2>1 DEF CommandInv, Attempting
  <2> DEFINE R(f) == f \/ (comp.enabled /\ comp.state # "loaded")
  <2>3. PICK failed \in Fails("set") :
          /\ err' = (err \/ R(failed))
          /\ comp' = IF R(failed) THEN comp ELSE [comp EXCEPT !.width = AlignUp(width)]
          /\ pc' = IF R(failed) THEN "exit" ELSE "wait_port"
    BY <1>2 DEF SetPort
  <2>4. failed \in BOOLEAN
    BY FailsFacts
  <2>5. CASE R(failed)
    <3>1. comp' = comp /\ err' = TRUE /\ pc' = "exit"
      BY <2>3, <2>5
    <3>2. Unloaded'
      BY <2>1, <2>2, <3>1, ShapesKept, RingShapesKept DEF Unloaded
    <3> QED
      BY <3>1, <3>2 DEF CommandInv, Attempting
  <2>6. CASE ~R(failed)
    <3>1. /\ comp' = [state |-> comp.state, enabled |-> comp.enabled, width |-> AlignUp(width)]
          /\ err' = FALSE /\ pc' = "wait_port"
      BY <2>2, <2>3, <2>4, <2>6 DEF Control
    <3>2. comp'.state = comp.state /\ comp'.enabled = comp.enabled /\ comp'.width = AlignUp(width)
      BY <3>1
    <3>3. Unloaded'
      BY <2>1, <2>2, <3>2, ShapesKept, RingShapesKept DEF Unloaded
    <3>4. comp.enabled => Loaded /\ Enabling(Len(commands))
      BY <2>2, <2>6, OpenIsLoaded DEF Loaded, Unloaded, Unloading
    <3>5. comp'.enabled => Loaded' /\ Enabling(Len(commands))'
      BY <2>1, <3>2, <3>4, ShapesKept
    <3>6. comp'.width = AlignUp(width)'
      BY <2>1, <3>2 DEF AlignUp
    <3> QED
      BY <3>1, <3>3, <3>5, <3>6 DEF CommandInv, Attempting
  <2> QED
    BY <2>5, <2>6
<1>3. CASE WaitPort
  <2>1. /\ UNCHANGED <<st, live, commands, comp, width, err>>
        /\ pc = "wait_port" /\ pc' = "check"
    BY <1>3 DEF WaitPort
  <2>2. Unloaded' <=> Unloaded
    BY <2>1, ShapesKept, RingShapesKept DEF Unloaded
  <2>3. comp'.width = AlignUp(width)' <=> comp.width = AlignUp(width)
    BY <2>1 DEF AlignUp
  <2> QED
    BY <2>1, <2>2, <2>3, ShapesKept DEF CommandInv, Attempting
<1>4. CASE Check
  <2>1. UNCHANGED <<st, live, commands, comp, width>> /\ pc = "check" /\ portdef' = comp
    BY <1>4 DEF Check
  <2>2. /\ Unloaded /\ comp.width = AlignUp(width)
        /\ comp.enabled => Loaded /\ Enabling(Len(commands))
    BY <2>1 DEF CommandInv
  <2> DEFINE wrong == comp.width # width \/ ~comp.enabled
  <2>3. err' = wrong /\ pc' = IF wrong THEN "exit" ELSE "idle"
    BY <1>4 DEF Check
  <2>4. CASE wrong
    <3>1. err' = TRUE /\ pc' = "exit"
      BY <2>3, <2>4
    <3>2. Unloaded'
      BY <2>1, <2>2, ShapesKept, RingShapesKept DEF Unloaded
    <3> QED
      BY <3>1, <3>2 DEF CommandInv, Attempting
  <2>5. CASE ~wrong
    <3>1. err' = FALSE /\ pc' = "idle"
      BY <2>3, <2>5
    <3>2. NoRing' /\ Loaded' /\ Enabling(Len(commands))'
      BY <2>1, <2>2, <2>5, ShapesKept, RingShapesKept DEF Unloaded
    <3>3. width' = AlignUp(width)' /\ portdef'.width = width'
      BY <2>1, <2>2, <2>5 DEF AlignUp
    <3>4. Fitting'
      BY <3>2 DEF NoRing, Fitting
    <3> QED
      BY <3>1, <3>2, <3>3, <3>4 DEF CommandInv, Attempting
  <2> QED
    BY <2>4, <2>5
<1>5. CASE Idle
  <2>1. /\ UNCHANGED <<live, comp, width, portdef, err>> /\ pc = "idle"
        /\ Tell(<<"idle">>) /\ pc' = IF st.buffers = NULL THEN "alloc" ELSE "execute"
    BY <1>5 DEF Idle
  <2>2. /\ NoRing /\ Loaded /\ Enabling(Len(commands)) /\ err = FALSE
        /\ width = AlignUp(width) /\ portdef.width = width
    BY <2>1 DEF CommandInv, Attempting
  <2>3. ToIdle'
    BY <2>1, <2>2, OpeningTold
  <2>4. pc' = "alloc" /\ live' = {}
    BY <2>1, <2>2 DEF NoRing
  <2>5. width' = AlignUp(width)' /\ portdef'.width = width' /\ Fitting'
    BY <2>1, <2>2, <2>4 DEF AlignUp, Fitting
  <2> QED
    BY <2>1, <2>2, <2>3, <2>4, <2>5 DEF CommandInv, Attempting
<1> QED
  BY <1>1, <1>2, <1>3, <1>4, <1>5

\* The ring, and the way to Executing.
LEMMA CommandOpening ==
  ASSUME Control, RingInv, CommandInv, RingInv', Sound,
         Allocate \/ Execute \/ WaitState \/ Exit
  PROVE  CommandInv'
<1> USE DEF Step, client, component
<1>1. CASE Allocate
  <2>1. PICK k \in 0..NBuf - 1 : Filled(k)
    BY <1>1 DEF Allocate, RingInv
  <2>2. st = [buffers |-> st.buffers, num |-> st.num, current |-> st.current]
    BY DEF RingInv
  <2>3. /\ Filled(k + 1)' /\ err' = FALSE
        /\ \A b \in live' : b \in live \/ b.size = portdef.width
        /\ pc' = IF k + 1 = NBuf THEN "execute" ELSE "alloc"
    BY <1>1, <2>1, <2>2, AllocateFills DEF Sound
  <2>4. UNCHANGED <<width, portdef, comp, commands>> /\ pc = "alloc"
    BY <1>1 DEF Allocate
  <2>5. ToIdle /\ width = AlignUp(width) /\ portdef.width = width /\ Fitting
    BY <2>4 DEF CommandInv
  <2>6. ToIdle' /\ IsIdle'
    BY <2>4, <2>5, ShapesKept DEF IsIdle
  <2>7. width' = AlignUp(width)' /\ portdef'.width = width' /\ Fitting'
    BY <2>3, <2>4, <2>5 DEF AlignUp, Fitting
  <2>8. CASE k + 1 = NBuf
    <3>1. Filled(NBuf)' /\ pc' = "execute"
      BY <2>3, <2>8
    <3> QED
      BY <2>3, <2>6, <2>7, <3>1 DEF CommandInv, Attempting
  <2>9. CASE k + 1 # NBuf
    BY <2>3, <2>6, <2>7, <2>9 DEF CommandInv, Attempting
  <2> QED
    BY <2>8, <2>9
<1>2. CASE Execute
  <2>1. /\ UNCHANGED <<st, live, comp, width, portdef, err>>
        /\ pc = "execute" /\ pc' = "wait_state" /\ Tell(<<"executing">>)
    BY <1>2 DEF Execute
  <2>2. /\ Filled(NBuf) /\ IsIdle /\ err = FALSE
        /\ width = AlignUp(width) /\ portdef.width = width /\ Fitting
    BY <2>1 DEF CommandInv, Attempting
  <2>3. IsExecuting' /\ Filled(NBuf)'
    BY <2>1, <2>2, OpeningTold, RingShapesKept
  <2>4. width' = AlignUp(width)' /\ portdef'.width = width' /\ Fitting'
    BY <2>1, <2>2 DEF AlignUp, Fitting
  <2> QED
    BY <2>1, <2>2, <2>3, <2>4 DEF CommandInv, Attempting
<1>3. CASE WaitState
  <2>1. /\ UNCHANGED <<st, live, comp, commands, width, err>>
        /\ pc = "wait_state" /\ pc' = "exit" /\ (comp.state = "executing" \/ TimesOut)
    BY <1>3 DEF WaitState
  <2>2. Filled(NBuf) /\ IsExecuting /\ err = FALSE /\ Fitting
    BY <2>1 DEF CommandInv, Attempting
  <2>3. Len(commands) \in Nat
    BY LenProperties DEF Control
  <2>4. Playing
    <3>1. CASE comp.state = "executing"
      BY <2>2, <3>1 DEF IsExecuting, ToExecuting, Loaded, Playing
    <3>2. CASE ~Busy
      <4>1. Cardinality(live) = NBuf
        BY <2>2 DEF Filled
      <4>2. Len(commands) > 0 => commands[1] # "loaded"
        BY <2>2, <2>3 DEF IsExecuting, ToExecuting, Enabling
      <4>3. Len(commands) = 0
        BY <2>3, <3>2, <4>1, <4>2, IdleFacts
      <4> QED
        BY <2>2, <4>3 DEF IsExecuting, ToExecuting, Playing
    <3> QED
      BY <2>1, <3>1, <3>2 DEF TimesOut, Sound
  <2>5. Playing' /\ Fitting'
    BY <2>1, <2>2, <2>4, RingShapesKept DEF Playing, Fitting, AlignUp
  <2> QED
    BY <2>1, <2>2, <2>5 DEF CommandInv, Attempting
<1>4. CASE Exit
  <2>1. /\ UNCHANGED <<st, live, comp, commands, width, err>>
        /\ pc = "exit" /\ pc' = "open" /\ opened' = ~err
    BY <1>4 DEF Exit
  <2>2. IF err THEN Unloaded ELSE Playing /\ Fitting
    BY <2>1 DEF CommandInv
  <2>3. /\ Unloaded <=> Unloaded'
        /\ Playing <=> Playing'
        /\ Fitting <=> Fitting'
    BY <2>1, ShapesKept, RingShapesKept DEF Unloaded, Playing, Fitting, AlignUp
  <2>4. opened' <=> ~err
    BY <2>1
  <2> QED
    BY <2>1, <2>2, <2>3, <2>4 DEF CommandInv, Attempting
<1> QED
  BY <1>1, <1>2, <1>3, <1>4

\* Frames, and the end of the session.
LEMMA CommandPlaying ==
  ASSUME Control, RingInv, CommandInv, RingInv', Input \/ Flush \/ Disable
  PROVE  CommandInv'
<1> USE DEF Step, client, component
<1>0. UNCHANGED <<live, comp, commands, width, opened>> /\ pc \in {"open", "filled"}
  BY DEF Input, Flush, Disable
<1>1. IF opened THEN Playing /\ Fitting ELSE Unloaded
  BY <1>0 DEF CommandInv
<1>2. Fitting <=> Fitting'
  BY <1>0 DEF Fitting, AlignUp
<1>3. CASE Input \/ Disable
  <2>1. UNCHANGED st
    BY <1>3 DEF Input, Disable
  <2>2. (Unloaded <=> Unloaded') /\ (Playing <=> Playing')
    BY <1>0, <2>1, ShapesKept, RingShapesKept DEF Unloaded, Playing
  <2>3. opened => ~NoBuffer
    <3> SUFFICES ASSUME opened PROVE ~NoBuffer
      OBVIOUS
    <3>1. Filled(NBuf)
      BY <1>1 DEF Playing
    <3>2. st.current + 1 \in Slots /\ st.current + 1 <= NBuf
      BY OmxAssumption DEF RingInv, Slots
    <3>3. st.buffers[st.current + 1] # Unset
      BY <3>1, <3>2 DEF Filled
    <3>4. st.buffers # NULL
      BY <3>1, FilledFacts, OmxAssumption
    <3> QED
      BY <3>3, <3>4 DEF NoBuffer
  <2>4. pc' \in {"open", "filled", "closed"} \/ (pc' = "lost" /\ ~opened)
    BY <1>3, <2>3 DEF Input, Disable
  <2> QED
    BY <1>0, <1>1, <1>2, <2>2, <2>4 DEF CommandInv, Attempting
<1>4. CASE Flush
  <2>1. pc = "filled" /\ pc' = "open"
    BY <1>4 DEF Flush
  <2>2. st.num = NBuf
    BY <2>1 DEF RingInv
  <2>3. opened /\ Playing /\ Fitting
    BY <1>1, <2>2, OmxAssumption DEF Unloaded, NoRing
  <2>4. st' = [buffers |-> st.buffers, num |-> st.num, current |-> NextBuffer]
    BY <1>4 DEF Flush, RingInv
  <2>5. st'.buffers = st.buffers /\ st'.num = st.num
    BY <2>4
  <2>6. {st'.buffers[i] : i \in 1..NBuf} = {st.buffers[i] : i \in 1..NBuf}
    BY <2>5
  <2>7. Filled(NBuf)'
    BY <1>0, <2>3, <2>5, <2>6 DEF Playing, Filled
  <2>8. Playing'
    BY <1>0, <2>3, <2>7 DEF Playing
  <2> QED
    BY <1>0, <1>2, <2>1, <2>3, <2>8 DEF CommandInv, Attempting
<1> QED
  BY <1>3, <1>4

\* What is so at each place stays so, however the component's steps fall.
LEMMA CommandStep ==
  Control /\ RingInv /\ RingInv' /\ (Sound => CommandInv) /\ [Next]_vars
    => (Sound => CommandInv)'
<1> SUFFICES ASSUME Control, RingInv, RingInv', Sound => CommandInv, [Next]_vars, Sound'
             PROVE  CommandInv'
  OBVIOUS
<1>1. Sound
  <2>1. faults' = faults
    BY DEF Next, Opening, Enable, Reopen, Free, Config, OpenPort, SetPort, WaitPort,
           Check, Idle, Allocate, Execute, WaitState, Exit, Input, Flush, Disable,
           Obey, vars, component
  <2> QED
    BY <2>1 DEF Sound
<1>2. CASE Next
  BY <1>1, <1>2, CommandObeyed, CommandClosing, CommandPort, CommandOpening, CommandPlaying
  DEF Next, Opening
<1>3. CASE UNCHANGED vars
  <2>1. UNCHANGED <<pc, st, width, portdef, err, opened, comp, commands, live>>
    BY <1>3 DEF vars, client, component
  <2>2. /\ (Unloaded <=> Unloaded') /\ (Playing <=> Playing') /\ (Fitting <=> Fitting')
        /\ width = AlignUp(width) <=> width' = AlignUp(width)'
        /\ comp.width = AlignUp(width) <=> comp'.width = AlignUp(width)'
    BY <2>1, ShapesKept, RingShapesKept DEF Unloaded, Playing, Fitting, AlignUp
  <2> QED
    BY <1>1, <2>1, <2>2, ShapesKept, RingShapesKept DEF CommandInv
<1> QED
  BY <1>2, <1>3

\* What is under way fits the place of the caller, always.
LEMMA CommandHolds == Spec => [](Control /\ RingInv /\ (Sound => CommandInv))
BY ControlInit, ControlStep, RingInit, RingStep, CommandInit, CommandStep, PTL DEF Spec

\* If omx_display_enable returned 0, frames of its width fit into every buffer of
\* the ring, however its steps fell between those of the component and whatever
\* was refused (omx.c:235-456).
THEOREM FrameFitsHolds == Spec => []FrameFits
<1>1. Control /\ RingInv /\ (Sound => CommandInv) => FrameFits
  <2> SUFFICES ASSUME RingInv, Sound => CommandInv, opened, Sound,
                      pc \in {"open", "filled", "lost"}
               PROVE  /\ pc # "lost" /\ st.num = NBuf /\ st.current < st.num
                      /\ \A i \in 1..NBuf : \E b \in live :
                           b.id = st.buffers[i] /\ b.size = AlignUp(width)
    BY DEF FrameFits, Sound
  <2>1. pc # "lost" /\ Filled(NBuf) /\ Fitting
    BY DEF CommandInv, Playing
  <2>2. st.num = NBuf /\ st.current < st.num
    BY <2>1, OmxAssumption DEF Filled, RingInv
  <2>3. \A i \in 1..NBuf : \E b \in live : st.buffers[i] = b.id
    BY <2>1, FilledFacts, OmxAssumption
  <2> QED
    BY <2>1, <2>2, <2>3 DEF Fitting
<1> QED
  BY <1>1, CommandHolds, PTL

-----------------------------------------------------------------------------
(* A component that is never late and refuses nothing.                      *)

\* Where the client finds it not busy, nothing is left of a shutdown.
LEMMA UnloadedIdle ==
  ASSUME Control, Unloaded, ~Busy
  PROVE  Len(commands) = 0 /\ comp.state = "loaded"
<1>1. Len(commands) \in Nat
  BY LenProperties DEF Control
<1>2. Len(commands) > 0 /\ commands[1] = "idle" => ~Loaded
  BY DEF Unloaded, Unloading, Leaving, Loaded
<1>3. Len(commands) = 0
  BY <1>1, <1>2, IdleFacts DEF Unloaded, NoRing
<1> QED
  BY <1>3 DEF Unloaded, Unloading

\* Without faults each step keeps PromptInv.
LEMMA PromptStep ==
  ASSUME faults = {}, Control, RingInv, CommandInv, PromptInv, Next
  PROVE  PromptInv'
<1> USE DEF Step, client, component
<1>0. Sound /\ \A fault : Fails(fault) = {FALSE}
  BY FailsFacts DEF Sound
<1>1. CASE Obey
  <2>1. /\ UNCHANGED <<pc, width, portdef, err, opened>> /\ Len(commands) > 0
        /\ Len(commands) \in Nat
    BY <1>1, ObeyFacts
  <2>2. AlignUp(width)' = AlignUp(width)
    BY <2>1 DEF AlignUp
  <2>3. ASSUME pc \in {"set", "wait_port", "check"}
        PROVE  comp'.enabled /\ comp'.state = "loaded"
    <3>1. Leaving /\ comp.state = "loaded"
      BY <2>3 DEF CommandInv, PromptInv, Unloaded, Unloading
    <3>2. commands[1] = "enable"
      <4>1. CASE comp.enabled
        BY <2>1, <3>1, <4>1, OpenIsLoaded DEF Enabling
      <4>2. CASE ~comp.enabled
        BY <2>3, <4>2 DEF PromptInv
      <4> QED
        BY <4>1, <4>2
    <3> QED
      BY <1>1, <3>1, <3>2, ObeyFacts
  <2> QED
    BY <2>1, <2>2, <2>3 DEF PromptInv
<1>2. CASE Enable \/ Reopen \/ Free \/ Disable
  <2>1. pc' \in {"reopen", "config", "free", "lost", "closed"}
    BY <1>2 DEF Enable, Reopen, Free, Disable
  <2> QED
    BY <2>1 DEF PromptInv
<1>3. CASE Config
  <2>1. pc' = "port" /\ UNCHANGED commands /\ portdef' = comp /\ comp' = comp
    BY <1>0, <1>3 DEF Config, CommandInv, Attempting
  <2>2. Len(commands) = 0
    BY <1>3, UnloadedIdle DEF Config, CommandInv
  <2> QED
    BY <2>1, <2>2 DEF PromptInv
<1>4. CASE OpenPort
  <2>1. /\ pc = "port" /\ pc' = "set" /\ comp' = comp /\ Tell(EnablePort)
        /\ Len(commands) = 0 /\ (portdef.enabled <=> comp.enabled)
    BY <1>4 DEF OpenPort, PromptInv
  <2>2. comp.state = "loaded"
    BY <1>4, UnloadedIdle DEF OpenPort, CommandInv
  <2>3. CASE comp.enabled
    BY <2>1, <2>2, <2>3 DEF PromptInv
  <2>4. CASE ~comp.enabled
    <3>1. Tell(<<"enable">>) /\ "enable" \in Commands
      BY <2>1, <2>4 DEF EnablePort, Commands
    <3>2. Len(commands') = 1 /\ commands'[1] = "enable"
      BY <2>1, <3>1, TellOne
    <3> QED
      BY <2>1, <2>2, <3>2 DEF PromptInv
  <2> QED
    BY <2>3, <2>4
<1>5. CASE SetPort
  <2>1. Len(commands) = 0 /\ comp.state = "loaded" /\ pc = "set"
    BY <1>5, UnloadedIdle DEF SetPort, CommandInv
  <2>2. comp.enabled
    BY <2>1 DEF PromptInv
  <2>3. pc' = "wait_port" /\ comp' = [comp EXCEPT !.width = AlignUp(width)]
    BY <1>0, <1>5, <2>1 DEF SetPort
  <2>4. comp'.state = comp.state /\ comp'.enabled = comp.enabled
    <3>1. comp' = [state |-> comp.state, enabled |-> comp.enabled, width |-> AlignUp(width)]
      BY <2>3 DEF Control
    <3> QED
      BY <3>1
  <2> QED
    BY <2>1, <2>2, <2>3, <2>4 DEF PromptInv
<1>6. CASE WaitPort
  BY <1>6 DEF WaitPort, PromptInv
<1>7. CASE Check
  <2>1. comp.enabled /\ comp.width = AlignUp(width) /\ UNCHANGED width
    BY <1>7 DEF Check, CommandInv, PromptInv
  <2>2. AlignUp(width)' = AlignUp(width)
    BY <2>1 DEF AlignUp
  <2> DEFINE wrong == comp.width # width \/ ~comp.enabled
  <2>3. pc' = (IF wrong THEN "exit" ELSE "idle") /\ err' = wrong
    BY <1>7 DEF Check
  <2>4. wrong <=> width # AlignUp(width)
    BY <2>1
  <2> HIDE DEF wrong
  <2>5. CASE wrong
    <3>1. pc' = "exit" /\ err' = TRUE
      BY <2>3, <2>5
    <3> QED
      BY <2>1, <2>2, <2>4, <2>5, <3>1 DEF PromptInv
  <2>6. CASE ~wrong
    <3>1. pc' = "idle"
      BY <2>3, <2>6
    <3> QED
      BY <3>1 DEF PromptInv
  <2> QED
    BY <2>5, <2>6
<1>8. CASE Idle \/ Execute
  <2>1. pc' \in {"alloc", "execute", "wait_state"}
    BY <1>8 DEF Idle, Execute
  <2> QED
    BY <2>1 DEF PromptInv
<1>9. CASE Allocate
  <2>1. pc' \in {"alloc", "execute"}
    BY <1>0, <1>9 DEF Allocate
  <2> QED
    BY <2>1 DEF PromptInv
<1>10. CASE WaitState
  <2>1. pc' = "exit" /\ UNCHANGED <<err, width>> /\ err = FALSE /\ width = AlignUp(width)
    BY <1>10 DEF WaitState, CommandInv, Attempting
  <2>2. AlignUp(width)' = AlignUp(width)
    BY <2>1 DEF AlignUp
  <2> QED
    BY <2>1, <2>2 DEF PromptInv
<1>11. CASE Exit
  <2>1. pc = "exit" /\ pc' = "open" /\ opened' = ~err /\ UNCHANGED width
    BY <1>11 DEF Exit
  <2>2. AlignUp(width)' = AlignUp(width) /\ (err <=> width # AlignUp(width))
    BY <2>1 DEF AlignUp, PromptInv
  <2> QED
    BY <2>1, <2>2 DEF PromptInv
<1>12. CASE Input \/ Flush
  <2>1. /\ pc \in {"open", "filled"} /\ pc' \in {"open", "filled", "lost"}
        /\ UNCHANGED <<opened, width>>
    BY <1>12 DEF Input, Flush
  <2>2. AlignUp(width)' = AlignUp(width)
    BY <2>1 DEF AlignUp
  <2> QED
    BY <2>1, <2>2 DEF PromptInv
<1> QED
  BY <1>1, <1>2, <1>3, <1>4, <1>5, <1>6, <1>7, <1>8, <1>9, <1>10, <1>11, <1>12
  DEF Next, Opening

\* With a component that obeys at once the renderer can be opened again and
\* again, for any aligned width, after any other, opened or refused.
THEOREM AlwaysOpensHolds == Spec => []AlwaysOpens
<1>1. Init => PromptInv
  BY DEF Init, PromptInv
<1>2. /\ Control /\ RingInv /\ (Sound => CommandInv) /\ (faults = {} => PromptInv)
      /\ [Next]_vars
      => (faults = {} => PromptInv)'
  <2> SUFFICES ASSUME Control, RingInv, Sound => CommandInv, faults = {} => PromptInv,
                      [Next]_vars, faults' = {}
               PROVE  PromptInv'
    OBVIOUS
  <2>1. faults = {}
    BY DEF Next, Opening, Enable, Reopen, Free, Config, OpenPort, SetPort, WaitPort,
           Check, Idle, Allocate, Execute, WaitState, Exit, Input, Flush, Disable,
           Obey, vars, component
  <2>2. CASE Next
    BY <2>1, <2>2, PromptStep DEF Sound
  <2>3. CASE UNCHANGED vars
    <3>1. UNCHANGED <<pc, width, portdef, err, opened, comp, commands>>
      BY <2>3 DEF vars, client, component
    <3> QED
      BY <2>1, <3>1 DEF PromptInv, AlignUp
  <2> QED
    BY <2>2, <2>3
<1>3. (Sound => CommandInv) /\ (faults = {} => PromptInv) => AlwaysOpens
  BY DEF AlwaysOpens, Sound, CommandInv, PromptInv, Playing
<1> QED
  BY <1>1, <1>2, <1>3, CommandHolds, PTL DEF Spec

=============================================================================
