--------------------------- MODULE Player_proofs ---------------------------
(***************************************************************************)
(* Proofs about Player: for every set of threads and widths, every queue   *)
(* limit and every combination of failures, main() is alone with renderer  *)
(* and decoder while it closes and opens them, no update of the flags is   *)
(* lost, and what is on the screen is that of the session.                 *)
(***************************************************************************)
EXTENDS Player, TLAPS

\* Where main() must be alone.
Exclusive ==
  {"disable", "close", "reset", "have_load", "have_store", "clear_load",
   "clear_store", "enable", "create"}

\* A thread that has not ended is videoThreadId, and HAVEVIDEO tells of it: only
\* the thread itself clears the flag, as its last step.  So join_test, finding
\* the flag clear, may skip the join.
AliveInv == \A t \in Alive : t = videoThreadId /\ "HAVEVIDEO" \in playerState

\* What main() is about to write back with EXIT added still has the flag.
RegInv == pc = "set_exit" /\ Alive # {} => "HAVEVIDEO" \in reg

ControlInv ==
  /\ wpc \in [Threads -> WorkPc]
  /\ AliveInv /\ RegInv /\ RendererQuiet

\* It holds at the start, before any thread is created.
LEMMA ControlInit == Init => ControlInv
BY DEF Init, ControlInv, WorkPc, AliveInv, RegInv, RendererQuiet, Alive

\* A step of main() that neither creates a thread nor writes playerState.
LEMMA MainKeeps ==
  ASSUME ControlInv, UNCHANGED <<wpc, playerState, videoThreadId>>,
         pc' = "set_exit" => reg' = playerState,
         pc' \in Exclusive => Alive = {}
  PROVE  ControlInv'
<1>1. Alive' = Alive
  BY DEF Alive
<1> QED
  BY <1>1 DEF ControlInv, AliveInv, RegInv, RendererQuiet, Exclusive

\* A step of the thread t that does not write playerState.
LEMMA WorkKeeps ==
  ASSUME ControlInv, NEW t \in Threads, NEW l \in WorkPc,
         t \in Alive, wpc' = [wpc EXCEPT ![t] = l],
         UNCHANGED <<playerState, videoThreadId, pc, reg>>
  PROVE  ControlInv'
<1>1. Alive' \subseteq Alive
  BY DEF Alive, ControlInv
<1>2. wpc' \in [Threads -> WorkPc]
  BY DEF ControlInv
<1> QED
  BY <1>1, <1>2 DEF ControlInv, AliveInv, RegInv, RendererQuiet, WorkPc

\* Every step of main() keeps ControlInv.
LEMMA MainStep ==
  ASSUME ControlInv, Recv \/ Timeout \/ Handle
  PROVE  ControlInv'
<1> USE DEF Goto, thread, main, devices
<1>1. CASE Recv
  BY <1>1, MainKeeps DEF Recv, Exclusive
<1>2. CASE Timeout
  BY <1>2, MainKeeps DEF Timeout, Exclusive
<1>3. CASE DetectChange
  BY <1>3, MainKeeps DEF DetectChange, Exclusive
<1>4. CASE PutPacket
  BY <1>4, MainKeeps DEF PutPacket, Exclusive
<1>5. CASE StopTest
  BY <1>5, MainKeeps DEF StopTest, Exclusive
<1>6. CASE SetExit
  <2>1. Alive' = Alive
    BY <1>6 DEF SetExit, Alive
  <2>2. Alive # {} => "HAVEVIDEO" \in playerState'
    BY <1>6 DEF SetExit, ControlInv, RegInv
  <2> QED
    BY <1>6, <2>1, <2>2
    DEF SetExit, ControlInv, AliveInv, RegInv, RendererQuiet
<1>7. CASE JoinTest
  <2>1. pc' \in Exclusive => Alive = {}
    BY <1>7 DEF JoinTest, ControlInv, AliveInv, Exclusive
  <2> QED
    BY <1>7, <2>1, MainKeeps DEF JoinTest
<1>8. CASE Join
  <2>1. Alive = {}
    BY <1>8 DEF Join, ControlInv, AliveInv, Alive
  <2> QED
    BY <1>8, <2>1, MainKeeps DEF Join
<1>9. CASE Disable
  BY <1>9, MainKeeps DEF Disable, Exclusive, ControlInv, RendererQuiet
<1>10. CASE Close
  BY <1>10, MainKeeps DEF Close, Exclusive, ControlInv, RendererQuiet
<1>11. CASE Reset
  <2>1. Alive = {} /\ Alive' = {}
    BY <1>11 DEF Reset, ControlInv, RendererQuiet, Alive
  <2> QED
    BY <1>11, <2>1 DEF Reset, ControlInv, AliveInv, RegInv, RendererQuiet
<1>12. CASE StartTest
  <2>1. videoThreadId = NULL => Alive = {}
    BY PlayerAssumption DEF ControlInv, AliveInv, Alive
  <2>2. pc' \in Exclusive => videoThreadId = NULL
    BY <1>12 DEF StartTest, Exclusive
  <2> QED
    BY <1>12, <2>1, <2>2, MainKeeps DEF StartTest
<1>13. CASE LoadState
  BY <1>13, MainKeeps DEF LoadState, Exclusive, ControlInv, RendererQuiet
<1>14. CASE SetHave
  <2>1. Alive = {} /\ Alive' = {}
    BY <1>14 DEF SetHave, ControlInv, RendererQuiet, Alive
  <2> QED
    BY <1>14, <2>1 DEF SetHave, ControlInv, AliveInv, RegInv, RendererQuiet
<1>15. CASE ClearExit
  <2>1. Alive = {} /\ Alive' = {}
    BY <1>15 DEF ClearExit, ControlInv, RendererQuiet, Alive
  <2> QED
    BY <1>15, <2>1 DEF ClearExit, ControlInv, AliveInv, RegInv, RendererQuiet
<1>16. CASE Enable
  BY <1>16, MainKeeps DEF Enable, Exclusive, ControlInv, RendererQuiet
<1>17. CASE Create
  <2>1. Alive = {}
    BY <1>17 DEF Create, ControlInv, RendererQuiet
  <2>2. CASE "HAVEVIDEO" \in playerState
    <3>1. PICK t \in Threads : /\ wpc' = [wpc EXCEPT ![t] = "alloc"]
                               /\ videoThreadId' = t
      BY <1>17, <2>2 DEF Create, WGoto
    <3>2. wpc' \in [Threads -> WorkPc] /\ Alive' = {t}
      BY <2>1, <3>1 DEF ControlInv, WorkPc, Alive
    <3> QED
      BY <1>17, <2>2, <3>1, <3>2
      DEF Create, ControlInv, AliveInv, RegInv, RendererQuiet
  <2>3. CASE "HAVEVIDEO" \notin playerState
    BY <1>17, <2>1, <2>3, MainKeeps DEF Create, Exclusive
  <2> QED
    BY <2>2, <2>3
<1> QED
  BY <1>1, <1>2, <1>3, <1>4, <1>5, <1>6, <1>7, <1>8, <1>9, <1>10, <1>11,
     <1>12, <1>13, <1>14, <1>15, <1>16, <1>17 DEF Handle

\* Every step of a decoding thread keeps ControlInv: the last one writes
\* playerState, and by then nobody is left to be told of.
LEMMA WorkStep ==
  ASSUME ControlInv, NEW t \in Threads, Work(t)
  PROVE  ControlInv'
<1> USE DEF WGoto, Shared, main, devices, WorkPc
<1>0. t \in Alive
  BY DEF Work, Alloc, Poll, Count, Get, SendPacket, ReceiveFrame, ReadStride,
         Show, Drain, Flush, LoadHave, ClearHave, Alive
<1>1. CASE Alloc(t)
  BY <1>0, <1>1, WorkKeeps DEF Alloc
<1>2. CASE Poll(t)
  BY <1>0, <1>2, WorkKeeps DEF Poll
<1>3. CASE Count(t)
  BY <1>0, <1>3, WorkKeeps DEF Count
<1>4. CASE Get(t)
  BY <1>0, <1>4, WorkKeeps DEF Get
<1>5. CASE SendPacket(t)
  BY <1>0, <1>5, WorkKeeps DEF SendPacket
<1>6. CASE ReceiveFrame(t)
  BY <1>0, <1>6, WorkKeeps DEF ReceiveFrame
<1>7. CASE Show(t)
  BY <1>0, <1>7, WorkKeeps DEF Show
<1>8. CASE Drain(t)
  BY <1>0, <1>8, WorkKeeps DEF Drain
<1>9. CASE Flush(t)
  BY <1>0, <1>9, WorkKeeps DEF Flush
<1>10. CASE LoadHave(t)
  BY <1>0, <1>10, WorkKeeps DEF LoadHave
<1>11. CASE ClearHave(t)
  <2>1. Alive = {t}
    BY <1>0 DEF ControlInv, AliveInv
  <2>2. wpc' \in [Threads -> WorkPc] /\ Alive' = {}
    BY <1>11, <2>1 DEF ClearHave, ControlInv, Alive
  <2> QED
    BY <1>11, <2>2 DEF ClearHave, ControlInv, AliveInv, RegInv, RendererQuiet
<1>12. CASE ReadStride(t)
  BY <1>0, <1>12, WorkKeeps DEF ReadStride
<1> QED
  BY <1>1, <1>2, <1>3, <1>4, <1>5, <1>6, <1>7, <1>8, <1>9, <1>10, <1>11, <1>12
  DEF Work

\* ControlInv holds in every state the player can reach.
THEOREM ControlHolds == Spec => []ControlInv
<1>1. ControlInv /\ [Next]_vars => ControlInv'
  <2> SUFFICES ASSUME ControlInv, [Next]_vars PROVE ControlInv'
    OBVIOUS
  <2>1. CASE Next
    BY <2>1, MainStep, WorkStep DEF Next
  <2>2. CASE UNCHANGED vars
    BY <2>2 DEF vars, main, thread, ControlInv, AliveInv, RegInv,
                RendererQuiet, Alive
  <2> QED
    BY <2>1, <2>2
<1> QED
  BY ControlInit, <1>1, PTL DEF Spec

\* No decoding thread outlives its session, joined or not (main_yuv4.c:364 and
\* vid_decode.c:216), whatever fails.
THEOREM NoStrayThreadHolds == Spec => []NoStrayThread
<1>1. ControlInv => NoStrayThread
  BY DEF ControlInv, AliveInv, NoStrayThread
<1> QED
  BY <1>1, ControlHolds, PTL

\* Renderer, decoder and decContext are main()'s alone while it takes them down
\* and sets them up (main_yuv4.c:367-381 and 396-413).
THEOREM RendererQuietHolds == Spec => []RendererQuiet
<1>1. ControlInv => RendererQuiet
  BY DEF ControlInv
<1> QED
  BY <1>1, ControlHolds, PTL

-----------------------------------------------------------------------------
(* No update of playerState is lost, unless the decoder can fail to open    *)
(* AND a thread can fail to allocate its frame.                             *)

FewFaults == "open" \notin Faults \/ "alloc" \notin Faults

ExitPath ==
  {"drain", "flush", "show_flush", "copy_flush", "show_last", "copy_last",
   "clear_load", "clear_store"}

Opening == {"have_load", "have_store", "clear_load", "clear_store", "enable", "create"}

\* playerState as main() has left it for the place where main() is.
MainFlags ==
  /\ pc \in {"recv", "detect", "put", "stop", "start"} /\ videoThreadId # NULL
       => playerState = {"HAVEVIDEO"}
  /\ pc = "set_exit" => reg = playerState /\ playerState = {"HAVEVIDEO"}
  /\ pc \in {"have_store", "clear_store"} => reg = playerState
  /\ pc \in {"clear_load", "clear_store"} => "HAVEVIDEO" \in playerState
  /\ pc \in {"enable", "create"} =>
       \/ playerState = {"HAVEVIDEO"}
       \/ "open" \in Faults /\ "HAVEVIDEO" \notin playerState
  /\ pc \in Opening => videoThreadId = NULL
  /\ pc \in {"set_exit", "join_test", "join"} => videoThreadId # NULL

\* A thread on its way out was told to leave, while main() waits for it.
WorkFlags ==
  \A t \in Threads :
    /\ wpc[t] \in ExitPath => pc \in {"join_test", "join"}
    /\ wpc[t] = "clear_store" => wreg[t] = playerState

\* Where every thread allocates its frame, a thread that has ended has cleared
\* HAVEVIDEO, and the flag stays clear until a decoder is open.
EndFlags ==
  "alloc" \notin Faults =>
    /\ pc \in {"disable", "close", "reset"} => "HAVEVIDEO" \notin playerState
    /\ videoThreadId \in Threads /\ wpc[videoThreadId] = "done"
         => "HAVEVIDEO" \notin playerState
    /\ videoThreadId = NULL /\ pc \notin Opening \ {"have_load", "have_store"}
         => "HAVEVIDEO" \notin playerState

FlagTypes ==
  /\ pc \in MainPc /\ wreg \in [Threads -> SUBSET {"HAVEVIDEO", "EXIT"}]
  /\ playerState \subseteq {"HAVEVIDEO", "EXIT"}
  /\ videoThreadId \in Threads \cup {NULL}

FlagInv == ControlInv /\ FlagTypes /\ MainFlags /\ WorkFlags /\ EndFlags

\* Initially no session runs.
LEMMA FlagInit == Init => FlagInv
<1> SUFFICES ASSUME Init PROVE FlagInv
  OBVIOUS
<1>1. FlagTypes /\ MainFlags /\ WorkFlags /\ EndFlags
  BY PlayerAssumption
  DEF Init, FlagTypes, MainFlags, WorkFlags, EndFlags, MainPc, ExitPath, Opening
<1> QED
  BY <1>1, ControlInit DEF FlagInv

\* The steps of main() keep the flags.
LEMMA MainFlagStep ==
  ASSUME FewFaults, FlagInv, ControlInv', Recv \/ Timeout \/ Handle
  PROVE  FlagInv'
<1> USE PlayerAssumption
    DEF Goto, WGoto, thread, main, devices, FlagInv, FlagTypes, MainFlags,
        WorkFlags, EndFlags, MainPc, ExitPath, Opening
<1>0. pc' = "disable" => \A t \in Threads : wpc'[t] \notin ExitPath
  BY DEF ControlInv, RendererQuiet, Alive
<1>1. CASE Recv
  BY <1>1 DEF Recv
<1>2. CASE Timeout
  BY <1>2 DEF Timeout
<1>3. CASE DetectChange
  BY <1>3 DEF DetectChange
<1>4. CASE PutPacket
  BY <1>4 DEF PutPacket
<1>5. CASE StopTest
  BY <1>5 DEF StopTest
<1>6. CASE SetExit
  BY <1>6 DEF SetExit
<1>7. CASE JoinTest
  <2>1. pc' = "disable" => \A t \in Threads : wpc[t] \notin ExitPath
    BY <1>0, <1>7 DEF JoinTest
  <2> QED
    BY <1>7, <2>1 DEF JoinTest
<1>8. CASE Join
  <2>1. \A t \in Threads : wpc[t] \notin ExitPath
    BY <1>0, <1>8 DEF Join
  <2>2. "alloc" \notin Faults => "HAVEVIDEO" \notin playerState
    BY <1>8 DEF Join
  <2> QED
    BY <1>8, <2>1, <2>2 DEF Join
<1>9. CASE Disable
  BY <1>9 DEF Disable
<1>10. CASE Close
  BY <1>10 DEF Close
<1>11. CASE Reset
  BY <1>11 DEF Reset
<1>12. CASE StartTest
  <2>1. pc' = "enable" => "open" \in Faults /\ "HAVEVIDEO" \notin playerState
    BY <1>12 DEF StartTest, FewFaults
  <2>2. pc' \in {"have_load", "enable"} => videoThreadId = NULL
    BY <1>12 DEF StartTest
  <2>3. /\ pc = "start" /\ pc' \in {"have_load", "enable", "recv"}
        /\ UNCHANGED <<playerState, videoThreadId, reg, wpc, wreg>>
    BY <1>12 DEF StartTest
  <2> QED
    BY <2>1, <2>2, <2>3
<1>13. CASE LoadState
  BY <1>13 DEF LoadState
<1>14. CASE SetHave
  BY <1>14 DEF SetHave
<1>15. CASE ClearExit
  BY ZenonT(60), <1>15 DEF ClearExit
<1>16. CASE Enable
  BY <1>16 DEF Enable
<1>17. CASE Create
  <2>1. CASE "HAVEVIDEO" \in playerState
    <3>1. PICK t \in Threads : /\ wpc' = [wpc EXCEPT ![t] = "alloc"]
                               /\ videoThreadId' = t
      BY <1>17, <2>1 DEF Create
    <3>2. playerState' = {"HAVEVIDEO"} /\ pc' = "recv" /\ wreg' = wreg
      BY <1>17, <2>1 DEF Create
    <3>3. \A u \in Threads : wpc'[u] \notin ExitPath
      BY <1>17, <3>1 DEF Create, ControlInv
    <3>4. wpc'[t] = "alloc"
      BY <3>1 DEF ControlInv
    <3> QED
      BY <3>1, <3>2, <3>3, <3>4
  <2>2. CASE "HAVEVIDEO" \notin playerState
    BY <1>17, <2>2 DEF Create
  <2> QED
    BY <2>1, <2>2
<1> QED
  BY <1>1, <1>2, <1>3, <1>4, <1>5, <1>6, <1>7, <1>8, <1>9, <1>10, <1>11, <1>12,
     <1>13, <1>14, <1>15, <1>16, <1>17 DEF Handle

\* A step of the thread t that does not write playerState.
LEMMA WorkFlagKeeps ==
  ASSUME FlagInv, ControlInv', NEW t \in Threads, NEW l \in WorkPc,
         t \in Alive, wpc' = [wpc EXCEPT ![t] = l],
         l = "done" => "alloc" \in Faults,
         l \in ExitPath => wpc[t] \in ExitPath \/ "EXIT" \in playerState,
         wreg' = IF l = "clear_store" THEN [wreg EXCEPT ![t] = playerState]
                                      ELSE wreg,
         UNCHANGED <<playerState, videoThreadId, pc, reg>>
  PROVE  FlagInv'
<1>1. l \in ExitPath => pc \in {"join_test", "join"}
  <2> SUFFICES ASSUME "EXIT" \in playerState PROVE pc \in {"join_test", "join"}
    BY DEF FlagInv, WorkFlags
  <2>1. videoThreadId # NULL /\ pc \notin Exclusive
    BY PlayerAssumption
    DEF FlagInv, ControlInv, AliveInv, RendererQuiet, Exclusive
  <2> QED
    BY <2>1 DEF FlagInv, FlagTypes, MainFlags, MainPc, Exclusive
<1>2. FlagTypes' /\ MainFlags'
  BY DEF FlagInv, FlagTypes, MainFlags
<1>3. WorkFlags'
  BY <1>1 DEF FlagInv, ControlInv, FlagTypes, WorkFlags
<1>4. EndFlags'
  BY DEF FlagInv, ControlInv, EndFlags, WorkPc
<1> QED
  BY <1>2, <1>3, <1>4 DEF FlagInv

\* The steps of a thread keep the flags.
LEMMA WorkFlagStep ==
  ASSUME FlagInv, ControlInv', NEW t \in Threads, Work(t)
  PROVE  FlagInv'
<1> USE DEF WGoto, Shared, main, devices, WorkPc, ExitPath
<1>0. t \in Alive
  BY DEF Work, Alloc, Poll, Count, Get, SendPacket, ReceiveFrame, ReadStride,
         Show, Drain, Flush, LoadHave, ClearHave, Alive
<1>1. CASE Alloc(t)
  BY <1>0, <1>1, WorkFlagKeeps DEF Alloc
<1>2. CASE Poll(t)
  BY <1>0, <1>2, WorkFlagKeeps DEF Poll
<1>3. CASE Count(t)
  BY <1>0, <1>3, WorkFlagKeeps DEF Count
<1>4. CASE Get(t)
  BY <1>0, <1>4, WorkFlagKeeps DEF Get
<1>5. CASE SendPacket(t)
  BY <1>0, <1>5, WorkFlagKeeps DEF SendPacket
<1>6. CASE ReceiveFrame(t)
  BY <1>0, <1>6, WorkFlagKeeps DEF ReceiveFrame
<1>7. CASE Show(t)
  BY <1>0, <1>7, WorkFlagKeeps DEF Show
<1>8. CASE Drain(t)
  BY <1>0, <1>8, WorkFlagKeeps DEF Drain
<1>9. CASE Flush(t)
  BY <1>0, <1>9, WorkFlagKeeps DEF Flush
<1>10. CASE LoadHave(t)
  BY <1>0, <1>10, WorkFlagKeeps DEF LoadHave
<1>11. CASE ClearHave(t)
  <2>1. Alive = {t} /\ t = videoThreadId
    BY <1>0 DEF FlagInv, ControlInv, AliveInv
  <2>2. wpc' \in [Threads -> WorkPc] /\ \A u \in Threads : wpc'[u] \in {"none", "done"}
    BY <1>11, <2>1 DEF ClearHave, FlagInv, ControlInv, Alive
  <2>3. pc \in {"join_test", "join"} /\ "HAVEVIDEO" \notin playerState'
    BY <1>11 DEF ClearHave, FlagInv, WorkFlags
  <2>4. FlagTypes'
    BY <1>11 DEF ClearHave, FlagInv, FlagTypes
  <2>5. MainFlags' /\ EndFlags' /\ WorkFlags'
    BY <1>11, <2>2, <2>3
    DEF ClearHave, FlagInv, MainFlags, EndFlags, WorkFlags, Opening
  <2> QED
    BY <2>4, <2>5 DEF FlagInv
<1>12. CASE ReadStride(t)
  BY <1>0, <1>12, WorkFlagKeeps DEF ReadStride
<1> QED
  BY <1>1, <1>2, <1>3, <1>4, <1>5, <1>6, <1>7, <1>8, <1>9, <1>10, <1>11, <1>12
  DEF Work

\* FlagInv holds in every state the player can reach with those faults.
THEOREM FlagsHold == ASSUME FewFaults PROVE Spec => []FlagInv
<1>1. FlagInv /\ ControlInv' /\ [Next]_vars => FlagInv'
  <2> SUFFICES ASSUME FlagInv, ControlInv', [Next]_vars PROVE FlagInv'
    OBVIOUS
  <2>1. CASE Next
    BY <2>1, MainFlagStep, WorkFlagStep DEF Next
  <2>2. CASE UNCHANGED vars
    BY <2>2 DEF vars, main, thread, FlagInv, FlagTypes, MainFlags, WorkFlags,
                EndFlags
  <2> QED
    BY <2>1, <2>2
<1> QED
  BY FlagInit, <1>1, ControlHolds, PTL DEF Spec

\* The unlocked |= and &= on playerState (main_yuv4.c:362, 401, 402 and
\* vid_decode.c:216) never overwrite each other's update.
THEOREM NoUpdateLostHolds == ASSUME FewFaults PROVE Spec => []NoUpdateLost
<1>1. FlagInv => NoUpdateLost
  BY DEF FlagInv, MainFlags, WorkFlags, NoUpdateLost
<1> QED
  BY <1>1, FlagsHold, PTL

\* While main() waits for packets of a session the thread is known to be there
\* and not told to leave.
THEOREM SessionRunsHolds == ASSUME FewFaults PROVE Spec => []SessionRuns
<1>1. FlagInv => SessionRuns
  BY DEF FlagInv, MainFlags, SessionRuns
<1> QED
  BY <1>1, FlagsHold, PTL

-----------------------------------------------------------------------------
(* Types, and the packets that were counted.                                *)

\* TypeOK with what it needs to be kept: the packet in hand is one when it is
\* looked at, and the decoder has no active SPS before it was given one.
TypeInv ==
  /\ TypeOK
  /\ pc \in {"detect", "put"} => packet \in Packets
  /\ pc = "detect" => packet.width \in Widths
  /\ decoder.sps = 0 => decoder.active = 0

DecoderStates ==
  [state : {"closed", "ready", "draining"}, sps : {0} \cup Widths,
   active : {0} \cup Widths, pending : Seq(Frames)]

\* A width that was reported.
LEMMA ReportedWidth ==
  ASSUME NEW w \in {0} \cup Widths
  PROVE  Reported(w) \in Sizes /\ (w # 0 => Reported(w) # 0)
BY PlayerAssumption DEF Reported, Sizes

\* Closed is a state of a decoder.
LEMMA ClosedIsState == Closed \in DecoderStates
BY DEF Closed, DecoderStates

\* Sending a packet keeps the decoder's state and the width in their types.
LEMMA DecodeTypes ==
  ASSUME TypeInv, NEW p \in Packets \cup Frames, Decode(p)
  PROVE  /\ decoder' \in DecoderStates /\ width' \in Sizes
         /\ decoder'.sps = 0 => decoder'.active = 0
         /\ width # 0 => width' # 0
<1>1. /\ decoder \in DecoderStates /\ width \in Sizes
      /\ decoder.sps = 0 => decoder.active = 0
  BY DEF TypeInv, TypeOK, DecoderStates
<1>2. CASE p.kind = "sps"
  <2>1. p \in Packets
    BY <1>2 DEF Frames
  <2>2. decoder' = [decoder EXCEPT !.sps = p.width] /\ width' = width
    BY <1>2 DEF Decode
  <2>3. p.width \in Widths /\ p.width # 0
    BY <1>2, <2>1, PlayerAssumption DEF Packets
  <2> QED
    BY <1>1, <2>2, <2>3 DEF DecoderStates
<1>3. CASE p.kind # "sps"
  <2> DEFINE f == Frame(Reported(decoder.sps))
  <2>1. f \in Frames
    BY <1>1, ReportedWidth DEF DecoderStates, Frame, Packet, Frames
  <2>2. PICK q \in Seq(Frames) :
          decoder' = [decoder EXCEPT !.active = decoder.sps, !.pending = q]
    <3>1. Append(decoder.pending, f) \in Seq(Frames)
      BY <1>1, <2>1 DEF DecoderStates
    <3> QED
      BY <1>1, <1>3, <3>1 DEF Decode, DecoderStates
  <2>3. width' = IF decoder.sps = decoder.active THEN width ELSE Reported(decoder.sps)
    BY <1>3 DEF Decode
  <2>4. width' \in Sizes /\ (width # 0 => width' # 0)
    BY <1>1, <2>3, ReportedWidth DEF DecoderStates
  <2>5. decoder' \in DecoderStates /\ decoder'.sps = decoder'.active
    <3> DEFINE d == [decoder EXCEPT !.active = decoder.sps]
    <3>1. d \in DecoderStates /\ d.sps = d.active
      BY <1>1 DEF DecoderStates
    <3>2. decoder' = [d EXCEPT !.pending = q]
      BY <1>1, <2>2 DEF DecoderStates
    <3> HIDE DEF d
    <3> QED
      BY <3>1, <3>2 DEF DecoderStates
  <2> QED
    BY <2>4, <2>5
<1> QED
  BY <1>2, <1>3

\* Initially the types are right.
LEMMA TypeInit == Init => TypeInv
<1> SUFFICES ASSUME Init PROVE TypeInv
  OBVIOUS
<1>1. Nothing \in Frames /\ decoder \in DecoderStates /\ decoder.active = 0
  BY ClosedIsState DEF Init, Nothing, Frame, Packet, Frames, Sizes, Closed
<1>2. hold \in [Threads -> Packets \cup Frames] /\ packet \in Packets \cup {Nothing}
  BY <1>1 DEF Init
<1>3. width \in Sizes /\ renderer \in [width : Sizes, full : BOOLEAN]
  BY DEF Init, Sizes
<1>4. pc \in MainPc /\ wpc \in [Threads -> WorkPc] /\ queue \in Seq(Packets)
  BY DEF Init, MainPc, WorkPc
<1>5. decoder \in DecoderStates
  BY <1>1
<1>6. TypeOK
  BY <1>2, <1>3, <1>4, <1>5 DEF Init, TypeOK, DecoderStates
<1> QED
  BY <1>1, <1>6 DEF Init, TypeInv

\* The steps of main() keep the types.
LEMMA MainTypeStep ==
  ASSUME TypeInv, Recv \/ Timeout \/ Handle
  PROVE  TypeInv'
<1> USE DEF Goto, WGoto, thread, main, devices, TypeInv, TypeOK, MainPc, WorkPc
<1>0. 0 \in Sizes
  BY DEF Sizes
<1>1. CASE Recv
  <2>1. \A w \in Widths : w \in Sizes
    BY DEF Sizes
  <2>2. \A w \in Widths, k \in {"sps", "stap"} :
          Packet(k, w) \in Packets /\ Packet(k, w).width = w
    BY DEF Packet, Packets
  <2>3. Packet("slice", 0) \in Packets
    BY DEF Packet, Packets
  <2>4. /\ packet' \in Packets /\ pc' \in {"detect", "put"}
        /\ pc' = "detect" => packet'.width \in Widths
    BY <1>1, <2>1, <2>2, <2>3 DEF Recv
  <2>5. UNCHANGED <<playerState, width, videoThreadId, queue, devices, reg,
                    start_flag, stop_flag, thread>>
    BY <1>1 DEF Recv
  <2> QED
    BY <2>4, <2>5
<1>2. CASE Timeout
  BY <1>2 DEF Timeout
<1>3. CASE DetectChange
  <2>1. packet \in Packets /\ packet.width \in Sizes /\ packet.width # 0
    BY <1>3, PlayerAssumption DEF DetectChange, Sizes
  <2> QED
    BY <1>3, <2>1 DEF DetectChange
<1>4. CASE PutPacket
  <2>1. Stored \in Packets
    BY <1>4 DEF PutPacket, Stored, Packets
  <2>2. queue' \in Seq(Packets) /\ packet' = Nothing /\ pc' = "stop"
    BY <1>4, <2>1 DEF PutPacket
  <2>3. UNCHANGED <<playerState, width, videoThreadId, devices, reg, start_flag,
                    stop_flag, thread>>
    BY <1>4 DEF PutPacket
  <2> QED
    BY <2>2, <2>3
<1>5. CASE StopTest
  BY ZenonT(60), <1>5 DEF StopTest
<1>6. CASE SetExit
  BY <1>6 DEF SetExit
<1>7. CASE JoinTest
  BY <1>7 DEF JoinTest
<1>8. CASE Join
  BY <1>8 DEF Join
<1>9. CASE Disable
  BY <1>0, <1>9 DEF Disable
<1>10. CASE Close
  <2>1. decoder' \in DecoderStates /\ (decoder'.sps = 0 => decoder'.active = 0)
    BY <1>10, ClosedIsState DEF Close, DecoderStates, Closed
  <2>2. pc' = "reset"
    BY <1>10 DEF Close
  <2>3. UNCHANGED <<playerState, width, videoThreadId, queue, renderer, reg,
                    start_flag, stop_flag, packet, thread>>
    BY <1>10 DEF Close
  <2> QED
    BY <2>1, <2>2, <2>3 DEF DecoderStates
<1>11. CASE Reset
  <2>1. /\ width' \in Sizes
        /\ start_flag' = FALSE /\ stop_flag' = FALSE
        /\ videoThreadId' = NULL /\ pc' = "start"
    BY <1>0, <1>11 DEF Reset
  <2>2. UNCHANGED <<playerState, queue, devices, reg, packet, thread>>
    BY <1>11 DEF Reset
  <2> QED
    BY <2>1, <2>2
<1>12. CASE StartTest
  <2>1. Opened \in DecoderStates /\ (Opened.sps = 0 => Opened.active = 0)
    BY ClosedIsState DEF Opened, DecoderStates, Closed
  <2>2. decoder' \in DecoderStates /\ (decoder'.sps = 0 => decoder'.active = 0)
    BY <1>12, <2>1 DEF StartTest, DecoderStates
  <2>3. pc' \in {"have_load", "enable", "recv"}
    BY <1>12 DEF StartTest
  <2>4. UNCHANGED <<playerState, width, videoThreadId, queue, renderer, reg,
                    start_flag, stop_flag, packet, thread>>
    BY <1>12 DEF StartTest
  <2> QED
    BY <2>2, <2>3, <2>4 DEF DecoderStates
<1>13. CASE LoadState
  BY <1>13 DEF LoadState
<1>14. CASE SetHave
  BY <1>14 DEF SetHave
<1>15. CASE ClearExit
  BY <1>15 DEF ClearExit
<1>16. CASE Enable
  <2>1. PICK w \in {width, 0} : renderer' = [width |-> w, full |-> TRUE]
    BY <1>16 DEF Enable
  <2>2. renderer' \in [width : Sizes, full : BOOLEAN] /\ pc' = "create"
    BY <1>0, <1>16, <2>1 DEF Enable
  <2>3. UNCHANGED <<playerState, width, videoThreadId, queue, decoder, reg,
                    start_flag, stop_flag, packet, thread>>
    BY <1>16 DEF Enable
  <2> QED
    BY <2>2, <2>3
<1>17. CASE Create
  <2>1. PICK i \in Threads \cup {NULL} :
          videoThreadId' = i /\ wpc' \in [Threads -> WorkPc]
    BY <1>17 DEF Create
  <2>2. pc' = "recv" /\ stop_flag' = FALSE
    BY <1>17 DEF Create
  <2>3. UNCHANGED <<playerState, width, queue, devices, reg, start_flag, packet,
                    wreg, hold, stride>>
    BY <1>17 DEF Create
  <2> QED
    BY <2>1, <2>2, <2>3
<1> QED
  BY <1>1, <1>2, <1>3, <1>4, <1>5, <1>6, <1>7, <1>8, <1>9, <1>10, <1>11,
     <1>12, <1>13, <1>14, <1>15, <1>16, <1>17 DEF Handle

\* A step of the thread t that changes queue, decoder, width and hold within
\* their types keeps TypeInv.
LEMMA WorkTypeKeeps ==
  ASSUME TypeInv, NEW t \in Threads, NEW l \in WorkPc,
         wpc' = [wpc EXCEPT ![t] = l],
         queue' \in Seq(Packets),
         hold' \in [Threads -> Packets \cup Frames], stride' \in [Threads -> Sizes],
         decoder' \in DecoderStates, decoder'.sps = 0 => decoder'.active = 0,
         width' \in Sizes, width # 0 => width' # 0,
         UNCHANGED <<playerState, videoThreadId, renderer, main, wreg>>
  PROVE  TypeInv'
BY DEF TypeInv, TypeOK, DecoderStates, main

\* The steps of a thread keep the types.
LEMMA WorkTypeStep ==
  ASSUME TypeInv, NEW t \in Threads, Work(t)
  PROVE  TypeInv'
<1> USE DEF WGoto, WorkPc
<1>0. /\ decoder \in DecoderStates /\ (decoder.sps = 0 => decoder.active = 0)
      /\ queue \in Seq(Packets) /\ width \in Sizes
      /\ hold \in [Threads -> Packets \cup Frames] /\ stride \in [Threads -> Sizes]
  BY DEF TypeInv, TypeOK, DecoderStates
<1>a. Nothing \in Frames
  BY DEF Nothing, Frame, Packet, Frames, Sizes
<1>b. ASSUME NEW x \in Packets \cup Frames
      PROVE  [hold EXCEPT ![t] = x] \in [Threads -> Packets \cup Frames]
  BY <1>0
<1>c. ASSUME decoder.pending # << >>
      PROVE  /\ Head(decoder.pending) \in Frames
             /\ LET d == [decoder EXCEPT !.pending = Tail(@)]
                IN d \in DecoderStates /\ (d.sps = 0 => d.active = 0)
  <2>1. decoder.pending \in Seq(Frames)
    BY <1>0 DEF DecoderStates
  <2>2. Head(decoder.pending) \in Frames /\ Tail(decoder.pending) \in Seq(Frames)
    BY <1>c, <2>1
  <2> QED
    BY <1>0, <2>2 DEF DecoderStates
<1>1. CASE Alloc(t)
  BY <1>0, <1>1, WorkTypeKeeps DEF Alloc, Shared, devices
<1>2. CASE Poll(t)
  BY <1>0, <1>2, WorkTypeKeeps DEF Poll, Shared, devices
<1>3. CASE Count(t)
  BY <1>0, <1>3, WorkTypeKeeps DEF Count, Shared, devices
<1>4. CASE Get(t)
  <2>1. queue # << >> => Head(queue) \in Packets /\ Tail(queue) \in Seq(Packets)
    BY <1>0
  <2>2. queue' \in Seq(Packets) /\ hold' \in [Threads -> Packets \cup Frames]
    BY <1>0, <1>4, <1>b, <2>1 DEF Get
  <2> QED
    BY <1>0, <1>4, <2>2, WorkTypeKeeps DEF Get, devices
<1>5. CASE SendPacket(t)
  <2>1. hold' \in [Threads -> Packets \cup Frames] /\ hold[t] \in Packets \cup Frames
    BY <1>0, <1>5, <1>a, <1>b DEF SendPacket
  <2>2. CASE Decode(hold[t])
    BY <1>0, <1>5, <2>1, <2>2, DecodeTypes, WorkTypeKeeps DEF SendPacket
  <2>3. CASE UNCHANGED <<decoder, width>>
    BY <1>0, <1>5, <2>1, <2>3, WorkTypeKeeps DEF SendPacket
  <2> QED
    BY <1>5, <2>2, <2>3 DEF SendPacket
<1>6. CASE ReceiveFrame(t)
  <2>1. CASE decoder.pending # << >> /\ hold' = [hold EXCEPT ![t] = Head(decoder.pending)]
               /\ decoder' = [decoder EXCEPT !.pending = Tail(@)] /\ WGoto(t, "show")
    BY <1>0, <1>6, <1>b, <1>c, <2>1, WorkTypeKeeps DEF ReceiveFrame
  <2>2. CASE UNCHANGED <<decoder, hold>> /\ WGoto(t, "poll")
    BY <1>0, <1>6, <2>2, WorkTypeKeeps DEF ReceiveFrame
  <2> QED
    BY <1>6, <2>1, <2>2 DEF ReceiveFrame
<1>7. CASE Show(t)
  <2>1. PICK l \in WorkPc : wpc' = [wpc EXCEPT ![t] = l]
    BY <1>7 DEF Show
  <2>2. hold' \in [Threads -> Packets \cup Frames]
    BY <1>7, <1>a, <1>b DEF Show
  <2>3. stride' \in [Threads -> Sizes]
    BY <1>0, <1>7 DEF Show, Sizes
  <2> QED
    BY <1>0, <1>7, <2>1, <2>2, <2>3, WorkTypeKeeps DEF Show, Shared, devices
<1>8. CASE Drain(t)
  <2>1. LET d == [decoder EXCEPT !.state = "draining"]
        IN d \in DecoderStates /\ (d.sps = 0 => d.active = 0)
    BY <1>0 DEF DecoderStates
  <2> QED
    BY <1>0, <1>8, <2>1, WorkTypeKeeps DEF Drain
<1>9. CASE Flush(t)
  <2>1. LET d == [decoder EXCEPT !.state = "ready"]
        IN d \in DecoderStates /\ (d.sps = 0 => d.active = 0)
    BY <1>0 DEF DecoderStates
  <2>2. CASE decoder.pending # << >> /\ hold' = [hold EXCEPT ![t] = Head(decoder.pending)]
               /\ decoder' = [decoder EXCEPT !.pending = Tail(@)] /\ WGoto(t, "show_flush")
    BY <1>0, <1>9, <1>b, <1>c, <2>2, WorkTypeKeeps DEF Flush
  <2>3. CASE decoder' = [decoder EXCEPT !.state = "ready"] /\ UNCHANGED hold
             /\ WGoto(t, "clear_load")
    BY <1>0, <1>9, <2>1, <2>3, WorkTypeKeeps DEF Flush
  <2>4. CASE hold' = [hold EXCEPT ![t] = Nothing] /\ UNCHANGED decoder
             /\ WGoto(t, "show_last")
    BY <1>0, <1>9, <1>a, <1>b, <2>4, WorkTypeKeeps DEF Flush
  <2> QED
    BY <1>9, <2>2, <2>3, <2>4 DEF Flush
<1>10. CASE LoadHave(t)
  BY <1>10 DEF LoadHave, Shared, main, devices, TypeInv, TypeOK
<1>11. CASE ClearHave(t)
  BY <1>11 DEF ClearHave, main, devices, TypeInv, TypeOK
<1>12. CASE ReadStride(t)
  <2>1. PICK l \in WorkPc : wpc' = [wpc EXCEPT ![t] = l]
    BY <1>12 DEF ReadStride
  <2>2. stride' \in [Threads -> Sizes]
    BY <1>0, <1>12 DEF ReadStride
  <2> QED
    BY <1>0, <1>12, <2>1, <2>2, WorkTypeKeeps DEF ReadStride, Shared, devices
<1> QED
  BY <1>1, <1>2, <1>3, <1>4, <1>5, <1>6, <1>7, <1>8, <1>9, <1>10, <1>11, <1>12
  DEF Work

\* TypeInv holds in every state the player can reach.
THEOREM TypeInvHolds == Spec => []TypeInv
<1>1. TypeInv /\ [Next]_vars => TypeInv'
  <2> SUFFICES ASSUME TypeInv, [Next]_vars PROVE TypeInv'
    OBVIOUS
  <2>1. CASE Next
    BY <2>1, MainTypeStep, WorkTypeStep DEF Next
  <2>2. CASE UNCHANGED vars
    BY <2>2 DEF vars, main, thread, devices, TypeInv, TypeOK
  <2> QED
    BY <2>1, <2>2
<1> QED
  BY TypeInit, <1>1, PTL DEF Spec

\* The variables keep their types, and a session is asked for only at a known
\* width (main_yuv4.c:302-312 and 334-345, with 377-380 at its end).
THEOREM TypeCorrect == Spec => []TypeOK
<1>1. TypeInv => TypeOK
  BY DEF TypeInv
<1> QED
  BY <1>1, TypeInvHolds, PTL

\* A step of main() never takes from the queue, and creates no thread that is
\* past the count.
LEMMA MainCountStep ==
  ASSUME TypeInv, CountHolds, Recv \/ Timeout \/ Handle
  PROVE  CountHolds'
<1>1. queue' = queue \/ (queue \in Seq(Packets) /\ queue' = Append(queue, Stored))
  BY DEF Handle, Recv, Timeout, DetectChange, PutPacket, StopTest, SetExit,
         JoinTest, Join, Disable, Close, Reset, StartTest, LoadState, SetHave,
         ClearExit, Enable, Create, TypeInv, TypeOK
<1>2. Len(queue) > 2 => Len(queue') > 2
  BY <1>1
<1>3. wpc' = wpc \/ \E t \in Threads : wpc' = [wpc EXCEPT ![t] = "alloc"]
  BY DEF Handle, Recv, Timeout, DetectChange, PutPacket, StopTest, SetExit,
         JoinTest, Join, Disable, Close, Reset, StartTest, LoadState, SetHave,
         ClearExit, Enable, Create, WGoto, thread
<1>4. wpc \in [Threads -> WorkPc]
  BY DEF TypeInv, TypeOK
<1> QED
  BY <1>2, <1>3, <1>4 DEF CountHolds

\* A step of the one thread there is: what it takes it has counted, and after
\* that it is no longer about to take.
LEMMA WorkCountStep ==
  ASSUME TypeInv, ControlInv, CountHolds, NEW t \in Threads, Work(t)
  PROVE  CountHolds'
<1>0. t \in Alive
  BY DEF Work, Alloc, Poll, Count, Get, SendPacket, ReceiveFrame, ReadStride,
         Show, Drain, Flush, LoadHave, ClearHave, Alive
<1>1. \A u \in Threads : wpc[u] = "get" => u = t
  BY <1>0 DEF ControlInv, AliveInv, Alive
<1>2. wpc \in [Threads -> WorkPc]
  BY DEF TypeInv, TypeOK
<1>3. \A u \in Threads \ {t} : wpc'[u] = wpc[u]
  BY <1>2 DEF Work, Alloc, Poll, Count, Get, SendPacket, ReceiveFrame, ReadStride, Show,
              Drain, Flush, LoadHave, ClearHave, WGoto
<1>4. wpc'[t] = "get" => Count(t) /\ Len(queue) > 2
  BY <1>2 DEF Work, Alloc, Poll, Count, Get, SendPacket, ReceiveFrame, ReadStride, Show,
              Drain, Flush, LoadHave, ClearHave, WGoto
<1>5. Count(t) => queue' = queue
  BY DEF Count, Shared
<1> QED
  BY <1>1, <1>3, <1>4, <1>5 DEF CountHolds

\* vid_decode.c:163-165: the packets counted are still there when one is taken.
THEOREM CountedPacketsRemain == Spec => []CountHolds
<1>1. Init => CountHolds
  BY DEF Init, CountHolds
<1>2. TypeInv /\ ControlInv /\ CountHolds /\ [Next]_vars => CountHolds'
  <2> SUFFICES ASSUME TypeInv, ControlInv, CountHolds, [Next]_vars
               PROVE  CountHolds'
    OBVIOUS
  <2>1. CASE Next
    BY <2>1, MainCountStep, WorkCountStep DEF Next
  <2>2. CASE UNCHANGED vars
    BY <2>2 DEF vars, thread, CountHolds
  <2> QED
    BY <2>1, <2>2
<1> QED
  BY <1>1, <1>2, TypeInvHolds, ControlHolds, PTL DEF Spec

-----------------------------------------------------------------------------
(* The screen, the decoder and the renderer: what main() and the decoding   *)
(* thread leave in them for each other.                                     *)

\* The steps of main() and of a thread are those of Player, named once.
LEMMA MainCases ==
  ASSUME Recv \/ Timeout \/ Handle
  PROVE  \/ Recv \/ Timeout \/ DetectChange \/ PutPacket
         \/ StopTest \/ SetExit \/ JoinTest \/ Join \/ Disable \/ Close \/ Reset
         \/ StartTest \/ LoadState \/ SetHave \/ ClearExit \/ Enable \/ Create
BY DEF Handle

-----------------------------------------------------------------------------
(* The screen.                                                              *)

\* Full screen and start_flag, at every place of main(): a thread is created
\* only with the screen taken, and the screen is given back on the way to the
\* reset of start_flag.
ScreenInv ==
  /\ pc \in {"recv", "detect"} =>
       /\ renderer.full <=> start_flag
       /\ videoThreadId # NULL => renderer.full
  /\ pc \in {"put", "stop", "start", "set_exit", "join_test", "join"} =>
       /\ renderer.full => start_flag
       /\ videoThreadId # NULL => renderer.full
  /\ pc \in {"close", "reset"} => ~ renderer.full
  /\ pc \in Opening => start_flag
  /\ pc = "create" => renderer.full

\* Initially the screen is dark.
LEMMA ScreenInit == Init => ScreenInv
BY DEF Init, ScreenInv, Opening

\* The steps of main() keep the screen the session's.
LEMMA MainScreenStep ==
  ASSUME TypeInv, ScreenInv, Recv \/ Timeout \/ Handle
  PROVE  ScreenInv'
<1> USE DEF Goto, devices, ScreenInv, Opening
<1>1. CASE Recv
  BY <1>1 DEF Recv
<1>2. CASE Timeout
  BY <1>2 DEF Timeout
<1>3. CASE DetectChange
  BY <1>3 DEF DetectChange
<1>4. CASE PutPacket
  BY <1>4 DEF PutPacket
<1>5. CASE StopTest
  BY <1>5 DEF StopTest
<1>6. CASE SetExit
  BY <1>6 DEF SetExit
<1>7. CASE JoinTest
  BY <1>7 DEF JoinTest
<1>8. CASE Join
  BY <1>8 DEF Join
<1>9. CASE Disable
  <2>1. renderer \in [width : Sizes, full : BOOLEAN]
    BY DEF TypeInv, TypeOK
  <2> QED
    BY <1>9, <2>1 DEF Disable
<1>10. CASE Close
  BY <1>10 DEF Close
<1>11. CASE Reset
  BY <1>11 DEF Reset
<1>12. CASE StartTest
  <2>1. \/ pc' \in {"have_load", "enable"} /\ start_flag
        \/ pc' = "recv" /\ ~ (videoThreadId = NULL /\ start_flag)
    BY <1>12 DEF StartTest
  <2>2. pc = "start" /\ UNCHANGED <<videoThreadId, renderer, start_flag>>
    BY <1>12 DEF StartTest
  <2> QED
    BY <2>1, <2>2
<1>13. CASE LoadState
  BY <1>13 DEF LoadState
<1>14. CASE SetHave
  BY <1>14 DEF SetHave
<1>15. CASE ClearExit
  BY <1>15 DEF ClearExit
<1>16. CASE Enable
  BY <1>16 DEF Enable
<1>17. CASE Create
  BY <1>17 DEF Create
<1> QED
  BY MainCases, <1>1, <1>2, <1>3, <1>4, <1>5, <1>6, <1>7, <1>8, <1>9, <1>10,
     <1>11, <1>12, <1>13, <1>14, <1>15, <1>16, <1>17

\* A thread touches neither main()'s variables nor the renderer.
LEMMA WorkLeaves ==
  ASSUME NEW t \in Threads, Work(t)
  PROVE  UNCHANGED <<videoThreadId, renderer, main>>
BY DEF Work, Alloc, Poll, Count, Get, SendPacket, ReceiveFrame, ReadStride, Show, Drain,
       Flush, LoadHave, ClearHave, Shared, devices

\* ScreenInv holds in every state the player can reach.
THEOREM ScreenHolds == Spec => []ScreenInv
<1>1. TypeInv /\ ScreenInv /\ [Next]_vars => ScreenInv'
  <2> SUFFICES ASSUME TypeInv, ScreenInv, [Next]_vars PROVE ScreenInv'
    OBVIOUS
  <2>1. CASE Recv \/ Timeout \/ Handle
    BY <2>1, MainScreenStep
  <2>2. CASE UNCHANGED <<videoThreadId, renderer, main>>
    BY <2>2 DEF main, ScreenInv
  <2>3. CASE UNCHANGED vars
    BY <2>2, <2>3 DEF vars, devices
  <2> QED
    BY <2>1, <2>2, <2>3, WorkLeaves DEF Next
<1> QED
  BY ScreenInit, <1>1, TypeInvHolds, PTL DEF Spec

\* omx_display_enable and omx_display_disable (main_yuv4.c:369 and 407) go with
\* start_flag: between two packets the screen is taken exactly if a session has
\* been asked for, whether or not its decoder opened, whatever fails.
THEOREM ScreenFollowsSessionHolds == Spec => []ScreenFollowsSession
<1>1. ScreenInv => ScreenFollowsSession
  BY DEF ScreenInv, ScreenFollowsSession
<1> QED
  BY <1>1, ScreenHolds, PTL

-----------------------------------------------------------------------------
(* The decoder.                                                             *)

Decoding == {"alloc", "poll", "count", "get", "send", "receive", "show", "copy",
             "drain"}
Flushing == {"flush", "show_flush", "copy_flush"}

\* A thread decodes with an open decoder, and only a thread that is flushing the
\* decoder leaves it draining.  main() creates the next thread after an open.
DecInv ==
  /\ \A t \in Threads : wpc[t] \in Decoding => decoder.state = "ready"
  /\ decoder.state = "draining" => \E t \in Threads : wpc[t] \in Flushing
  /\ pc \in {"have_load", "have_store", "clear_load", "clear_store"} =>
       decoder.state = "ready"
  /\ (pc \in {"enable", "create"} /\ "HAVEVIDEO" \in playerState) =>
       decoder.state = "ready"

\* Initially no thread needs a decoder.
LEMMA DecInit == Init => DecInv
BY DEF Init, DecInv, Closed, Decoding, Flushing

\* A step of main() that leaves the threads alone, and either the decoder too or
\* nobody there to use it.
LEMMA MainDecKeeps ==
  ASSUME DecInv, UNCHANGED wpc,
         \/ UNCHANGED decoder
         \/ Alive = {} /\ decoder'.state # "draining",
         pc' \in Opening /\ (pc' \in {"enable", "create"} => "HAVEVIDEO" \in playerState')
           => decoder'.state = "ready"
  PROVE  DecInv'
<1>1. CASE UNCHANGED decoder
  BY <1>1 DEF DecInv, Opening
<1>2. CASE Alive = {} /\ decoder'.state # "draining"
  BY <1>2 DEF DecInv, Alive, Decoding, Opening
<1> QED
  BY <1>1, <1>2

\* The steps of main() leave no thread without a decoder.
LEMMA MainDecStep ==
  ASSUME FewFaults, TypeInv, FlagInv, DecInv, Recv \/ Timeout \/ Handle
  PROVE  DecInv'
<1> USE DEF Goto, WGoto, thread, main, devices, Opening
<1>a. pc \in Exclusive => Alive = {} /\ decoder.state # "draining"
  BY DEF FlagInv, ControlInv, RendererQuiet, Exclusive, DecInv, Alive, Flushing
<1>b. decoder \in DecoderStates
  BY DEF TypeInv, TypeOK, DecoderStates
<1>1. CASE Recv
  BY <1>1, MainDecKeeps DEF Recv
<1>2. CASE Timeout
  BY <1>2, MainDecKeeps DEF Timeout
<1>3. CASE DetectChange
  BY <1>3, MainDecKeeps DEF DetectChange
<1>4. CASE PutPacket
  BY <1>4, MainDecKeeps DEF PutPacket
<1>5. CASE StopTest
  BY <1>5, MainDecKeeps DEF StopTest
<1>6. CASE SetExit
  BY <1>6, MainDecKeeps DEF SetExit
<1>7. CASE JoinTest
  BY <1>7, MainDecKeeps DEF JoinTest
<1>8. CASE Join
  BY <1>8, MainDecKeeps DEF Join
<1>9. CASE Disable
  BY <1>9, MainDecKeeps DEF Disable
<1>10. CASE Close
  <2>1. decoder'.state # "draining" /\ Alive = {}
    BY <1>10, <1>a DEF Close, Closed, Exclusive
  <2> QED
    BY <1>10, <2>1, MainDecKeeps DEF Close
<1>11. CASE Reset
  BY <1>11, MainDecKeeps DEF Reset
<1>12. CASE StartTest
  <2>1. CASE videoThreadId = NULL /\ start_flag
    <3>1. Alive = {}
      BY <2>1, PlayerAssumption DEF FlagInv, ControlInv, AliveInv, Alive
    <3>2. decoder.state \in {"closed", "ready"}
      BY <3>1, <1>b DEF DecInv, Alive, Flushing, DecoderStates
    <3>3. Opened.state = "ready"
      BY <3>2 DEF Opened, Closed
    <3>4. CASE decoder' = Opened
      BY <1>12, <3>1, <3>3, <3>4, MainDecKeeps DEF StartTest
    <3>5. CASE pc' = "enable" /\ UNCHANGED decoder /\ "open" \in Faults
               /\ decoder.state = "closed"
      <4>1. "HAVEVIDEO" \notin playerState
        <5>1. pc = "start" /\ pc \notin Opening
          BY <1>12 DEF StartTest
        <5> QED
          BY <2>1, <3>5, <5>1 DEF FlagInv, EndFlags, FewFaults
      <4> QED
        BY <1>12, <3>5, <4>1, MainDecKeeps DEF StartTest
    <3> QED
      BY <1>12, <2>1, <3>4, <3>5 DEF StartTest
  <2>2. CASE ~ (videoThreadId = NULL /\ start_flag)
    BY <1>12, <2>2, MainDecKeeps DEF StartTest
  <2> QED
    BY <2>1, <2>2
<1>13. CASE LoadState
  BY <1>13, MainDecKeeps DEF LoadState, DecInv
<1>14. CASE SetHave
  BY <1>14, MainDecKeeps DEF SetHave, DecInv
<1>15. CASE ClearExit
  BY <1>15, MainDecKeeps DEF ClearExit, DecInv
<1>16. CASE Enable
  BY <1>16, MainDecKeeps DEF Enable, DecInv
<1>17. CASE Create
  <2>1. CASE "HAVEVIDEO" \in playerState
    <3>1. decoder.state = "ready" /\ decoder' = decoder /\ pc' = "recv"
      BY <1>17, <2>1 DEF Create, DecInv
    <3> QED
      BY <3>1 DEF DecInv
  <2>2. CASE "HAVEVIDEO" \notin playerState
    BY <1>17, <2>2, MainDecKeeps DEF Create
  <2> QED
    BY <2>1, <2>2
<1> QED
  BY MainCases, <1>1, <1>2, <1>3, <1>4, <1>5, <1>6, <1>7, <1>8, <1>9, <1>10,
     <1>11, <1>12, <1>13, <1>14, <1>15, <1>16, <1>17

\* A step of the thread t, the only one there is: where it goes tells the state
\* of the decoder.
LEMMA WorkDecKeeps ==
  ASSUME ControlInv, DecInv, NEW t \in Threads, NEW l \in WorkPc, t \in Alive,
         wpc' = [wpc EXCEPT ![t] = l],
         l \in Decoding => decoder'.state = "ready",
         decoder'.state = "draining" => l \in Flushing,
         UNCHANGED main
  PROVE  DecInv'
<1>1. \A u \in Threads \ {t} : wpc'[u] \in {"none", "done"}
  BY DEF ControlInv, AliveInv, Alive
<1>2. wpc'[t] = l
  BY DEF ControlInv
<1>3. pc' \notin Exclusive
  BY DEF ControlInv, RendererQuiet, Exclusive, main
<1> QED
  BY <1>1, <1>2, <1>3 DEF DecInv, Decoding, Exclusive

\* The steps of a thread leave it its decoder.
LEMMA WorkDecStep ==
  ASSUME TypeInv, ControlInv, DecInv, "decode" \notin Faults,
         NEW t \in Threads, Work(t)
  PROVE  DecInv'
<1> USE DEF WGoto, Shared, devices, WorkPc, Decoding, Flushing
<1>0. t \in Alive
  BY DEF Work, Alloc, Poll, Count, Get, SendPacket, ReceiveFrame, ReadStride,
         Show, Drain, Flush, LoadHave, ClearHave, Alive
<1>a. decoder \in DecoderStates
  BY DEF TypeInv, TypeOK, DecoderStates
<1>b. decoder.state = "draining" => wpc[t] \in Flushing
  BY <1>0 DEF DecInv, ControlInv, AliveInv, Alive
<1>c. wpc[t] \in Decoding => decoder.state = "ready"
  BY DEF DecInv
<1>d. UNCHANGED main
  BY WorkLeaves
<1>1. CASE Alloc(t)
  BY <1>0, <1>b, <1>c, <1>d, <1>1, WorkDecKeeps DEF Alloc
<1>2. CASE Poll(t)
  BY <1>0, <1>b, <1>c, <1>d, <1>2, WorkDecKeeps DEF Poll
<1>3. CASE Count(t)
  BY <1>0, <1>b, <1>c, <1>d, <1>3, WorkDecKeeps DEF Count
<1>4. CASE Get(t)
  BY <1>0, <1>b, <1>c, <1>d, <1>4, WorkDecKeeps DEF Get
<1>5. CASE SendPacket(t)
  <2>1. decoder'.state = "ready"
    BY <1>a, <1>c, <1>5 DEF SendPacket, Decode, DecoderStates
  <2>2. \E l \in {"receive", "poll"} : wpc' = [wpc EXCEPT ![t] = l]
    BY <1>5 DEF SendPacket
  <2> QED
    BY <1>0, <1>d, <2>1, <2>2, WorkDecKeeps
<1>6. CASE ReceiveFrame(t)
  <2>1. decoder'.state = "ready"
    BY <1>a, <1>c, <1>6 DEF ReceiveFrame, DecoderStates
  <2>2. \E l \in {"show", "poll"} : wpc' = [wpc EXCEPT ![t] = l]
    BY <1>6 DEF ReceiveFrame
  <2> QED
    BY <1>0, <1>d, <2>1, <2>2, WorkDecKeeps
<1>7. CASE Show(t)
  <2>1. CASE wpc[t] = "copy"
    BY <1>0, <1>b, <1>c, <1>d, <1>7, <2>1, WorkDecKeeps DEF Show
  <2>2. CASE wpc[t] = "copy_flush"
    BY <1>0, <1>b, <1>c, <1>d, <1>7, <2>2, WorkDecKeeps DEF Show
  <2>3. CASE wpc[t] = "copy_last"
    BY <1>0, <1>b, <1>c, <1>d, <1>7, <2>3, WorkDecKeeps DEF Show
  <2> QED
    BY <1>7, <2>1, <2>2, <2>3 DEF Show
<1>8. CASE Drain(t)
  <2>1. wpc' = [wpc EXCEPT ![t] = "flush"]
    BY <1>c, <1>8 DEF Drain
  <2> QED
    BY <1>0, <1>d, <2>1, WorkDecKeeps
<1>9. CASE Flush(t)
  <2>1. CASE wpc' = [wpc EXCEPT ![t] = "show_flush"]
    BY <1>0, <1>d, <2>1, WorkDecKeeps
  <2>2. CASE /\ decoder' = [decoder EXCEPT !.state = "ready"]
             /\ wpc' = [wpc EXCEPT ![t] = "clear_load"]
    <3>1. decoder'.state = "ready"
      BY <1>a, <2>2 DEF DecoderStates
    <3> QED
      BY <1>0, <1>d, <2>2, <3>1, WorkDecKeeps
  <2> QED
    BY <1>9, <2>1, <2>2 DEF Flush
<1>10. CASE LoadHave(t)
  BY <1>0, <1>b, <1>d, <1>10, WorkDecKeeps DEF LoadHave
<1>11. CASE ClearHave(t)
  BY <1>0, <1>b, <1>d, <1>11, WorkDecKeeps DEF ClearHave
<1>12. CASE ReadStride(t)
  <2>1. CASE wpc[t] = "show"
    BY <1>0, <1>b, <1>c, <1>d, <1>12, <2>1, WorkDecKeeps DEF ReadStride
  <2>2. CASE wpc[t] = "show_flush"
    BY <1>0, <1>b, <1>c, <1>d, <1>12, <2>2, WorkDecKeeps DEF ReadStride
  <2>3. CASE wpc[t] = "show_last"
    BY <1>0, <1>b, <1>c, <1>d, <1>12, <2>3, WorkDecKeeps DEF ReadStride
  <2> QED
    BY <1>12, <2>1, <2>2, <2>3 DEF ReadStride
<1> QED
  BY <1>1, <1>2, <1>3, <1>4, <1>5, <1>6, <1>7, <1>8, <1>9, <1>10, <1>11, <1>12
  DEF Work

\* A decoder that takes packets and gives frames is open whenever a packet is
\* sent to it (vid_decode.c:170): no session is begun with a closed decoder or
\* with one left draining by the session before.
THEOREM DecoderReadyHolds ==
  ASSUME FewFaults, "decode" \notin Faults PROVE Spec => []DecoderReady
<1>1. TypeInv /\ FlagInv /\ DecInv /\ [Next]_vars => DecInv'
  <2> SUFFICES ASSUME TypeInv, FlagInv, DecInv, [Next]_vars PROVE DecInv'
    OBVIOUS
  <2>1. CASE Next
    BY <2>1, MainDecStep, WorkDecStep DEF Next, FlagInv
  <2>2. CASE UNCHANGED vars
    BY <2>2 DEF vars, main, thread, devices, DecInv
  <2> QED
    BY <2>1, <2>2
<1>2. DecInv => DecoderReady
  BY DEF DecInv, DecoderReady, Decoding
<1> QED
  BY DecInit, <1>1, <1>2, TypeInvHolds, FlagsHold, PTL DEF Spec

-----------------------------------------------------------------------------
(* Streams of one width.                                                    *)

\* Every SPS announces w, which is what the decoder reports of it, and the
\* renderer is never left without buffers.
OneWidth(w) == Widths = {w} /\ Cropped = {} /\ "enable" \notin Faults

\* Where a thread has a frame in hand, and where it has read the stride.
Showing == {"show", "show_flush", "copy", "copy_flush"}
Copying == {"copy", "copy_flush"}

\* Then every frame has that width, from the decoder to the screen.
WidthInv(w) ==
  /\ decoder.pending \in Seq({Frame(w)})
  /\ \A t \in Threads : wpc[t] \in Showing => hold[t] = Frame(w)
  /\ \A t \in Threads : wpc[t] \in Copying => stride[t] = w
  /\ renderer.full => renderer.width = w

\* Initially nothing has a width.
LEMMA WidthInit == ASSUME NEW w PROVE Init => WidthInv(w)
BY DEF Init, WidthInv, Closed, Showing, Copying

\* A width that is known is w.
LEMMA KnownWidth ==
  ASSUME NEW w, OneWidth(w), TypeInv
  PROVE  start_flag => width = w
BY DEF OneWidth, TypeInv, TypeOK, Sizes

\* The steps of main() only handle the one width.
LEMMA MainWidthStep ==
  ASSUME NEW w, OneWidth(w), TypeInv, ScreenInv, WidthInv(w),
         Recv \/ Timeout \/ Handle
  PROVE  WidthInv(w)'
<1>1. decoder'.pending \in Seq({Frame(w)})
  <2>1. Closed.pending \in Seq({Frame(w)}) /\ decoder.pending \in Seq({Frame(w)})
    BY DEF Closed, WidthInv
  <2>2. Opened.pending \in Seq({Frame(w)})
    BY <2>1 DEF Opened, Closed
  <2>3. decoder' \in {decoder, Opened, Closed}
    BY DEF Handle, Recv, Timeout, DetectChange, PutPacket, StopTest, SetExit,
           JoinTest, Join, Disable, Close, Reset, StartTest, LoadState, SetHave,
           ClearExit, Enable, Create, devices
  <2> QED
    BY <2>1, <2>2, <2>3
<1>2. /\ \A t \in Threads : wpc'[t] \in Showing => hold'[t] = Frame(w)
      /\ \A t \in Threads : wpc'[t] \in Copying => stride'[t] = w
  <2>1. hold' = hold /\ stride' = stride
    BY DEF Handle, Recv, Timeout, DetectChange, PutPacket, StopTest, SetExit,
           JoinTest, Join, Disable, Close, Reset, StartTest, LoadState, SetHave,
           ClearExit, Enable, Create, thread
  <2>2. wpc' = wpc \/ \E t \in Threads : wpc' = [wpc EXCEPT ![t] = "alloc"]
    BY DEF Handle, Recv, Timeout, DetectChange, PutPacket, StopTest, SetExit,
           JoinTest, Join, Disable, Close, Reset, StartTest, LoadState, SetHave,
           ClearExit, Enable, Create, WGoto, thread
  <2>3. wpc \in [Threads -> WorkPc]
    BY DEF TypeInv, TypeOK
  <2> QED
    BY <2>1, <2>2, <2>3 DEF WidthInv, Showing, Copying
<1>3. renderer'.full => renderer'.width = w
  <2>1. CASE Disable
    <3>1. renderer'.full = FALSE
      BY <2>1 DEF Disable, TypeInv, TypeOK
    <3> QED
      BY <3>1
  <2>2. CASE Enable
    <3>1. width = w
      BY <2>2, KnownWidth DEF Enable, ScreenInv, Opening
    <3>2. renderer' = [width |-> width, full |-> TRUE]
      BY <2>2 DEF Enable, OneWidth
    <3> QED
      BY <3>1, <3>2
  <2>3. CASE ~ Disable /\ ~ Enable
    <3>1. renderer' = renderer
      BY <2>3
      DEF Handle, Recv, Timeout, DetectChange, PutPacket, StopTest, SetExit,
          JoinTest, Join, Close, Reset, StartTest, LoadState, SetHave,
          ClearExit, Create, devices
    <3> QED
      BY <3>1 DEF WidthInv
  <2> QED
    BY <2>1, <2>2, <2>3
<1> QED
  BY <1>1, <1>2, <1>3 DEF WidthInv

\* The decoder gives frames of the width of the SPS it has taken on.
LEMMA DecodeWidth ==
  ASSUME NEW w, OneWidth(w), TypeInv, decoder.pending \in Seq({Frame(w)}),
         NEW p, Decode(p)
  PROVE  decoder'.pending \in Seq({Frame(w)})
<1>1. decoder \in DecoderStates
  BY DEF TypeInv, TypeOK, DecoderStates
<1>2. CASE p.kind = "sps"
  <2>1. decoder'.pending = decoder.pending
    BY <1>1, <1>2 DEF Decode, DecoderStates
  <2> QED
    BY <2>1
<1>3. CASE p.kind # "sps"
  <2>1. decoder.sps # 0 => Reported(decoder.sps) = w
    BY <1>1 DEF DecoderStates, OneWidth, Reported
  <2>2. decoder'.pending \in
          {decoder.pending}
            \cup (IF decoder.sps = 0 THEN {}
                  ELSE {Append(decoder.pending, Frame(Reported(decoder.sps)))})
    <3> DEFINE d == [decoder EXCEPT !.active = decoder.sps]
    <3>1. d.pending = decoder.pending /\ d \in DecoderStates
      BY <1>1 DEF DecoderStates
    <3>2. decoder' = [d EXCEPT !.pending =
              IF decoder.sps = 0 \/ Len(@) = MaxPending THEN @
              ELSE Append(@, Frame(Reported(decoder.sps)))]
      BY <1>1, <1>3 DEF Decode, DecoderStates
    <3> HIDE DEF d
    <3> QED
      BY <3>1, <3>2 DEF DecoderStates
  <2> QED
    BY SMTT(30), <2>1, <2>2
<1> QED
  BY <1>2, <1>3

\* While a thread lives its session is asked for and the screen is taken.
LEMMA SessionOfThread ==
  ASSUME TypeInv, ControlInv, ScreenInv, NEW t \in Alive
  PROVE  renderer.full /\ start_flag
<1>1. videoThreadId # NULL /\ pc \notin Exclusive
  BY PlayerAssumption DEF ControlInv, AliveInv, RendererQuiet, Alive, Exclusive
<1> QED
  BY <1>1 DEF TypeInv, TypeOK, MainPc, ScreenInv, Exclusive

\* The steps of a thread only show the one width.
LEMMA WorkWidthStep ==
  ASSUME NEW w, OneWidth(w), TypeInv, ControlInv, ScreenInv, WidthInv(w),
         NEW t \in Threads, Work(t)
  PROVE  WidthInv(w)'
<1> DEFINE S == Seq({Frame(w)})
<1>0. /\ wpc \in [Threads -> WorkPc] /\ hold \in [Threads -> Packets \cup Frames]
      /\ decoder \in DecoderStates /\ decoder.pending \in S
      /\ stride \in [Threads -> Sizes]
  BY DEF TypeInv, TypeOK, WidthInv, DecoderStates
<1>a. decoder.pending # << >> =>
        Head(decoder.pending) = Frame(w) /\ Tail(decoder.pending) \in S
  BY <1>0
<1>b. UNCHANGED renderer
  BY WorkLeaves
<1>1. decoder'.pending \in S
  <2>1. CASE decoder' = decoder
    BY <1>0, <2>1
  <2>2. CASE SendPacket(t) /\ decoder' # decoder
    BY <1>0, <2>2, DecodeWidth DEF SendPacket
  <2>3. CASE /\ decoder.pending # << >>
             /\ decoder' = [decoder EXCEPT !.pending = Tail(@)]
    BY <1>0, <1>a, <2>3 DEF DecoderStates
  <2>4. CASE \E x : decoder' = [decoder EXCEPT !.state = x]
    BY <1>0, <2>4 DEF DecoderStates
  <2> QED
    BY <2>1, <2>2, <2>3, <2>4
    DEF Work, Alloc, Poll, Count, Get, SendPacket, ReceiveFrame, ReadStride, Show, Drain,
        Flush, LoadHave, ClearHave, Shared, devices
<1>2. wpc'[t] \in Showing => hold'[t] = Frame(w)
  <2>1. SUFFICES ASSUME wpc'[t] \in Showing PROVE hold'[t] = Frame(w)
    OBVIOUS
  <2>2. ReceiveFrame(t) \/ Flush(t) \/ ReadStride(t)
    BY <1>0, <2>1
    DEF Work, Alloc, Poll, Count, Get, SendPacket, Show, Drain, LoadHave,
        ClearHave, WGoto, Showing
  <2>3. CASE ReceiveFrame(t) \/ Flush(t)
    <3>1. /\ decoder.pending # << >>
          /\ hold' = [hold EXCEPT ![t] = Head(decoder.pending)]
      BY <1>0, <2>1, <2>3 DEF ReceiveFrame, Flush, WGoto, Showing
    <3> QED
      BY <1>0, <1>a, <3>1
  <2>4. CASE ReadStride(t)
    <3>1. wpc[t] \in Showing /\ hold' = hold
      BY <1>0, <2>1, <2>4 DEF ReadStride, WGoto, Showing
    <3> QED
      BY <3>1 DEF WidthInv
  <2> QED
    BY <2>2, <2>3, <2>4
<1>4. wpc'[t] \in Copying => stride'[t] = w
  <2>1. SUFFICES ASSUME wpc'[t] \in Copying PROVE stride'[t] = w
    OBVIOUS
  <2>2. ReadStride(t)
    BY <1>0, <2>1
    DEF Work, Alloc, Poll, Count, Get, SendPacket, ReceiveFrame, Show, Drain,
        Flush, LoadHave, ClearHave, WGoto, Copying
  <2>3. t \in Alive
    BY <2>2 DEF ReadStride, Alive
  <2>4. width = w
    BY <2>3, SessionOfThread, KnownWidth
  <2> QED
    BY <1>0, <2>2, <2>4 DEF ReadStride
<1>3. \A u \in Threads \ {t} :
        wpc'[u] = wpc[u] /\ hold'[u] = hold[u] /\ stride'[u] = stride[u]
  BY <1>0
  DEF Work, Alloc, Poll, Count, Get, SendPacket, ReceiveFrame, ReadStride, Show, Drain,
      Flush, LoadHave, ClearHave, WGoto, Shared
<1> QED
  BY <1>1, <1>2, <1>3, <1>4, <1>b DEF WidthInv

\* omxDisplay reads decContext->width twice for every frame it copies
\* (vid_decode.c:54 and 57).  In a stream of one width both are the width of the
\* frame, and of the buffer of the renderer, also across the end of a session and
\* the start of the next.
THEOREM ShownAtOwnSizeHolds ==
  ASSUME NEW w, OneWidth(w) PROVE Spec => []ShownAtOwnSize
<1>1. /\ TypeInv /\ ControlInv /\ ScreenInv /\ WidthInv(w) /\ [Next]_vars
      => WidthInv(w)'
  <2> SUFFICES ASSUME TypeInv, ControlInv, ScreenInv, WidthInv(w), [Next]_vars
               PROVE  WidthInv(w)'
    OBVIOUS
  <2>1. CASE Next
    BY <2>1, MainWidthStep, WorkWidthStep DEF Next
  <2>2. CASE UNCHANGED vars
    BY <2>2 DEF vars, thread, devices, WidthInv
  <2> QED
    BY <2>1, <2>2
<1>2. TypeInv /\ ControlInv /\ ScreenInv /\ WidthInv(w) => ShownAtOwnSize
  <2> SUFFICES ASSUME TypeInv, ControlInv, ScreenInv, WidthInv(w),
                      NEW t \in Threads, wpc[t] \in Showing
               PROVE  /\ hold[t].width = width
                      /\ renderer = [width |-> width, full |-> TRUE]
                      /\ wpc[t] \in Copying => stride[t] = width
    BY DEF ShownAtOwnSize, Showing, Copying
  <2>1. t \in Alive
    BY DEF Alive, Showing
  <2>2. renderer.full /\ start_flag
    BY <2>1, SessionOfThread
  <2>3. width = w /\ renderer.width = w /\ renderer.full = TRUE
    BY <2>2, KnownWidth DEF WidthInv, TypeInv, TypeOK
  <2>4. renderer = [width |-> width, full |-> TRUE]
    BY <2>3 DEF TypeInv, TypeOK
  <2>5. hold[t].width = w /\ (wpc[t] \in Copying => stride[t] = w)
    BY DEF WidthInv, Frame, Packet
  <2> QED
    BY <2>3, <2>4, <2>5
<1> QED
  BY WidthInit, <1>1, <1>2, TypeInvHolds, ControlHolds, ScreenHolds, PTL DEF Spec

-----------------------------------------------------------------------------
(* The two reads of omxDisplay().                                           *)

Closing == {"put", "stop", "set_exit", "join_test", "join"}
CopyPc  == {"copy", "copy_flush", "copy_last"}

TornInv ==
  \A t \in Threads :
    wpc[t] \in CopyPc /\ stride[t] # width => stop_flag /\ pc \in Closing

\* A thread that copies is known to main(), which keeps off the devices.
LEMMA CopyingThread ==
  ASSUME TypeInv, ControlInv, NEW t \in Threads, wpc[t] \in CopyPc
  PROVE  /\ t \in Alive /\ t = videoThreadId /\ videoThreadId # NULL
         /\ "HAVEVIDEO" \in playerState
         /\ pc \in MainPc \ Exclusive
<1>1. t \in Alive
  BY DEF Alive, CopyPc
<1>2. videoThreadId # NULL /\ pc \notin Exclusive /\ t = videoThreadId
  BY <1>1, PlayerAssumption
  DEF ControlInv, AliveInv, RendererQuiet, Exclusive
<1>3. pc \in MainPc
  BY DEF TypeInv, TypeOK
<1>4. "HAVEVIDEO" \in playerState
  BY <1>1 DEF ControlInv, AliveInv
<1> QED
  BY <1>1, <1>2, <1>3, <1>4

\* main() writes the width on its way to the stop section, and waits there for
\* the thread.
LEMMA MainTornStep ==
  ASSUME TypeInv, ControlInv, TornInv, Recv \/ Timeout \/ Handle
  PROVE  TornInv'
<1> SUFFICES ASSUME NEW t \in Threads, wpc'[t] \in CopyPc, stride'[t] # width'
             PROVE  stop_flag' /\ pc' \in Closing
  BY DEF TornInv
<1>1. wpc[t] \in CopyPc /\ stride' = stride
  <2>1. wpc' = wpc \/ \E u \in Threads : wpc' = [wpc EXCEPT ![u] = "alloc"]
    BY DEF Handle, Recv, Timeout, DetectChange, PutPacket, StopTest, SetExit,
           JoinTest, Join, Disable, Close, Reset, StartTest, LoadState, SetHave,
           ClearExit, Enable, Create, WGoto, thread
  <2>2. wpc \in [Threads -> WorkPc]
    BY DEF TypeInv, TypeOK
  <2>3. stride' = stride
    BY DEF Handle, Recv, Timeout, DetectChange, PutPacket, StopTest, SetExit,
           JoinTest, Join, Disable, Close, Reset, StartTest, LoadState, SetHave,
           ClearExit, Enable, Create, thread
  <2> QED
    BY <2>1, <2>2, <2>3 DEF CopyPc
<1>2. /\ t = videoThreadId /\ videoThreadId # NULL /\ "HAVEVIDEO" \in playerState
      /\ pc \in {"recv", "detect", "put", "stop", "set_exit", "join_test", "join",
                 "start"}
  BY <1>1, CopyingThread DEF MainPc, Exclusive
<1>3. CASE DetectChange
  BY <1>2, <1>3 DEF DetectChange, Goto, Closing
<1>4. CASE Recv \/ Timeout \/ PutPacket \/ StopTest \/ SetExit \/ JoinTest
             \/ Join \/ StartTest
  <2>1. width' = width
    BY <1>4 DEF Recv, Timeout, PutPacket, StopTest, SetExit, JoinTest, Join, StartTest
  <2>2. stop_flag /\ pc \in Closing
    BY <1>1, <2>1 DEF TornInv
  <2>3. stop_flag' = stop_flag
    BY <1>4, <2>2 DEF Recv, Timeout, PutPacket, StopTest, SetExit, JoinTest, Join,
                      StartTest
  <2>4. ~ Join
    BY <1>1, <1>2 DEF Join, CopyPc
  <2> QED
    BY <1>2, <1>4, <2>2, <2>3, <2>4
    DEF Recv, Timeout, PutPacket, StopTest, SetExit, JoinTest, StartTest, Goto,
        Closing
<1>5. CASE \/ Disable \/ Close \/ Reset \/ LoadState \/ SetHave \/ ClearExit
           \/ Enable \/ Create
  BY <1>2, <1>5 DEF Disable, Close, Reset, LoadState, SetHave, ClearExit, Enable, Create
<1> QED
  BY <1>3, <1>4, <1>5 DEF Handle

\* The thread reads the width that is there, and does not decode while it copies.
LEMMA WorkTornStep ==
  ASSUME TypeInv, ControlInv, TornInv, NEW t \in Threads, Work(t)
  PROVE  TornInv'
<1>0. /\ wpc \in [Threads -> WorkPc] /\ stride \in [Threads -> Sizes]
      /\ UNCHANGED <<stop_flag, pc>>
  BY WorkLeaves DEF TypeInv, TypeOK, main
<1> SUFFICES ASSUME NEW u \in Threads, wpc'[u] \in CopyPc, stride'[u] # width'
             PROVE  stop_flag /\ pc \in Closing
  BY <1>0 DEF TornInv
<1>1. CASE u = t
  <2>1. ReadStride(t)
    BY <1>0, <1>1
    DEF Work, Alloc, Poll, Count, Get, SendPacket, ReceiveFrame, Show, Drain,
        Flush, LoadHave, ClearHave, WGoto, CopyPc
  <2>2. stride'[t] = width'
    BY <1>0, <2>1 DEF ReadStride, Shared
  <2> QED
    BY <1>1, <2>2
<1>2. CASE u # t
  <2>1. wpc'[u] = wpc[u] /\ stride'[u] = stride[u]
    BY <1>0, <1>2
    DEF Work, Alloc, Poll, Count, Get, SendPacket, ReceiveFrame, ReadStride, Show,
        Drain, Flush, LoadHave, ClearHave, WGoto, Shared
  <2>2. u \in Alive /\ t \in Alive
    BY <2>1 DEF Work, Alloc, Poll, Count, Get, SendPacket, ReceiveFrame, ReadStride,
                Show, Drain, Flush, LoadHave, ClearHave, Alive, CopyPc
  <2> QED
    BY <1>2, <2>2 DEF ControlInv, AliveInv
<1> QED
  BY <1>1, <1>2

\* omxDisplay reads decContext->width for the stride and again for the rows
\* (vid_decode.c:54 and 57).  If main() writes it between (main_yuv4.c:307 and 339),
\* whatever fails and for any widths, main() is closing the session and waits for
\* the thread before it goes on.
THEOREM TornOnlyAtCloseHolds == Spec => []TornOnlyAtClose
<1>1. Init => TornInv
  BY DEF Init, TornInv, CopyPc
<1>2. TypeInv /\ ControlInv /\ TornInv /\ [Next]_vars => TornInv'
  <2> SUFFICES ASSUME TypeInv, ControlInv, TornInv, [Next]_vars PROVE TornInv'
    OBVIOUS
  <2>1. CASE Next
    BY <2>1, MainTornStep, WorkTornStep DEF Next
  <2>2. CASE UNCHANGED vars
    BY <2>2 DEF vars, main, thread, TornInv
  <2> QED
    BY <2>1, <2>2
<1>3. TornInv => TornOnlyAtClose
  BY DEF TornInv, TornOnlyAtClose, CopyPc, Closing
<1> QED
  BY <1>1, <1>2, <1>3, TypeInvHolds, ControlHolds, PTL DEF Spec
=============================================================================
