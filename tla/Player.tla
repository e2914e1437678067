------------------------------- MODULE Player -------------------------------
(***************************************************************************)
(* The control of a playing session: main() of src/main_yuv4.c opens and   *)
(* closes decoder, renderer and decoding thread, and handleVideoThread()   *)
(* of src/vid_decode.c polls the queue, decodes and shows.  They share     *)
(* userData without a lock: every read and every write of playerState and  *)
(* of decContext->width is a step of its own.                              *)
(*                                                                         *)
(* The queue is the FIFO that AVQueue implements.  The decoder of          *)
(* libavcodec and the renderer are what main() and the thread see of them. *)
(***************************************************************************)
EXTENDS Integers, Sequences

CONSTANTS
  Threads,     \* bound: the identifiers of decoding threads, each used once
  Widths,      \* the picture widths an SPS can announce
  Cropped,     \* those the decoder reports smaller than h264_get_width() does
  MaxQueue,    \* stands for the 10 MB of avqueue.c:57: a put beyond is refused
  MaxPending,  \* bound: frames the decoder holds back
  Faults,      \* what can fail: subset of {"open", "enable", "alloc", "decode"}
  NULL

ASSUME PlayerAssumption ==
  /\ Widths \subseteq Nat \ {0, 1} /\ Cropped \subseteq Widths
  /\ MaxQueue \in Nat \ {0} /\ MaxPending \in Nat \ {0}
  /\ Faults \subseteq {"open", "enable", "alloc", "decode"}
  /\ NULL \notin Threads

VARIABLES
  playerState,     \* the flags set, of {"HAVEVIDEO", "EXIT"}
  width,           \* decContext->width
  videoThreadId,   \* NULL: no thread
  queue,           \* videoPacketFifo
  decoder,         \* the state of decContext behind libavcodec's interface
  renderer,        \* the width its buffers were allocated for, 0: there are none,
                   \*   and whether it is full screen
  \* main()
  pc, reg,         \* control, and playerState as read by a |= or &=
  start_flag, stop_flag,
  packet,          \* the packet being handled
  \* the decoding threads
  wpc, wreg,
  hold,            \* the packet or the frame in hand
  stride           \* renderFrameStride of omxDisplay(), 0 outside

main    == <<pc, reg, start_flag, stop_flag, packet>>
thread  == <<wpc, wreg, hold, stride>>
devices == <<decoder, renderer>>
vars == <<playerState, width, videoThreadId, queue, devices, main, thread>>

Packet(k, w) == [kind |-> k, width |-> w]
Frame(w) == Packet("frame", w)
Nothing == Frame(0)

Goto(l) == pc' = l
WGoto(t, l) == wpc' = [wpc EXCEPT ![t] = l]

Alive == {t \in Threads : wpc[t] \notin {"none", "done"}}

-----------------------------------------------------------------------------
(* libavcodec.                                                              *)

\* The width the decoder writes to decContext when it takes on an SPS.
Reported(w) == IF w \in Cropped THEN w - 1 ELSE w

Closed == [state |-> "closed", sps |-> 0, active |-> 0, pending |-> << >>]

\* avcodec_open2: a decoder that is open already stays as it is.
Opened == IF decoder.state = "closed" THEN [Closed EXCEPT !.state = "ready"]
                                      ELSE decoder

\* avcodec_send_packet of a packet.  An SPS takes effect with the next slice,
\* and a frame may come of a slice once there has been an SPS.
Decode(p) ==
  IF p.kind = "sps"
    THEN decoder' = [decoder EXCEPT !.sps = p.width] /\ UNCHANGED width
    ELSE /\ width' = IF decoder.sps = decoder.active THEN width
                                                     ELSE Reported(decoder.sps)
         /\ decoder' = [decoder EXCEPT !.active = decoder.sps, !.pending =
              IF decoder.sps = 0 \/ Len(@) = MaxPending THEN @
              ELSE Append(@, Frame(Reported(decoder.sps)))]

-----------------------------------------------------------------------------
(* main(): receiving and storing.                                           *)

\* A slice stands for every packet that is stored if start_flag is set.
Recv ==
  /\ pc = "recv"
  /\ \/ \E w \in Widths, k \in {"sps", "stap"} :
          /\ packet' = Packet(k, w)
          /\ Goto(IF width # w THEN "detect" ELSE "put")
     \/ packet' = Packet("slice", 0) /\ Goto("put")
  /\ UNCHANGED <<playerState, width, videoThreadId, queue, devices, reg,
                 start_flag, stop_flag, thread>>

\* recvfrom gives up after SO_RCVTIMEO.
Timeout ==
  /\ pc = "recv"
  /\ stop_flag' = TRUE
  /\ Goto("stop")
  /\ UNCHANGED <<playerState, width, videoThreadId, queue, devices, reg,
                 start_flag, packet, thread>>

DetectWithoutStop ==
  /\ pc = "detect"
  /\ width' = packet.width /\ start_flag' = TRUE
  /\ Goto("put")
  /\ UNCHANGED <<playerState, videoThreadId, queue, devices, reg, stop_flag, packet,
                 thread>>

DetectChange ==
  /\ pc = "detect"
  /\ stop_flag' = (stop_flag \/ "HAVEVIDEO" \in playerState)
  /\ width' = packet.width /\ start_flag' = TRUE
  /\ Goto("put")
  /\ UNCHANGED <<playerState, videoThreadId, queue, devices, reg, packet,
                 thread>>

\* An aggregate holds an SPS, and is stored only before the thread is created.
Stored == IF packet.kind = "stap" THEN [packet EXCEPT !.kind = "sps"] ELSE packet

PutPacket ==
  /\ pc = "put"
  /\ queue' = IF /\ start_flag /\ (packet.kind = "stap" => videoThreadId = NULL)
                 /\ Len(queue) < MaxQueue
                THEN Append(queue, Stored) ELSE queue
  /\ packet' = Nothing
  /\ Goto("stop")
  /\ UNCHANGED <<playerState, width, videoThreadId, devices, reg, start_flag,
                 stop_flag, thread>>

-----------------------------------------------------------------------------
(* main(): closing the session.                                             *)

StopTest ==
  /\ pc = "stop"
  /\ IF stop_flag /\ videoThreadId # NULL
       THEN reg' = playerState /\ Goto("set_exit")
       ELSE UNCHANGED reg /\ Goto("start")
  /\ UNCHANGED <<playerState, width, videoThreadId, queue, devices, start_flag,
                 stop_flag, packet, thread>>

ExitUnset ==
  /\ pc = "set_exit"
  /\ reg' = {}
  /\ Goto("join_test")
  /\ UNCHANGED <<playerState, width, videoThreadId, queue, devices,
                 start_flag, stop_flag, packet, thread>>

SetExit ==
  /\ pc = "set_exit"
  /\ playerState' = reg \cup {"EXIT"}
  /\ reg' = {}
  /\ Goto("join_test")
  /\ UNCHANGED <<width, videoThreadId, queue, devices, start_flag,
                 stop_flag, packet, thread>>

JoinNever ==
  /\ pc = "join_test"
  /\ Goto("disable")
  /\ UNCHANGED <<playerState, width, videoThreadId, queue, devices, reg,
                 start_flag, stop_flag, packet, thread>>

\* A thread that has cleared HAVEVIDEO already is not joined.
JoinTest ==
  /\ pc = "join_test"
  /\ Goto(IF "HAVEVIDEO" \in playerState THEN "join" ELSE "disable")
  /\ UNCHANGED <<playerState, width, videoThreadId, queue, devices, reg,
                 start_flag, stop_flag, packet, thread>>

Join ==
  /\ pc = "join" /\ wpc[videoThreadId] = "done"
  /\ Goto("disable")
  /\ UNCHANGED <<playerState, width, videoThreadId, queue, devices, reg,
                 start_flag, stop_flag, packet, thread>>

DisableForgotten ==
  /\ pc = "disable"
  /\ Goto("close")
  /\ UNCHANGED <<playerState, width, videoThreadId, queue, devices, reg,
                 start_flag, stop_flag, packet, thread>>

\* omx_display_disable takes the picture off the screen and no more.
Disable ==
  /\ pc = "disable"
  /\ renderer' = [renderer EXCEPT !.full = FALSE]
  /\ Goto("close")
  /\ UNCHANGED <<playerState, width, videoThreadId, queue, decoder, reg,
                 start_flag, stop_flag, packet, thread>>

Close ==
  /\ pc = "close"
  /\ decoder' = IF "HAVEVIDEO" \in playerState THEN Closed ELSE decoder
  /\ Goto("reset")
  /\ UNCHANGED <<playerState, width, videoThreadId, queue, renderer, reg,
                 start_flag, stop_flag, packet, thread>>

ResetKeepsStart ==
  /\ pc = "reset"
  /\ stop_flag' = FALSE
  /\ videoThreadId' = NULL /\ width' = 0
  /\ Goto("start")
  /\ UNCHANGED <<playerState, start_flag, queue, devices, reg, packet, thread>>

Reset ==
  /\ pc = "reset"
  /\ start_flag' = FALSE /\ stop_flag' = FALSE
  /\ videoThreadId' = NULL /\ width' = 0
  /\ Goto("start")
  /\ UNCHANGED <<playerState, queue, devices, reg, packet, thread>>

-----------------------------------------------------------------------------
(* main(): opening a session.                                               *)

StartTestUnguarded ==
  /\ pc = "start"
  /\ IF start_flag
       THEN decoder' = Opened /\ Goto("have_load")
       ELSE Goto("recv") /\ UNCHANGED decoder
  /\ UNCHANGED <<playerState, width, videoThreadId, queue, renderer, reg,
                 start_flag, stop_flag, packet, thread>>

StartTest ==
  /\ pc = "start"
  /\ IF videoThreadId = NULL /\ start_flag
       THEN \/ decoder' = Opened /\ Goto("have_load")
            \/ "open" \in Faults /\ decoder.state = "closed"
               /\ Goto("enable") /\ UNCHANGED decoder
       ELSE Goto("recv") /\ UNCHANGED decoder
  /\ UNCHANGED <<playerState, width, videoThreadId, queue, renderer, reg,
                 start_flag, stop_flag, packet, thread>>

\* playerState |= STATE_HAVEVIDEO, and playerState &= ~STATE_EXIT.
LoadState ==
  /\ pc \in {"have_load", "clear_load"}
  /\ reg' = playerState
  /\ Goto(IF pc = "have_load" THEN "have_store" ELSE "clear_store")
  /\ UNCHANGED <<playerState, width, videoThreadId, queue, devices, start_flag,
                 stop_flag, packet, thread>>

SetHave ==
  /\ pc = "have_store"
  /\ playerState' = reg \cup {"HAVEVIDEO"}
  /\ reg' = {}
  /\ Goto("clear_load")
  /\ UNCHANGED <<width, videoThreadId, queue, devices, start_flag,
                 stop_flag, packet, thread>>

ExitKept ==
  /\ pc = "clear_store"
  /\ reg' = {}
  /\ Goto("enable")
  /\ UNCHANGED <<playerState, width, videoThreadId, queue, devices,
                 start_flag, stop_flag, packet, thread>>

ClearExit ==
  /\ pc = "clear_store"
  /\ playerState' = reg \ {"EXIT"}
  /\ reg' = {}
  /\ Goto("enable")
  /\ UNCHANGED <<width, videoThreadId, queue, devices, start_flag,
                 stop_flag, packet, thread>>

\* The result of omx_display_enable is only logged.  One that fails has freed the
\* buffers there were, and has set full screen before.
Enable ==
  /\ pc = "enable"
  /\ \E w \in {width} \cup (IF "enable" \in Faults THEN {0} ELSE {}) :
       renderer' = [width |-> w, full |-> TRUE]
  /\ Goto("create")
  /\ UNCHANGED <<playerState, width, videoThreadId, queue, decoder, reg,
                 start_flag, stop_flag, packet, thread>>

Create ==
  /\ pc = "create"
  /\ IF "HAVEVIDEO" \in playerState
       THEN \E t \in Threads :
              /\ wpc[t] = "none"
              /\ WGoto(t, "alloc")
              /\ videoThreadId' = t
       ELSE UNCHANGED <<wpc, videoThreadId>>
  /\ stop_flag' = FALSE
  /\ Goto("recv")
  /\ UNCHANGED <<playerState, width, queue, devices, reg, start_flag, packet,
                 wreg, hold, stride>>

-----------------------------------------------------------------------------
(* The decoding thread.                                                     *)

Shared == <<playerState, width, videoThreadId, queue, devices, main>>

AllocClears(t) ==
  /\ wpc[t] = "alloc"
  /\ WGoto(t, "poll") \/ ("alloc" \in Faults /\ WGoto(t, "clear_load"))
  /\ UNCHANGED <<Shared, wreg, hold, stride>>

\* A thread that gets no frame to decode into ends without clearing HAVEVIDEO.
Alloc(t) ==
  /\ wpc[t] = "alloc"
  /\ WGoto(t, "poll") \/ ("alloc" \in Faults /\ WGoto(t, "done"))
  /\ UNCHANGED <<Shared, wreg, hold, stride>>

PollExitUnseen(t) ==
  /\ wpc[t] = "poll"
  /\ WGoto(t, "count")
  /\ UNCHANGED <<Shared, wreg, hold, stride>>

Poll(t) ==
  /\ wpc[t] = "poll"
  /\ WGoto(t, IF "EXIT" \in playerState THEN "drain" ELSE "count")
  /\ UNCHANGED <<Shared, wreg, hold, stride>>

CountAny(t) ==
  /\ wpc[t] = "count"
  /\ WGoto(t, "get")
  /\ UNCHANGED <<Shared, wreg, hold, stride>>

CountTooMany(t) ==
  /\ wpc[t] = "count"
  /\ WGoto(t, IF Len(queue) > 3 THEN "get" ELSE "poll")
  /\ UNCHANGED <<Shared, wreg, hold, stride>>

Count(t) ==
  /\ wpc[t] = "count"
  /\ WGoto(t, IF Len(queue) > 2 THEN "get" ELSE "poll")
  /\ UNCHANGED <<Shared, wreg, hold, stride>>

Get(t) ==
  /\ wpc[t] = "get"
  /\ IF queue # << >>
       THEN /\ hold' = [hold EXCEPT ![t] = Head(queue)]
            /\ queue' = Tail(queue)
            /\ WGoto(t, "send")
       ELSE UNCHANGED <<hold, queue>> /\ WGoto(t, "poll")
  /\ UNCHANGED <<playerState, width, videoThreadId, devices, main, wreg,
                 stride>>

\* A packet the decoder does not take is lost.
SendPacket(t) ==
  /\ wpc[t] = "send"
  /\ \/ /\ decoder.state = "ready"
        /\ Decode(hold[t])
        /\ WGoto(t, "receive")
     \/ /\ decoder.state # "ready" \/ "decode" \in Faults
        /\ WGoto(t, "poll")
        /\ UNCHANGED <<decoder, width>>
  /\ hold' = [hold EXCEPT ![t] = Nothing]
  /\ UNCHANGED <<playerState, videoThreadId, queue, renderer, main, wreg, stride>>

\* A frame, or EAGAIN or an error: then the thread goes on to the next packet.
ReceiveFrame(t) ==
  /\ wpc[t] = "receive"
  /\ \/ /\ decoder.pending # << >>
        /\ hold' = [hold EXCEPT ![t] = Head(decoder.pending)]
        /\ decoder' = [decoder EXCEPT !.pending = Tail(@)]
        /\ WGoto(t, "show")
     \/ UNCHANGED <<decoder, hold>> /\ WGoto(t, "poll")
  /\ UNCHANGED <<playerState, width, videoThreadId, queue, renderer, main, wreg,
                 stride>>

\* omxDisplay() reads decContext->width for the stride of the renderer, and again
\* for the rows it copies (the alignment of both is left out).
ReadStride(t) ==
  /\ wpc[t] \in {"show", "show_flush", "show_last"}
  /\ stride' = [stride EXCEPT ![t] = width]
  /\ WGoto(t, CASE wpc[t] = "show" -> "copy"
                [] wpc[t] = "show_flush" -> "copy_flush"
                [] wpc[t] = "show_last" -> "copy_last")
  /\ UNCHANGED <<Shared, wreg, hold>>

\* The copies, and in the exit path the next round of the loop.
Show(t) ==
  /\ wpc[t] \in {"copy", "copy_flush", "copy_last"}
  /\ WGoto(t, CASE wpc[t] = "copy" -> "poll"
                [] wpc[t] = "copy_flush" -> "flush"
                [] wpc[t] = "copy_last" -> "clear_load")
  /\ hold' = [hold EXCEPT ![t] = Nothing]
  /\ stride' = [stride EXCEPT ![t] = 0]
  /\ UNCHANGED <<Shared, wreg>>

\* avcodec_send_packet of NULL.
Drain(t) ==
  /\ wpc[t] = "drain"
  /\ IF decoder.state = "ready"
       THEN decoder' = [decoder EXCEPT !.state = "draining"] /\ WGoto(t, "flush")
       ELSE UNCHANGED decoder /\ WGoto(t, "clear_load")
  /\ UNCHANGED <<playerState, width, videoThreadId, queue, renderer, main,
                 wreg, hold, stride>>

FlushKeepsDraining(t) ==
  /\ wpc[t] = "flush"
  /\ IF decoder.pending # << >>
       THEN /\ hold' = [hold EXCEPT ![t] = Head(decoder.pending)]
            /\ decoder' = [decoder EXCEPT !.pending = Tail(@)]
            /\ WGoto(t, "show_flush")
       ELSE UNCHANGED <<decoder, hold>> /\ WGoto(t, "clear_load")
  /\ UNCHANGED <<playerState, width, videoThreadId, queue, renderer, main, wreg,
                 stride>>

\* A frame, the end (avcodec_flush_buffers), or an error: then the empty frame
\* is shown, and the decoder stays as it is.
Flush(t) ==
  /\ wpc[t] = "flush"
  /\ \/ /\ decoder.pending # << >>
        /\ hold' = [hold EXCEPT ![t] = Head(decoder.pending)]
        /\ decoder' = [decoder EXCEPT !.pending = Tail(@)]
        /\ WGoto(t, "show_flush")
     \/ /\ decoder.pending = << >>
        /\ decoder' = [decoder EXCEPT !.state = "ready"]
        /\ UNCHANGED hold /\ WGoto(t, "clear_load")
     \/ /\ "decode" \in Faults
        /\ hold' = [hold EXCEPT ![t] = Nothing]
        /\ UNCHANGED decoder /\ WGoto(t, "show_last")
  /\ UNCHANGED <<playerState, width, videoThreadId, queue, renderer, main, wreg,
                 stride>>

\* playerState &= ~STATE_HAVEVIDEO.
LoadHave(t) ==
  /\ wpc[t] = "clear_load"
  /\ wreg' = [wreg EXCEPT ![t] = playerState]
  /\ WGoto(t, "clear_store")
  /\ UNCHANGED <<Shared, hold, stride>>

ClearHave(t) ==
  /\ wpc[t] = "clear_store"
  /\ playerState' = wreg[t] \ {"HAVEVIDEO"}
  /\ wreg' = [wreg EXCEPT ![t] = {}]
  /\ WGoto(t, "done")
  /\ UNCHANGED <<width, videoThreadId, queue, devices, main, hold, stride>>

-----------------------------------------------------------------------------
Init ==
  /\ playerState = {} /\ width = 0 /\ videoThreadId = NULL /\ queue = << >>
  /\ decoder = Closed /\ renderer = [width |-> 0, full |-> FALSE]
  /\ pc = "recv" /\ reg = {} /\ start_flag = FALSE /\ stop_flag = FALSE
  /\ packet = Nothing
  /\ wpc = [t \in Threads |-> "none"] /\ wreg = [t \in Threads |-> {}]
  /\ hold = [t \in Threads |-> Nothing] /\ stride = [t \in Threads |-> 0]

\* What main() does between two calls of recvfrom.
Handle ==
  \/ DetectChange \/ PutPacket
  \/ StopTest \/ SetExit \/ JoinTest \/ Join \/ Disable \/ Close \/ Reset
  \/ StartTest \/ LoadState \/ SetHave \/ ClearExit \/ Enable \/ Create

Work(t) ==
  \/ Alloc(t) \/ Poll(t) \/ Count(t) \/ Get(t)
  \/ SendPacket(t) \/ ReceiveFrame(t)
  \/ ReadStride(t) \/ Show(t)
  \/ Drain(t) \/ Flush(t) \/ LoadHave(t) \/ ClearHave(t)

Next == Recv \/ Timeout \/ Handle \/ \E t \in Threads : Work(t)

Spec == Init /\ [][Next]_vars

\* Both are threads of the kernel, which runs whatever is not blocked.
FairSpec == Spec /\ WF_vars(Handle) /\ \A t \in Threads : WF_vars(Work(t))

-----------------------------------------------------------------------------
(* Properties.                                                              *)

MainPc ==
  {"recv", "detect", "put", "stop", "set_exit", "join_test", "join", "disable",
   "close", "reset", "start", "have_load", "have_store", "clear_load",
   "clear_store", "enable", "create"}
WorkPc ==
  {"none", "alloc", "poll", "count", "get", "send", "receive", "show", "drain",
   "copy", "flush", "show_flush", "copy_flush", "show_last", "copy_last",
   "clear_load", "clear_store", "done"}
Sizes   == {0} \cup Widths \cup {w - 1 : w \in Cropped}
Packets == [kind : {"sps", "stap"}, width : Widths]
             \cup [kind : {"slice"}, width : {0}]
Frames == [kind : {"frame"}, width : Sizes]

\* The variables have their types, and a session is asked for only at a width
\* that is known.
TypeOK ==
  /\ playerState \subseteq {"HAVEVIDEO", "EXIT"}
  /\ width \in Sizes
  /\ renderer \in [width : Sizes, full : BOOLEAN]
  /\ videoThreadId \in Threads \cup {NULL}
  /\ queue \in Seq(Packets) /\ packet \in Packets \cup {Nothing}
  /\ decoder \in [state : {"closed", "ready", "draining"},
                  sps : {0} \cup Widths, active : {0} \cup Widths,
                  pending : Seq(Frames)]
  /\ pc \in MainPc /\ wpc \in [Threads -> WorkPc]
  /\ reg \subseteq {"HAVEVIDEO", "EXIT"}
  /\ wreg \in [Threads -> SUBSET {"HAVEVIDEO", "EXIT"}]
  /\ hold \in [Threads -> Packets \cup Frames] /\ stride \in [Threads -> Sizes]
  /\ start_flag \in BOOLEAN /\ stop_flag \in BOOLEAN
  /\ start_flag => width # 0

\* No decoding thread is left behind: one that has not ended is videoThreadId,
\* whether or not it was joined.
NoStrayThread == Alive \subseteq {videoThreadId}

\* From omx_display_disable() until the next thread is created main() is alone
\* with the renderer, the decoder and decContext: no thread shows a frame on a
\* renderer that is being taken down or set up.
RendererQuiet ==
  pc \in {"disable", "close", "reset", "have_load", "have_store", "clear_load",
         "clear_store", "enable", "create"} => Alive = {}

\* playerState is updated in two unlocked steps on both sides, and no update is
\* ever lost: what is about to be written back is the value still there.  (Not
\* so when a decoder fails to open after a session whose thread failed to
\* allocate its frame: HAVEVIDEO is then left over.)
NoUpdateLost ==
  /\ pc \in {"set_exit", "have_store", "clear_store"} => reg = playerState
  /\ \A t \in Threads : wpc[t] = "clear_store" => wreg[t] = playerState

\* The queue still holds the packets that were counted when the thread takes
\* one: between count and get nobody empties it.
CountHolds == \A t \in Threads : wpc[t] = "get" => Len(queue) > 2

\* While main() waits for packets of a session, the thread is told to run and
\* is known to be there: a change of width then ends the session.
SessionRuns ==
  pc = "recv" /\ videoThreadId # NULL => playerState = {"HAVEVIDEO"}

\* While main() waits for packets, the screen is taken exactly if a session has
\* been asked for, whether or not its decoder opened.
ScreenFollowsSession == pc = "recv" => (renderer.full <=> start_flag)

\* With a decoder that does not fail, a packet always meets a decoder that is
\* open and not left draining by the session before.
DecoderReady == \A t \in Threads : wpc[t] = "send" => decoder.state = "ready"

\* In a stream of one width a frame is copied with its own width, to a renderer set
\* up for it, by omxDisplay() that reads decContext->width twice without a lock.
ShownAtOwnSize ==
  \A t \in Threads :
    /\ wpc[t] \in {"show", "show_flush", "copy", "copy_flush"} =>
         hold[t].width = width /\ renderer = [width |-> width, full |-> TRUE]
    /\ wpc[t] \in {"copy", "copy_flush"} => stride[t] = width

\* omxDisplay() may read two widths for one frame, when main() writes that of a new
\* SPS between.  Then main() is on its way to close the session, and does not get
\* to the next recvfrom while the frame is copied.
TornOnlyAtClose ==
  \A t \in Threads :
    wpc[t] \in {"copy", "copy_flush", "copy_last"} /\ stride[t] # width =>
      stop_flag /\ pc \in {"put", "stop", "set_exit", "join_test", "join"}

\* Once main() has begun to close a session it gets to the next recvfrom.
StopCompletes == pc = "set_exit" ~> pc = "recv"

\* While there are more than two packets the thread keeps taking them.
PacketsServed ==
  []<>(\/ videoThreadId = NULL \/ Len(queue) <= 2
       \/ \E t \in Threads : wpc[t] = "send")

\* Closing a session closes the decoder (main_yuv4.c:359 and 372: on a timeout
\* the decoder is closed).
DecoderClosed == pc = "reset" => decoder.state = "closed"
=============================================================================
