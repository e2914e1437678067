# A TLA+ model of rpi4-rtpdecode

The program receives an H.264 stream over RTP on a Raspberry Pi, puts the coded
units into a queue, decodes them in a second thread and shows the frames on an
OMX video renderer. These modules model what its two threads do to the state
they share, check it with TLC on small instances and prove the parts that
matter most with TLAPS.

References to code are `file:line` under `src/`.

## 1. The system

The Makefile builds `main_yuv4.c`, `unpackrtp.c`, `sps_pps.c`, `avqueue.c`,
`vid_decode.c`, `omx.c` and `base64.c`. The other C files (`main_yuv4.bak.c`,
`omx_bak.c`, `omx_test.c`, `temp.c`) are earlier versions or experiments that
nothing compiles.

| Component | State | Operations | Works with | What is hard | What makes it correct |
|---|---|---|---|---|---|
| Packet queue, `avqueue.c` | list of heap cells, `nb_packets`, `size`, mutex | put, get, count, size, flush, release | receiving thread puts, decoding thread counts and gets | check-then-act on the size, unsigned counters, an empty list, allocation failure | is a FIFO; counters agree with the list; no cell leaks or is freed twice; the limit is overshot by one packet per producer |
| Receiving loop, `main_yuv4.c` 211-357 | `before_seq`, `error_packet`, `av_packet`, `tmp_len`, `start_flag`, `stop_flag` | receive and unpack a datagram, sequence check, FU-A reassembly, aggregate, single NAL unit, timeout | UDP socket, unpacker, SPS parser, queue | loss, duplication, reordering, number wrap, short datagrams, buffers that are reused | units reach the queue whole, once, in order; damage does not spread; a session starts with an SPS |
| RTP unpacking, `unpackrtp.c` | none (fills `rtp_packet`) | `UnpackRTPH264`, `UnpackRtpSTAP_A_NAL` | receiving loop | lengths taken from the datagram | what it writes fits and is what was sent |
| Session control, `main_yuv4.c` 359-417 | `playerState`, `videoThreadId`, `decContext`, the two flags | open decoder, renderer and thread; close them | decoding thread, renderer, libavcodec | unlocked flags, conditional join, failures that are only logged | no stray thread; devices changed only while no thread uses them; no flag update lost; a close completes |
| Decoding thread, `vid_decode.c` | `avpacket`, `frame` | poll, count, get, send, receive, show, drain | queue, libavcodec, renderer, `playerState` | runs against session control; drains at the end | keeps up with the queue; decodes with an open decoder; shows frames at their size |
| Video renderer, `omx.c` | component and port state, port format, ring of buffers | init, enable, disable, input buffer, callbacks, close | session control, decoding thread, OMX IL | commands obeyed later, waits that give up, two ways of enabling, a failure between them | opens for every width it can show, comes back, loses no buffer; frames fit the buffers |
| SPS and PPS parser, `sps_pps.c` | bit position in a buffer | bit reader, Exp-Golomb codes, de-emulation, SPS, PPS, width, height, frame rate | receiving loop | which fields are there depends on fields before them; alignment of long fields; escaped bytes; division by stream values | reads what the encoder wrote, field by field, and nothing behind it |
| Base64, `base64.c` | none | encode, decode | nothing that is built | padding, decode buffer size | decode inverts encode |
| Command line and socket, `main_yuv4.c` 24-209 | `userData` | parse options, open the socket, find the decoder | - | nothing | - |

The two threads share one `userData` structure: the queue, which has a mutex,
and `playerState`, `decContext` and the renderer, which have none.

`PROJECT.json` lists the hazards of this code line by line, with the property
that covers each.

## 2. Modules and plan

| Module | Models | State |
|---|---|---|
| `PacketFifo` | what the queue promises: one FIFO sequence | done |
| `AVQueue` | `avqueue.c`, step by step; implements `PacketFifo` | done |
| `MCAVQueue` | values for TLC | done |
| `AVQueue_proofs` | every safety property of `AVQueue` and the refinement | done |
| `UnitDelivery` | what the receiving loop owes the decoder | done |
| `Receiver`, `MCReceiver` | the receiving loop against a network; implements `UnitDelivery` when nothing is lost | done |
| `Player` | session control and decoding thread | done |
| `Player_proofs` | every safety property of `Player` | done |
| `RtpSyntax` | the sender: single packets, aggregates and fragments of RFC 6184 as bytes | done |
| `RtpUnpack` | `unpackrtp.c` and the buffers `main()` moves its results through, byte by byte | done |
| `SpsSyntax` | the encoder: the syntax tables of H.264 as bit sequences | done |
| `BitReader` | `get_1bit`, `get_bits`, Exp-Golomb codes, de-emulation, as functions | done |
| `SpsParser` | the two parameter set parsers, field by field | done |
| `Base64` | `base64_encode` and `base64_decode`, as functions | done |
| `Ingest`, `MCIngest` | `RtpUnpack`, `SpsParser` and `Base64` composed, from datagram or text to the size of the picture, against `RtpSyntax` and `SpsSyntax` | done |
| `OmxRender` | the renderer's client against an asynchronous component | done |
| `OmxRender_proofs` | every safety property of `OmxRender` | done |
| `Receiver_proofs` | every safety property of `Receiver` and the refinement | done |
| `RtpUnpack_proofs` | `FramesAsSent` and `CopiesInBounds` for streams of any length | done |
| `Coding_proofs` | induction over data; bit reader, Exp-Golomb codes, emulation prevention and base64 give back what was coded, for data of any length | done |
| `SpsParser_proofs` | the parser stays in its tables; every SPS and PPS that it can read it reads field by field where the encoder wrote it | done |
| `Ingest_proofs` | `Ingest` unpacks as `RtpUnpack` does; every safety property of `Ingest` | done |
| `Session` | `Receiver` and `Player` composed over `PacketFifo` | not written |

The order was: the queue, since everything goes through it; then the two threads
around it, each with the other reduced to what it promises; then what they call.
`Receiver` and `Player` use the queue as the FIFO that `AVQueue` implements;
`OmxRender` is used by one thread at a time because `Player` shows `RendererQuiet`.
No module has a RECURSIVE operator; recursion is written as recursive functions, whose
values the proofs can follow (`Coding_proofs`). `Session` was left out: each of its two parts
already runs against everything that the other may do to it (any session that starts or ends
while packets come, any packets while a session runs), and together they have too many states
to say more.

## 3. AVQueue: the packet queue

`PacketFifo` has a sequence and four steps: put, get, a get that finds nothing,
flush. `AVQueue` has the cells, pointers, counters and mutex of `avqueue.c`. Each
call is cut where another thread can get in: `PutCheck` is the call of
`avpacket_queue_size` with its own lock, `PutAlloc` the allocation outside any
lock, `PutLock`, `PutLink`, `PutCount` and `Unlock` the critical section, cut
between pointers and counters. `get` and `flush` are cut in the same way.
`Count` is one step, as it reads one field under the lock. `chain` and `upto` are
history variables (the cells in the order of their puts and the running total
of their costs); no guard reads them.

* `pthread_mutex_destroy` at the end of `avpacket_queue_release` is not
  modelled: the built program never calls `release`, the model lets it be called
  at any time by any number of threads.
* Costs are scaled: `Limit` stands for the 10 MB of `avqueue.c:57`. (The
  constant `INPUT_QUEUE_SIZE` of `appdata.h:14` is not what the code compares with.)
* `get` with `block` set returns -1 on an empty queue instead of waiting: the
  wait is commented out (`avqueue.c:123`). The model has the code as it is.

The run `queue` (model `MCAVQueue`) has two threads that put, one that takes, one
that flushes, three cells and a limit of 1. It shows `TypeOK`; `MutualExclusion`,
`ListSound`, `NoLeak`, `Accounting` and `SizeBound`; `MutexReleased`, the lock is
always given back; and that the module implements `PacketFifo`.
`CountStaysValid`, which is about a queue that nobody flushes, is proved (section
8) and checked from the side of the player as `CountHolds` (section 5).

Three cells are enough for a list with a first, a middle and a last cell; two
producers for one to overtake the other between check and link; a limit of 1
with costs 1 and 2 lets a put pass the check and the size go beyond it. The range of
`unsigned int` is 16 values here and `2^32` in the code; `QueueAssumption` says
what the proofs need of it.

Fairness (`FairSpec`): a thread that is between lock and unlock goes on. It is a
kernel thread that waits for nothing there. Nothing is assumed of a thread that
is idle or waits for the lock.

## 4. Receiver: the receiving loop

The environment is one of several networks (`Networks`): what its sender sends (an
SPS, an aggregate that begins with one, an aggregate that does not, a slice, a picture
in two or three FU-A fragments), the first sequence number, how many packets are in
flight, and what may go wrong how often. It numbers the packets modulo `SeqSpace` and
may lose, double, swap or cut off packets, or send a fragment without payload. `Recv` is
one round of the loop up to the stop section: it takes a datagram, unpacks it into
`rtp_packet`, and `Handle` is the test for an empty packet (`Skip`), the sequence
check (`Gap`, `InSequence`) and the five ways to store (`FuStart`, `FuMid`, `FuEnd`,
`StapA`, `SingleNal`). As in the code, a gap, an empty packet and a fragment that does
not end a unit skip the stop and start sections. `StopSection` and `StartSection` are
those sections, with the decoding thread reduced to the flag `running`.

`Runt` is a datagram of at most 12 bytes: it is not unpacked (`main_yuv4.c:223`), and
the round goes on with the header fields of the packet before it and a buffer of zeros.
What is stored of it is no unit of the sender (unit 0), whatever its header fields say; if
they say SPS, the zeros are parsed as one and any width may come out, also none.
`FirstRunt` is the same before any packet came, when those fields are uninitialised.
`NoData` is a receive that gives up (`main_yuv4.c:354`), or returns no byte.

An aggregate is parsed as if it began with an SPS (`main_yuv4.c:298`); if it does not,
any width may come out ("mix"). The fault "memory" is a parser that gets no memory and
returns before it has a width (298, 330).

History variables: `taken` counts the unbroken fragments of a unit, `whole` the
units taken whole in a session, `mark` the length of the queue when the last
session was closed.

Simplifications: the queue only grows (what happens to it later is `Player`);
bytes and lengths are in `RtpUnpack`; a NAL unit of another type is a slice;
FU-A headers other than start, middle and end, which the code ignores, are not sent; a
unit that is no SPS but says it is one is not sent.

| Run | Networks | Shows |
|---|---|---|
| `receiver` | four, below | `TypeOK`; `OwnBuffer`: fragments go to a buffer of their own unit that the queue does not own yet; `ImplementsUnitDelivery`: whole units, once, in order; `DamageConfined`: a unit taken whole is in the queue, whatever happened around it; `SessionStartsWithSps`; `LossNoticed`; `RuntNotQueued`: a datagram that was not unpacked is not queued once a session is asked for |
| `receiver_loss` | one lost packet | finding: `FramesIntact` is violated. A damaged unit is queued, as the packet after the gap clears `error_packet` in the middle of the unit |
| `receiver_zero` | one lost packet, number 0 reached | finding: `LossNoticed` is violated. `before_seq == 0` means "no packet yet" and is also a number |
| `receiver_aggregate` | nothing goes wrong; aggregates without an SPS | finding: `StartsWithSps` is violated. An aggregate of other units opens a session and is stored first |

The networks of `receiver`: one that keeps every packet in order, with numbers that wrap
after one packet, timeouts, refused puts, failed opens and parsers without memory; one that loses, doubles and
swaps, and one that loses and cuts off, both from number 1, so that 0 is not reached; and
one with empty fragments and aggregates of all kinds.

Four units of up to three fragments hold a session, a change of width and the
unit after it; two faults are enough for a fault in the recovery from another. The
widths are compared for equality only, so that the run treats the two as symmetric.

Each property says for which networks it holds. `OwnBuffer` and the abstract
specification speak of those that keep the order; `DamageConfined` of a queue that refuses
nothing; `SessionStartsWithSps` of such a queue, of aggregates that begin with an SPS and of
networks without runts; `RuntNotQueued` leaves out a runt behind the number 0, where the
check of the numbers is off;
`LossNoticed` of networks without empty fragments, which the code skips with their number,
so that the packet behind one is taken for one after a gap.

`StartsWithSps`, what `main_yuv4.c:208` says, fails in two ways: with an aggregate that does
not begin with an SPS, which is the shorter counterexample and the finding of
`receiver_aggregate`, and with a runt. A runt whose stale header fields say SPS can open a
session with its zeros, as the first datagram of all or behind an SPS whose session was
closed, and these zeros are then stored first. Once a session is asked for that cannot
happen: the runt repeats a number and is dropped by the check (`RuntNotQueued`).

Seen while reading and not a property: while a session runs, aggregates are dropped with
what they hold (`main_yuv4.c:313`).

## 5. Player: session control and decoding thread

Every read and write of `playerState` and of `decContext->width` that can disagree with
another is a step:
`LoadState`/`SetHave`/`ClearExit` and `LoadHave`/`ClearHave` are the two halves of
`|=` and `&=`, with `reg` and `wreg` the value read; `ReadStride` and `Show` are the two
reads of the width in `omxDisplay` (`vid_decode.c:54`, 57), with `stride` the first. `main()` walks through `pc`:
receive, detect a change of width, put, the stop section (`StopTest`, `SetExit`,
`JoinTest`, `Join`, `Disable`, `Close`, `Reset`), the start section (`StartTest`,
`SetHave`, `ClearExit`, `Enable`, `Create`). Each thread walks through `wpc`:
`Alloc`, `Poll`, `Count`, `Get`, `SendPacket`, `ReceiveFrame`, `ReadStride`, `Show`, and after EXIT
`Drain`, `Flush`, `LoadHave`, `ClearHave`. Threads are never reused, so that a thread
left behind would be seen beside its successor.

External: libavcodec (`Decode`, `Opened`, `Reported`) as its interface shows it
to this code. An SPS takes effect with the next slice, the decoder then writes
`decContext->width`, it holds back up to `MaxPending` frames, it drains after a NULL
packet until it is flushed, and opening an open decoder changes nothing. The
queue is the FIFO that `AVQueue` implements.

`Faults` says what may fail: `avcodec_open2` ("open"), `omx_display_enable`
("enable"), `av_frame_alloc` ("alloc"), decoding ("decode").

| Run | Instance | Shows |
|---|---|---|
| `player_control` | two widths, one cropped; all but the opening of a decoder may fail | `TypeOK`; `NoStrayThread`: joined or not, no thread outlives its session; `RendererQuiet`: from disabling the renderer to creating the next thread, `main()` is alone with the devices; `CountHolds`; `NoUpdateLost`: no half-done `\|=` or `&=` overwrites another; `SessionRuns`; `ScreenFollowsSession`: between two packets the screen is taken exactly while a session runs; `TornOnlyAtClose`: if `main()` writes the width between the two reads of one frame, it is closing the session and waits for the thread |
| `player_stream` | one width; opening may fail; fair | `DecoderReady`, `ShownAtOwnSize`, `StopCompletes`, `PacketsServed` |
| `player_close` | nothing fails | finding: `DecoderClosed` is violated. The thread clears `HAVEVIDEO` before `main()` tests it to close the decoder |

Two threads are two sessions in a row, with the closing of the second; a queue
of three or four packets passes the threshold of two (`vid_decode.c:163`); one
pending frame is enough to drain one. The instances stop when the thread
identifiers are used up, so deadlock is not checked there.

`NoUpdateLost` and `SessionRuns` need that not both opening a decoder and
allocating a frame fail: a thread without a frame ends with `HAVEVIDEO` set, and
after a failed open the flag starts a thread although EXIT is still set. That is why
`player_control` leaves "open" out; `player_stream` has it.

Seen while reading and not stated as a property: nothing empties the queue between
sessions (the call is commented out, `main_yuv4.c:370`), so that what one leaves is
decoded in the next; and the width compared with that of an SPS is the one the
decoder wrote last, so that a cropped stream looks like a change of width at
every SPS and is restarted (`main_yuv4.c:335`).

Fairness (`FairSpec`): what `main()` does between two receives and what the thread
does are steps of kernel threads, and each is taken when it stays possible.
Nothing is assumed of the network or of `recvfrom`.

Not modelled: reference counts (on EAGAIN a packet is overwritten without an
unref, `vid_decode.c:178`); the height, whose change alone the code does not notice
(`main_yuv4.c:303`); the alignment of stride and height.

## 6. Ingest: from datagram to queue, and the parameter sets

`RtpSyntax` is a sender: it makes datagrams of units, alone, aggregated (STAP-A) or cut
(FU-A). `RtpUnpack` takes them apart. `Unpack` is `UnpackRTPH264`, with the type, the flag
and the contents of `outbuffer`; `FuStart`, `FuMid` and `FuEnd` are the copies to
`av_packet` in `main()`; `StapStart`, `StapUnit` and `StapEnd` are the walk of
`UnpackRtpSTAP_A_NAL`, one unit a step; `Store` puts what is not a fragment into the queue.
`copied` is history: where the last `memcpy` ended in the buffer it read, and how much it
wrote into how much room. Sequence numbers and sessions are in `Receiver`; here every
packet is in sequence and everything is stored.

`SpsSyntax` is an encoder: from a description (profile, chroma format, scaling lists,
picture order, size, cropping, VUI; for a PPS slice groups and extension) it makes the
elements of the syntax table in their order, each with its descriptor and the values that are
sent of it, none if it is left out (`SpsElements`, `VuiRows`, `PpsElements`); of these the bits
(`Bits`), the payload and the escaped payload. `SpsOK` and `PpsOK` say what can be sent. `SpsParser` follows the code:
`Call`, `DeEmulate` takes the escapes out, `ReadField` reads the next field of the table
`Fields`, `ReadScale` one element of a scaling list, `Return`. The tables have the fields in
the order of the code, with the function that reads each; `Times` says on what it depends
whether and how often it is read. `GetWidth`, `GetHeight` and `GetFramerate` are what
`main()` asks for. `get_1bit` does not look where the data end, and an Exp-Golomb code of
more than 31 zeros shifts by too much. The model stops there (`LeaveData`): `CodeInData`,
`FieldInData` and `ScaleInData` ask whether the next code, field or scale is in the data. It
stops there too before a number is written behind its array (`HasRoom`: 16 offsets, 655;
16 buffers of a decoder, 385 and 406; slice groups, 775-800): what that overwrites is not
known. That nothing of a regular parameter set leads there is `EndsAsSent`.

`Ingest` composes the two: `ParseSps` hands what follows the first five bytes of a packet to
the parser, of an aggregate with everything behind the SPS, and `SpsParsed` goes on to
`Store`. Nothing in `src/` calls the parser of picture parameter sets; `ParsePps` is a
caller as the comment at `sps_pps.h:175` asks for. Nor does anything that is built call
`base64_decode`; `src/temp.c` sketches its use, for an SPS that comes as a text, and
`ParseText` hands such an SPS to the parser. `Base64` has places in the alphabet for
characters.

| Run | Data | Shows |
|---|---|---|
| `ingest` | 133 SPS, alone, in an aggregate and as a text; 264 PPS; 39 layouts of units, among them all ways to cut a unit of 7 bytes | `TypeOK`: the parser is in its table, in the data and in the loop of a field; `FramesAsSent`: the queue has what was sent, byte by byte, and in the end all of it; `CopiesInBounds`; `TextDecoded`: the text has the bits of the SPS, and decoding gives the SPS and at most four zeros; `PayloadRestored`; `EndsAsSent`: the parser ends at the bit where the encoder did; `AnswersAsSent` |
| `sps_emulation` | the same | finding: `OriginalRestored` is violated. A payload with `00 00 00 03` (say, an aligned `num_units_in_tick` of 3) loses its own 03, as the loop looks again at bytes it has moved |
| `sps_getbits` | the same | finding: `AllBitsRead` is violated. `ret =` at 137 overwrites the fifth byte, so that an unaligned 32-bit field loses its highest bits |

The buffers of 2048 bytes are of 128 here, `PACKET_MAX_SIZE` (1 MB) is 128 too. The largest
fragment, the largest cut unit and the aggregate that grows to the last byte are among the
layouts, so that a length that is off by one shows.

`FramesAsSent` and `CopiesInBounds` speak of what fits (`Fits`): the code takes every length
from the datagram and checks none. A first fragment must leave five bytes in the buffer,
since `UnpackRTPH264` counts the five bytes it puts before it twice (37); an aggregate grows
by two bytes for each unit; only the last of its units may be empty, since a size of 0 is
stepped over with one byte too many (105).

`base64_decode` returns a length that is 1 to 4 too large. The comment at `base64.c:159`
admits a problem of the length and says that it does no harm for now. `EndsAsSent` and
`AnswersAsSent` show that for an SPS; a PPS, whose parser looks for the end of the data,
is not given to the model as a text.

`PayloadRestored`, `EndsAsSent` and `AnswersAsSent` leave out what this parser cannot read
(`Regular`), each in a place where no text of the repository promises otherwise:

* a 4x4 scaling list that ends early (`last_scale` and `next_scale` are reset for every
  element at 607, for 8x8 lists once at 622); `00 00 00 03`; numbers of more than 25
  bits (`Small`; these two are the findings);
* a PPS without extension whose stop bit is not the last of its byte: `more_rbsp_data` moves
  `bit_pos` but not `cur_bit_pos`, finds the stop bit and says that there is more. The
  comment at 703 warns that it was not verified;
* slice group maps of type 2 and 6, whose loops read other numbers than the standard has (the
  comment at 800 doubts them), and an extension without scaling lists, whose last field is read
  inside the condition for the lists (864);
* more offsets, buffers or slice groups than the arrays hold (`FitsArrays`). H.264 allows 255
  offsets and 32 buffers; among the descriptions are one with 16 offsets, which fits, and one
  with 17, at which the parser is "lost".

`AnswersAsSent` leaves out `num_units_in_tick` 0 as well, by which the code would divide (992).
A width or height of one macroblock is
reported as 0 ("自定义", 877), which `AnswersAsSent` says.

They send and leave out every optional part, with both signs, lists of both sizes sent whole
and cut, both HRD blocks, slice groups of every type, and prefixes of such lengths that the
32-bit fields meet every alignment. A stream has one behaviour, but for a failing
allocation in the parser; the value of the model is in the data.

## 7. OmxRender: the renderer

The client is `omx_display_enable`, cut at every call of OpenMAX (`Enable`, `Reopen`,
`Free`, `Config`, `OpenPort`, `SetPort`, `WaitPort`, `Check`, `Idle`, `Allocate`,
`Execute`, `WaitState`, `Exit`), and `Input`, `Flush`, `Disable`. The component is
external: it has a state, a port and a list of commands that it obeys in order, when
it gets to them (`Obey`). What it accepts is what the comments of the code say: a
port cannot be set unless it is disabled (273) or nothing runs; the way to Idle needs
the buffers (391), the way to Loaded their release. Heights and strides go with the
width and are left out; so is what the component does with a filled buffer.

The initial state chooses which `faults` there are: "late" lets the client go on while
commands wait, "timeout" lets a wait end too early, "set" and "alloc" let calls fail.
So one run, `omx`, answers for every combination:

| Property | Says | Under |
|---|---|---|
| `NoBufferLost` | the allocated buffers are those of the ring, over any number of sessions | everything |
| `FrameFits` | after a call that returned 0 every buffer of the ring takes a frame of its width | "late", "set" |
| `AlwaysOpens` | the renderer opens for every width that is a multiple of 32, whatever was before, and for no other | no fault |
| `EnableReturns` | the call comes back | everything |

`FrameFits` stops at "alloc" and "timeout" because the code does: a failed
allocation (404) leaves a ring with slots that were never set, and a wait for
Executing that was too short makes the next call skip the release of the buffers
(268, 278), so that a session of another width gets the old ones. After a call that did
not return 0, `main()` starts the thread all the same (413), and `Input` uses a pointer
that was never set (`pc = "lost"`).

Widths 32, 64 and 40 are two that can be shown and one that cannot; two buffers make
a ring; `MaxBacklog` bounds how many commands may be left when a session begins, which
is enough for those of a whole reopening. Fairness: the client is a thread that goes on;
the component is fair only where it does not time out.

## 8. Proofs

`AVQueue_proofs` proves, for any set of threads, any set of cells, any costs and
any limit with `QueueAssumption`: `MutualExclusion`, `ListSound`, `NoLeak`,
`TypeOK`, `Accounting`, `SizeBound`, `CountStaysValid` and `ImplementsFifo`. The
list properties say nothing of a thread in the middle of an operation, so they
are not inductive. The invariant adds, for each program point of a critical
section, how pointers, `pkt1` and counters lag behind `chain`, and that `upto` is
the running total (`Totals`), from which the counters follow without a sum over
the list. The refinement maps linking to a put, unlinking to a get, taking the
lock in a release to a flush and everything else to stuttering.

`Player_proofs` proves, for any number of threads and widths and any queue size:

* `NoStrayThread` and `RendererQuiet` with no assumption on what fails. The
  argument (`ControlInv`): a thread that lives is `videoThreadId`; when the join is
  skipped because `HAVEVIDEO` is clear, the thread has cleared it with its last
  step; `reg` holds the flag if a thread may still run.
* `NoUpdateLost` and `SessionRuns`, if "open" and "alloc" are not both in `Faults`
  (`FewFaults`). `FlagInv` gives the value of `playerState` for every pair of
  program points of `main()` and the thread.
* `TypeOK` and `CountHolds`: only the thread takes from the queue.
* `ScreenFollowsSession`, whatever fails. `ScreenInv` says for every place of `main()`
  whether the screen is taken: it is given back on the way to the reset of `start_flag`.
* `DecoderReady`, under `FewFaults` and if decoding does not fail. `DecInv`: a thread that
  decodes has an open decoder, and only the thread that is flushing one leaves it draining.
  An error while the thread drains ends it before the flush, and the next session gets a
  decoder that still drains; TLC shows that as soon as "decode" is added to `player_stream`.
* `ShownAtOwnSize`, for streams of one width without cropping and a renderer that can be
  set up (`OneWidth`). The width the decoder writes into `decContext` is then the one that
  is there, which is what `WidthInv` carries from the SPS to the frame.
* `TornOnlyAtClose`, for any widths and whatever fails: a thread that copies is known to
  `main()` (`ControlInv`), which therefore asks for the stop together with the write.

`OmxRender_proofs` proves, for any number of buffers, any widths and any backlog of
commands:

* `TypeOK` and `NoBufferLost`, whatever fails. `RingInv`: there is no ring, or one whose first
  slots have all the buffers that are allocated. That an identifier is free for the next
  one (`FreeId`) is a pigeonhole argument.
* `FrameFits`, if no allocation fails and no wait is too short (`Sound`, which `FrameFits`
  says itself). The component is behind by commands it has yet to obey, so the invariant
  (`CommandInv`) is about what they will make of it: at each place of the client, the commands
  on their way are a piece of the one sequence that unloads (flush, idle, disable, loaded) or
  loads it again.
* `AlwaysOpens`, without faults, from `PromptInv`: what the component has obeyed by then.

`Receiver_proofs` proves, for any number of units, any widths, any space of sequence numbers
and any set of networks with `ReceiverAssumption`:

* `TypeOK` and `SessionStartsWithSps` (`SpsInv`: while a session is asked for, something was
  queued behind `mark`).
* `RuntNotQueued`, on every network (`LastInv`: while a session is asked for, `before_seq`
  is the number of the last packet with a payload, which does not follow itself).
* `OwnBuffer` and `ImplementsUnitDelivery`, for networks that keep the order. `FlightInv`: what
  was queued, what the buffer has, what is in the network and what the sender has yet to
  send are, one behind the other, the fragments of the units in order. A step of the loop maps
  to a delivery or to nothing.
* `LossNoticed` and `DamageConfined` on networks that lose, double, swap and cut. `ErrInv` says
  when `error_packet` can be set between sessions; `BufferInv` that fragments of one unit
  agree about it, and that a unit taken so far without a break is in the buffer so far.

The last two are theorems about the behaviours in which the sender's number 0 is not unpacked
(`[]NumbersTell`), unless the network keeps the order. Without it they are false, for
`before_seq == 0` doubles as "no packet yet": that is the finding of `receiver_zero`, and a
duplicate or a loss at number 0 leaves `error_packet` set, or a gap unseen. TLC checks both on
networks that satisfy it, as the run `receiver` does.

`Coding_proofs`, `RtpUnpack_proofs`, `SpsParser_proofs` and `Ingest_proofs` are about bytes and
bits. The induction theorems of the library take an operator, which no installed backend
instantiates; that `<` is well founded on `Nat` is a theorem without one. `CountUp` in
`Coding_proofs` is induction for a property that is given as the set of the numbers that have
it, and from it follow that a function with given steps exists and that a recursive definition
has its steps (`EndsDef`, `FlattenSeqDef`, ...). Proved are, for data of any length:

* `FramesAsSent` and `CopiesInBounds` (`RtpUnpack_proofs`): streams of any number of units, sent
  alone, in aggregates or cut anyhow. The invariant (`UnpackInv`) has the sending at work, the
  datagrams of it that were received, and with them what `av_packet` has: the units of an
  aggregate walked so far, or the beginning of a cut unit with its header put together again.
  Both properties speak of streams that fit (`AllFit`), and so does the invariant.
* `Restores` (`Coding_proofs`): the loop of `de_emulation_prevention` undoes the insertion of
  the 3s, if the payload has no `00 00 00 03`. The loop moves the rest of the buffer down in
  place and goes on to the old end, so that `RoundInv` has three parts: what is in front of the
  cursor is the payload, what is behind it is what was sent, moved down by the 3s that were
  taken out, and what is behind the data repeats their last byte, where nothing is found.
  The hypothesis is the finding of `sps_emulation`. `RestoresAll` says that what comes of
  an escaped payload of at least two bytes with nothing behind it is exactly the payload, on
  whose length `more_rbsp_data` depends.
* `URead`, `UeRead`, `SeRead` (`Coding_proofs`): `get_bits`, `parse_ue` and `parse_se` give back
  what `u(n)`, `ue(v)` and `se(v)` sent, at any position, for numbers of at most 25 bits; with
  more, `get_bits` may drop some (the finding of `sps_getbits`). `CodesPlaced`: in the bits of a
  parameter set every value has its code, behind those before it.
* The parser (`SpsParser_proofs`). `ParserReads`: whatever the data are, it stays in its table,
  in the data and in the loops of a field (`ReaderInv`). For data of the encoder, the table of
  the parser and the elements of the encoder are set side by side. They are `Paired`: each field
  is read in the way its element is coded; and they `Agree`: when the parser comes to a field,
  `Times`, which asks for fields read before, is the number of values that were sent of it, on
  condition that it `Knows` them: those sent have the value that was sent, the others are 0.
  `SpsReadable` proves both for every SPS that the syntax allows, with any profile, picture
  order and VUI, if its numbers have at most 25 bits (`AllSmall`), its 4x4 lists are sent to
  their end (`SentToEnd`) and its offsets and buffers fit the arrays (`HaveRoom`). From them
  `WayKeeps` has, for one step after another, that the parser is at the code of the value it is
  to read (`Walk`) and never leaves the data.
* `PpsCanRead` is for a PPS under the same three conditions, without slice groups of type 2
  or 6 and with lists in its extension (`PpsAsRead`). It ends with a question about the data:
  with an
  extension, the bits that `more_rbsp_data` finds a 1 among reach to one at least 8 bits on; and
  without one it stops only if the stop bit is the last of its byte, which `RegularPps` asks for.
* `TextRestored` (`Coding_proofs`): base64, group by group and bit by bit; four zeros are the
  most that the length which `base64_decode` returns adds.
* `TextDecoded` and `PayloadRestored` (`Ingest_proofs`). `IngestUnpacks`: main() with the parser
  implements the unpacking, a step of the parser being a stutter, so that the results of
  `RtpUnpack_proofs` hold for `Ingest` as well. With them `SpsHandedOver` shows that the five
  bytes main() skips are start code and header, in a single packet and in an aggregate alike,
  and `ParseInv` that the parser has the escaped parameter set before de-emulation and the
  payload after it, wherever it reads.
* `TypeOK`, `EndsAsSent` and `AnswersAsSent` (`Ingest_proofs`), for streams that fit. `TypeInv` adds to
  the invariant so far that the parser is in its table and runs only while `main()` waits for it.
  `WayInv` adds that over a regular set (`Regular`, which both properties name) it is on the way
  of the encoder: `SpsHandedCanRead` and `PpsHandedCanRead` lead from the payload that
  `PayloadRestored` speaks of, with anything behind it, to what `SpsReadable` and `PpsCanRead`
  ask for. At the end the parser `Knows` the whole set, and with it the size and the times; the
  times are those of an SPS whose `num_units_in_tick` is not 0.

They rest on three assumptions about the constants, which TLC evaluates in the run `ingest`:
`UnpackAssumption` (the header of RTP has more than 2 bytes, 12 in the code: what fits has
room for header, payload and five bytes, and the copy that starts a cut unit writes the
payload and eight), `StreamsAssumption` (a sender keeps to RFC 6184: types 24 and 28 are no
types of units, sizes are 16 bits, no cut unit has fewer than two fragments) and
`IngestAssumption` (`get_bits` returns up to 32 bits, the widest field there is; a description
is one that can be sent, `SpsOK` or `PpsOK`; what is sent as an SPS is the SPS of the stream).

Two habits of the modules are there for the proofs. A `CASE` whose guards overlap leaves the
choice open for a prover, so that `UnpackCopy` and `Sorted` decide with `IF` where the order
matters; and recursive functions have a name of their own (`Ends`, `Escaping`, `Unescaping`).

With that every safety property that a run shows to hold is a theorem, as are both refinements.
Only model-checked, since the provers have no rules for fairness and ENABLED:
`MutexReleased`, `StopCompletes`, `PacketsServed` and `EnableReturns`.

## 9. Not modelled

* `parse_args` and the set-up of `main()`: straight-line I/O; its results are the
  initial states.
* Wording, logging, timing (`usleep`) and statistics.
* `avcodec_register_all`, `av_init_packet` and the like: no state the properties
  tell apart.
* `h264_get_framerates`, `h264_get_format` and the other getters of one field,
  `memcpy_sps_data` and `omx_display_xy`: nothing that is built calls them.
  `omx_deinit` is behind a loop without an end.
* The time stamp of RTP, which is computed and not used; memory that is lost when a packet
  is skipped or not stored; a set-up that fails, which is only logged
  (`main_yuv4.c` 144-205).
* What the program does with units, fragments and aggregates for which there is no room.
* Sources that are not built.
