# TLA+ models of v4l-dmabuf-example

The repository builds six programs that stream video frames from guest A to
guest B of a hypervisor, in two flows that are used in pairs:

| flow | guest A | guest B | what crosses TCP |
|---|---|---|---|
| payload copy | `sender` | `receiver`, `receiver_sdl` | a header and the pixels of each frame |
| zero copy | `sender_zc` | `receiver_zc`, `receiver_zc_sdl` | a packet naming a shared buffer, and an ACK back |

This directory holds TLA+ models of both flows, TLC configurations that check
them on small instances, and TLAPS proofs of the safety properties of both
flows, of the byte stream and the wire format under them, and of all three
refinements.
Every definition is a translation of the C code; `PROJECT.json` maps each one
to the lines it stands for.

    tlc -workers 2 -config ZcStreamTimeouts.cfg MCZcStream
    for m in ZcStream ZcAck ZcSetup CopyStream CopySetup Wire MessageIo
    do tlapm ${m}Proofs.tla; done

## 1. The system

Each program is one process with one thread. Nothing is persistent. What makes
the system hard is that two processes and a capture device work on the same
frames, with a byte stream as their only means of agreement, and that every
call may fail, those of the exit paths included, whose results the programs
ignore.

| component | state | operations | interacts with |
|---|---|---|---|
| capture queue (kernel driver) | for each buffer: queued, done, dequeued, and its pixels | fill, QBUF, DQBUF, STREAMON/OFF | both senders, by ioctl; with `receiver_zc*` through shared memory |
| `sender_zc` frame loop | the frame in hand, the parts of its ACK, whether it has warned | DQBUF, send packet, wait for ACK, time out, requeue | capture queue; receiver |
| `receiver_zc*` frame loop | the packet in hand, parts of the ACK sent, `SDL_QUIT` waiting | poll, receive, read shared pixels, send ACK | sender; shared pixels; output, window |
| `sender_zc` setup | exported handles, their metadata, how far it got | REQBUFS, mmap, export, fetch metadata, QBUF, STREAMON, connect, handshake, exit path | backend (grants); receiver |
| `receiver_zc*` import table | counted entries, capacity, open dmabufs | accept, receive hello and handles, append, import, map, clean up | sender; backend |
| connection establishment | up to two sockets in a receiver, one in a sender, `O_NONBLOCK` | listen, bind, accept; connect, poll, give up | both programs' setup |
| SDL display | four objects, `display_ok` | init one after the other, destroy | the receivers with a window |
| `sender` pipelines | memory mode, picture size, pool of buffers, open descriptors and mappings | two ways to build a pool, the fallback, prime, exit path | heap, driver; receiver |
| `sender` frame loop | the header in hand, bytes sent | DQBUF, send header, send payload, requeue | capture queue; receiver |
| `receiver*` pool | array of descriptors and mappings | accept, hello, allocate, map, free | heap; sender |
| `receiver*` frame loop | the header in hand, bytes received, the pool's memory | receive header, receive payload, write or show | sender; output, window |
| `send_all`, `recv_all` | position in the message | partial transfers, end of stream, reset, timeout | the connection |
| wire conversion | none | byte order of 32-bit and 64-bit fields, five packets | both ends of the connection |
| other helpers | none | fourcc, arguments, messages | |

What is hard in each, and what makes it correct:

- **Zero-copy frame phase.** The receiver reads the pixels where the driver
  wrote them, in another guest. Only the ACK keeps the driver from writing the
  next frame into them. The ACK may be late, may arrive in two parts with a
  timeout in between, and is compared but not required to match. Correct: one
  owner per buffer, no torn frame, capture order, an orderly end that loses
  nothing, no lockup, each program notices when the other is gone.
- **Zero-copy setup.** Two tables of handles are built over a connection, with
  a failure possible between any two steps. Correct: the tables agree when
  frames start, the handshake ends, whoever stops leaves behind only what a call
  that failed did not take back, and handles are not released under a running
  stream, unless the call that was to stop it failed.
- **Payload-copy frame phase.** Headers and pixels share one stream, and the
  buffer is refilled as soon as `send` has taken its bytes. Correct: the two
  positions in the stream agree, frames come out whole, once and in order.
- **Payload-copy setup.** Two ways to get buffers, and a fallback from one to
  the other in the middle of priming the queue. Correct: the stream runs on one
  complete pool, descriptors are accounted for, the fallback ends, the
  receiver's pool has the sender's size.
- **Connection.** A connect attempt with a timeout may be given up while the
  other kernel establishes it, and the receiver then accepts a connection whose
  peer is gone. Correct: no socket is left, and the receiver notices.
- **Byte stream.** `send` and `recv` move any part of a packet, the two guests
  may differ in byte order, and an end in the middle of a packet looks like an
  end between two. Correct: what comes out is what went in, whole and in order,
  until a timeout falls inside a packet.

## 2. The modules

    zero copy, frames                 payload copy, frames
      CaptureBuffers                    CaptureBuffers
      ZcPackets      ZcLink             CopyLink
      CaptureQueue                      CaptureQueue
      ZcSender       ZcReceiver         CopySender     CopyReceiver
          ZcStream  => FrameHandover        CopyStream  => FrameStream
          ZcStreamInv                       CopyStreamInv
          ZcStreamProofs, ZcAckProofs       CopyStreamProofs

    zero copy, setup                  payload copy, setup
      Connection  ListenAccept          Connection  ListenAccept
      ConnectTimeout                    HelloLink   DmabufPool
      SetupLink   SdlDisplay            SdlDisplay
      ZcExport       ZcImport           SenderPipeline ReceiverPool
          ZcSetup                           CopySetup
          ZcSetupInv, ZcSetupProofs         CopySetupInv, CopySetupProofs

    byte stream
      Wire   Packets
      MessageIo  => MessagePipe
      WireProofs, MessageIoProofs

`*Inv` modules hold the inductive invariants, which the `MC*` modules extend as
well, so that TLC can check them (that of `MessageIo`, `MessageInv`, is short
and stands in the module itself); `*Proofs` modules hold the proofs. `MC*`
modules only give constants their values. `=>` is a refinement: the
abstract specification is a PROPERTY of a run.

- `Wire`: numbers as functions from digits to bytes, their place in the memory
  of a machine of either byte order, `htonl`, `htonll_u64` and the inverses.
- `Packets`: the five structs as layouts, and the ten conversion functions.
- `MessageIo`: one direction of a connection with `send_all` at one end and
  `recv_all` at the other, byte by byte; `MessagePipe` is what the frame loops
  and the setups take the two for.
- `Connection`: the state of the TCP connection as both kernels see it.
  `ListenAccept` is `tcp_listen_and_accept`, the same in all receivers,
  `ConnectTimeout` is `tcp_connect_timeout` of `sender_zc`; `sender` uses
  `tcp_connect`, which `SenderPipeline` has as one step.
- `SdlDisplay`: `display_init` and `display_destroy`, used in both setups.
- `DmabufPool`: descriptors by number, allocation from a heap, freeing a pool.

The frame phase and the setup of a flow are separate compositions. They meet in
one place: the setup ends with both programs in state `"loop"`, with
`TablesAgree` or `PoolsFit` true, and this is where the frame phase starts (all
buffers queued, the stream on, the connection empty). A setup model keeps
`"loop"` as a state that may end in every way the frame loop can end.

### How state and actions correspond to the code

- A program counter (`spc`, `rpc`, `epc`, `ipc`) names the blocking call or the
  stage of `main()` that comes next. An action is one such call with all the
  assignments up to the next one; local variables that live across such a call
  are variables. `goto out` is a step to the first stage of the exit path.
- **Capture queue.** A buffer's memory is the sequence number of the frame in
  it. The driver may write into a queued buffer at any time until it is done.
- **Zero-copy link.** Frame packets are read by a `recv_all` without timeout
  and travel as one item. ACKs are read under `SO_RCVTIMEO`, and `recv_all` may
  give up between two parts of one, so an ACK travels as `AckUnits` parts;
  `ack_net` is what this iteration has read. Both directions are bounded. The
  first `arrived` parts of `r2s` are in the receive buffer of `sender_zc`, the
  others in the network or the receiver's send buffer, and `Network` moves them
  on: `recv` times out, or fails, only when nothing has arrived. That a packet
  may be one item is what `MessageIo` shows for bytes.
- **Bytes.** In `MessageIo` a call of `send` or `recv` moves any number of
  bytes. `left` is what `p` and `len` of `send_all` stand for, `buf` what
  `recv_all` has so far; `delivered` is the packet after its conversion on the
  reader's machine.
- **Nested functions.** `tcp_listen_and_accept` and `tcp_connect_timeout` have
  a program counter of their own (`la`, `cpc`) while `main()` is in state
  `"accept"` or `"connect"`.
- **Reading shared pixels.** The receiver reads from `RecvFrame` to
  `FinishRead`. What it shows is what the buffer holds at the end: a frame
  captured into it meanwhile becomes visible as a wrong `shown`.
- **Close and reset.** `recv` sees the end of the stream when everything the
  peer sent was read, or earlier if the peer closed with unread data on its
  side, for then the kernel resets the connection. `send` fails only after the
  peer closed, and may also succeed then.
- **Payload link.** Payload is counted in units; a unit is the frame its pixels
  are of, read from the buffer when `send` copies it. A unit is received into
  the memory of the pool, which keeps what older frames left there.
- **Descriptors** in the payload-copy setup are numbers, lowest free first,
  with 0 open from the start. A zeroed array therefore means something.
- **Exit paths.** STREAMOFF (`sender_zc.c:660`, `sender.c:612`) and the release
  of a handle (`sender_zc.c:448`) may fail, and the program goes on. A stream
  that STREAMOFF did not end runs until the device is closed. In `ZcExport`,
  `offFailed` and `unreleased` record the two for `SenderGivesBack`.
- **Signals.** No program installs a handler: a signal ends it in any state,
  and the kernel closes what it had open.

`timeouts`, `captured`, `output`, `offFailed` and `unreleased` exist for the
properties; no guard of the programs reads them (`captured` is the driver's
sequence counter).

## 3. What TLC checks

| run | distinct states | shows |
|---|---|---|
| `stream_timeouts` | 3 737 018 | all safety properties of the zero-copy frame phase, the inductive invariant and the refinement, with timeouts, split ACKs, failing calls, signals and window events; the two `send_all` never wait for each other |
| `stream_strict` | 6 870 | without an ACK timeout (`-k 0`) the sender comes to its end and each program notices that the other is gone |
| `stream_hung_receiver` | 68 221 | with a timeout the sender finishes although the receiver may hang, while the connection has room |
| `message_io` | 270 432 | packets cross the connection whole, unchanged and in order between machines of either byte order; both loops end |
| `zc_setup` | 489 411 | the handle tables agree, no packet is refused, the handshake ends, nothing is left behind but what a failed call of the exit path did not take back |
| `copy_flow` | 425 606 | the byte stream stays in step, frames come out whole and in order, both programs finish |
| `copy_setup` | 64 192 | pools, descriptors and the fallback, with any call failing |
| `stream_late_ack`, `stream_stalled_receiver`, `stream_quit`, `copy_short`, `copy_own_pool` | | five disagreements between code and comments, below |

Each property has a mutant of the code it catches (`PROJECT.json`).

### Bounds, and why they are enough

- **Buffers.** Two in the frame phases: one in hand and one at the driver is
  enough for every overlap, because a sender holds one buffer at a time
  (`OneBufferInHand`). Up to three in the setups, so that a failure can lie
  before, in and after an entry. Symmetry is not used.
- **Frames.** The limit `-n` bounds the capture (3 to 5 frames): the driver
  stops by itself when no buffer is queued. Three frames let a buffer be reused
  with an ACK of its first use still on the way.
- **Connection.** `FrameCap`, `AckCap`, `WireCap` of 1 to 3 items make sending
  block. `stream_timeouts` has one frame packet and one ACK part on the way and
  a receive buffer of one ACK (`RecvBuf`, which a kernel never makes smaller),
  with four frames: one part more than the receiver ever owes, and both
  directions would be full (see section 4); a sender that gave up on an ACK
  which has arrived would get there, as the mutant of `NeverMutualBlock` does.
  `stream_hung_receiver` gives `FrameCap` as many packets as there are frames:
  with fewer the sender blocks in `send_all` (`stream_stalled_receiver`, see
  section 5).
- **ACK parts.** Two, so that a timeout can fall inside an ACK. Runs that end in
  a violation use one.
- **Bytes.** In `message_io` a word has its four bytes, a byte its 256 values,
  and every byte of a packet differs from the others, so that one out of place
  shows. The connection holds two bytes: each call moves one or two, and each
  split of a packet occurs. There is one list of packets for each direction of
  each flow; the grant array has one element, which the loop treats like all.
- **Sizes.** In `stream_timeouts`, `stream_strict` and `copy_flow` the driver
  may report less than a picture and more than the buffer holds, in `copy_flow`
  also nothing; the other runs need one value. In `copy_flow` one of the two
  buffers is longer than the picture, so that a frame the receiver has to
  refuse occurs. In `copy_setup` the driver may report a picture of no size.
  In `stream_strict` the import is shorter than the buffer, so that the
  receiver refuses a frame as well.
- **Grants.** Lengths 0, 1 and 2 against a maximum of 1: too few, good, too
  many. One buffer or three, three handles, and the backend may give the
  same one twice. The capacity of the import table starts at 1 instead of 8,
  so that three entries make it grow twice.
- **Deadlock** is checked in the frame phases, where `Terminated` is the only
  stop; `message_io` has `Stopped`. The setup models switch it off: both programs
  really end, and a receiver may wait for ever for a sender that was never
  started.

### Fairness, and why the code justifies it

Weak fairness of one disjunction per process: a process that is not blocked
takes its next step, because the kernel schedules it and its calls return.
Steps in that disjunction are those of the program text (`SenderStep`,
`ReceiverStep`, ...). Failing ioctls, signals, the user, the end of a stream by
a frame limit in the setup models, are in `Next` but not in the fair part.
`AckTimeout` is in the fair part, since the timer expires if nothing arrives.
So is the end of `poll` in `ConnectTimeout`; that the other kernel answers is
not. On an established connection TCP retransmits until it delivers
(`NetworkRuns`), whether the programs run or not. In `ZcSetup` a receiver in its frame loop is bound to notice
the end of the stream (`ImportLoopSeesEnd`), not to end for another reason. In
`MessageIo` the two loops are fair and a timeout is not: `BothLoopsEnd` does not
rest on it. `CameraRuns` says that a camera with a queued buffer delivers a
frame; `IdleCameraSpec` leaves it out, `HungReceiverSpec` leaves out the
receiver, whose kernel and connection live on.

The setups state what a program leaves behind for programs that end by
themselves: after a signal it is the kernel that closes and unmaps. Four
leftovers of the code are exceptions written into the properties.
`setup_mmap_capture` leaves the buffers before a failing one mapped, and a
`display_init` that fails leaves what it made (`SenderGivesBack`;
`ReceiverGivesBack`, `ReceiverAccounts`); both last until the process ends,
which in these programs is at once. A handle whose release failed stays granted,
and after a STREAMOFF that failed the handles are released under a running
stream, for as long as it takes to the close of the device (`SenderGivesBack`):
`sender_zc.c:448` and `660` ignore the results. Whether the driver or the
backend then comes to harm is not decided by this code.

## 4. What is proved

All safety properties of the passing runs are theorems: they hold for every
value of the constants that the named assumptions allow, not only for the
instances above.

| theorem | property | says |
|---|---|---|
| **ZcStreamProofs** (1122 obligations) | | |
| `TypeCorrect` | `TypeOK` | |
| `HandoverInvariant` | `HandoverInv` | the frame in hand and its ACK are in one place |
| `BufferInHand` | `OneBufferInHand` | the sender holds the buffer of its packet and no other |
| `Ownership` | `OwnershipUntilWarning` | no buffer is rewritten while the receiver may read it |
| `NoTornFrame` | `ShownAsAnnounced` | the output gets the frame of the packet |
| `OrderlyExit` | `OrderlyExitDeliversAll` | a normal end leaves nothing on the way |
| `CaptureOrder` | `FramesInOrder` | also after timeouts |
| `Refinement` | `ImplementsHandover` | `ZcStream` implements `FrameHandover` |
| **ZcAckProofs** (1045) | | |
| `ClampSuffices` | `ClampPreventsRejection` | no frame is refused for its size |
| `BacklogStays` | `BacklogNeverDrains` | each timeout leaves an ACK over for good |
| `NoLockup` | `NeverMutualBlock` | the two `send_all` never wait for each other, however many ACKs time out |
| `AckMatches` | `AcksMatchUntilTimeout` | the ACK read is that of the frame sent, until a timeout and never after |
| **ZcSetupProofs** (1770) | | |
| `SetupInvariant` | | `SetupInv` is an invariant |
| `SetupTypeCorrect` | `TypeOK` | |
| `TablesAlwaysAgree` | `TablesAgree` | the receiver's table is the sender's |
| `NoPacketEverRefused` | `NoPacketRefused` | |
| `EntryAlwaysInBounds` | `EntryInBounds` | `append_entry` has made room |
| `SenderAlwaysGivesBack` | `SenderGivesBack` | handles but those whose release failed, mappings, socket; no release under a stream that STREAMOFF ended |
| `ReceiverAlwaysGivesBack` | `ReceiverGivesBack` | dmabufs, sockets, window |
| `TablesFinalOnceSent` | | an action property: once a packet is sent, the sender's tables stay |
| **CopyStreamProofs** (1680) | | |
| `CopyInvariant` | | `CopyInv` is an invariant |
| `CopyTypeCorrect` | `TypeOK` | |
| `AlwaysInStep` | `StreamInStep` | headers and pixels are not mixed up |
| `FrameNeverRefused` | `NeverRefused` | |
| `OrderlyEndDeliversAll` | `NothingLost` | |
| `StreamRefinement` | `ImplementsStream` | `CopyStream` implements `FrameStream` |
| **CopySetupProofs** (1670) | | |
| `PoolsInvariant` | | `CopySetupInv` is an invariant |
| `PoolsTypeCorrect` | `TypeOK` | |
| `SenderAlwaysAccounts` | `SenderAccounts` | the array names all that is open and mapped |
| `ReceiverAlwaysAccounts` | `ReceiverAccounts` | |
| `AlwaysBacked` | `StreamingBacked` | the stream runs on one complete pool |
| `PoolsAlwaysFit` | `PoolsFit` | both pools have the same size |
| `PoolFinalOnceStreaming` | | an action property: no pool changes under a running stream |
| **WireProofs** (1347) | | |
| `HtonllBytes` | | the wire has the most significant byte first |
| `RoundTrip` | | `ntohll_u64` undoes `htonll_u64` |
| `PacketRoundTrip` | | each packet comes back as it was |
| `LoadedIsPacket` | | any bytes of the right number make a packet |
| **MessageIoProofs** (1423) | | |
| `StructRoundTrip` | | so does the struct that was sent as bytes |
| `MessageInvariant` | | `MessageInv` is an invariant |
| `MessageTypes` | `TypeOK` | |
| `NoByteLost` | `BytesInTransit` | none lost, repeated or out of place |
| `NothingLost` | `OrderlyEndLosesNothing` | |
| `MessagesArePiped` | `ImplementsPipe` | the two loops implement `MessagePipe` |

They rest on the `ASSUME`s of the modules that declare the constants, which TLC
evaluates in every run: capacities and lengths are positive, the receive buffer
has room for one ACK, limits are integers, flags are Booleans, grant lengths are
natural numbers, there is a buffer, a word has a byte, a script is a list of
well-formed packets and is not empty. Nothing bounds the number of buffers, of frames, of grants, of packets on
a connection, of ACK parts or of bytes.

Each proof of an invariant has a lemma for the initial state, one for each
action with a step for each part of the invariant it can disturb, one for
stuttering, and one that puts these together.

**The handover (`HandoverInv`).** `OwnershipUntilWarning` is not inductive: it
does not say where the ACK of the frame is, so a stray ACK could let the sender
requeue too early. While the sender has not warned, and in every state of its
wait, exactly one of four things is true: the packet is on the way
(`FrameSent`), the receiver reads it (`FrameRead`), it sends the ACK
(`FrameUsed`), or it is through (`FrameAcked`); and the parts of the ACK read so
far, plus those on the way, are those the receiver has sent (`PartsOut`).
Outside the wait nothing is on the way (`Quiet`). Receiving the last part
therefore implies that the receiver is through with this frame. The first
timeout breaks `Quiet`, which is why the properties end there.

`OrderInv` is a second invariant, independent of timeouts: sequence numbers
rise from the receiver, through the connection and the sender, to the driver.
`ShownInv` links what the output got to the packet. Refinement uses all three,
with a mapping that reads the owner of a buffer off its driver state, the
sender's state and the place of the packet; after a warning or another end of
the protocol the abstract specification promises nothing (`over`).

**The ACKs after a timeout (`AckInv`).** The sender reads one ACK per frame, so
what is on the way changes by what a timeout leaves. `Overdue` counts the parts
the receiver owes beyond those of the frame in hand, wherever they are; it is at
least the number of timeouts and at most `AckUnits` times as many
(`OverdueCounts`): a timeout between two parts leaves less than a whole ACK.
That gives `BacklogNeverDrains`. It has another bound, whatever the number of
timeouts (`OverdueBounded`): `recv` times out on an empty receive buffer, so
just then the parts owed are those of `FrameCap` packets on the way, of one
packet in the receiver's hand, and `AckCap` parts on the way back (`Room`), and
an iteration that reads its ACK does not raise that. For the two `send_all` to
block each other the receive buffer would have to be full as well, which takes
more parts than `Room` (`NeverMutualBlock`). For
`AcksMatchUntilTimeout` the sequence numbers are needed too: from the first
timeout on, the next part to come is older than the frame in hand, in
whichever of the four places it is (`NextAckIsOld`), and capture order
(`OrderInv`) keeps it so.

**The tables of the zero-copy setup (`SetupInv`).** `TablesAgree` speaks of
two programs that are far apart in the protocol, so the invariant has to say
what lies between them. Packets are numbered: 0 is the hello, 1 to `buffers`
are the handles, all later ones frames. `WireContinues`: the packets on the
wire are those after the last one the receiver has read, in order;
`WireEndsAtSender`: they end where the sender is. From this the packet the
receiver reads next is the one it expects. The rest says for each stage of
each program how much of its table exists (`TablesByStage`, `DmabufsByStage`),
which handles are granted (`LiveByStage`), and which sockets and window
objects are there; the "gives back" theorems read it off at the last stage.

**Positions in the byte stream (`CopyInv`).** In the payload-copy flow no
packet is an item of its own: a header says how many units of pixels follow.
The invariant names a frame by the position of its header, on the wire or,
for the frame the receiver is at, in front of it (at `-got`). Behind each such
start come as many units of that frame as the header says and then the next
header (`FramesOnWire`); only the last frame may be cut off, at the unit the
sender is at (`InFrame`, `BetweenFrames`). This holds for a sender that fails in
the middle as well, so the receiver is in step up to the end. `DoneInOrder` says
that the driver's completed buffers hold exactly the frames captured and not
dequeued, which makes the n-th frame of the stream the n-th captured one; the
refinement of `FrameStream` follows.

**Pools and descriptors (`CopySetupInv`).** By stage of each program: which
entries of the array are done, which untouched (`EntriesByStage`), which memory
type the driver's queue has (`MemoryByStage`), what is queued. The fallback
from DMABUF to MMAP in the middle of priming is the case that makes the stages
necessary: it passes through the same stages with another `mem`. Descriptors
need that the lowest free number exists and is new, so the invariant also says
that finitely many are open; that a set of numbers has a least one is a lemma
(`LeastNatural`), by well-foundedness. The count of mappings is a cardinality,
by the library's theorems on finite sets. While the sender is in its loop, the
hello on the connection and the receiver's parameters have its sizes
(`HelloInv`), which gives `PoolsFit`.

**What no step may do.** Both setups have an action property that follows from
the invariant and a look at each action: the stage at which a table or a pool
can change lies before the stage the other program, or the driver, first sees
it (`TablesFinalOnceSent`, `PoolFinalOnceStreaming`). TLC agrees on the
instances of `zc_setup` and `copy_setup`, whose runs do not list them.

**Bytes.** `HtonllBytes` follows a digit through the exchange of the halves and
the swap inside each, for words of any number of bytes. `PacketRoundTrip` is
about the ten functions of `common.c:258-376`: the two conversions of a packet
treat the same fields as 32-bit words (`ConversionsAreFields`), these are 32-bit
words in its struct (`ConversionsFitLayout`, for the handle packet with a grant
array of any length), and a field comes back from a machine of another byte
order (`RoundTrip`, `ShortRoundTrip`).

**A packet as bytes.** `Offset` is a recursive function over the fields of a
struct and `FlattenSeq` one over the sequences of their bytes. What such a
function computes for every argument needs induction. The induction theorems of
the library have an operator as parameter, which the installed provers cannot
instantiate; so a property is given as the set of the numbers, or sequences,
that have it, and `AllNumbers` and `AllSequences` say that a set with the first
one and with the next of each has all. With these, `FlattenAppend` and
`FlattenCons` take one element off either end, `OffsetNext` gives the next
offset, and `FieldsInPlace` puts the two together: in the bytes of a struct each
field lies between its offset and the next. From that the bytes `send_all` is
given are `NetworkBytes`, as many as `Sizeof` says (`StoredIsNetworkBytes`), and
what the reader loads from them is the packet it was (`Reception`).

**The byte stream (`MessageInv`).** `BytesInTransit` is nearly inductive, but it
is silent once the reader has stopped, and `OrderlyEndLosesNothing` speaks of
just that moment. `BytesAccounted` holds for every state of the reader as long
as no byte was dropped. What else is needed is that a connection which was reset
or has ended is empty for good (`NothingAfterEnd`), so that neither a later
`recv` nor a later `Close` can break it, and that the messages delivered are the
first of the script even after a reset (`DeliveredInOrder`). The step that
matters is the `recv` that completes a message. Its bytes and the rest of the
stream are what is accounted for; the account is also the bytes of the first
undelivered message followed by those of the others; and both first parts have
`Sizeof[Expected]` bytes, so they are equal (`SameCut`). That there is an
undelivered message at all follows from the struct having a size. At an orderly
end the same account says that the buffer holds all undelivered messages, and it
is shorter than one. After a timeout inside a message only `TypeOK` is left, and
needs that bytes cut at the wrong place still make a packet (`LoadedIsPacket`).
TLC finds `MessageInv` true on the instance of `message_io`.

**What the proofs changed.** Working out `EntriesByStage` and `QueuedByStage`
showed two mistakes in `SenderPipeline`: `DmabufFails` could happen before the
DMABUF pipeline was entered, and `DmabufFails` and `MmapFails` forgot that
`cfg->buffers` keeps the granted number when `alloc_buffer_array` fails
(`sender.c:369`, `sender.c:400`). Both are corrected. `Offset`, a fold
before, is a recursive function, which the proofs can unfold.

**Only model-checked** is liveness (`SenderFinishes`, `ExitPropagates`,
`SetupResolves`, `PeerFollows`, `BothFinish`, `SetupEnds`, `BothLoopsEnd`): it
needs fairness and `ENABLED`, which are out of the prover's reach.

## 5. Where code and comments disagree

1. **A late ACK ends the protection for good** (`stream_late_ack`,
   `sender_zc.c:632`). A mismatched ACK is reported and the buffer requeued all
   the same. Since the sender reads one ACK per frame, one late ACK shifts all
   later ones: from then on a buffer is requeued on the ACK of an older frame.
   `receiver_zc.c:366-367` says that the sender requeues only after the ACK of
   this frame. `BacklogNeverDrains` and `AcksMatchUntilTimeout` show that the
   exchange does not recover by itself.
2. **A stalled receiver stalls the capture, timeout or not**
   (`stream_stalled_receiver`, `sender_zc.c:611`). `-k` is a receive timeout and
   covers the wait for an ACK only. While the receiver stays in `write` (a full
   pipe, `receiver_zc.c:357`), or its guest does not run, no ACK comes, each
   iteration leaves one more frame packet in the connection, and once it is full
   `send_all` blocks with a buffer in hand. `README.md:161-162` says that the
   sender goes on after `-k` so that capture does not stall permanently. It does
   so while the connection has room (`stream_hung_receiver`). ACKs that are
   merely late never make the two `send_all` wait for each other
   (`NeverMutualBlock`).
3. **A closed window is not noticed while no frame comes** (`stream_quit`,
   `receiver_zc_sdl.c:453`; `receiver_sdl.c:337` is the same), against the
   comment in front of the event loop.
4. **A short frame is completed with old pixels** (`copy_short`,
   `receiver_sdl.c:362`): the window shows a whole picture whatever `bytesused`
   is.
5. **A receiver that fails to build its pool closes descriptor 0**
   (`copy_own_pool`, `receiver.c:119`).

## 6. What is not modelled

- Argument parsing, messages, frame rates, fourcc text: no later step depends
  on them. Parsed values (`-n`, `-k`, `-b`, `-m`) are constants or chosen in
  the initial state.
- Width, height and pixel format: copied from the driver to the hello packet,
  and read again only by `map_fourcc_to_sdl`, whose refusal is one of the
  failures of `display_init`, and for the part of a buffer a window shows, pitch
  times height: `CopyReceiver` takes `sizeimage` for it (`UsedUnits`), which it
  is with a driver that does not pad lines, as `map_fourcc_to_sdl` presumes. `sizeimage`, which decides whether a pool can be
  built, is modelled.
- `EINTR`: the retry loops make it invisible (`xioctl`, `send_all`,
  `recv_all`). `poll` in `tcp_connect_timeout` is not retried; that is one of
  the ways `PollFails`.
- The kernel, the driver, the backend and SDL, beyond what the programs rely
  on. Whether the backend gives back the grants of a `sender_zc` that a signal
  ended is not decided by this code, so `SenderGivesBack` is silent about it.
- A sender of one flow with a receiver of the other: the hello packet does not
  tell them apart, and the first packet after it is refused for its magic.
- The two phases of a flow in one model. They meet at `"loop"`, see section 2;
  the sender may enter its loop while the receiver still imports, which to the
  sender is a receiver that is slow to read.
- Time: a timeout may fire at any moment of a wait.
- Numbers as such: sequence numbers do not wrap (64 bits on the wire; the
  driver's 32-bit counter wraps after more than two years at 60 frames a
  second), frame counters neither.

## 7. Plan

The zero-copy frame phase with its proofs came first, since everything else
exists to make it possible; then its setup, the payload-copy flow, and what
lies under both flows (bytes, sockets, window). The modelling is complete up
to section 6, and every safety property and refinement the runs check is
proved. What could follow:

1. **Frames over bytes.** `ZcLink` and `CopyLink` carry a packet, or a part of
   an ACK, as one item. `MessageIo` shows that one direction of a connection
   may be seen so; a composition of a frame phase with two instances of it would
   show it of the programs, at a size beyond TLC but perhaps not beyond a proof.
