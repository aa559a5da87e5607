------------------------------ MODULE ZcExport ------------------------------
(***************************************************************************)
(* sender_zc before and after the frame loop: request and map the capture  *)
(* buffers, export a handle for each, fetch the grants behind it, queue,   *)
(* start the stream, connect, send the handles; and the exit path that has *)
(* to undo whatever was reached.  Every call may fail, those of the exit   *)
(* path included, whose results it ignores.                                *)
(***************************************************************************)
EXTENDS SetupLink, ConnectTimeout

CONSTANTS Grants    \* the numbers of buffers REQBUFS may grant

ASSUME ExportAssumption == Grants \subseteq Nat

VARIABLES
    epc,            \* where main() is
    buffers,        \* cfg.buffers, as the driver granted it
    i,              \* the loop index
    bufs,           \* bufs is not NULL
    maps,           \* the capture buffers that are mapped
    handle_id,      \* the handle of each exported buffer
    share,          \* the metadata of each buffer that has it
    queued,         \* the buffers queued
    streamingOn,    \* between STREAMON and STREAMOFF
    live,           \* handles the backend keeps pages granted for
    offFailed,      \* STREAMOFF failed, and the device is still open
    unreleased,     \* the handles whose release failed (both for properties)
    erc,            \* the exit code
    ekilled         \* a signal ended the program

bufferVars == <<buffers, bufs, maps>>
tableVars == <<handle_id, share>>
driverVars == <<queued, streamingOn, live>>
endVars == <<erc, ekilled, offFailed, unreleased>>
exportVars == <<epc, i, bufferVars, tableVars, driverVars, endVars,
                connectVars>>

Index == 0..(buffers - 1)

ExportTypeOK ==
    /\ epc \in {"open", "format", "reqbufs", "querybuf", "export",
                "metadata", "queue", "streamon", "connect", "sockopt",
                "hello", "handles", "loop", "streamoff", "release", "close",
                "done"}
    /\ buffers \in Nat
    /\ i \in 0..buffers
    /\ bufs \in BOOLEAN
    /\ maps \subseteq Index
    /\ \E n \in 0..buffers : handle_id \in [0..(n - 1) -> Handles]
    /\ \E n \in 0..buffers : share \in [0..(n - 1) -> share_meta]
    /\ queued \subseteq Index
    /\ streamingOn \in BOOLEAN
    /\ live \subseteq Handles
    /\ offFailed \in BOOLEAN
    /\ unreleased \subseteq Handles
    /\ erc \in {0, 1}
    /\ ekilled \in BOOLEAN
    /\ ConnectTypeOK

EmptyFn == [k \in {} |-> 0]

ExportInit ==
    /\ epc = "open"
    /\ buffers = 0 /\ i = 0
    /\ bufs = FALSE /\ maps = {}
    /\ handle_id = EmptyFn /\ share = EmptyFn
    /\ queued = {} /\ streamingOn = FALSE /\ live = {}
    /\ offFailed = FALSE /\ unreleased = {}
    /\ erc = 1 /\ ekilled = FALSE
    /\ ConnectInit

-----------------------------------------------------------------------------
(* One more buffer is through this stage; after the last one comes next.   *)
Advance(stage, next) ==
    IF i + 1 < buffers
    THEN i' = i + 1 /\ epc' = stage
    ELSE i' = 0 /\ epc' = next

ExportGoto(pc) ==
    /\ epc' = pc
    /\ UNCHANGED <<i, bufferVars, tableVars, driverVars, endVars,
                   connectVars, setupLinkVars>>

(* open_v4l2_device; setup_format, after which the driver's picture size   *)
(* replaces the one asked for (the setup does not look at it).             *)
OpenCapture == epc = "open" /\ ExportGoto("format")
SetupFormat == epc = "format" /\ ExportGoto("reqbufs")

(* setup_mmap_capture: the driver decides how many buffers there are.      *)
ReqBufs ==
    /\ epc = "reqbufs"
    /\ \E n \in Grants \ {0} : buffers' = n
    /\ epc' = "querybuf"
    /\ UNCHANGED <<i, bufs, maps, tableVars, driverVars, endVars,
                   connectVars, setupLinkVars>>

(* bufs reaches main() only with its last buffer mapped.                   *)
QueryAndMap ==
    /\ epc = "querybuf"
    /\ maps' = maps \cup {i}
    /\ Advance("querybuf", "export")
    /\ bufs' = (i + 1 = buffers)
    /\ UNCHANGED <<buffers, tableVars, driverVars, endVars, connectVars,
                   setupLinkVars>>

(* export_handle_for_buffer                                                *)
ExportHandle ==
    /\ epc = "export"
    /\ \E h \in Handles :
          /\ handle_id' = [k \in 0..i |-> IF k = i THEN h ELSE handle_id[k]]
          /\ live' = live \cup {h}
    /\ epc' = "metadata"
    /\ UNCHANGED <<i, bufferVars, share, queued, streamingOn, endVars,
                   connectVars, setupLinkVars>>

(* Mutated form: one grant too many passes.                                *)
ShareOneTooMany(m) ==
    /\ m.gref_count # 0 /\ m.gref_count <= MaxGrefs + 1
    /\ m.gref_page_size # 0
    /\ m.len # 0

ShareValid(m) ==
    /\ m.gref_count # 0 /\ m.gref_count <= MaxGrefs
    /\ m.gref_page_size # 0
    /\ m.len # 0

(* fetch_share_metadata                                                    *)
FetchMetadata ==
    /\ epc = "metadata"
    /\ \E m \in share_meta :
          /\ ShareValid(m)
          /\ share' = [k \in 0..i |-> IF k = i THEN m ELSE share[k]]
    /\ Advance("export", "queue")
    /\ UNCHANGED <<bufferVars, handle_id, driverVars, endVars, connectVars,
                   setupLinkVars>>

QueueIndex ==
    /\ epc = "queue"
    /\ queued' = queued \cup {i}
    /\ Advance("queue", "streamon")
    /\ UNCHANGED <<bufferVars, tableVars, streamingOn, live, endVars,
                   connectVars, setupLinkVars>>

StreamOn ==
    /\ epc = "streamon"
    /\ streamingOn' = TRUE
    /\ epc' = "connect"
    /\ UNCHANGED <<i, bufferVars, tableVars, queued, live, endVars,
                   connectVars, setupLinkVars>>

(* main() is inside tcp_connect_timeout ...                                *)
InConnect(step) ==
    /\ epc = "connect"
    /\ step
    /\ UNCHANGED <<epc, i, bufferVars, tableVars, driverVars, endVars, wire>>

(* ... which has returned a socket.                                        *)
Connected == epc = "connect" /\ cpc = "returned" /\ ExportGoto("sockopt")

SetRcvTimeo == epc = "sockopt" /\ ExportGoto("hello")

(* Mutated form: a count the handle packets do not match.                  *)
HelloCountLong == buffers + 1

HelloCount == buffers

SendHello ==
    /\ epc = "hello"
    /\ SendPacket([magic |-> "STREAM", buffer_count |-> HelloCount])
    /\ epc' = "handles"
    /\ UNCHANGED <<i, bufferVars, tableVars, driverVars, endVars,
                   connectVars>>

(* send_handle_packet                                                      *)
SendHandle ==
    /\ epc = "handles"
    /\ SendPacket([magic |-> "HANDLE", handle_id |-> handle_id[i],
                   meta |-> share[i]])
    /\ Advance("handles", "loop")
    /\ UNCHANGED <<bufferVars, tableVars, driverVars, endVars, connectVars>>

(* The frame loop announces a frame in any of the buffers.                 *)
AnnounceFrame ==
    /\ epc = "loop"
    /\ \E k \in Index :
          SendPacket([magic |-> "FRAME", handle_id |-> handle_id[k]])
    /\ UNCHANGED exportVars

-----------------------------------------------------------------------------
(* open, S_FMT, REQBUFS, QUERYBUF, mmap, the two private ioctls, QBUF,     *)
(* STREAMON and setsockopt may fail.                                       *)
SetupCallFails ==
    /\ epc \in {"open", "format", "reqbufs", "querybuf", "export",
                "metadata", "queue", "streamon", "sockopt"}
    /\ ExportGoto("streamoff")

ConnectFailed == epc = "connect" /\ cpc = "failed" /\ ExportGoto("streamoff")

(* send fails when the receiver is gone, or when there is no room and the  *)
(* socket does not block.                                                  *)
SendCanFail == "receiver" \in closed \/ (nonblock /\ WireFull)

SetupSendFails ==
    /\ epc \in {"hello", "handles"}
    /\ SendCanFail
    /\ ExportGoto("streamoff")

(* The frame loop ends with the frame limit, or because a call fails.      *)
LoopEnds ==
    /\ epc = "loop"
    /\ erc' = 0
    /\ epc' = "streamoff"
    /\ UNCHANGED <<i, bufferVars, tableVars, driverVars, ekilled, offFailed,
                   unreleased, connectVars, setupLinkVars>>

LoopFails == epc = "loop" /\ ExportGoto("streamoff")

(* VIDIOC_STREAMOFF, if the device is open.  The exit path goes on when it *)
(* fails, with the stream still running; a failure with nothing queued     *)
(* changes nothing.                                                        *)
ExitStreamOff ==
    /\ epc = "streamoff"
    /\ \/ /\ streamingOn' = FALSE
          /\ queued' = {}
          /\ UNCHANGED offFailed
       \/ /\ queued # {}
          /\ offFailed' = TRUE
          /\ UNCHANGED <<streamingOn, queued>>
    /\ epc' = "release"
    /\ UNCHANGED <<i, bufferVars, tableVars, live, erc, ekilled, unreleased,
                   connectVars, setupLinkVars>>

(* Mutated form: only the buffers with metadata are released.              *)
ExportedWithMetadata == {handle_id[k] : k \in DOMAIN share}

(* The handles of the buffers marked exported.                             *)
Exported == {handle_id[k] : k \in DOMAIN handle_id}

(* release_exported_handles: one call for each handle, each of which may   *)
(* fail and leave the handle granted.                                      *)
ReleaseHandles ==
    /\ epc = "release"
    /\ IF bufs
       THEN \E failed \in SUBSET Exported :
               /\ live' = live \ (Exported \ failed)
               /\ unreleased' = failed
       ELSE UNCHANGED <<live, unreleased>>
    /\ epc' = "close"
    /\ UNCHANGED <<i, bufferVars, tableVars, queued, streamingOn, erc, ekilled,
                   offFailed, connectVars, setupLinkVars>>

(* The socket is closed if main() was given one; cleanup_mmap_capture; the *)
(* device is closed, which ends a stream STREAMOFF did not end; the        *)
(* process exits.                                                          *)
ExportClose ==
    /\ epc = "close"
    /\ CloseEnd("sender")
    /\ sock' = (sock /\ cpc # "returned")
    /\ nonblock' = (nonblock /\ sock')
    /\ maps' = IF bufs THEN {} ELSE maps
    /\ streamingOn' = FALSE /\ queued' = {} /\ offFailed' = FALSE
    /\ epc' = "done"
    /\ UNCHANGED <<i, buffers, bufs, tableVars, live, erc, ekilled, unreleased,
                   cpc, conn, wire>>

(* A signal: the kernel closes what is open, nobody releases the handles.  *)
ExportKilled ==
    /\ epc # "done"
    /\ CloseEnd("sender")
    /\ streamingOn' = FALSE /\ queued' = {} /\ offFailed' = FALSE
    /\ sock' = FALSE /\ nonblock' = FALSE
    /\ maps' = {}
    /\ epc' = "done" /\ erc' = 1
    /\ ekilled' = TRUE
    /\ UNCHANGED <<i, buffers, bufs, tableVars, live, unreleased, cpc, conn,
                   wire>>

ExportStep ==
    \/ OpenCapture \/ SetupFormat
    \/ ReqBufs \/ QueryAndMap \/ ExportHandle \/ FetchMetadata
    \/ QueueIndex \/ StreamOn
    \/ InConnect(ConnectStep) \/ Connected \/ ConnectFailed
    \/ SetRcvTimeo \/ SendHello \/ SendHandle \/ SetupSendFails
    \/ ExitStreamOff \/ ReleaseHandles \/ ExportClose

ExportNext ==
    \/ ExportStep
    \/ InConnect(Handshake) \/ InConnect(ConnectCallFails)
    \/ SetupCallFails
    \/ AnnounceFrame \/ LoopEnds \/ LoopFails
    \/ ExportKilled
=============================================================================
