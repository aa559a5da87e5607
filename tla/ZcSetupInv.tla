----------------------------- MODULE ZcSetupInv -----------------------------
(***************************************************************************)
(* The inductive invariant behind the safety properties of ZcSetup: how    *)
(* far each program's tables are at each stage, and which packets are on   *)
(* the wire between what the receiver has read and what the sender sent.   *)
(***************************************************************************)
EXTENDS ZcSetup

(* The stages of the sender: nothing granted, buffer by buffer, whole.     *)
NoBuffersYet == {"open", "format", "reqbufs"}
EachBuffer == {"querybuf", "export", "metadata", "queue", "handles"}
AllBuffers == {"streamon", "connect", "sockopt", "hello", "loop"}

(* The stages at which every buffer is exported, and those before the      *)
(* first packet.                                                           *)
TablesComplete == {"queue", "handles"} \cup AllBuffers
BeforeHello ==
    NoBuffersYet \cup {"querybuf", "export", "metadata", "queue", "streamon",
                       "connect", "sockopt", "hello"}

IndexInRange ==
    /\ epc \in NoBuffersYet => buffers = 0
    /\ epc \in EachBuffer => i < buffers
    /\ epc \in AllBuffers => i = 0 /\ buffers > 0

(* The first n buffers have a handle, the first m of them metadata.        *)
TablesHold(n, m) ==
    DOMAIN handle_id = 0..(n - 1) /\ DOMAIN share = 0..(m - 1)

TablesByStage ==
    /\ epc \in NoBuffersYet \cup {"querybuf"} => ~bufs /\ TablesHold(0, 0)
    /\ epc = "export" => bufs /\ TablesHold(i, i)
    /\ epc = "metadata" => bufs /\ TablesHold(i + 1, i)
    /\ epc \in TablesComplete => bufs /\ TablesHold(buffers, buffers)
    /\ ~bufs => TablesHold(0, 0)

MetadataValid == \A k \in DOMAIN share : ShareValid(share[k])

(* The handles of the exported buffers, all of them and no others, are     *)
(* live until they are released, and after that those whose release        *)
(* failed.  Unless STREAMOFF failed the stream is off by then.             *)
LiveByStage ==
    /\ epc \notin {"close", "done"} => live = Exported
    /\ epc = "close" => live \subseteq unreleased
    /\ epc = "done" => ekilled \/ live \subseteq unreleased
    /\ epc \in {"release", "close"} => ~streamingOn \/ offFailed
    /\ epc = "done" => ~streamingOn

SockByStage ==
    /\ epc \notin {"connect", "done"} =>
          cpc \in {"socket", "returned", "failed"}
    /\ epc # "done" /\ cpc \in {"socket", "failed"} => ~sock
    /\ epc = "done" => ekilled \/ ~sock
    /\ epc = "done" => ekilled \/ ~bufs \/ maps = {}

ExportInv ==
    /\ ExportTypeOK
    /\ IndexInRange
    /\ TablesByStage
    /\ MetadataValid
    /\ LiveByStage
    /\ SockByStage

-----------------------------------------------------------------------------
(* The receiver alone: its dmabufs, its table's memory, its sockets and    *)
(* its window.                                                             *)
DmabufsByStage ==
    /\ ipc \notin {"close", "done"} =>
          fds = Len(entries) + IF ipc = "map" THEN 1 ELSE 0
    /\ ipc = "close" => fds = 0
    /\ ipc = "done" => fds = 0

PacketInHand == ipc \in {"import", "map"} => hp \in zc_handle_packet

TableHasRoom ==
    /\ ipc = "open" => entries = <<>>
    /\ Len(entries) <= entry_capacity
    /\ EntryInBounds

SocksOf(stage) ==
    CASE stage \in {"socket", "failed"}         -> {}
      [] stage \in {"bind", "listen", "accept"} -> {"listen_fd"}
      [] stage = "cloexec"                      -> {"listen_fd", "conn_fd"}
      [] stage = "returned"                     -> {"conn_fd"}

SocksByStage ==
    /\ ipc # "done" => socks = SocksOf(la)
    /\ ipc = "open" => la = "socket"
    /\ ipc \in {"cleanup", "close"} => la \in {"returned", "failed"}
    /\ ipc \in {"hello", "handle", "import", "map", "display", "output",
                "loop"} => la = "returned"
    /\ ipc = "done" => ikilled \/ socks = {}

WindowByStage ==
    /\ ipc = "open" => ~display_ok
    /\ ipc \in {"output", "loop"} /\ Display => display_ok
    /\ ipc \notin {"close", "done"} /\ display_ok => objects = AllObjects
    /\ ipc \in {"close", "done"} => objects = {} \/ ~display_ok

ImportInv ==
    /\ ImportTypeOK
    /\ PacketInHand
    /\ DmabufsByStage
    /\ TableHasRoom
    /\ SocksByStage
    /\ WindowByStage

-----------------------------------------------------------------------------
(* The two together.  The packets of a sender are numbered: 0 is the       *)
(* hello, 1 to buffers are the handles, every later one is a frame.        *)
HandlePacket(handles, metas, k) ==
    [magic |-> "HANDLE", handle_id |-> handles[k], meta |-> metas[k]]

IsPacket(p, n, count, handles, metas) ==
    /\ n = 0 => p = [magic |-> "STREAM", buffer_count |-> count]
    /\ n \in 1..count => p = HandlePacket(handles, metas, n - 1)
    /\ n > count =>
          \E k \in 0..(count - 1) :
             p = [magic |-> "FRAME", handle_id |-> handles[k]]

(* The number of the packet the receiver reads next (frames all count as   *)
(* the first one).                                                         *)
BeforeHandles == {"open", "accept", "hello"}
Stopped == {"cleanup", "close", "done"}
Received ==
    IF ipc \in BeforeHandles THEN 0
    ELSE Len(entries) + IF ipc \in {"import", "map"} THEN 2 ELSE 1

(* What is on the wire continues what was received, ...                    *)
WireContinues ==
    ipc \notin Stopped =>
        \A j \in 1..Len(wire) :
            IsPacket(wire[j], Received + j - 1, buffers, handle_id, share)

(* ... and it ends where the sender is.                                    *)
WireEndsAtSender ==
    /\ epc \in BeforeHello =>
          /\ wire = <<>> /\ entries = <<>>
          /\ ipc \in BeforeHandles \cup Stopped
    /\ epc = "handles" /\ ipc \notin Stopped => Received + Len(wire) = i + 1
    /\ epc = "loop" /\ ipc \notin Stopped => Received + Len(wire) > buffers

(* A packet, on the wire or read, comes from a sender with full tables.    *)
SentFromFullTables ==
    wire # <<>> \/ entries # <<>> \/ ipc \notin BeforeHandles \cup Stopped
        => buffers > 0 /\ TablesHold(buffers, buffers)

EntriesAgree ==
    /\ Len(entries) <= buffers
    /\ \A k \in DOMAIN entries :
          entries[k] = HandlePacket(handle_id, share, k - 1)
    /\ \A k, l \in DOMAIN entries :
          entries[k].handle_id = entries[l].handle_id => k = l

(* The loop over the announced handles.                                    *)
HandlesByStage ==
    /\ ipc \notin BeforeHandles \cup Stopped => buffer_count = buffers
    /\ ipc \in BeforeHandles => entries = <<>>
    /\ ipc \in {"handle", "import", "map"} => Len(entries) < buffers
    /\ ipc \in {"import", "map"} =>
          /\ hp = HandlePacket(handle_id, share, Len(entries))
          /\ ~find_entry(hp.handle_id)
    /\ ipc \in {"display", "output", "loop"} => Len(entries) = buffers

WireInv ==
    /\ WireContinues
    /\ WireEndsAtSender
    /\ SentFromFullTables
    /\ EntriesAgree
    /\ HandlesByStage
    /\ NoPacketRefused

SetupInv == SetupLinkTypeOK /\ ExportInv /\ ImportInv /\ WireInv
=============================================================================
