----------------------------- MODULE SetupLink ------------------------------
(***************************************************************************)
(* What sender_zc puts on the connection: the hello packet, one            *)
(* zc_handle_packet for each buffer, then frame packets.  Of hello the     *)
(* buffer count is kept, of a frame packet the handle; a grant list is     *)
(* abstracted to its length.                                               *)
(***************************************************************************)
EXTENDS Connection, Integers, Sequences

CONSTANTS
    Handles,        \* the handles the backend may give out
    GrefCounts,     \* the numbers of grants it may report
    MaxGrefs,       \* VIRTIO_MEDIA_MAX_IMPORT_GREFS
    WireCap         \* packets the connection holds before send blocks

ASSUME SetupLinkAssumption ==
    /\ GrefCounts \subseteq Nat
    /\ MaxGrefs \in Nat
    /\ WireCap \in Nat \ {0}

(* What the import ioctl reports about a handle; len and gref_page_size    *)
(* matter only by being zero or not.                                       *)
share_meta == [gref_count : GrefCounts, gref_page_size : {0, 1}, len : {0, 1}]

stream_hello == [magic : {"STREAM"}, buffer_count : Nat]
zc_handle_packet == [magic : {"HANDLE"}, handle_id : Handles, meta : share_meta]
zc_frame_packet == [magic : {"FRAME"}, handle_id : Handles]

VARIABLES
    wire            \* packets on the way

setupLinkVars == <<connVars, wire>>

SetupLinkTypeOK ==
    /\ ConnTypeOK
    /\ wire \in Seq(stream_hello \cup zc_handle_packet \cup zc_frame_packet)

SetupLinkInit == ConnInit /\ wire = <<>>

WireFull == Len(wire) = WireCap

SendPacket(p) ==
    /\ ~WireFull
    /\ wire' = Append(wire, p)
    /\ UNCHANGED connVars
=============================================================================
