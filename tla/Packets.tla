------------------------------ MODULE Packets -------------------------------
(***************************************************************************)
(* The five packets of the two flows as structs in memory.  A layout lists *)
(* the fields in order, each by its size in 32-bit words; no struct has    *)
(* padding.  A packet is the sequence of the values of its fields.         *)
(***************************************************************************)
EXTENDS Wire, SequencesExt

CONSTANTS
    MaxGrefs        \* VIRTIO_MEDIA_MAX_IMPORT_GREFS

ASSUME PacketsAssumption == MaxGrefs \in Nat

stream_hello == <<1, 1, 1, 1, 1, 1, 1>>
frame_packet == <<1, 1, 1, 1, 2, 2, 2>>
zc_frame_packet == <<1, 1, 1, 1, 2, 2, 2, 2>>
zc_ack_packet == <<1, 1, 2, 2>>
zc_handle_packet == <<1, 1, 2, 2, 1, 1, 1, 1>> \o [i \in 1..MaxGrefs |-> 1]

Layout == [hello |-> stream_hello, frame |-> frame_packet,
           zc_frame |-> zc_frame_packet, zc_ack |-> zc_ack_packet,
           zc_handle |-> zc_handle_packet]

(* The bytes of the first n fields; of all of them, sizeof.                *)
Offset(layout, n) ==
    LET bytes[k \in 0..n] ==
            IF k = 0 THEN 0 ELSE bytes[k - 1] + W * layout[k]
    IN  bytes[n]

Sizeof == [type \in DOMAIN Layout |-> Offset(Layout[type], Len(Layout[type]))]

AnyPacket == Seq(uint32_t \cup uint64_t)

IsPacket(layout, p) ==
    /\ Len(p) = Len(layout)
    /\ \A k \in DOMAIN layout : p[k] \in number(W * layout[k])

(* The struct as bytes in the memory of a host, and back.                  *)
Stored(host, layout, p) ==
    FlattenSeq([k \in DOMAIN p |-> Memory(host, p[k], W * layout[k])])

Loaded(host, layout, bytes) ==
    [k \in DOMAIN layout |->
        LET first == Offset(layout, k - 1) + 1
            n == W * layout[k]
        IN  Value(host, SubSeq(bytes, first, first + n - 1), n)]

-----------------------------------------------------------------------------
Words(Convert(_, _), host, p) == [k \in DOMAIN p |-> Convert(host, p[k])]

(* The fields in shorts are 32-bit words, the others have 64 bits.         *)
Fields(Convert(_, _), ConvertLong(_, _), host, p, shorts) ==
    [k \in DOMAIN p |->
        IF k \in shorts THEN Convert(host, p[k]) ELSE ConvertLong(host, p[k])]

host_to_net_hello(host, p) == Words(htonl, host, p)
net_to_host_hello(host, p) == Words(ntohl, host, p)

host_to_net_frame(host, p) == Fields(htonl, htonll_u64, host, p, 1..4)
net_to_host_frame(host, p) == Fields(ntohl, ntohll_u64, host, p, 1..4)

host_to_net_zc_frame(host, p) == Fields(htonl, htonll_u64, host, p, 1..4)
net_to_host_zc_frame(host, p) == Fields(ntohl, ntohll_u64, host, p, 1..4)

host_to_net_zc_ack(host, p) == Fields(htonl, htonll_u64, host, p, 1..2)
net_to_host_zc_ack(host, p) == Fields(ntohl, ntohll_u64, host, p, 1..2)

(* All but handle_id and len.                                              *)
host_to_net_zc_handle(host, p) ==
    Fields(htonl, htonll_u64, host, p, DOMAIN p \ {3, 4})
net_to_host_zc_handle(host, p) ==
    Fields(ntohl, ntohll_u64, host, p, DOMAIN p \ {3, 4})

host_to_net(type, host, p) ==
    CASE type = "hello"     -> host_to_net_hello(host, p)
      [] type = "frame"     -> host_to_net_frame(host, p)
      [] type = "zc_frame"  -> host_to_net_zc_frame(host, p)
      [] type = "zc_ack"    -> host_to_net_zc_ack(host, p)
      [] type = "zc_handle" -> host_to_net_zc_handle(host, p)

net_to_host(type, host, p) ==
    CASE type = "hello"     -> net_to_host_hello(host, p)
      [] type = "frame"     -> net_to_host_frame(host, p)
      [] type = "zc_frame"  -> net_to_host_zc_frame(host, p)
      [] type = "zc_ack"    -> net_to_host_zc_ack(host, p)
      [] type = "zc_handle" -> net_to_host_zc_handle(host, p)
=============================================================================
