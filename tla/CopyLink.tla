------------------------------ MODULE CopyLink ------------------------------
(***************************************************************************)
(* The TCP connection of the payload-copy flow after the hello packet: one *)
(* direction only, a stream in which frame headers and payload follow each *)
(* other with nothing but the lengths in the headers to tell them apart.   *)
(* Payload is counted in units of equal size; a unit is abstracted to the  *)
(* frame whose pixels it holds.  A header is one item of the stream: the   *)
(* receiver treats a stream that ends inside a header like one that ends   *)
(* before it.                                                              *)
(***************************************************************************)
EXTENDS CaptureBuffers, Sequences

CONSTANTS
    BufferCount,    \* hello.buffer_count
    SizeImage,      \* hello.sizeimage in units
    WireCap         \* items the connection holds before send blocks

ASSUME CopyLinkAssumption ==
    /\ BufferCount \in Nat \ {0}
    /\ SizeImage \in Nat \ {0}
    /\ WireCap \in Nat \ {0}

frame_packet == [index : Nat, bytesused : Nat, sequence : Nat]

payload_unit == [pixels : Nat \cup {NoFrame}]

IsHeader(item) == "sequence" \in DOMAIN item

VARIABLES
    wire,           \* sent and not yet received
    closed          \* the programs that closed their end

linkVars == <<wire, closed>>

LinkTypeOK ==
    /\ wire \in Seq(frame_packet \cup payload_unit)
    /\ closed \subseteq {"sender", "receiver"}

LinkInit == wire = <<>> /\ closed = {}

(* One step of send_all.                                                   *)
SendItem(item) ==
    /\ Len(wire) < WireCap
    /\ wire' = Append(wire, item)
    /\ UNCHANGED closed

(* One step of recv_all.                                                   *)
ReceiveItem ==
    /\ wire # <<>>
    /\ wire' = Tail(wire)
    /\ UNCHANGED closed

(* Mutated form: the reset of the connection is retried like EINTR.        *)
ResetUnseen == FALSE

SendCanFail == "receiver" \in closed

(* Mutated forms: recv() returning 0 is not the end of the stream, or what *)
(* was sent before the end is dropped.                                     *)
EndUnseen == FALSE
EndSeenEarly == "sender" \in closed

(* The sender never leaves data unread, so its close is orderly: the       *)
(* receiver gets all that was sent before the end of the stream.           *)
RecvCanFail == "sender" \in closed /\ wire = <<>>

Close(peer) ==
    /\ closed' = closed \cup {peer}
    /\ UNCHANGED wire
=============================================================================
