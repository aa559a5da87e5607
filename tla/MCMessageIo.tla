---------------------------- MODULE MCMessageIo -----------------------------
(***************************************************************************)
(* Values of the constants for the run of MessageIo: one script for each   *)
(* direction and flow, every byte of a packet different from its others.   *)
(***************************************************************************)
EXTENDS MessageIo

MCByte == 0..255

Message(type, seed) ==
    LET layout == Layout[type] IN
    [type |-> type,
     packet |-> [k \in DOMAIN layout |-> [d \in 0..(W * layout[k] - 1) |->
         (seed + Offset(layout, k - 1) + d) % 256]]]

MCScripts == {
    <<Message("hello", 10), Message("zc_handle", 60), Message("zc_frame", 120)>>,
    <<Message("hello", 10), Message("frame", 60)>>,
    <<Message("zc_ack", 10), Message("zc_ack", 60)>> }
=============================================================================
