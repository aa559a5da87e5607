----------------------------- MODULE ZcPackets ------------------------------
(***************************************************************************)
(* What both programs of the zero-copy flow know: the capture buffers and  *)
(* the packets about them.  Handles are opaque and the setup gives each    *)
(* buffer one of its own, so a buffer stands for its handle here.  Magic   *)
(* numbers are constants of the programs, flags and timestamps are carried *)
(* and never looked at: they are left out.                                 *)
(***************************************************************************)
EXTENDS CaptureBuffers

CONSTANTS
    AckUnits        \* parts of an ACK that recv() may return separately

ASSUME PacketAssumption == AckUnits \in Nat \ {0}

zc_frame_packet == [handle : Buffers, bytesused : Nat, sequence : Nat]

zc_ack_part == [handle : Buffers, sequence : Nat, part : 1..AckUnits]

NoPacket == [handle |-> CHOOSE b \in Buffers : TRUE,
             bytesused |-> 0, sequence |-> 0]

(* Mutated form: the sequence is not copied.                               *)
AckPartWithoutSequence(f, i) ==
    [handle |-> f.handle, sequence |-> 0, part |-> i]

(* The i-th part of the ACK of frame f: the receiver copies handle_id and  *)
(* sequence out of the frame packet.                                       *)
AckPart(f, i) == [handle |-> f.handle, sequence |-> f.sequence, part |-> i]
=============================================================================
