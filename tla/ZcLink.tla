------------------------------- MODULE ZcLink -------------------------------
(***************************************************************************)
(* The TCP connection between sender_zc and a zero-copy receiver, and the  *)
(* packets of the frame phase.  TCP itself is the kernel's: each direction *)
(* is a FIFO of bounded capacity (socket buffers and what is in flight).   *)
(*                                                                         *)
(* Frame packets are read by a recv_all that never times out, so they      *)
(* travel as one item.  An ACK is read under SO_RCVTIMEO, and recv_all may *)
(* give up between two parts of it, so it travels as AckUnits parts.  The  *)
(* wait times out only when nothing has arrived, so r2s tells the parts in *)
(* the receive buffer of sender_zc, its first ones, from those that the    *)
(* network, or the send buffer of the receiver, still holds.               *)
(***************************************************************************)
EXTENDS ZcPackets, Sequences

CONSTANTS
    FrameCap,       \* frame packets the connection holds before send blocks
    AckCap,         \* ACK parts it holds before send blocks, and besides ...
    RecvBuf         \* ... ACK parts the sender's receive buffer holds

ASSUME LinkAssumption ==
    /\ FrameCap \in Nat \ {0}
    /\ AckCap \in Nat \ {0}
    /\ RecvBuf \in Nat
    /\ RecvBuf >= AckUnits     \* the kernel's least buffer holds many ACKs

VARIABLES
    s2r,            \* frame packets sent and not yet received
    r2s,            \* ACK parts sent and not yet received
    arrived,        \* how many of them are in the sender's receive buffer
    closed          \* the programs that closed their end

linkVars == <<s2r, r2s, arrived, closed>>

(* The parts read so far are, in order, those of the ACK of frame f.       *)
(* Misaligned parts fail the magic, status, handle or sequence test.       *)
IsAckOf(parts, f) == parts = [i \in 1..AckUnits |-> AckPart(f, i)]

LinkTypeOK ==
    /\ s2r \in Seq(zc_frame_packet)
    /\ r2s \in Seq(zc_ack_part)
    /\ arrived \in 0..Len(r2s)
    /\ closed \subseteq {"sender", "receiver"}

LinkInit ==
    /\ s2r = <<>>
    /\ r2s = <<>>
    /\ arrived = 0
    /\ closed = {}

-----------------------------------------------------------------------------
(* send() towards a peer that closed is accepted until its reset arrives,  *)
(* so sending is possible as long as there is room.                        *)
SendFrame(f) ==
    /\ Len(s2r) < FrameCap
    /\ s2r' = Append(s2r, f)
    /\ UNCHANGED <<r2s, arrived, closed>>

SendAckPart(u) ==
    /\ Len(r2s) - arrived < AckCap
    /\ r2s' = Append(r2s, u)
    /\ UNCHANGED <<s2r, arrived, closed>>

(* TCP moves the next part to the receive buffer of the sender.            *)
DeliverAckPart ==
    /\ arrived < Len(r2s)
    /\ arrived < RecvBuf
    /\ arrived' = arrived + 1
    /\ UNCHANGED <<s2r, r2s, closed>>

ReceiveFrame ==
    /\ s2r # <<>>
    /\ s2r' = Tail(s2r)
    /\ UNCHANGED <<r2s, arrived, closed>>

ReceiveAckPart ==
    /\ arrived > 0
    /\ r2s' = Tail(r2s)
    /\ arrived' = arrived - 1
    /\ UNCHANGED <<s2r, closed>>

(* send() fails only after the peer closed.                                *)
SendCanFail(peer) == peer \in closed

(* recv() reports the end of the stream once everything the peer sent was  *)
(* read, or earlier when the peer closed with unread data on its side: the *)
(* kernel then resets the connection and may drop what is in flight.       *)
RecvCanFail(peer, incoming, unreadAtPeer) ==
    /\ peer \in closed
    /\ incoming = <<>> \/ unreadAtPeer # <<>>

Close(peer) ==
    /\ closed' = closed \cup {peer}
    /\ UNCHANGED <<s2r, r2s, arrived>>
=============================================================================
