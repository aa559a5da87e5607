------------------------------ MODULE ZcSender ------------------------------
(***************************************************************************)
(* The frame loop and the exit path of sender_zc: dequeue a captured       *)
(* buffer, announce it to the receiver, wait for one ACK (or for the ACK   *)
(* timeout), requeue the buffer.  The exports, the import metadata and the *)
(* handshake before the loop are the subject of another module; here the   *)
(* stream is on and the receiver has imported every handle.                *)
(***************************************************************************)
EXTENDS ZcLink, CaptureQueue

CONSTANTS
    FrameLimit,     \* -n: frames to send, negative for no limit
    AckTimeoutMs,   \* -k: ACK wait, 0 for none
    RawSizes,       \* the bytesused values the driver may report
    BufLen,         \* the length QUERYBUF reported for the buffers
    SenderFaults    \* the driver may fail an ioctl, a signal may end sender_zc

ASSUME SenderAssumption ==
    /\ FrameLimit \in Int
    /\ AckTimeoutMs \in Nat
    /\ RawSizes \subseteq Nat
    /\ BufLen \in Nat \ {0}
    /\ SenderFaults \in BOOLEAN

VARIABLES
    spc,            \* where main() is
    pkt,            \* the frame packet of this iteration
    ack_net,        \* the parts of the ACK read in this iteration
    ackResult,      \* how the wait for the ACK ended
    ack_timeout_warned,
    timeouts,       \* how many waits timed out (counted for the properties)
    frames,         \* frames completed
    rc              \* the exit code

senderVars == <<spc, pkt, ack_net, ackResult, ack_timeout_warned, timeouts,
                frames, rc>>

InLoop == spc \in {"dqbuf", "send", "wait", "requeue"}

SenderTypeOK ==
    /\ spc \in {"dqbuf", "send", "wait", "requeue",
                "streamoff", "release", "close", "done"}
    /\ pkt \in zc_frame_packet
    /\ ack_net \in Seq(zc_ack_part)
    /\ ackResult \in {"none", "matched", "mismatched", "timeout"}
    /\ ack_timeout_warned \in BOOLEAN
    /\ timeouts \in Nat
    /\ frames \in Nat
    /\ rc \in {0, 1}

SenderInit ==
    /\ spc = "dqbuf"
    /\ pkt = NoPacket
    /\ ack_net = <<>>
    /\ ackResult = "none"
    /\ ack_timeout_warned = FALSE
    /\ timeouts = 0
    /\ frames = 0
    /\ rc = 1

-----------------------------------------------------------------------------
LoopGuard == FrameLimit < 0 \/ frames < FrameLimit

(* Mutated form: the driver's bytesused is passed on as it is.             *)
ClampDropped(bytesused) == bytesused

(* bytesused never exceeds the buffer the driver described at setup.       *)
Clamp(bytesused) == IF bytesused > BufLen THEN BufLen ELSE bytesused

(* VIDIOC_DQBUF, and the frame packet for the buffer it returned.  Each    *)
(* iteration has its own ack_net.                                          *)
DqBuf(b) ==
    /\ spc = "dqbuf"
    /\ LoopGuard
    /\ DequeueBuffer(b)
    /\ \E raw \in RawSizes :
          pkt' = [handle |-> b, bytesused |-> Clamp(raw),
                  sequence |-> content[b]]
    /\ spc' = "send"
    /\ ack_net' = <<>>
    /\ ackResult' = "none"
    /\ UNCHANGED <<ack_timeout_warned, timeouts, frames, rc, linkVars>>

(* Mutated form: the buffer is requeued as soon as it is announced.        *)
SendPacketWithoutWait ==
    /\ spc = "send"
    /\ SendFrame(pkt)
    /\ spc' = "requeue"
    /\ UNCHANGED <<pkt, ack_net, ackResult, ack_timeout_warned, timeouts,
                   frames, rc, queueVars>>

SendPacket ==
    /\ spc = "send"
    /\ SendFrame(pkt)
    /\ spc' = "wait"
    /\ UNCHANGED <<pkt, ack_net, ackResult, ack_timeout_warned, timeouts,
                   frames, rc, queueVars>>

(* Mutated form: an iteration that got no matching ACK starts the next one *)
(* without queue_index.                                                    *)
EndWaitSkipsRequeue(result) ==
    /\ spc' = IF result = "matched" THEN "requeue" ELSE "dqbuf"
    /\ ackResult' = result

(* Mutated form: after a timeout the frame is announced again.             *)
EndWaitResends(result) ==
    /\ spc' = IF result = "timeout" THEN "send" ELSE "requeue"
    /\ ackResult' = result

(* The wait is over, whatever it gave, and queue_index comes next.         *)
EndWait(result) ==
    /\ spc' = "requeue"
    /\ ackResult' = result

(* Mutated form: recv_all returns one part too early.                      *)
AckIncompleteShort(parts) == Len(parts) + 1 < AckUnits

AckIncomplete(parts) == Len(parts) < AckUnits

(* recv_all takes one more part of the ACK; with the last part the ACK is  *)
(* compared with the packet, and a mismatch is only reported.              *)
RecvAck ==
    /\ spc = "wait"
    /\ ReceiveAckPart
    /\ ack_net' = Append(ack_net, Head(r2s))
    /\ IF AckIncomplete(ack_net')
       THEN UNCHANGED <<spc, ackResult>>
       ELSE EndWait(IF IsAckOf(ack_net', pkt) THEN "matched"
                                              ELSE "mismatched")
    /\ UNCHANGED <<pkt, ack_timeout_warned, timeouts, frames, rc, queueVars>>

(* Mutated form: SO_RCVTIMEO is not set.                                   *)
AckTimeoutNever == FALSE

(* Mutated form: the wait has a deadline of its own, looked at before the  *)
(* socket, so that an ACK that has arrived is left there.                  *)
AckTimeoutByDeadline ==
    /\ spc = "wait"
    /\ AckTimeoutMs > 0
    /\ EndWait("timeout")
    /\ ack_net' = <<>>
    /\ ack_timeout_warned' = TRUE
    /\ timeouts' = timeouts + 1
    /\ UNCHANGED <<pkt, frames, rc, linkVars, queueVars>>

(* SO_RCVTIMEO expires: nothing arrived for AckTimeoutMs.  The ACK may be  *)
(* on the way, but recv() returns what the receive buffer holds before it  *)
(* reports a timeout.  The parts read so far are lost with ack_net.        *)
AckTimeout ==
    /\ spc = "wait"
    /\ AckTimeoutMs > 0
    /\ arrived = 0
    /\ EndWait("timeout")
    /\ ack_net' = <<>>
    /\ ack_timeout_warned' = TRUE
    /\ timeouts' = timeouts + 1
    /\ UNCHANGED <<pkt, frames, rc, linkVars, queueVars>>

(* queue_index: the buffer goes back to the driver whatever the wait gave. *)
Requeue ==
    /\ spc = "requeue"
    /\ QueueBuffer(pkt.handle)
    /\ spc' = "dqbuf"
    /\ frames' = frames + 1
    /\ UNCHANGED <<pkt, ack_net, ackResult, ack_timeout_warned, timeouts, rc,
                   linkVars>>

LimitReached ==
    /\ spc = "dqbuf"
    /\ ~LoopGuard
    /\ spc' = "streamoff"
    /\ rc' = 0
    /\ UNCHANGED <<pkt, ack_net, ackResult, ack_timeout_warned, timeouts,
                   frames, linkVars, queueVars>>

-----------------------------------------------------------------------------
(* goto out with rc still 1: the connection or an ioctl failed.            *)
GotoOut ==
    /\ spc' = "streamoff"
    /\ UNCHANGED <<pkt, ack_net, ackResult, ack_timeout_warned, timeouts,
                   frames, rc, linkVars, queueVars>>

SendFails == spc = "send" /\ SendCanFail("receiver") /\ GotoOut

(* recv() returns what has arrived before it reports an error.             *)
RecvAckFails ==
    /\ spc = "wait"
    /\ arrived = 0
    /\ RecvCanFail("receiver", r2s, s2r)
    /\ GotoOut

IoctlFails ==
    /\ SenderFaults
    /\ spc = "requeue" \/ (spc = "dqbuf" /\ LoopGuard)
    /\ GotoOut

(* The exit path: STREAMOFF, release of the exported handles, close.  The  *)
(* result of STREAMOFF is ignored: when it fails, the stream runs on until *)
(* the device is closed.                                                   *)
OutStreamOff ==
    /\ spc = "streamoff"
    /\ StreamOff \/ (SenderFaults /\ UNCHANGED queueVars)
    /\ spc' = "release"
    /\ UNCHANGED <<pkt, ack_net, ackResult, ack_timeout_warned, timeouts,
                   frames, rc, linkVars>>

OutRelease ==
    /\ spc = "release"
    /\ spc' = "close"
    /\ UNCHANGED <<pkt, ack_net, ackResult, ack_timeout_warned, timeouts,
                   frames, rc, linkVars, queueVars>>

(* The socket, and after it the device, which ends the stream.             *)
OutClose ==
    /\ spc = "close"
    /\ Close("sender")
    /\ StreamOff
    /\ spc' = "done"
    /\ UNCHANGED <<pkt, ack_net, ackResult, ack_timeout_warned, timeouts,
                   frames, rc>>

(* No signal is handled: SIGINT ends the process anywhere, and the kernel  *)
(* closes the device and the socket.                                       *)
SenderKilled ==
    /\ SenderFaults
    /\ spc # "done"
    /\ Close("sender")
    /\ StreamOff
    /\ spc' = "done"
    /\ rc' = 1
    /\ UNCHANGED <<pkt, ack_net, ackResult, ack_timeout_warned, timeouts,
                   frames>>

(* The pages behind the exported handles are the sender's no longer.       *)
HandlesReleased == spc \in {"close", "done"}

(* Every step main() takes by itself, as long as the process runs.         *)
SenderStep ==
    \/ \E b \in Buffers : DqBuf(b)
    \/ SendPacket \/ RecvAck \/ AckTimeout \/ Requeue \/ LimitReached
    \/ SendFails \/ RecvAckFails
    \/ OutStreamOff \/ OutRelease \/ OutClose

SenderNext == SenderStep \/ IoctlFails \/ SenderKilled
=============================================================================
