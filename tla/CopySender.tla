----------------------------- MODULE CopySender -----------------------------
(***************************************************************************)
(* The frame loop and the exit path of sender: dequeue a buffer, send its  *)
(* header and its bytes, queue it again.  Buffers are numbered from 0 as   *)
(* in the driver; whether they are MMAP or DMABUF makes no difference.     *)
(***************************************************************************)
EXTENDS CopyLink, CaptureQueue

CONSTANTS
    FrameLimit,     \* -n: frames to send, negative for no limit
    RawSizes,       \* the bytesused values the driver may report, in units
    BufLen,         \* the length of each of the sender's buffers, in units
    SenderFaults    \* an ioctl may fail, a signal may end sender

ASSUME CopySenderAssumption ==
    /\ Buffers = 0..(BufferCount - 1)
    /\ FrameLimit \in Int
    /\ RawSizes \subseteq Nat
    /\ BufLen \in [Buffers -> Nat \ {0}]
    /\ SenderFaults \in BOOLEAN

VARIABLES
    spc,            \* where main() is
    pkt,            \* the header of this iteration
    sent,           \* payload units of it sent
    frames,         \* frames completed
    rc              \* the exit code

senderVars == <<spc, pkt, sent, frames, rc>>

NoHeader == [index |-> 0, bytesused |-> 0, sequence |-> 0]

SenderTypeOK ==
    /\ spc \in {"dqbuf", "header", "payload", "requeue", "streamoff",
                "close", "done"}
    /\ pkt \in frame_packet
    /\ sent \in 0..pkt.bytesused
    /\ frames \in Nat
    /\ rc \in {0, 1}

SenderInit ==
    /\ spc = "dqbuf"
    /\ pkt = NoHeader
    /\ sent = 0
    /\ frames = 0
    /\ rc = 1

LoopGuard == FrameLimit < 0 \/ frames < FrameLimit

(* Mutated form: the driver's bytesused is passed on as it is.             *)
ClampDropped(bytesused, b) == bytesused

Clamp(bytesused, b) ==
    IF bytesused > BufLen[b] THEN BufLen[b] ELSE bytesused

DqBuf(b) ==
    /\ spc = "dqbuf"
    /\ LoopGuard
    /\ DequeueBuffer(b)
    /\ \E raw \in RawSizes :
          pkt' = [index |-> b, bytesused |-> Clamp(raw, b),
                  sequence |-> content[b]]
    /\ sent' = 0
    /\ spc' = "header"
    /\ UNCHANGED <<frames, rc, linkVars>>

(* Mutated form: the buffer goes back to the driver before its bytes are   *)
(* sent.                                                                   *)
SendHeaderAndQueue ==
    /\ spc = "header"
    /\ SendItem(pkt)
    /\ QueueBuffer(pkt.index)
    /\ spc' = "payload"
    /\ UNCHANGED <<pkt, sent, frames, rc>>

SendHeader ==
    /\ spc = "header"
    /\ SendItem(pkt)
    /\ spc' = "payload"
    /\ UNCHANGED <<pkt, sent, frames, rc, queueVars>>

(* Mutated forms: send_all stops one unit early, or late.                  *)
UnsentShort == sent + 1 < pkt.bytesused
UnsentLong == sent <= pkt.bytesused

(* send_all has more of the payload to send.                               *)
Unsent == sent < pkt.bytesused

(* The bytes are read when send() copies them out of the mapped buffer.    *)
SendPayload ==
    /\ spc = "payload"
    /\ Unsent
    /\ SendItem([pixels |-> content[pkt.index]])
    /\ sent' = sent + 1
    /\ UNCHANGED <<spc, pkt, frames, rc, queueVars>>

PayloadSent ==
    /\ spc = "payload"
    /\ ~Unsent
    /\ spc' = "requeue"
    /\ UNCHANGED <<pkt, sent, frames, rc, linkVars, queueVars>>

(* queue_buffer                                                            *)
Requeue ==
    /\ spc = "requeue"
    /\ QueueBuffer(pkt.index)
    /\ frames' = frames + 1
    /\ spc' = "dqbuf"
    /\ UNCHANGED <<pkt, sent, rc, linkVars>>

-----------------------------------------------------------------------------
GotoOut(code) ==
    /\ spc' = "streamoff"
    /\ rc' = code
    /\ UNCHANGED <<pkt, sent, frames, linkVars, queueVars>>

LimitReached == spc = "dqbuf" /\ ~LoopGuard /\ GotoOut(0)

SendFails ==
    /\ \/ spc = "header"
       \/ spc = "payload" /\ Unsent
    /\ SendCanFail
    /\ GotoOut(1)

(* DQBUF or QBUF.                                                          *)
IoctlFails == SenderFaults /\ spc \in {"dqbuf", "requeue"} /\ GotoOut(1)

(* The result of STREAMOFF is ignored: when it fails, the stream runs on   *)
(* until the device is closed.                                             *)
OutStreamOff ==
    /\ spc = "streamoff"
    /\ StreamOff \/ (SenderFaults /\ UNCHANGED queueVars)
    /\ spc' = "close"
    /\ UNCHANGED <<pkt, sent, frames, rc, linkVars>>

(* The socket, and after it the device, which ends the stream.             *)
OutClose ==
    /\ spc = "close"
    /\ Close("sender")
    /\ StreamOff
    /\ spc' = "done"
    /\ UNCHANGED <<pkt, sent, frames, rc>>

SenderKilled ==
    /\ SenderFaults
    /\ spc # "done"
    /\ StreamOff
    /\ Close("sender")
    /\ spc' = "done"
    /\ rc' = 1
    /\ UNCHANGED <<pkt, sent, frames>>

SenderStep ==
    \/ \E b \in Buffers : DqBuf(b)
    \/ SendHeader \/ SendPayload \/ PayloadSent \/ Requeue
    \/ LimitReached \/ SendFails \/ OutStreamOff \/ OutClose

SenderNext == SenderStep \/ IoctlFails \/ SenderKilled
=============================================================================
