---------------------------- MODULE CaptureQueue ----------------------------
(***************************************************************************)
(* The V4L2 capture queue of guest A, as sender_zc and sender use it.  The *)
(* driver is not part of the repository: the states of a buffer and the    *)
(* effect of each ioctl are modelled from the calls in their sources.      *)
(*                                                                         *)
(* A buffer is "queued" while the driver may write into it, "done" once a  *)
(* frame is complete in it, and "dequeued" while user space holds it.      *)
(* The memory of a buffer is abstracted to the sequence number of the      *)
(* frame it holds.                                                         *)
(***************************************************************************)
EXTENDS CaptureBuffers

VARIABLES
    vb2,            \* the driver's state of each buffer
    content,        \* the frame whose pixels each buffer holds
    captured,       \* the number of frames captured: the next sequence
    streaming       \* between STREAMON and STREAMOFF

queueVars == <<vb2, content, captured, streaming>>

QueueTypeOK ==
    /\ vb2 \in [Buffers -> {"queued", "done", "dequeued"}]
    /\ content \in [Buffers -> Nat \cup {NoFrame}]
    /\ captured \in Nat
    /\ streaming \in BOOLEAN

(* Both senders queue every buffer, then start the stream.                 *)
QueueInit ==
    /\ vb2 = [b \in Buffers |-> "queued"]
    /\ content = [b \in Buffers |-> NoFrame]
    /\ captured = 0
    /\ streaming = TRUE

(* The device completes a frame in a queued buffer.                        *)
Fill(b) ==
    /\ streaming
    /\ vb2[b] = "queued"
    /\ vb2' = [vb2 EXCEPT ![b] = "done"]
    /\ content' = [content EXCEPT ![b] = captured]
    /\ captured' = captured + 1
    /\ UNCHANGED streaming

(* VIDIOC_DQBUF: the oldest completed frame goes to user space.            *)
DequeueBuffer(b) ==
    /\ streaming
    /\ vb2[b] = "done"
    /\ \A c \in Buffers : vb2[c] = "done" => content[b] <= content[c]
    /\ vb2' = [vb2 EXCEPT ![b] = "dequeued"]
    /\ UNCHANGED <<content, captured, streaming>>

(* VIDIOC_QBUF: the buffer goes back to the driver.                        *)
QueueBuffer(b) ==
    /\ vb2[b] = "dequeued"
    /\ vb2' = [vb2 EXCEPT ![b] = "queued"]
    /\ UNCHANGED <<content, captured, streaming>>

(* VIDIOC_STREAMOFF, or the close of the device: capture stops and every   *)
(* buffer returns to user space.                                           *)
StreamOff ==
    /\ streaming' = FALSE
    /\ vb2' = [b \in Buffers |-> "dequeued"]
    /\ UNCHANGED <<content, captured>>
=============================================================================
