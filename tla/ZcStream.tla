------------------------------ MODULE ZcStream ------------------------------
(***************************************************************************)
(* The frame phase of the handle-based zero-copy flow: sender_zc, its      *)
(* capture queue, the TCP connection and receiver_zc (or receiver_zc_sdl)  *)
(* run side by side.  The frame's pixels never cross the connection: the   *)
(* receiver reads them in the buffer the driver of guest A filled, so the  *)
(* ACK is all that keeps the driver from writing while the receiver reads. *)
(***************************************************************************)
EXTENDS ZcSender, ZcReceiver, Functions

vars == <<linkVars, queueVars, senderVars, receiverVars>>

Init == LinkInit /\ QueueInit /\ SenderInit /\ ReceiverInit

Camera ==
    /\ \E b \in Buffers : Fill(b)
    /\ UNCHANGED <<linkVars, senderVars, receiverVars>>

Sender == SenderNext /\ UNCHANGED receiverVars

Receiver == ReceiverNext /\ UNCHANGED <<queueVars, senderVars>>

Network ==
    /\ DeliverAckPart
    /\ UNCHANGED <<queueVars, senderVars, receiverVars>>

(* Both programs have exited.                                              *)
Terminated == spc = "done" /\ rpc = "done" /\ UNCHANGED vars

Next == Camera \/ Sender \/ Receiver \/ Network \/ Terminated

Spec == Init /\ [][Next]_vars

(* A program that is not blocked keeps running: one step of its own code   *)
(* (an ioctl error, a signal and the user are not obliged to happen).      *)
SenderRuns == WF_vars(SenderStep /\ UNCHANGED receiverVars)
ReceiverRuns == WF_vars(ReceiverStep /\ UNCHANGED <<queueVars, senderVars>>)
CameraRuns == WF_vars(Camera)
NetworkRuns == WF_vars(Network)     \* TCP retransmits until it delivers

FairSpec ==
    Spec /\ SenderRuns /\ ReceiverRuns /\ CameraRuns /\ NetworkRuns

(* The receiver may hang (a stopped guest, a blocked output).              *)
HungReceiverSpec == Spec /\ SenderRuns /\ CameraRuns /\ NetworkRuns

(* The camera may stop delivering frames.                                  *)
IdleCameraSpec == Spec /\ SenderRuns /\ ReceiverRuns /\ NetworkRuns

TypeOK == LinkTypeOK /\ QueueTypeOK /\ SenderTypeOK /\ ReceiverTypeOK

-----------------------------------------------------------------------------
(* The buffer the sender has in hand between DQBUF and QBUF is the only    *)
(* one outside the driver: none is lost, and none goes back twice.         *)
OneBufferInHand ==
    InLoop => \A b \in Buffers :
        vb2[b] = "dequeued" <=> (spc # "dqbuf" /\ b = pkt.handle)

(* The frames the receiver was told about and is not through with: they    *)
(* wait in the connection, or write and display_frame are reading them.    *)
Announced == Range(s2r) \cup IF rpc = "read" THEN {rpkt} ELSE {}

(* The driver does not own the buffer of f, the buffer still holds f, and  *)
(* the sender has not released its pages.                                  *)
Intact(f) ==
    /\ vb2[f.handle] = "dequeued"
    /\ content[f.handle] = f.sequence
    /\ ~HandlesReleased

(* The sender follows its protocol: it runs, or it reached its frame limit. *)
SenderOrderly == InLoop \/ rc = 0

(* receiver_zc.c 366-368: ownership of the buffer changes hands with the   *)
(* ACK.  As long as the sender has not warned of an ACK timeout, a frame   *)
(* is neither overwritten nor released before the receiver has read it.    *)
OwnershipUntilWarning ==
    SenderOrderly /\ ~ack_timeout_warned =>
        \A f \in Announced : Intact(f)

(* Without a timeout, a normal exit of the sender (frame limit reached)    *)
(* leaves nothing behind: the receiver has used and acknowledged every     *)
(* frame that was announced, and the closing connection loses none.        *)
OrderlyExitDeliversAll ==
    rc = 0 /\ ~ack_timeout_warned =>
        /\ frames = rframes
        /\ s2r = <<>> /\ r2s = <<>>

(* The ACK check of sender_zc.c 633-638 tells apart what it should: an ACK *)
(* read after the first timeout is never that of the frame just sent, and  *)
(* before it no ACK is mismatched.                                         *)
AcksMatchUntilTimeout ==
    spc = "requeue" => (ackResult = "matched" <=> ~ack_timeout_warned)

(* ACK parts that frames already announced will still put in ack_net.      *)
Backlog ==
    AckUnits * Len(s2r) + Len(r2s)
        + IF rpc \in {"read", "ack"} THEN AckUnits - ackSent ELSE 0

(* Every timeout leaves an ACK (or the rest of one) on the way, and no     *)
(* iteration reads more than one: the backlog is never made up, it equals  *)
(* the number of timeouts (up to parts lost in the middle of an ACK).      *)
BacklogNeverDrains ==
    RecvInLoop /\ spc \in {"dqbuf", "send", "requeue"} =>
        /\ timeouts <= Backlog
        /\ Backlog <= AckUnits * timeouts

(* The send_all of a frame and that of an ACK wait for each other when     *)
(* both directions are full, the receive buffer of the sender included.    *)
MutualBlock ==
    /\ spc = "send" /\ Len(s2r) = FrameCap
    /\ rpc = "ack" /\ Len(r2s) = AckCap + RecvBuf

(* It never comes to that, however many waits of sender_zc.c 620 time out: *)
(* a wait ends without an ACK only when none has arrived, and then not     *)
(* enough frames are out to fill both directions.                          *)
NeverMutualBlock == ~MutualBlock

(* What the output gets is the frame that was announced, whole: no frame   *)
(* captured later leaks into the picture before the sender warned.         *)
ShownAsAnnounced ==
    SenderOrderly /\ ~ack_timeout_warned /\ rpc = "ack" =>
        shown = rpkt.sequence

(* The clamp of sender_zc.c 592-595 serves the check of receiver_zc.c      *)
(* 346-351: with an import as long as the capture buffer, no frame ends    *)
(* the receiver whatever bytesused the driver reports.                     *)
ClampPreventsRejection ==
    BufLen <= ImportLen =>
        \A i \in 1..Len(s2r) : ~Oversized(s2r[i])

-----------------------------------------------------------------------------
(* Who may touch a buffer, read off the two programs: the driver until     *)
(* DQBUF, the sender until its packet is sent, the receiver until write    *)
(* and display_frame return, then nobody until the buffer is requeued.     *)
OwnerOf(b) ==
    CASE vb2[b] = "queued"                       -> "driver"
      [] vb2[b] = "done"                         -> "captured"
      [] vb2[b] = "dequeued" /\ ~InLoop          -> "stopped"
      [] vb2[b] = "dequeued" /\ spc = "send"     -> "sender"
      [] vb2[b] = "dequeued" /\ spc \in {"dqbuf", "wait", "requeue"} ->
            IF s2r # <<>> \/ rpc = "read" THEN "receiver" ELSE "returned"

owner == [b \in Buffers |-> OwnerOf(b)]

over == ack_timeout_warned \/ ~SenderOrderly \/ ~RecvInLoop

Handover == INSTANCE FrameHandover WITH used <- shown

(* The programs implement the handover until the sender warns of an ACK    *)
(* timeout or one of them leaves its loop other than by the frame limit of *)
(* the sender.                                                             *)
ImplementsHandover == Handover!Spec

-----------------------------------------------------------------------------
(* Frames reach the receiver in capture order: each is newer than the one  *)
(* before it, timeouts or not.                                             *)
FramesInOrder ==
    [][rpc = "recv" /\ rpc' = "read" /\ rframes > 0
        => rpkt'.sequence > rpkt.sequence]_vars

(* receiver_zc.c 367-368 and sender_zc.c 616-618: an iteration that did    *)
(* read an ACK requeues its buffer only when the receiver is through with  *)
(* this frame.                                                             *)
RequeueAfterAck ==
    spc = "requeue" /\ ackResult # "timeout" /\ RecvInLoop =>
        /\ \A i \in 1..Len(s2r) : s2r[i] # pkt
        /\ ~(rpc = "read" /\ rpkt = pkt)

(* A finite run comes to its end: the sender sends its frames and exits.   *)
SenderFinishes == <>(spc = "done")

(* When one program is gone, the other one notices and exits as well.      *)
ExitPropagates ==
    /\ (spc = "done") ~> (rpc = "done")
    /\ (rpc = "done") ~> (spc = "done")

(* Closing the window ends the receiver.                                   *)
QuitIsHandled == quit ~> (rpc = "done")
=============================================================================
