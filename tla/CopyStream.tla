----------------------------- MODULE CopyStream -----------------------------
(***************************************************************************)
(* The frame phase of the payload-copy flow: sender, its capture queue,    *)
(* the TCP connection and receiver (or receiver_sdl) side by side.  The    *)
(* receiver works on its own copy, so the sender queues a buffer again as  *)
(* soon as send() has taken its bytes; TCP alone keeps the two in step.    *)
(***************************************************************************)
EXTENDS CopySender, CopyReceiver

vars == <<linkVars, queueVars, senderVars, receiverVars>>

Init == LinkInit /\ QueueInit /\ SenderInit /\ ReceiverInit

Camera ==
    /\ \E b \in Buffers : Fill(b)
    /\ UNCHANGED <<linkVars, senderVars, receiverVars>>

Sender == SenderNext /\ UNCHANGED receiverVars

Receiver == ReceiverNext /\ UNCHANGED <<queueVars, senderVars>>

(* Both programs have exited.                                              *)
Terminated == spc = "done" /\ rpc = "done" /\ UNCHANGED vars

Next == Camera \/ Sender \/ Receiver \/ Terminated

Spec == Init /\ [][Next]_vars

(* A program that is not blocked keeps running; faults and the user are    *)
(* not obliged to happen.                                                  *)
SenderRuns == WF_vars(SenderStep /\ UNCHANGED receiverVars)
ReceiverRuns == WF_vars(ReceiverStep /\ UNCHANGED <<queueVars, senderVars>>)
CameraRuns == WF_vars(Camera)

FairSpec == Spec /\ SenderRuns /\ ReceiverRuns /\ CameraRuns

-----------------------------------------------------------------------------
TypeOK == LinkTypeOK /\ QueueTypeOK /\ SenderTypeOK /\ ReceiverTypeOK

(* The receiver's position in the stream is the sender's: it never takes   *)
(* pixels for a header (receiver.c:224) nor a header for pixels, however   *)
(* short the frames and wherever the stream breaks off.                    *)
StreamInStep ==
    wire # <<>> =>
        /\ rpc \in {"header", "poll", "use"} => IsHeader(Head(wire))
        /\ rpc = "payload" =>
               (got = hdr.bytesused <=> IsHeader(Head(wire)))

(* A buffer no longer than sizeimage never yields a frame that the         *)
(* receiver refuses (receiver.c:229), whatever bytesused the driver        *)
(* reports: the clamp of sender.c:571 is what the receiver relies on.      *)
NeverRefused ==
    \A k \in DOMAIN wire :
        IsHeader(wire[k]) /\ BufLen[wire[k].index] <= SizeImage =>
            HeaderValid(wire[k])

(* An orderly end loses nothing: when sender stopped at its limit and      *)
(* receiver at the end of the stream, every frame sent came out.           *)
NothingLost ==
    spc = "done" /\ rc = 0 /\ rpc = "done" /\ rrc = 0 /\ ~quit =>
        Len(output) = frames

(* The first n units of a frame that came out are of the frame its header  *)
(* names.                                                                  *)
OfOneFrame(f, n) == \A u \in 1..n : f.units[u] = f.sequence

(* "Upload one full frame from mapped DMABUF memory" (receiver_sdl.c:240): *)
(* a picture that is shown is one frame.                                   *)
ShownFramesWhole ==
    \A k \in DOMAIN output : OfOneFrame(output[k], Len(output[k].units))

(* The frames that came out, for the bytes that were sent of them.         *)
delivered ==
    [k \in DOMAIN output |->
        IF OfOneFrame(output[k], output[k].bytesused)
        THEN output[k].sequence ELSE NoFrame]

Promise == INSTANCE FrameStream

(* The code implements the abstract flow: no pixel of a later frame slips  *)
(* into a frame although the driver refills buffers while earlier frames   *)
(* are still on their way, and no frame is skipped, repeated or reordered. *)
ImplementsStream == Promise!Spec

(* With a frame limit both programs come to their end, whatever fails and  *)
(* whichever stops first: neither waits for the other for ever on a full   *)
(* or an empty connection.                                                 *)
BothFinish == <>(spc = "done" /\ rpc = "done")
=============================================================================
