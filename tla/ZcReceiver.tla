----------------------------- MODULE ZcReceiver -----------------------------
(***************************************************************************)
(* The frame loop and the exit path of receiver_zc, and of receiver_zc_sdl *)
(* when Sdl is TRUE: receive a frame packet, use the pixels of its buffer  *)
(* in place, send the ACK that hands the buffer back.                      *)
(***************************************************************************)
EXTENDS ZcLink, CaptureQueue

CONSTANTS
    RecvLimit,      \* -n: frames to receive, negative for no limit
    ImportLen,      \* the length the import ioctl reported for the handles
    Sdl,            \* receiver_zc_sdl: a window shows the frames
    ReceiverFaults  \* write/display may fail, a signal may end the receiver

ASSUME ReceiverAssumption ==
    /\ RecvLimit \in Int
    /\ ImportLen \in Nat \ {0}
    /\ Sdl \in BOOLEAN
    /\ ReceiverFaults \in BOOLEAN

VARIABLES
    rpc,            \* where main() is
    rpkt,           \* the frame packet of this iteration
    ackSent,        \* the parts of its ACK sent so far
    rframes,        \* frames acknowledged
    rrc,            \* the exit code
    quit,           \* SDL_QUIT waits in the event queue
    shown           \* the frame whose pixels the output got last

receiverVars == <<rpc, rpkt, ackSent, rframes, rrc, quit, shown>>

LoopHead == IF Sdl THEN "poll" ELSE "recv"

RecvInLoop == rpc \in {"poll", "recv", "read", "ack"}

ReceiverTypeOK ==
    /\ rpc \in {"poll", "recv", "read", "ack", "out", "done"}
    /\ rpkt \in zc_frame_packet
    /\ ackSent \in 0..(AckUnits - 1)
    /\ rframes \in Nat
    /\ rrc \in {0, 1}
    /\ quit \in BOOLEAN
    /\ shown \in Nat \cup {NoFrame}

ReceiverInit ==
    /\ rpc = LoopHead
    /\ rpkt = NoPacket
    /\ ackSent = 0
    /\ rframes = 0
    /\ rrc = 1
    /\ quit = FALSE
    /\ shown = NoFrame

-----------------------------------------------------------------------------
RecvLoopGuard == RecvLimit < 0 \/ rframes < RecvLimit

GotoRecvOut(code) ==
    /\ rpc' = "out"
    /\ rrc' = code
    /\ UNCHANGED <<rpkt, ackSent, rframes, quit, shown, linkVars>>

RecvLimitReached ==
    /\ rpc = LoopHead
    /\ ~RecvLoopGuard
    /\ GotoRecvOut(0)

(* The user closes the window.                                             *)
UserQuits ==
    /\ Sdl /\ ~quit
    /\ RecvInLoop
    /\ quit' = TRUE
    /\ UNCHANGED <<rpc, rpkt, ackSent, rframes, rrc, shown, linkVars>>

(* SDL_PollEvent drains the events once per frame, before recv_all.        *)
PollQuit == rpc = "poll" /\ RecvLoopGuard /\ quit /\ GotoRecvOut(0)

PollIdle ==
    /\ rpc = "poll"
    /\ RecvLoopGuard
    /\ ~quit
    /\ rpc' = "recv"
    /\ UNCHANGED <<rpkt, ackSent, rframes, rrc, quit, shown, linkVars>>

(* A frame longer than the imported buffer ends the receiver.              *)
Oversized(f) == f.bytesused > ImportLen

RecvFrame ==
    /\ rpc = "recv"
    /\ RecvLoopGuard
    /\ ReceiveFrame
    /\ rpkt' = Head(s2r)
    /\ IF Oversized(Head(s2r))
       THEN rpc' = "out"
       ELSE rpc' = "read"
    /\ UNCHANGED <<ackSent, rframes, rrc, quit, shown>>

(* Mutated form: recv_all takes the 0 of recv() for nothing and reads on.  *)
StreamClosedMissed == FALSE

(* "stream closed": the loop ends with exit code 0.                        *)
StreamClosed ==
    /\ rpc = "recv"
    /\ RecvLoopGuard
    /\ RecvCanFail("sender", s2r, r2s)
    /\ GotoRecvOut(0)

(* display_frame and write have finished with the pixels.  Between         *)
(* RecvFrame and this step the receiver reads the shared buffer; a frame   *)
(* captured into it meanwhile is (partly) what the output gets.            *)
FinishRead ==
    /\ rpc = "read"
    /\ shown' = content[rpkt.handle]
    /\ rpc' = "ack"
    /\ UNCHANGED <<rpkt, ackSent, rframes, rrc, quit, linkVars>>

ReadFails == ReceiverFaults /\ rpc = "read" /\ GotoRecvOut(1)

(* Mutated form: send_all returns one part too early.                      *)
AckUnsentShort(sent) == sent + 1 < AckUnits

(* Mutated form: send_all goes one part too far.                           *)
AckUnsentLong(sent) == sent <= AckUnits

(* After so many parts send_all has more of the ACK to send.               *)
AckUnsent(sent) == sent < AckUnits

(* send_all puts one more part of the ACK on the wire.                     *)
SendAck ==
    /\ rpc = "ack"
    /\ SendAckPart(AckPart(rpkt, ackSent + 1))
    /\ IF AckUnsent(ackSent + 1)
       THEN /\ ackSent' = ackSent + 1
            /\ UNCHANGED <<rpc, rframes>>
       ELSE /\ ackSent' = 0
            /\ rpc' = LoopHead
            /\ rframes' = rframes + 1
    /\ UNCHANGED <<rpkt, rrc, quit, shown>>

SendAckFails == rpc = "ack" /\ SendCanFail("sender") /\ GotoRecvOut(1)

(* The exit path: close the output, unmap the imports, close the socket.   *)
OutCleanup ==
    /\ rpc = "out"
    /\ Close("receiver")
    /\ rpc' = "done"
    /\ UNCHANGED <<rpkt, ackSent, rframes, rrc, quit, shown>>

ReceiverKilled ==
    /\ ReceiverFaults
    /\ rpc # "done"
    /\ Close("receiver")
    /\ rpc' = "done"
    /\ rrc' = 1
    /\ UNCHANGED <<rpkt, ackSent, rframes, quit, shown>>

ReceiverStep ==
    \/ RecvLimitReached \/ PollQuit \/ PollIdle
    \/ RecvFrame \/ StreamClosed \/ FinishRead
    \/ SendAck \/ SendAckFails \/ OutCleanup

ReceiverNext == ReceiverStep \/ UserQuits \/ ReadFails \/ ReceiverKilled
=============================================================================
