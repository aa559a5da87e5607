---------------------------- MODULE CopyReceiver ----------------------------
(***************************************************************************)
(* The frame loop and the exit path of receiver, and of receiver_sdl when  *)
(* sdl is TRUE: read a header, read as many bytes as it says into the      *)
(* buffer it names, write them to the output file or show the buffer.      *)
(***************************************************************************)
EXTENDS CopyLink

CONSTANTS
    Sdls,           \* which of receiver (FALSE) and receiver_sdl may run
    ReceiverFaults  \* write/display may fail, a signal may end the receiver

ASSUME CopyReceiverAssumption ==
    /\ Sdls \subseteq BOOLEAN
    /\ ReceiverFaults \in BOOLEAN

VARIABLES
    sdl,            \* receiver_sdl runs: a window shows the frames
    rpc,            \* where main() is
    hdr,            \* the header of this iteration
    got,            \* payload units of it received
    mem,            \* what each receiver buffer holds, unit by unit
    output,         \* the frames written or shown, oldest first
    rrc,            \* the exit code
    quit            \* SDL_QUIT waits in the event queue

receiverVars == <<sdl, rpc, hdr, got, mem, output, rrc, quit>>

NoHdr == [index |-> 0, bytesused |-> 0, sequence |-> 0]

(* A frame of the output: the units that came out, with the sequence and   *)
(* bytesused of their header (kept for the properties).                    *)
output_frame ==
    [sequence : Nat, bytesused : Nat, units : Seq(Nat \cup {NoFrame})]

LoopHead == IF sdl THEN "poll" ELSE "header"

ReceiverTypeOK ==
    /\ sdl \in BOOLEAN
    /\ rpc \in {"poll", "header", "payload", "use", "out", "done"}
    /\ hdr \in frame_packet
    /\ got \in 0..hdr.bytesused
    /\ mem \in [0..(BufferCount - 1) ->
                   [1..SizeImage -> Nat \cup {NoFrame}]]
    /\ output \in Seq(output_frame)
    /\ rrc \in {0, 1}
    /\ quit \in BOOLEAN

ReceiverInit ==
    /\ sdl \in Sdls
    /\ rpc = LoopHead
    /\ hdr = NoHdr
    /\ got = 0
    /\ mem = [b \in 0..(BufferCount - 1) |-> [u \in 1..SizeImage |-> NoFrame]]
    /\ output = <<>>
    /\ rrc = 1
    /\ quit = FALSE

GotoRecvOut(code) ==
    /\ rpc' = "out"
    /\ rrc' = code
    /\ UNCHANGED <<sdl, hdr, got, mem, output, quit, linkVars>>

-----------------------------------------------------------------------------
(* The user closes the window.                                             *)
UserQuits ==
    /\ sdl /\ ~quit
    /\ rpc \notin {"out", "done"}
    /\ quit' = TRUE
    /\ UNCHANGED <<sdl, rpc, hdr, got, mem, output, rrc, linkVars>>

(* SDL_PollEvent drains the events once per frame, before recv_all.        *)
PollQuit == rpc = "poll" /\ quit /\ GotoRecvOut(0)

PollIdle ==
    /\ rpc = "poll"
    /\ ~quit
    /\ rpc' = "header"
    /\ UNCHANGED <<sdl, hdr, got, mem, output, rrc, quit, linkVars>>

(* The magic is tested first, then bytesused against sizeimage.            *)
HeaderValid(item) == IsHeader(item) /\ item.bytesused <= SizeImage

RecvHeader ==
    /\ rpc = "header"
    /\ ReceiveItem
    /\ HeaderValid(Head(wire))
    /\ hdr' = Head(wire)
    /\ got' = 0
    /\ rpc' = "payload"
    /\ UNCHANGED <<sdl, mem, output, rrc, quit>>

RejectHeader ==
    /\ rpc = "header"
    /\ ReceiveItem
    /\ ~HeaderValid(Head(wire))
    /\ rpc' = "out"
    /\ UNCHANGED <<sdl, hdr, got, mem, output, rrc, quit>>

(* "stream closed": the loop ends with exit code 0.                        *)
StreamClosed == rpc = "header" /\ RecvCanFail /\ GotoRecvOut(0)

idx == hdr.index % BufferCount

(* Whatever comes next in the stream is taken for payload.                 *)
AsPixels(item) == IF IsHeader(item) THEN NoFrame ELSE item.pixels

RecvPayload ==
    /\ rpc = "payload"
    /\ got < hdr.bytesused
    /\ ReceiveItem
    /\ mem' = [mem EXCEPT ![idx][got + 1] = AsPixels(Head(wire))]
    /\ got' = got + 1
    /\ UNCHANGED <<sdl, rpc, hdr, output, rrc, quit>>

PayloadComplete ==
    /\ rpc = "payload"
    /\ got = hdr.bytesused
    /\ rpc' = "use"
    /\ UNCHANGED <<sdl, hdr, got, mem, output, rrc, quit, linkVars>>

RecvPayloadFails ==
    /\ rpc = "payload"
    /\ got < hdr.bytesused
    /\ RecvCanFail
    /\ GotoRecvOut(1)

(* write() gets bytesused bytes; SDL_UpdateTexture reads pitch * height of *)
(* them, whatever bytesused is.  A driver whose lines are not padded, as   *)
(* the pitch of map_fourcc_to_sdl presumes, makes that the sizeimage of    *)
(* the hello packet, which is what the model has for a whole picture.      *)
UsedUnits == IF sdl THEN SizeImage ELSE hdr.bytesused

UseFrame ==
    /\ rpc = "use"
    /\ output' = Append(output, [sequence |-> hdr.sequence,
                                 bytesused |-> hdr.bytesused,
                                 units |-> [u \in 1..UsedUnits |-> mem[idx][u]]])
    /\ rpc' = LoopHead
    /\ UNCHANGED <<sdl, hdr, got, mem, rrc, quit, linkVars>>

UseFails == ReceiverFaults /\ rpc = "use" /\ GotoRecvOut(1)

(* The exit path: close the output, free the buffers, close the socket.    *)
OutCleanup ==
    /\ rpc = "out"
    /\ Close("receiver")
    /\ rpc' = "done"
    /\ UNCHANGED <<sdl, hdr, got, mem, output, rrc, quit>>

ReceiverKilled ==
    /\ ReceiverFaults
    /\ rpc # "done"
    /\ Close("receiver")
    /\ rpc' = "done"
    /\ rrc' = 1
    /\ UNCHANGED <<sdl, hdr, got, mem, output, quit>>

ReceiverStep ==
    \/ PollQuit \/ PollIdle
    \/ RecvHeader \/ RejectHeader \/ StreamClosed
    \/ RecvPayload \/ PayloadComplete \/ RecvPayloadFails
    \/ UseFrame \/ OutCleanup

ReceiverNext == ReceiverStep \/ UserQuits \/ UseFails \/ ReceiverKilled
=============================================================================
