---------------------------- MODULE ZcStreamInv -----------------------------
(***************************************************************************)
(* The inductive invariant behind the safety properties of ZcStream: where *)
(* the frame in hand and the parts of its ACK are while the sender has not *)
(* warned of a timeout.  TLC checks it, ZcStreamProofs proves it.          *)
(***************************************************************************)
EXTENDS ZcStream

(* A completed buffer holds a frame, so a packet has a sequence number.    *)
DoneHoldsFrame == \A b \in Buffers : vb2[b] = "done" => content[b] \in Nat

(* The exit code becomes 0 only behind the loop.                           *)
LoopHasNoExitCode == InLoop => rc = 1

(* The frame limit is reached with every buffer back at the driver, and    *)
(* STREAMOFF, or the close of the device, returns all of them.             *)
AllOrNoneOut ==
    rc = 0 => \/ \A b \in Buffers : vb2[b] # "dequeued"
              \/ \A b \in Buffers : vb2[b] = "dequeued"

(* Parts of the ACK of the frame in hand that the receiver has sent.       *)
PartsOut == Len(ack_net) + Len(r2s)

ReceiverIdle == rpc \notin {"read", "ack"}

(* No frame and no ACK is on the way.                                      *)
Quiet ==
    /\ ReceiverIdle
    /\ s2r = <<>> /\ r2s = <<>>
    /\ rframes = IF spc = "requeue" THEN frames + 1 ELSE frames

(* The frame in hand is in the connection, ...                             *)
FrameSent ==
    /\ s2r = <<pkt>>
    /\ ReceiverIdle
    /\ PartsOut = 0
    /\ rframes = frames

(* ... with the receiver, which reads it, ...                              *)
FrameRead ==
    /\ s2r = <<>>
    /\ rpc = "read" /\ rpkt = pkt
    /\ PartsOut = 0 /\ ackSent = 0
    /\ rframes = frames

(* ... used, its ACK partly sent, ...                                      *)
FrameUsed ==
    /\ s2r = <<>>
    /\ rpc = "ack" /\ rpkt = pkt
    /\ shown = pkt.sequence
    /\ PartsOut = ackSent
    /\ rframes = frames

(* ... or the receiver is through with it (or gone).                       *)
FrameAcked ==
    /\ s2r = <<>>
    /\ ReceiverIdle
    /\ PartsOut <= AckUnits
    /\ PartsOut = AckUnits => rframes = frames + 1

(* The receiver starts every ACK with its first part.                      *)
AckStartsFresh == RecvInLoop /\ rpc # "ack" => ackSent = 0

(* While the sender follows its protocol, the buffer in hand is untouched  *)
(* and its frame is in exactly one place.                                  *)
InHandUntouched ==
    spc \in {"send", "wait", "requeue"} =>
        /\ vb2[pkt.handle] = "dequeued"
        /\ content[pkt.handle] = pkt.sequence

FrameInOnePlace ==
    IF spc = "wait"
    THEN /\ Len(ack_net) < AckUnits
         /\ FrameSent \/ FrameRead \/ FrameUsed \/ FrameAcked
    ELSE /\ Quiet
         /\ spc = "send" => ack_net = <<>>

Orderly == SenderOrderly /\ ~ack_timeout_warned

(* The inductive invariant of the handover: together with TypeOK it is     *)
(* kept by every step and implies the properties about ownership.          *)
HandoverInv ==
    /\ DoneHoldsFrame
    /\ LoopHasNoExitCode
    /\ AllOrNoneOut
    /\ OneBufferInHand
    /\ AckStartsFresh
    /\ InHandUntouched
    /\ Orderly => FrameInOnePlace

-----------------------------------------------------------------------------
(* Capture order, kept with timeouts as well: sequence numbers rise from   *)
(* the receiver, through the connection and the sender, to the driver.     *)

(* The sender has dequeued a buffer, the receiver has received a packet.   *)
Taken == spc # "dqbuf" \/ frames > 0
Got == rpc \in {"read", "ack"} \/ rframes > 0

(* Completed buffers hold different frames, all captured before now.       *)
DriverInOrder ==
    /\ \A b \in Buffers : content[b] < captured
    /\ \A b, c \in Buffers :
          b # c /\ vb2[b] = "done" /\ vb2[c] = "done"
            => content[b] # content[c]

(* The frame in hand is older than every completed one.                    *)
SenderInOrder ==
    InLoop /\ Taken =>
        /\ pkt.sequence < captured
        /\ \A b \in Buffers : vb2[b] = "done" => pkt.sequence < content[b]

LinkInOrder ==
    \A i, j \in 1..Len(s2r) : i < j => s2r[i].sequence < s2r[j].sequence

(* What was sent is not newer than the frame in hand.                      *)
SentInOrder ==
    InLoop =>
        /\ ~Taken => s2r = <<>> /\ ~Got
        /\ \A i \in 1..Len(s2r) :
              /\ s2r[i].sequence <= pkt.sequence
              /\ spc = "send" => s2r[i].sequence < pkt.sequence

ReceivedInOrder ==
    RecvInLoop /\ Got =>
        /\ \A i \in 1..Len(s2r) : rpkt.sequence < s2r[i].sequence
        /\ InLoop => rpkt.sequence <= pkt.sequence
        /\ spc = "send" => rpkt.sequence < pkt.sequence

OrderInv ==
    /\ DriverInOrder
    /\ SenderInOrder
    /\ LinkInOrder
    /\ SentInOrder
    /\ ReceivedInOrder

(* What the output got last: the frame of the last packet, or, while the   *)
(* receiver reads, an older one.                                           *)
ShownInv ==
    Orderly /\ RecvInLoop =>
        IF rpc = "read" THEN shown < rpkt.sequence
        ELSE shown = IF Got THEN rpkt.sequence ELSE NoFrame

-----------------------------------------------------------------------------
(* The ACKs: which ones are on the way, and whose the next one is.         *)

(* The wait starts with no part read and ends with the last one.           *)
WaitReadsOneAck ==
    /\ spc = "send" => ack_net = <<>>
    /\ spc = "wait" => Len(ack_net) < AckUnits

WarnedCounts == ack_timeout_warned <=> timeouts > 0

(* The parts the receiver still owes beyond those of the frame in hand.    *)
Overdue ==
    IF spc = "wait" THEN Backlog + Len(ack_net) - AckUnits ELSE Backlog

(* BacklogNeverDrains, with the wait itself.                               *)
OverdueCounts ==
    RecvInLoop /\ InLoop =>
        timeouts <= Overdue /\ Overdue <= AckUnits * timeouts

CountInv == WaitReadsOneAck /\ WarnedCounts /\ OverdueCounts

(* TCP holds no more than its buffers.                                     *)
LinkBounded ==
    /\ Len(s2r) <= FrameCap
    /\ Len(r2s) - arrived <= AckCap
    /\ arrived <= RecvBuf

(* A wait times out on an empty receive buffer: what the receiver owes     *)
(* then is in the connection, in its hand, or on the way back.             *)
Room == AckUnits * (FrameCap + 1) + AckCap

OverdueBounded == RecvInLoop /\ InLoop => Overdue <= Room

(* Behind NeverMutualBlock.                                                *)
RoomInv == LinkBounded /\ OverdueBounded

(* No ACK is newer than the frame in hand.                                 *)
AcksInOrder ==
    InLoop =>
        /\ ~Taken => r2s = <<>>
        /\ \A i \in 1..Len(r2s) :
              /\ r2s[i].sequence <= pkt.sequence
              /\ spc = "send" => r2s[i].sequence < pkt.sequence

(* Before the first timeout the parts read and on the way are those of the *)
(* frame in hand, from the first one on.                                   *)
PartsAreOfPkt ==
    spc = "wait" /\ ~ack_timeout_warned =>
        /\ \A i \in 1..Len(ack_net) : ack_net[i] = AckPart(pkt, i)
        /\ \A i \in 1..Len(r2s) :
              r2s[i] = AckPart(pkt, Len(ack_net) + i)

(* The next part to arrive belongs to an older frame, ...                  *)
NextAckIsOld ==
    IF r2s # <<>> THEN r2s[1].sequence < pkt.sequence
    ELSE IF ~ReceiverIdle THEN rpkt.sequence < pkt.sequence
    ELSE RecvInLoop => s2r # <<>> /\ s2r[1].sequence < pkt.sequence

(* ... and so does the first part of an ACK read after a timeout.          *)
AcksAreLate ==
    spc = "wait" /\ ack_timeout_warned =>
        IF ack_net # <<>> THEN ack_net[1].sequence < pkt.sequence
                          ELSE NextAckIsOld

AckInv ==
    /\ CountInv
    /\ AcksInOrder
    /\ PartsAreOfPkt
    /\ AcksAreLate
    /\ AcksMatchUntilTimeout

(* The sender never announces more bytes than a capture buffer holds.      *)
ClampInv ==
    /\ pkt.bytesused <= BufLen
    /\ \A i \in 1..Len(s2r) : s2r[i].bytesused <= BufLen
=============================================================================
