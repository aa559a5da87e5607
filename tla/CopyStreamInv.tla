---------------------------- MODULE CopyStreamInv ----------------------------
(***************************************************************************)
(* The inductive invariant behind the safety properties of CopyStream: the *)
(* bytes on the connection divide into frames at the same places for the   *)
(* sender and for the receiver, and frame n of the stream is the n-th      *)
(* frame captured.                                                         *)
(***************************************************************************)
EXTENDS CopyStream

(* Where sender is in its loop, and has a buffer in hand.                  *)
Running == spc \in {"dqbuf", "header", "payload", "requeue"}
Holding == spc \in {"header", "payload", "requeue"}

(* Frames dequeued so far.                                                 *)
Taken == IF Holding THEN frames + 1 ELSE frames

(* The driver holds exactly the frames captured and not yet dequeued, each *)
(* in one buffer.                                                          *)
DoneInOrder ==
    /\ \A b \in Buffers : vb2[b] = "done" =>
          content[b] \in Nat /\ Taken <= content[b] /\ content[b] < captured
    /\ \A b, c \in Buffers :
          vb2[b] = "done" /\ vb2[c] = "done" /\ content[b] = content[c]
              => b = c
    /\ \A n \in Taken..(captured - 1) :
          \E b \in Buffers : vb2[b] = "done" /\ content[b] = n

(* The header describes the buffer in hand, which the driver leaves alone, *)
(* and no more of it than there is.                                        *)
PktOfBuffer ==
    /\ pkt.index \in Buffers
    /\ vb2[pkt.index] = "dequeued"
    /\ content[pkt.index] = pkt.sequence
    /\ pkt.sequence = frames
    /\ pkt.bytesused <= BufLen[pkt.index]

QueueInv ==
    /\ Running => DoneInOrder /\ Taken <= captured
    /\ Holding => PktOfBuffer

(* Every header sent is one of those.                                      *)
HeaderSound(h) ==
    /\ h.index \in Buffers
    /\ h.bytesused <= BufLen[h.index]
    /\ h.sequence < captured

HeadersSound ==
    \A k \in 1..Len(wire) : IsHeader(wire[k]) => HeaderSound(wire[k])

-----------------------------------------------------------------------------
(* The frames of the stream, by the position of their header: that of the  *)
(* frame the receiver is at lies before the wire, at -got; initially it is *)
(* an empty frame of sequence -1.                                          *)
Reading == rpc \in {"poll", "header", "payload", "use"}

Starts == {0 - got} \cup {k \in 1..Len(wire) : IsHeader(wire[k])}

SizeAt(k) == IF k >= 1 THEN wire[k].bytesused ELSE hdr.bytesused

SequenceAt(k) ==
    IF k >= 1 THEN wire[k].sequence
    ELSE IF rpc \in {"payload", "use"} THEN Len(output) ELSE Len(output) - 1

(* After a header of size n and sequence q come n units of the frame, and  *)
(* then the header of the next one.                                        *)
FrameAt(w, k, n, q) ==
    \A j \in 1..Len(w) :
        /\ k < j /\ j <= k + n => ~IsHeader(w[j]) /\ w[j].pixels = q
        /\ j = k + n + 1 => IsHeader(w[j]) /\ w[j].sequence = q + 1

(* Between frames the last one is complete, and the next is the s-th; ...  *)
WholeFrames(length, k, n, q, s) ==
    /\ k + n <= length
    /\ k + n = length => q + 1 = s

(* ... in a frame only the last one may not be, with m units sent.         *)
OpenFrame(length, k, n, q, m, p) ==
    k + n >= length =>
        k + m = length /\ n = p.bytesused /\ q = p.sequence

FramesOnWire ==
    \A k \in Starts : FrameAt(wire, k, SizeAt(k), SequenceAt(k))

BetweenFrames ==
    spc \in {"dqbuf", "header"} \/ rc = 0 =>
        \A k \in Starts :
            WholeFrames(Len(wire), k, SizeAt(k), SequenceAt(k), frames)

InFrame ==
    spc \in {"payload", "requeue"} =>
        \A k \in Starts :
            OpenFrame(Len(wire), k, SizeAt(k), SequenceAt(k), sent, pkt)

SentSoFar ==
    /\ spc = "header" => sent = 0
    /\ spc = "requeue" => sent = pkt.bytesused

StreamInv ==
    /\ Reading => FramesOnWire /\ BetweenFrames /\ InFrame
    /\ SentSoFar
    /\ rc = 0 => ~Running
    /\ "sender" \in closed <=> spc = "done"

-----------------------------------------------------------------------------
(* The frame in the receiver's hands, and those that came out.             *)
HdrInHand ==
    /\ rpc \in {"payload", "use"} =>
          /\ hdr.sequence = Len(output) /\ hdr.sequence < captured
          /\ hdr.bytesused <= SizeImage
          /\ \A u \in 1..got : mem[idx][u] = hdr.sequence
    /\ rpc \in {"poll", "header", "use"} => got = hdr.bytesused
    /\ Reading => rrc = 1

OutputInOrder ==
    \A k \in DOMAIN output :
        /\ output[k].sequence = k - 1
        /\ OfOneFrame(output[k], output[k].bytesused)

(* receiver ends with 0 only behind the sender or with its window.         *)
EndSeen ==
    rrc = 0 /\ ~quit =>
        /\ rpc \in {"out", "done"} /\ spc = "done"
        /\ rc = 0 => Len(output) = frames

OutputInv == HdrInHand /\ OutputInOrder /\ EndSeen

CopyInv == TypeOK /\ QueueInv /\ HeadersSound /\ StreamInv /\ OutputInv
=============================================================================
