--------------------------- MODULE ZcStreamProofs ---------------------------
(***************************************************************************)
(* Theorems about ZcStream, for every value of its constants.              *)
(***************************************************************************)
EXTENDS ZcStreamInv, SequenceTheorems, TLAPS

(* What TypeOK needs to be inductive.                                      *)
TypeInv == TypeOK /\ DoneHoldsFrame

-----------------------------------------------------------------------------
(* Type correctness                                                        *)

LEMMA NoPacketType == NoPacket \in zc_frame_packet
BY BuffersAssumption DEF NoPacket, zc_frame_packet

LEMMA TypeInit == Init => TypeInv
<1> SUFFICES ASSUME Init PROVE TypeInv
    OBVIOUS
<1>1. LinkTypeOK
  <2>1. Len(r2s) = 0
      BY DEF Init, LinkInit
  <2> QED
      BY <2>1 DEF Init, LinkInit, LinkTypeOK
<1>2. QueueTypeOK /\ DoneHoldsFrame
    BY DEF Init, QueueInit, QueueTypeOK, DoneHoldsFrame, NoFrame
<1>3. SenderTypeOK
  <2>1. <<>> \in Seq(zc_ack_part)
      OBVIOUS
  <2>2. ack_timeout_warned \in BOOLEAN
      BY DEF Init, SenderInit
  <2> QED
      BY <2>1, <2>2, NoPacketType DEF Init, SenderInit, SenderTypeOK
<1>4. ReceiverTypeOK
  <2>1. quit \in BOOLEAN
      BY DEF Init, ReceiverInit
  <2>2. 0 \in 0..(AckUnits - 1)
      BY BuffersAssumption, PacketAssumption
  <2> QED
      BY <2>1, <2>2, NoPacketType
      DEF Init, ReceiverInit, ReceiverTypeOK, LoopHead
<1> QED
    BY <1>1, <1>2, <1>3, <1>4 DEF TypeInv, TypeOK

LEMMA CameraType == TypeInv /\ Camera => TypeInv'
<1> SUFFICES ASSUME TypeInv, NEW b \in Buffers, Fill(b),
                    UNCHANGED <<linkVars, senderVars, receiverVars>>
             PROVE  TypeInv'
    BY DEF Camera
<1>1. QueueTypeOK' /\ DoneHoldsFrame'
    BY DEF TypeInv, TypeOK, QueueTypeOK, DoneHoldsFrame, Fill
<1>2. LinkTypeOK' /\ SenderTypeOK' /\ ReceiverTypeOK'
    BY DEF TypeInv, TypeOK, LinkTypeOK, SenderTypeOK, ReceiverTypeOK,
           linkVars, senderVars, receiverVars
<1> QED
    BY <1>1, <1>2 DEF TypeInv, TypeOK

(* What the sender reads has arrived.                                      *)
LEMMA PartArrived ==
    ASSUME LinkTypeOK, ReceiveAckPart
    PROVE  /\ r2s # <<>> /\ r2s' = Tail(r2s)
           /\ Len(r2s) \in Nat \ {0} /\ Len(r2s') = Len(r2s) - 1
           /\ s2r' = s2r /\ LinkTypeOK'
<1>1. Len(r2s) \in Nat \ {0} /\ r2s \in Seq(zc_ack_part)
    BY DEF LinkTypeOK, ReceiveAckPart
<1>2. r2s # <<>>
    BY <1>1
<1>3. r2s' = Tail(r2s) /\ r2s' \in Seq(zc_ack_part) /\ Len(r2s') = Len(r2s) - 1
    BY <1>1, <1>2 DEF ReceiveAckPart
<1>4. arrived' \in 0..Len(r2s')
    BY <1>1, <1>3 DEF LinkTypeOK, ReceiveAckPart
<1> QED
    BY <1>1, <1>2, <1>3, <1>4 DEF LinkTypeOK, ReceiveAckPart

LEMMA NetworkType == TypeInv /\ Network => TypeInv'
<1> SUFFICES ASSUME TypeInv, DeliverAckPart,
                    UNCHANGED <<queueVars, senderVars, receiverVars>>
             PROVE  TypeInv'
    BY DEF Network
<1>1. Len(r2s) \in Nat
    BY DEF TypeInv, TypeOK, LinkTypeOK
<1>2. LinkTypeOK'
    BY <1>1 DEF TypeInv, TypeOK, LinkTypeOK, DeliverAckPart
<1>3. QueueTypeOK' /\ SenderTypeOK' /\ ReceiverTypeOK' /\ DoneHoldsFrame'
    BY DEF TypeInv, TypeOK, QueueTypeOK, SenderTypeOK, ReceiverTypeOK,
           DoneHoldsFrame, queueVars, senderVars, receiverVars
<1> QED
    BY <1>2, <1>3 DEF TypeInv, TypeOK

LEMMA SenderType == TypeInv /\ Sender => TypeInv'
<1> SUFFICES ASSUME TypeInv, SenderNext, UNCHANGED receiverVars
             PROVE  TypeInv'
    BY DEF Sender
<1> USE DEF TypeInv, TypeOK, receiverVars
<1>0. ReceiverTypeOK'
    BY DEF ReceiverTypeOK
<1>1. ASSUME NEW b \in Buffers, DqBuf(b)
      PROVE  TypeInv'
  <2>1. PICK raw \in RawSizes :
            pkt' = [handle |-> b, bytesused |-> Clamp(raw),
                    sequence |-> content[b]]
      BY <1>1 DEF DqBuf
  <2>2. Clamp(raw) \in Nat
      BY SenderAssumption DEF Clamp
  <2>3. content[b] \in Nat
      BY <1>1 DEF DqBuf, DequeueBuffer, DoneHoldsFrame
  <2>4. SenderTypeOK'
      BY <1>1, <2>1, <2>2, <2>3
      DEF DqBuf, SenderTypeOK, zc_frame_packet
  <2>5. QueueTypeOK' /\ DoneHoldsFrame'
      BY <1>1 DEF DqBuf, DequeueBuffer, QueueTypeOK, DoneHoldsFrame
  <2>6. LinkTypeOK'
      BY <1>1 DEF DqBuf, LinkTypeOK, linkVars
  <2> QED
      BY <1>0, <2>4, <2>5, <2>6
<1>2. CASE SendPacket
    BY <1>0, <1>2 DEF SendPacket, SendFrame, LinkTypeOK, SenderTypeOK,
                      QueueTypeOK, DoneHoldsFrame, queueVars
<1>3. CASE RecvAck
  <2>1. r2s # <<>> /\ LinkTypeOK' /\ Head(r2s) \in zc_ack_part
      BY <1>3, PartArrived DEF RecvAck, LinkTypeOK
  <2>2. QueueTypeOK' /\ DoneHoldsFrame'
      BY <1>3 DEF RecvAck, QueueTypeOK, DoneHoldsFrame, queueVars
  <2>3. SenderTypeOK'
      BY <1>3, <2>1 DEF RecvAck, EndWait, SenderTypeOK
  <2> QED
      BY <1>0, <2>1, <2>2, <2>3
<1>4. CASE AckTimeout
    BY <1>0, <1>4 DEF AckTimeout, EndWait, LinkTypeOK, SenderTypeOK,
                      QueueTypeOK, DoneHoldsFrame, queueVars, linkVars
<1>5. CASE Requeue
  <2>1. QueueTypeOK' /\ DoneHoldsFrame'
      BY <1>5 DEF Requeue, QueueBuffer, QueueTypeOK, DoneHoldsFrame
  <2>2. SenderTypeOK' /\ LinkTypeOK'
      BY <1>5 DEF Requeue, LinkTypeOK, SenderTypeOK, linkVars
  <2> QED
      BY <1>0, <2>1, <2>2
<1>6. CASE LimitReached
    BY <1>0, <1>6 DEF LimitReached, LinkTypeOK, SenderTypeOK,
                      QueueTypeOK, DoneHoldsFrame, queueVars, linkVars
<1>7. CASE GotoOut
    BY <1>0, <1>7 DEF GotoOut, LinkTypeOK, SenderTypeOK,
                      QueueTypeOK, DoneHoldsFrame, queueVars, linkVars
<1>8. CASE OutStreamOff
    BY <1>0, <1>8 DEF OutStreamOff, StreamOff, LinkTypeOK, SenderTypeOK,
                      QueueTypeOK, DoneHoldsFrame, linkVars, queueVars
<1>9. CASE OutRelease
    BY <1>0, <1>9 DEF OutRelease, LinkTypeOK, SenderTypeOK,
                      QueueTypeOK, DoneHoldsFrame, queueVars, linkVars
<1>10. CASE OutClose
    BY <1>0, <1>10 DEF OutClose, StreamOff, Close, LinkTypeOK,
                       SenderTypeOK, QueueTypeOK, DoneHoldsFrame
<1>11. CASE SenderKilled
    BY <1>0, <1>11 DEF SenderKilled, StreamOff, Close, LinkTypeOK,
                       SenderTypeOK, QueueTypeOK, DoneHoldsFrame
<1> QED
    BY <1>1, <1>2, <1>3, <1>4, <1>5, <1>6, <1>7, <1>8, <1>9, <1>10, <1>11
    DEF SenderNext, SenderStep, SendFails, RecvAckFails, IoctlFails

LEMMA ReceiverType == TypeInv /\ Receiver => TypeInv'
<1> SUFFICES ASSUME TypeInv, ReceiverNext,
                    UNCHANGED <<queueVars, senderVars>>
             PROVE  TypeInv'
    BY DEF Receiver
<1> USE DEF TypeInv, TypeOK, queueVars, senderVars
<1>0. SenderTypeOK' /\ QueueTypeOK' /\ DoneHoldsFrame'
    BY DEF SenderTypeOK, QueueTypeOK, DoneHoldsFrame
<1>1. ASSUME NEW code \in {0, 1}, GotoRecvOut(code)
      PROVE  TypeInv'
    BY <1>0, <1>1 DEF GotoRecvOut, LinkTypeOK, ReceiverTypeOK, linkVars
<1>2. CASE PollIdle
    BY <1>0, <1>2 DEF PollIdle, LinkTypeOK, ReceiverTypeOK, linkVars
<1>3. CASE RecvFrame
  <2>1. /\ Head(s2r) \in zc_frame_packet
        /\ Tail(s2r) \in Seq(zc_frame_packet)
      BY <1>3 DEF RecvFrame, ReceiveFrame, LinkTypeOK
  <2> QED
      BY <1>0, <1>3, <2>1 DEF RecvFrame, ReceiveFrame, LinkTypeOK,
                              ReceiverTypeOK
<1>4. CASE FinishRead
  <2>1. content[rpkt.handle] \in Nat \cup {NoFrame}
      BY DEF QueueTypeOK, ReceiverTypeOK, zc_frame_packet
  <2> QED
      BY <1>0, <1>4, <2>1 DEF FinishRead, LinkTypeOK, ReceiverTypeOK,
                              linkVars
<1>5. CASE SendAck
  <2>1. /\ ackSent + 1 \in 1..AckUnits
        /\ AckUnsent(ackSent + 1) => ackSent + 1 \in 0..(AckUnits - 1)
        /\ 0 \in 0..(AckUnits - 1)
      BY PacketAssumption DEF ReceiverTypeOK, AckUnsent
  <2>2. AckPart(rpkt, ackSent + 1) \in zc_ack_part
      BY <2>1 DEF AckPart, ReceiverTypeOK, zc_frame_packet, zc_ack_part
  <2>3. LinkTypeOK'
    <3>1. Len(r2s') = Len(r2s) + 1 /\ Len(r2s) \in Nat
        BY <1>5 DEF SendAck, SendAckPart, LinkTypeOK
    <3> QED
        BY <1>5, <2>2, <3>1 DEF SendAck, SendAckPart, LinkTypeOK
  <2>4. ReceiverTypeOK'
      BY <1>5, <2>1 DEF SendAck, ReceiverTypeOK, LoopHead
  <2> QED
      BY <1>0, <2>3, <2>4
<1>6. CASE OutCleanup
    BY <1>0, <1>6 DEF OutCleanup, Close, LinkTypeOK, ReceiverTypeOK
<1>7. CASE UserQuits
    BY <1>0, <1>7 DEF UserQuits, LinkTypeOK, ReceiverTypeOK, linkVars
<1>8. CASE ReceiverKilled
    BY <1>0, <1>8 DEF ReceiverKilled, Close, LinkTypeOK, ReceiverTypeOK
<1> QED
    BY <1>1, <1>2, <1>3, <1>4, <1>5, <1>6, <1>7, <1>8
    DEF ReceiverNext, ReceiverStep, RecvLimitReached, PollQuit,
        StreamClosed, SendAckFails, ReadFails

LEMMA StutterType == TypeInv /\ UNCHANGED vars => TypeInv'
BY DEF TypeInv, TypeOK, LinkTypeOK, QueueTypeOK, SenderTypeOK,
       ReceiverTypeOK, DoneHoldsFrame, vars, linkVars, queueVars,
       senderVars, receiverVars

LEMMA TypeStep == TypeInv /\ [Next]_vars => TypeInv'
BY CameraType, SenderType, ReceiverType, NetworkType, StutterType
   DEF Next, Terminated

(* Neither program nor the driver sees what the network does.              *)
Unseen ==
    /\ UNCHANGED <<s2r, r2s, closed>>
    /\ UNCHANGED <<queueVars, senderVars, receiverVars>>

LEMMA NetworkUnseen == Network \/ UNCHANGED vars => Unseen
BY DEF Network, DeliverAckPart, Unseen, vars, linkVars, queueVars, senderVars,
       receiverVars

(* Every variable keeps its type.                                          *)
THEOREM TypeCorrect == Spec => []TypeOK
<1>1. TypeInv => TypeOK
    BY DEF TypeInv
<1> QED
    BY <1>1, TypeInit, TypeStep, PTL DEF Spec

-----------------------------------------------------------------------------
(* The handover                                                            *)

HInv == TypeOK /\ HandoverInv

LEMMA HandoverInit == Init => HInv
<1> SUFFICES ASSUME Init PROVE HInv
    OBVIOUS
<1>1. TypeInv
    BY TypeInit
<1>2. OneBufferInHand /\ LoopHasNoExitCode /\ AllOrNoneOut
      /\ InHandUntouched
    BY DEF Init, QueueInit, SenderInit, OneBufferInHand, InLoop,
           LoopHasNoExitCode, AllOrNoneOut, InHandUntouched
<1>3. AckStartsFresh
    BY DEF Init, ReceiverInit, AckStartsFresh
<1>4. FrameInOnePlace
    BY DEF Init, LinkInit, SenderInit, ReceiverInit, FrameInOnePlace, Quiet,
           ReceiverIdle, LoopHead
<1> QED
    BY <1>1, <1>2, <1>3, <1>4 DEF HInv, HandoverInv, TypeInv

LEMMA HandoverCamera == HInv /\ Camera => HInv'
<1> SUFFICES ASSUME HInv, NEW b \in Buffers, Fill(b),
                    UNCHANGED <<linkVars, senderVars, receiverVars>>
             PROVE  HInv'
    BY DEF Camera
<1>1. TypeInv'
    BY CameraType DEF HInv, HandoverInv, TypeInv, Camera
<1>2. OneBufferInHand' /\ LoopHasNoExitCode' /\ AllOrNoneOut'
    BY DEF HInv, HandoverInv, TypeOK, QueueTypeOK, OneBufferInHand, InLoop,
           LoopHasNoExitCode, AllOrNoneOut, Fill, senderVars
<1>3. InHandUntouched'
    BY DEF HInv, HandoverInv, TypeOK, QueueTypeOK, InHandUntouched, Fill,
           SenderTypeOK, zc_frame_packet, senderVars
<1>4. AckStartsFresh' /\ (Orderly => FrameInOnePlace)'
    BY DEF HInv, HandoverInv, AckStartsFresh, RecvInLoop, Orderly,
           SenderOrderly, InLoop, FrameInOnePlace, Quiet, ReceiverIdle,
           FrameSent, FrameRead, FrameUsed, FrameAcked, PartsOut,
           linkVars, senderVars, receiverVars
<1> QED
    BY <1>1, <1>2, <1>3, <1>4 DEF HInv, HandoverInv, TypeInv

LEMMA HandoverSender == HInv /\ Sender => HInv'
<1> SUFFICES ASSUME HInv, SenderNext, UNCHANGED receiverVars
             PROVE  HInv'
    BY DEF Sender
<1> USE DEF HInv, HandoverInv
<1>t. TypeInv'
    BY SenderType DEF TypeInv, Sender
<1>a. AckStartsFresh'
    BY DEF AckStartsFresh, RecvInLoop, receiverVars
<1>k. /\ ReceiverIdle' <=> ReceiverIdle
      /\ (rpc' = rpc /\ rpkt' = rpkt /\ ackSent' = ackSent)
      /\ (rframes' = rframes /\ shown' = shown)
    BY DEF ReceiverIdle, receiverVars
<1>n. Orderly /\ spc # "wait" => Quiet
    BY DEF FrameInOnePlace
<1>1. ASSUME NEW b \in Buffers, DqBuf(b)
      PROVE  HInv'
  <2>1. OneBufferInHand' /\ LoopHasNoExitCode' /\ AllOrNoneOut'
        /\ InHandUntouched'
      BY <1>1 DEF DqBuf, DequeueBuffer, TypeOK, QueueTypeOK, OneBufferInHand,
                  InLoop, LoopHasNoExitCode, AllOrNoneOut, InHandUntouched
  <2>2. (Orderly => FrameInOnePlace)'
      BY <1>1, <1>k, <1>n
      DEF DqBuf, Orderly, SenderOrderly, InLoop, FrameInOnePlace, Quiet,
          linkVars
  <2> QED
      BY <1>t, <1>a, <2>1, <2>2 DEF TypeInv
<1>2. CASE SendPacket
  <2>1. OneBufferInHand' /\ LoopHasNoExitCode' /\ AllOrNoneOut'
        /\ InHandUntouched'
      BY <1>2 DEF SendPacket, OneBufferInHand, InLoop, LoopHasNoExitCode,
                  AllOrNoneOut,
                  InHandUntouched, queueVars
  <2>2. ASSUME Orderly'
        PROVE  FrameInOnePlace'
    <3>1. Orderly
        BY <1>2, <2>2 DEF SendPacket, Orderly, SenderOrderly, InLoop
    <3>2. Quiet /\ ack_net = <<>>
        BY <1>2, <3>1 DEF SendPacket, FrameInOnePlace
    <3>3. s2r' = <<pkt'>> /\ r2s' = <<>> /\ ack_net' = <<>>
        BY <1>2, <3>2 DEF SendPacket, SendFrame, Quiet
    <3>4. Len(ack_net') = 0 /\ Len(r2s') = 0
        BY <3>3
    <3> QED
        BY <1>2, <1>k, <3>2, <3>3, <3>4, PacketAssumption
        DEF SendPacket, FrameInOnePlace, FrameSent, PartsOut, Quiet
  <2> QED
      BY <1>t, <1>a, <2>1, <2>2 DEF TypeInv
<1>3. CASE RecvAck
  <2>1. OneBufferInHand' /\ LoopHasNoExitCode' /\ AllOrNoneOut'
        /\ InHandUntouched'
      BY <1>3 DEF RecvAck, EndWait, OneBufferInHand, InLoop,
                  LoopHasNoExitCode, AllOrNoneOut, InHandUntouched, queueVars
  <2>2. ASSUME Orderly'
        PROVE  FrameInOnePlace'
    <3>1. Orderly /\ spc = "wait"
        BY <1>3, <2>2 DEF RecvAck, EndWait, Orderly, SenderOrderly, InLoop
    <3>0. /\ Len(r2s') = Len(r2s) - 1 /\ Len(r2s) \in Nat \ {0}
          /\ r2s # <<>> /\ r2s \in Seq(zc_ack_part)
        BY <1>3, PartArrived DEF RecvAck, TypeOK, LinkTypeOK
    <3>2. /\ Len(ack_net') = Len(ack_net) + 1
          /\ Len(r2s') = Len(r2s) - 1
          /\ Len(ack_net) \in Nat /\ Len(r2s) \in Nat \ {0}
        BY <1>3, <3>0 DEF RecvAck, TypeOK, SenderTypeOK
    <3>3. PartsOut' = PartsOut /\ PartsOut > 0
        BY <3>2 DEF PartsOut
    <3>4. /\ s2r' = s2r /\ pkt' = pkt /\ frames' = frames
          /\ ackSent \in 0..(AckUnits - 1)
          /\ Len(ack_net) < AckUnits
        BY <1>3, <3>1 DEF RecvAck, ReceiveAckPart, TypeOK, ReceiverTypeOK,
                          FrameInOnePlace
    <3>5. FrameUsed \/ FrameAcked
        BY <3>1, <3>3 DEF FrameInOnePlace, FrameSent, FrameRead
    <3>6. CASE AckIncomplete(ack_net')
      <4>1. spc' = "wait" /\ Len(ack_net') < AckUnits
          BY <1>3, <3>1, <3>6 DEF RecvAck, AckIncomplete
      <4>2. (FrameUsed \/ FrameAcked)'
          BY <3>3, <3>4, <3>5, <1>k DEF FrameUsed, FrameAcked
      <4> QED
          BY <4>1, <4>2 DEF FrameInOnePlace
    <3>7. CASE ~AckIncomplete(ack_net')
      <4>1. spc' = "requeue"
          BY <1>3, <3>7 DEF RecvAck, EndWait
      <4>2. Len(ack_net') = AckUnits
          BY <3>2, <3>4, <3>7, PacketAssumption DEF AckIncomplete
      <4>3. ~FrameUsed
          BY <3>2, <3>4, <4>2, PacketAssumption DEF FrameUsed, PartsOut
      <4>4. FrameAcked /\ Len(r2s') = 0 /\ PartsOut = AckUnits
          BY <3>2, <3>3, <3>5, <4>2, <4>3, PacketAssumption
          DEF FrameAcked, PartsOut
      <4>5. r2s' = <<>>
          BY <1>3, <3>0, <4>4, PartArrived DEF RecvAck, TypeOK, LinkTypeOK
      <4> QED
          BY <1>k, <3>4, <4>1, <4>4, <4>5 DEF FrameInOnePlace, Quiet,
                                              FrameAcked
    <3> QED
        BY <3>6, <3>7
  <2> QED
      BY <1>t, <1>a, <2>1, <2>2 DEF TypeInv
<1>4. CASE AckTimeout
    BY <1>4, <1>t, <1>a
    DEF AckTimeout, EndWait, OneBufferInHand, InLoop, LoopHasNoExitCode,
        AllOrNoneOut,
        InHandUntouched, Orderly, TypeInv, queueVars
<1>5. CASE Requeue
  <2>1. OneBufferInHand' /\ LoopHasNoExitCode' /\ AllOrNoneOut'
        /\ InHandUntouched'
      BY <1>5 DEF Requeue, QueueBuffer, TypeOK, QueueTypeOK,
                  OneBufferInHand, InLoop, LoopHasNoExitCode, AllOrNoneOut,
                  InHandUntouched
  <2>2. (Orderly => FrameInOnePlace)'
      BY <1>5, <1>k, <1>n
      DEF Requeue, Orderly, SenderOrderly, InLoop, FrameInOnePlace, Quiet,
          linkVars
  <2> QED
      BY <1>t, <1>a, <2>1, <2>2 DEF TypeInv
<1>6. CASE LimitReached
  <2>1. OneBufferInHand' /\ LoopHasNoExitCode' /\ AllOrNoneOut'
        /\ InHandUntouched'
      BY <1>6 DEF LimitReached, OneBufferInHand, InLoop, LoopHasNoExitCode,
                  AllOrNoneOut, queueVars,
                  InHandUntouched
  <2>2. (Orderly => FrameInOnePlace)'
      BY <1>6, <1>k, <1>n
      DEF LimitReached, Orderly, SenderOrderly, InLoop, FrameInOnePlace,
          Quiet, linkVars
  <2> QED
      BY <1>t, <1>a, <2>1, <2>2 DEF TypeInv
<1>7. CASE GotoOut /\ InLoop
    BY <1>7, <1>t, <1>a
    DEF GotoOut, OneBufferInHand, InLoop, LoopHasNoExitCode, AllOrNoneOut,
        InHandUntouched,
        Orderly, SenderOrderly, TypeInv
<1>8. CASE OutStreamOff \/ OutRelease \/ OutClose
  <2>1. OneBufferInHand' /\ LoopHasNoExitCode' /\ AllOrNoneOut'
        /\ InHandUntouched'
      BY <1>8 DEF OutStreamOff, OutRelease, OutClose, StreamOff,
                  OneBufferInHand, InLoop, LoopHasNoExitCode, AllOrNoneOut,
                  InHandUntouched, queueVars
  <2>2. (Orderly => FrameInOnePlace)'
      BY <1>8, <1>k, <1>n
      DEF OutStreamOff, OutRelease, OutClose, Close, Orderly, SenderOrderly,
          InLoop, FrameInOnePlace, Quiet, linkVars
  <2> QED
      BY <1>t, <1>a, <2>1, <2>2 DEF TypeInv
<1>9. CASE SenderKilled
    BY <1>9, <1>t, <1>a
    DEF SenderKilled, OneBufferInHand, InLoop, LoopHasNoExitCode,
        AllOrNoneOut,
        InHandUntouched, Orderly, SenderOrderly, TypeInv
<1> QED
    BY <1>1, <1>2, <1>3, <1>4, <1>5, <1>6, <1>7, <1>8, <1>9
    DEF SenderNext, SenderStep, SendFails, RecvAckFails, IoctlFails, InLoop

LEMMA HandoverReceiver == HInv /\ Receiver => HInv'
<1> SUFFICES ASSUME HInv, ReceiverNext, UNCHANGED <<queueVars, senderVars>>
             PROVE  HInv'
    BY DEF Receiver
<1> USE DEF HInv, HandoverInv
<1>t. TypeInv'
    BY ReceiverType DEF TypeInv, Receiver
<1>s. OneBufferInHand' /\ LoopHasNoExitCode' /\ AllOrNoneOut'
        /\ InHandUntouched'
    BY DEF OneBufferInHand, InLoop, LoopHasNoExitCode, AllOrNoneOut,
           InHandUntouched,
           queueVars, senderVars
<1>k. /\ Orderly' <=> Orderly
      /\ spc' = spc /\ pkt' = pkt /\ ack_net' = ack_net
      /\ frames' = frames /\ content' = content
    BY DEF Orderly, SenderOrderly, InLoop, queueVars, senderVars
<1>0. SUFFICES AckStartsFresh' /\ (Orderly => FrameInOnePlace')
    BY <1>t, <1>s, <1>k DEF TypeInv
<1>l. /\ Len(ack_net) \in Nat /\ Len(r2s) \in Nat /\ Len(s2r) \in Nat
      /\ ackSent \in 0..(AckUnits - 1)
      /\ rframes \in Nat /\ frames \in Nat
    BY DEF TypeOK, LinkTypeOK, SenderTypeOK, ReceiverTypeOK
(* Leaving the loop, the receiver takes the frame in hand with it.         *)
<1>1. ASSUME UNCHANGED <<s2r, r2s, rpkt, ackSent, rframes>>,
             ReceiverIdle', AckStartsFresh'
      PROVE  AckStartsFresh' /\ (Orderly => FrameInOnePlace')
  <2>1. PartsOut' = PartsOut
      BY <1>1, <1>k DEF PartsOut
  <2>2. FrameSent \/ FrameRead \/ FrameUsed \/ FrameAcked
            => (FrameSent \/ FrameAcked)'
      BY <1>1, <1>k, <1>l, <2>1, PacketAssumption
      DEF FrameSent, FrameRead, FrameUsed, FrameAcked
  <2> QED
      BY <1>1, <1>k, <2>2 DEF FrameInOnePlace, Quiet
<1>2. ASSUME NEW code \in {0, 1}, GotoRecvOut(code)
      PROVE  AckStartsFresh' /\ (Orderly => FrameInOnePlace')
    BY <1>1, <1>2 DEF GotoRecvOut, ReceiverIdle, AckStartsFresh, RecvInLoop,
                      linkVars
<1>3. CASE PollIdle
    BY <1>1, <1>3 DEF PollIdle, ReceiverIdle, AckStartsFresh, RecvInLoop,
                      linkVars
<1>4. CASE RecvFrame
  <2>1. AckStartsFresh'
      BY <1>4 DEF RecvFrame, AckStartsFresh, RecvInLoop
  <2>2. ASSUME Orderly
        PROVE  FrameInOnePlace'
    <3>1. spc = "wait" /\ FrameSent
        BY <1>4, <2>2 DEF RecvFrame, ReceiveFrame, FrameInOnePlace, Quiet,
                          FrameRead, FrameUsed, FrameAcked
    <3>2. rpkt' = pkt /\ s2r' = <<>> /\ r2s' = r2s
        BY <1>4, <3>1 DEF RecvFrame, ReceiveFrame, FrameSent
    <3>3. PartsOut' = 0 /\ ackSent' = 0 /\ rframes' = frames
        BY <1>4, <1>k, <3>1, <3>2
        DEF RecvFrame, FrameSent, PartsOut, AckStartsFresh, RecvInLoop
    <3>4. (FrameRead \/ FrameAcked)'
        BY <1>4, <1>k, <3>2, <3>3, PacketAssumption
        DEF RecvFrame, FrameRead, FrameAcked, ReceiverIdle
    <3> QED
        BY <1>k, <2>2, <3>1, <3>4 DEF FrameInOnePlace
  <2> QED
      BY <2>1, <2>2
<1>5. CASE FinishRead
  <2>1. AckStartsFresh'
      BY <1>5 DEF FinishRead, AckStartsFresh
  <2>2. ASSUME Orderly
        PROVE  FrameInOnePlace'
    <3>1. spc = "wait" /\ FrameRead
        BY <1>5, <2>2 DEF FinishRead, FrameInOnePlace, Quiet, ReceiverIdle,
                          FrameSent, FrameUsed, FrameAcked
    <3>2. PartsOut' = PartsOut
        BY <1>5, <1>k DEF FinishRead, PartsOut, linkVars
    <3>3. FrameUsed'
        BY <1>5, <1>k, <3>1, <3>2
        DEF FinishRead, FrameRead, FrameUsed, InHandUntouched, linkVars
    <3> QED
        BY <1>k, <2>2, <3>1, <3>3 DEF FrameInOnePlace
  <2> QED
      BY <2>1, <2>2
<1>6. CASE SendAck
  <2>1. AckStartsFresh'
      BY <1>6 DEF SendAck, AckStartsFresh
  <2>2. ASSUME Orderly
        PROVE  FrameInOnePlace'
    <3>1. spc = "wait" /\ FrameUsed
        BY <1>6, <2>2 DEF SendAck, FrameInOnePlace, Quiet, ReceiverIdle,
                          FrameSent, FrameRead, FrameAcked
    <3>2. Len(r2s') = Len(r2s) + 1
        BY <1>6 DEF SendAck, SendAckPart, TypeOK, LinkTypeOK
    <3>3. PartsOut' = ackSent + 1
        BY <1>k, <1>l, <3>1, <3>2 DEF PartsOut, FrameUsed
    <3>4. CASE AckUnsent(ackSent + 1)
      <4>1. FrameUsed'
          BY <1>6, <1>k, <3>1, <3>3, <3>4
          DEF SendAck, SendAckPart, FrameUsed
      <4> QED
          BY <1>k, <2>2, <3>1, <4>1 DEF FrameInOnePlace
    <3>5. CASE ~AckUnsent(ackSent + 1)
      <4>1. FrameAcked'
          BY <1>6, <1>k, <1>l, <3>1, <3>3, <3>5, PacketAssumption
          DEF SendAck, SendAckPart, FrameUsed, FrameAcked, AckUnsent,
              ReceiverIdle, LoopHead
      <4> QED
          BY <1>k, <2>2, <3>1, <4>1 DEF FrameInOnePlace
    <3> QED
        BY <3>4, <3>5
  <2> QED
      BY <2>1, <2>2
<1>7. CASE OutCleanup \/ ReceiverKilled
    BY <1>1, <1>7 DEF OutCleanup, ReceiverKilled, Close, ReceiverIdle,
                      AckStartsFresh, RecvInLoop
<1>8. CASE UserQuits
  <2>1. /\ PartsOut' = PartsOut /\ s2r' = s2r /\ r2s' = r2s
        /\ ReceiverIdle' <=> ReceiverIdle
        /\ rpc' = rpc /\ rpkt' = rpkt /\ ackSent' = ackSent
        /\ rframes' = rframes /\ shown' = shown
      BY <1>8, <1>k DEF UserQuits, PartsOut, ReceiverIdle, linkVars
  <2> QED
      BY <1>k, <2>1
      DEF AckStartsFresh, RecvInLoop, FrameInOnePlace, Quiet, FrameSent,
          FrameRead, FrameUsed, FrameAcked
<1> QED
    BY <1>2, <1>3, <1>4, <1>5, <1>6, <1>7, <1>8
    DEF ReceiverNext, ReceiverStep, RecvLimitReached, PollQuit,
        StreamClosed, SendAckFails, ReadFails

LEMMA HandoverUnseen == HInv /\ TypeInv' /\ Unseen => HInv'
<1> SUFFICES ASSUME HInv, TypeInv', Unseen PROVE HInv'
    OBVIOUS
<1> QED
    BY
    DEF HInv, HandoverInv, TypeInv, OneBufferInHand, LoopHasNoExitCode,
        AllOrNoneOut, AckStartsFresh, RecvInLoop, InHandUntouched, Orderly,
        SenderOrderly,
        InLoop, FrameInOnePlace, Quiet, ReceiverIdle, FrameSent, FrameRead,
        FrameUsed, FrameAcked, PartsOut, Unseen, queueVars, senderVars,
        receiverVars

LEMMA HandoverStep == HInv /\ [Next]_vars => HInv'
<1> SUFFICES ASSUME HInv, [Next]_vars PROVE HInv'
    OBVIOUS
<1>1. TypeInv'
    BY TypeStep DEF HInv, HandoverInv, TypeInv
<1> QED
    BY <1>1, HandoverCamera, HandoverSender, HandoverReceiver,
       HandoverUnseen, NetworkUnseen
    DEF Next, Terminated

(* While no timeout was warned of, the frame in hand and its ACK are in    *)
(* exactly one place between the two programs.                             *)
THEOREM HandoverInvariant == Spec => []HandoverInv
<1>1. HInv => HandoverInv
    BY DEF HInv
<1> QED
    BY <1>1, HandoverInit, HandoverStep, PTL DEF Spec

THEOREM BufferInHand == Spec => []OneBufferInHand
<1>1. HandoverInv => OneBufferInHand
    BY DEF HandoverInv
<1> QED
    BY <1>1, HandoverInvariant, PTL

(* Until the sender warns of an ACK timeout, no frame the receiver may     *)
(* still read is overwritten by the driver or released by the sender.      *)
THEOREM Ownership == Spec => []OwnershipUntilWarning
<1>1. HInv => OwnershipUntilWarning
  <2> SUFFICES ASSUME HInv, Orderly, NEW f \in Announced
               PROVE  Intact(f)
      BY DEF OwnershipUntilWarning, Orderly
  <2>1. FrameInOnePlace /\ InHandUntouched
      BY DEF HInv, HandoverInv
  <2>2. spc = "wait"
      BY <2>1 DEF FrameInOnePlace, Quiet, ReceiverIdle, Announced, Range
  <2>3. f = pkt
    <3>1. CASE FrameSent
        BY <3>1 DEF FrameSent, ReceiverIdle, Announced, Range
    <3>2. CASE FrameRead
        BY <3>2 DEF FrameRead, Announced, Range
    <3>3. CASE FrameUsed \/ FrameAcked
        BY <3>3 DEF FrameUsed, FrameAcked, ReceiverIdle, Announced, Range
    <3> QED
        BY <2>1, <2>2, <3>1, <3>2, <3>3 DEF FrameInOnePlace
  <2> QED
      BY <2>1, <2>2, <2>3 DEF InHandUntouched, Intact, HandlesReleased
<1> QED
    BY <1>1, HandoverInit, HandoverStep, PTL DEF Spec

(* The pixels the output gets are those of the announced frame.            *)
THEOREM NoTornFrame == Spec => []ShownAsAnnounced
<1>1. HandoverInv => ShownAsAnnounced
    BY DEF HandoverInv, ShownAsAnnounced, Orderly, FrameInOnePlace, Quiet,
           ReceiverIdle, FrameSent, FrameRead, FrameUsed, FrameAcked
<1> QED
    BY <1>1, HandoverInvariant, PTL

(* A normal exit of the sender leaves no frame and no ACK on the way.      *)
THEOREM OrderlyExit == Spec => []OrderlyExitDeliversAll
<1>1. HandoverInv => OrderlyExitDeliversAll
    BY DEF HandoverInv, OrderlyExitDeliversAll, LoopHasNoExitCode, InLoop,
           Orderly, SenderOrderly, FrameInOnePlace, Quiet
<1> QED
    BY <1>1, HandoverInvariant, PTL

-----------------------------------------------------------------------------
(* Capture order                                                           *)

OInv == TypeInv /\ OrderInv

LEMMA OrderInit == Init => OInv
<1> SUFFICES ASSUME Init PROVE OInv
    OBVIOUS
<1>1. TypeInv
    BY TypeInit
<1>2. DriverInOrder /\ LinkInOrder
    BY DEF Init, QueueInit, LinkInit, DriverInOrder, LinkInOrder, NoFrame
<1>3. s2r = <<>> /\ ~Taken /\ ~Got
    BY DEF Init, LinkInit, SenderInit, ReceiverInit, Taken, Got, LoopHead
<1>4. SenderInOrder /\ SentInOrder /\ ReceivedInOrder
    BY <1>3 DEF SenderInOrder, SentInOrder, ReceivedInOrder
<1> QED
    BY <1>1, <1>2, <1>4 DEF OInv, OrderInv

LEMMA OrderTypes ==
    ASSUME TypeInv
    PROVE  /\ content \in [Buffers -> Int]
           /\ captured \in Nat
           /\ pkt.handle \in Buffers /\ pkt.sequence \in Nat
           /\ rpkt.sequence \in Nat
           /\ s2r \in Seq(zc_frame_packet) /\ Len(s2r) \in Nat
           /\ \A i \in 1..Len(s2r) : s2r[i].sequence \in Nat
           /\ frames \in Nat /\ rframes \in Nat
<1>1. \A i \in 1..Len(s2r) : s2r[i] \in zc_frame_packet
    BY DEF TypeInv, TypeOK, LinkTypeOK
<1> QED
    BY <1>1 DEF TypeInv, TypeOK, LinkTypeOK, QueueTypeOK, SenderTypeOK,
                ReceiverTypeOK, NoFrame, zc_frame_packet

LEMMA OrderCamera == OInv /\ Camera => OInv'
<1> SUFFICES ASSUME OInv, NEW b \in Buffers, Fill(b),
                    UNCHANGED <<linkVars, senderVars, receiverVars>>
             PROVE  OInv'
    BY DEF Camera
<1> USE OrderTypes DEF OInv, OrderInv
<1>1. TypeInv'
    BY CameraType DEF Camera
<1>2. DriverInOrder'
    BY DEF DriverInOrder, Fill
<1>3. SenderInOrder'
    BY DEF SenderInOrder, Fill, InLoop, Taken, senderVars
<1>4. LinkInOrder' /\ SentInOrder' /\ ReceivedInOrder'
    BY DEF LinkInOrder, SentInOrder, ReceivedInOrder, InLoop, RecvInLoop,
           Taken, Got, linkVars, senderVars, receiverVars
<1> QED
    BY <1>1, <1>2, <1>3, <1>4

LEMMA OrderSender == OInv /\ Sender => OInv'
<1> SUFFICES ASSUME OInv, SenderNext, UNCHANGED receiverVars
             PROVE  OInv'
    BY DEF Sender
<1> USE OrderTypes DEF OInv, OrderInv
<1>t. TypeInv'
    BY SenderType DEF Sender
<1>k. rpc' = rpc /\ rpkt' = rpkt /\ rframes' = rframes
    BY DEF receiverVars
<1>1. ASSUME NEW b \in Buffers, DqBuf(b)
      PROVE  OInv'
  <2>1. /\ spc = "dqbuf" /\ spc' = "send" /\ s2r' = s2r
        /\ captured' = captured /\ content' = content
        /\ pkt'.sequence = content[b]
        /\ vb2[b] = "done" /\ vb2' = [vb2 EXCEPT ![b] = "dequeued"]
        /\ \A c \in Buffers : vb2[c] = "done" => content[b] <= content[c]
      BY <1>1 DEF DqBuf, DequeueBuffer, linkVars
  <2>2. DriverInOrder' /\ SenderInOrder'
      BY <2>1 DEF DriverInOrder, SenderInOrder, TypeInv, TypeOK, QueueTypeOK
  <2>3. LinkInOrder'
      BY <2>1 DEF LinkInOrder
  <2>4. SentInOrder'
      BY <2>1 DEF SenderInOrder, SentInOrder, InLoop, Taken
  <2>5. ReceivedInOrder'
      BY <1>k, <2>1
      DEF SenderInOrder, SentInOrder, ReceivedInOrder, RecvInLoop, InLoop,
          Taken, Got
  <2> QED
      BY <1>t, <2>2, <2>3, <2>4, <2>5
<1>2. CASE SendPacket
  <2>1. /\ spc = "send" /\ spc' = "wait" /\ s2r' = Append(s2r, pkt)
        /\ pkt' = pkt /\ frames' = frames
        /\ UNCHANGED <<vb2, content, captured>>
      BY <1>2 DEF SendPacket, SendFrame, queueVars
  <2>2. /\ Len(s2r') = Len(s2r) + 1
        /\ \A i \in 1..Len(s2r) : s2r'[i] = s2r[i]
        /\ s2r'[Len(s2r) + 1] = pkt
      BY <2>1, AppendProperties DEF TypeInv, TypeOK, LinkTypeOK, SenderTypeOK
  <2>3. DriverInOrder' /\ SenderInOrder'
      BY <2>1 DEF DriverInOrder, SenderInOrder, InLoop, Taken
  <2>4. LinkInOrder'
    <3> SUFFICES ASSUME NEW i \in 1..Len(s2r'), NEW j \in 1..Len(s2r'), i < j
                 PROVE  s2r'[i].sequence < s2r'[j].sequence
        BY DEF LinkInOrder
    <3>0. j \in 1..Len(s2r) \/ j = Len(s2r) + 1
        BY <2>2
    <3>1. i \in 1..Len(s2r) /\ s2r'[i] = s2r[i]
        BY <2>2
    <3>2. CASE j \in 1..Len(s2r)
        BY <2>2, <3>1, <3>2 DEF LinkInOrder
    <3>3. CASE j = Len(s2r) + 1
        BY <2>1, <2>2, <3>1, <3>3 DEF SentInOrder, InLoop
    <3> QED
        BY <3>0, <3>2, <3>3
  <2>5. SentInOrder'
      BY <2>1, <2>2 DEF SentInOrder, InLoop, Taken
  <2>6. ReceivedInOrder'
      BY <1>k, <2>1, <2>2 DEF ReceivedInOrder, RecvInLoop, InLoop, Got
  <2> QED
      BY <1>t, <2>3, <2>4, <2>5, <2>6
<1>3. ASSUME UNCHANGED <<pkt, s2r, captured, content>>,
             \A b \in Buffers : vb2'[b] = "done" => vb2[b] = "done",
             InLoop' => InLoop /\ Taken /\ Taken',
             spc' # "send"
      PROVE  OInv'
  <2>1. DriverInOrder' /\ LinkInOrder'
      BY <1>3 DEF DriverInOrder, LinkInOrder
  <2>2. SenderInOrder' /\ SentInOrder'
      BY <1>3 DEF SenderInOrder, SentInOrder
  <2>3. ReceivedInOrder'
      BY <1>3, <1>k DEF ReceivedInOrder, RecvInLoop, Got
  <2> QED
      BY <1>t, <2>1, <2>2, <2>3
<1>4. CASE RecvAck \/ AckTimeout
    BY <1>3, <1>4 DEF RecvAck, ReceiveAckPart, AckTimeout, EndWait, InLoop,
                      Taken, linkVars, queueVars
<1>5. CASE Requeue
  <2>1. \A b \in Buffers : vb2'[b] = "done" => vb2[b] = "done"
      BY <1>5 DEF Requeue, QueueBuffer, TypeInv, TypeOK, QueueTypeOK
  <2> QED
      BY <1>3, <1>5, <2>1 DEF Requeue, QueueBuffer, InLoop, Taken, linkVars
<1>6. CASE LimitReached \/ GotoOut
    BY <1>3, <1>6 DEF LimitReached, GotoOut, InLoop, linkVars, queueVars
<1>7. CASE OutStreamOff \/ OutRelease \/ OutClose \/ SenderKilled
  <2>1. \A b \in Buffers : vb2'[b] = "done" => vb2[b] = "done"
      BY <1>7 DEF OutStreamOff, OutRelease, OutClose, SenderKilled,
                  StreamOff, queueVars
  <2> QED
      BY <1>3, <1>7, <2>1
      DEF OutStreamOff, OutRelease, OutClose, SenderKilled, StreamOff, Close,
          InLoop, linkVars, queueVars
<1> QED
    BY <1>1, <1>2, <1>4, <1>5, <1>6, <1>7
    DEF SenderNext, SenderStep, SendFails, RecvAckFails, IoctlFails

LEMMA OrderReceiver == OInv /\ Receiver => OInv'
<1> SUFFICES ASSUME OInv, ReceiverNext, UNCHANGED <<queueVars, senderVars>>
             PROVE  OInv'
    BY DEF Receiver
<1> USE OrderTypes DEF OInv, OrderInv
<1>t. TypeInv'
    BY ReceiverType DEF Receiver
<1>k. /\ spc' = spc /\ pkt' = pkt /\ frames' = frames
      /\ InLoop' <=> InLoop
      /\ Taken' <=> Taken
    BY DEF senderVars, InLoop, Taken
<1>1. DriverInOrder' /\ SenderInOrder'
    BY <1>k DEF DriverInOrder, SenderInOrder, queueVars
<1>2. CASE RecvFrame
  <2>1. /\ s2r # <<>> /\ s2r' = Tail(s2r) /\ rpkt' = s2r[1]
        /\ rframes' = rframes
      BY <1>2 DEF RecvFrame, ReceiveFrame
  <2>2. /\ Len(s2r) > 0 /\ Len(s2r') = Len(s2r) - 1
        /\ \A i \in 1..Len(s2r') : s2r'[i] = s2r[i + 1]
      BY <2>1, HeadTailProperties DEF TypeInv, TypeOK, LinkTypeOK
  <2>3. LinkInOrder'
      BY <2>1, <2>2 DEF LinkInOrder
  <2>4. InLoop => Taken
      BY <2>1 DEF SentInOrder
  <2>5. SentInOrder'
      BY <1>k, <2>2, <2>4 DEF SentInOrder
  <2>6. ReceivedInOrder'
      BY <1>k, <2>1, <2>2
      DEF ReceivedInOrder, LinkInOrder, SentInOrder, InLoop
  <2> QED
      BY <1>t, <1>1, <2>3, <2>5, <2>6
<1>3. ASSUME UNCHANGED <<s2r, rpkt>>,
             RecvInLoop' /\ Got' => RecvInLoop /\ Got,
             Got' => Got
      PROVE  OInv'
  <2>1. LinkInOrder' /\ SentInOrder'
      BY <1>3, <1>k DEF LinkInOrder, SentInOrder
  <2>2. ReceivedInOrder'
      BY <1>3, <1>k DEF ReceivedInOrder
  <2> QED
      BY <1>t, <1>1, <2>1, <2>2
<1>4. ASSUME NEW code \in {0, 1}, GotoRecvOut(code)
      PROVE  OInv'
    BY <1>3, <1>4 DEF GotoRecvOut, RecvInLoop, Got, linkVars
<1>5. CASE PollIdle \/ FinishRead \/ UserQuits
    BY <1>3, <1>5 DEF PollIdle, FinishRead, UserQuits, RecvInLoop, Got,
                      linkVars
<1>6. CASE SendAck
    BY <1>3, <1>6 DEF SendAck, SendAckPart, RecvInLoop, Got
<1>7. CASE OutCleanup \/ ReceiverKilled
    BY <1>3, <1>7 DEF OutCleanup, ReceiverKilled, Close, RecvInLoop, Got
<1> QED
    BY <1>2, <1>4, <1>5, <1>6, <1>7
    DEF ReceiverNext, ReceiverStep, RecvLimitReached, PollQuit,
        StreamClosed, SendAckFails, ReadFails

LEMMA OrderUnseen == OInv /\ TypeInv' /\ Unseen => OInv'
BY
    DEF OInv, OrderInv, DriverInOrder, SenderInOrder, LinkInOrder,
        SentInOrder, ReceivedInOrder, InLoop, RecvInLoop, Taken, Got,
        Unseen, queueVars, senderVars, receiverVars

LEMMA OrderStep == OInv /\ [Next]_vars => OInv'
<1>1. OInv /\ [Next]_vars => TypeInv'
    BY TypeStep DEF OInv
<1> QED
    BY <1>1, OrderCamera, OrderSender, OrderReceiver, OrderUnseen,
       NetworkUnseen
    DEF Next, Terminated

(* The receiver never gets an older frame after a newer one, nor one frame *)
(* twice, whatever times out.                                              *)
THEOREM CaptureOrder == Spec => FramesInOrder
<1>1. OInv /\ [Next]_vars =>
        [rpc = "recv" /\ rpc' = "read" /\ rframes > 0
            => rpkt'.sequence > rpkt.sequence]_vars
  <2> SUFFICES ASSUME OInv, [Next]_vars,
                      rpc = "recv", rpc' = "read", rframes > 0
               PROVE  rpkt'.sequence > rpkt.sequence
      OBVIOUS
  <2>1. RecvFrame
      BY DEF Next, Camera, Sender, Receiver, Network, Terminated, vars,
             receiverVars, ReceiverNext, ReceiverStep, RecvLimitReached, PollQuit, PollIdle,
             StreamClosed, FinishRead, SendAck, SendAckFails, OutCleanup,
             UserQuits, ReadFails, ReceiverKilled, GotoRecvOut
  <2>2. s2r # <<>> /\ rpkt' = s2r[1]
      BY <2>1 DEF RecvFrame, ReceiveFrame
  <2>3. 1 \in 1..Len(s2r)
      BY <2>2 DEF OInv, TypeInv, TypeOK, LinkTypeOK
  <2> QED
      BY <2>2, <2>3, OrderTypes
      DEF OInv, OrderInv, ReceivedInOrder, RecvInLoop, Got
<1> QED
    BY <1>1, OrderInit, OrderStep, PTL DEF Spec, FramesInOrder

-----------------------------------------------------------------------------
(* The handover is implemented                                             *)

AllInv == HInv /\ OInv /\ ShownInv

LEMMA ShownInit == Init => ShownInv
BY DEF Init, ReceiverInit, ShownInv, Got, LoopHead

LEMMA ShownStep == AllInv /\ [Next]_vars => ShownInv'
<1> SUFFICES ASSUME AllInv, [Next]_vars, Orderly', RecvInLoop'
             PROVE  ShownInv'
    BY DEF ShownInv
<1>1. TypeInv /\ HandoverInv /\ OrderInv /\ ShownInv
    BY DEF AllInv, HInv, OInv
<1>2. CASE UNCHANGED receiverVars
  <2>1. Orderly
      BY <1>2 DEF Next, Camera, Sender, Receiver, Network, Terminated, vars,
             senderVars, SenderNext, SenderStep, DqBuf, SendPacket, RecvAck, EndWait,
             AckTimeout, Requeue, LimitReached, SendFails, RecvAckFails,
             IoctlFails, GotoOut, OutStreamOff, OutRelease, OutClose,
             SenderKilled, Orderly, SenderOrderly, InLoop
  <2> QED
      BY <1>1, <1>2, <2>1 DEF ShownInv, RecvInLoop, Got, receiverVars
<1>3. ASSUME Receiver
      PROVE  ShownInv'
  <2>1. Orderly
      BY <1>3 DEF Receiver, Orderly, SenderOrderly, InLoop, senderVars
  <2>2. CASE RecvFrame
    <3>1. rpc = "recv" /\ s2r # <<>> /\ rpkt' = s2r[1] /\ shown' = shown
        BY <2>2 DEF RecvFrame, ReceiveFrame
    <3>2. 1 \in 1..Len(s2r)
        BY <1>1, <3>1 DEF TypeInv, TypeOK, LinkTypeOK
    <3>3. shown < rpkt'.sequence
        BY <1>1, <2>1, <3>1, <3>2, OrderTypes
        DEF ShownInv, RecvInLoop, OrderInv, ReceivedInOrder, NoFrame
    <3> QED
        BY <2>2, <3>3 DEF RecvFrame, ShownInv, RecvInLoop
  <2>3. CASE FinishRead
    <3>1. rpkt = pkt /\ content[pkt.handle] = pkt.sequence
        BY <1>1, <2>1, <2>3
        DEF FinishRead, HandoverInv, FrameInOnePlace, Quiet, ReceiverIdle,
            FrameSent, FrameRead, FrameUsed, FrameAcked, InHandUntouched
    <3> QED
        BY <2>3, <3>1 DEF FinishRead, ShownInv, Got
  <2>4. CASE PollIdle \/ UserQuits
      BY <1>1, <2>1, <2>4 DEF PollIdle, UserQuits, ShownInv, RecvInLoop, Got
  <2>5. CASE SendAck
    <3>1. rframes \in Nat
        BY <1>1, OrderTypes
    <3>2. rframes' > 0 \/ rpc' = "ack"
        BY <2>5, <3>1 DEF SendAck
    <3> QED
        BY <1>1, <2>1, <2>5, <3>2
        DEF SendAck, LoopHead, ShownInv, RecvInLoop, Got
  <2> QED
      BY <1>3, <2>2, <2>3, <2>4, <2>5
      DEF Receiver, ReceiverNext, ReceiverStep, RecvLimitReached, PollQuit,
          StreamClosed, SendAckFails, ReadFails, GotoRecvOut, OutCleanup,
          ReceiverKilled, RecvInLoop
<1> QED
    BY <1>2, <1>3 DEF Next, Camera, Sender, Network, Terminated, vars

LEMMA AllStep == AllInv /\ [Next]_vars => AllInv'
BY HandoverStep, OrderStep, ShownStep DEF AllInv

LEMMA HandoverStarts == Init => Handover!Init
BY DEF Init, QueueInit, SenderInit, ReceiverInit, Handover!Init, owner,
       OwnerOf, over,
       NoFrame, SenderOrderly, InLoop, RecvInLoop, LoopHead

(* A buffer changes its owner, every other one keeps it.                   *)
LEMMA OwnerMoves ==
    ASSUME NEW b \in Buffers, NEW from, NEW to,
           owner[b] = from, owner'[b] = to,
           \A c \in Buffers : c # b => owner'[c] = owner[c]
    PROVE  Handover!Moves(b, from, to)
<1>1. /\ owner = [c \in Buffers |-> owner[c]]
      /\ owner' = [c \in Buffers |-> owner'[c]]
    BY DEF owner
<1>2. owner' = [owner EXCEPT ![b] = to]
    BY <1>1
<1> QED
    BY <1>2 DEF Handover!Moves

LEMMA HandoverImplemented ==
    AllInv /\ [Next]_vars => [Handover!Next]_(Handover!handoverVars)
<1> SUFFICES ASSUME AllInv, [Next]_vars, ~over'
             PROVE  [Handover!Next]_(Handover!handoverVars)
    BY DEF Handover!Next
<1>i. TypeInv /\ HandoverInv /\ OrderInv /\ ShownInv
    BY DEF AllInv, HInv, OInv
<1>o. /\ Orderly' /\ RecvInLoop'
      /\ Orderly => SenderOrderly /\ ~ack_timeout_warned
    BY DEF over, Orderly
<1>1. CASE Unseen
    BY <1>1 DEF Handover!handoverVars, owner, OwnerOf, over, Unseen,
                queueVars, senderVars, receiverVars, SenderOrderly, InLoop,
                RecvInLoop
<1>2. CASE Camera
  <2>1. PICK b \in Buffers : Fill(b)
      BY <1>2 DEF Camera
  <2>2. UNCHANGED <<linkVars, senderVars, receiverVars>>
      BY <1>2 DEF Camera
  <2>3. Handover!Moves(b, "driver", "captured")
      BY <1>i, <2>1, <2>2, OwnerMoves
      DEF Fill, owner, OwnerOf, InLoop, TypeInv, TypeOK, QueueTypeOK, linkVars,
          senderVars, receiverVars
  <2>4. over' = over /\ shown' = shown /\ ~over
      BY <2>2 DEF over, SenderOrderly, InLoop, RecvInLoop, senderVars,
                  receiverVars
  <2> QED
      BY <2>1, <2>3, <2>4 DEF Fill, Handover!Next, Handover!Capture
<1>3. CASE Sender
  <2>k. UNCHANGED <<rpc, rpkt, rframes, shown>> /\ SenderNext
      BY <1>3 DEF Sender, receiverVars
  <2>1. ASSUME NEW b \in Buffers, DqBuf(b)
        PROVE  Handover!Next
    <3>1. /\ \A c \in Buffers : vb2[c] # "dequeued"
          /\ spc = "dqbuf" /\ spc' = "send"
          /\ vb2[b] = "done" /\ vb2' = [vb2 EXCEPT ![b] = "dequeued"]
          /\ \A c \in Buffers : vb2[c] = "done" => content[b] <= content[c]
        BY <1>i, <2>1
        DEF DqBuf, DequeueBuffer, HandoverInv, OneBufferInHand, InLoop
    <3>2. \A c \in Buffers :
              /\ owner[c] \in {"driver", "captured"}
              /\ owner[c] = "captured" => vb2[c] = "done"
        BY <1>i, <3>1 DEF owner, OwnerOf, TypeInv, TypeOK, QueueTypeOK
    <3>3. Handover!Moves(b, "captured", "sender")
        BY <1>i, <3>1, <3>2, OwnerMoves
        DEF owner, OwnerOf, InLoop, TypeInv, TypeOK, QueueTypeOK
    <3>4. UNCHANGED <<content, captured, shown, over>> /\ ~over
        BY <2>1, <2>k, <1>o
        DEF DqBuf, DequeueBuffer, over, SenderOrderly, InLoop, RecvInLoop
    <3> QED
        BY <3>1, <3>2, <3>3, <3>4 DEF Handover!Next, Handover!Take
  <2>2. CASE SendPacket
    <3>1. /\ spc = "send" /\ spc' = "wait" /\ s2r' = Append(s2r, pkt)
          /\ UNCHANGED <<vb2, content, captured, pkt>>
        BY <2>2 DEF SendPacket, SendFrame, queueVars
    <3>2. s2r' # <<>>
        BY <1>i, <3>1, AppendProperties
        DEF TypeInv, TypeOK, LinkTypeOK, SenderTypeOK
    <3>3. pkt.handle \in Buffers
        BY <1>i, OrderTypes
    <3>4. /\ \A c \in Buffers : vb2[c] = "dequeued" <=> c = pkt.handle
          /\ vb2 \in [Buffers -> {"queued", "done", "dequeued"}]
        BY <1>i, <3>1 DEF HandoverInv, OneBufferInHand, InLoop, TypeInv,
                          TypeOK, QueueTypeOK
    <3>5. Handover!Moves(pkt.handle, "sender", "receiver")
        BY <3>1, <3>2, <3>3, <3>4, OwnerMoves DEF owner, OwnerOf, InLoop
    <3>6. UNCHANGED <<content, captured, shown, over>> /\ ~over
        BY <2>2, <2>k, <3>1, <1>o
        DEF SendPacket, over, SenderOrderly, InLoop, RecvInLoop
    <3> QED
        BY <3>3, <3>5, <3>6 DEF Handover!Next, Handover!Lend
  <2>3. CASE RecvAck
    <3>1. /\ spc = "wait" /\ spc' \in {"wait", "requeue"} /\ s2r' = s2r
          /\ UNCHANGED <<vb2, content, captured, pkt>>
          /\ ack_timeout_warned' = ack_timeout_warned
        BY <2>3 DEF RecvAck, ReceiveAckPart, EndWait, queueVars
    <3>2. owner' = owner
        BY <2>k, <3>1 DEF owner, OwnerOf, InLoop
    <3> QED
        BY <2>k, <3>1, <3>2, <1>o
        DEF over, SenderOrderly, InLoop, RecvInLoop, Handover!handoverVars
  <2>4. CASE AckTimeout
      BY <2>4, <1>o DEF AckTimeout, Orderly
  <2>5. CASE Requeue
    <3>1. /\ spc = "requeue" /\ spc' = "dqbuf" /\ s2r' = s2r
          /\ vb2' = [vb2 EXCEPT ![pkt.handle] = "queued"]
          /\ UNCHANGED <<content, captured>>
        BY <2>5 DEF Requeue, QueueBuffer, linkVars
    <3>2. pkt.handle \in Buffers
        BY <1>i, OrderTypes
    <3>3. /\ \A c \in Buffers : vb2[c] = "dequeued" <=> c = pkt.handle
          /\ vb2 \in [Buffers -> {"queued", "done", "dequeued"}]
        BY <1>i, <3>1 DEF HandoverInv, OneBufferInHand, InLoop, TypeInv,
                          TypeOK, QueueTypeOK
    <3>4. UNCHANGED <<content, captured, shown, over>> /\ ~over
        BY <2>5, <2>k, <3>1, <1>o
        DEF Requeue, over, SenderOrderly, InLoop, RecvInLoop
    <3>5. s2r = <<>> /\ rpc # "read"
        BY <1>i, <3>1, <3>4
        DEF HandoverInv, FrameInOnePlace, Quiet, ReceiverIdle, over, Orderly
    <3>6. Handover!Moves(pkt.handle, "returned", "driver")
        BY <3>1, <3>2, <3>3, <3>5, OwnerMoves DEF owner, OwnerOf, InLoop
    <3> QED
        BY <3>2, <3>4, <3>6 DEF Handover!Next, Handover!GiveBack
  <2>6. CASE LimitReached
    <3>1. \A c \in Buffers : vb2[c] # "dequeued"
        BY <1>i, <2>6 DEF LimitReached, HandoverInv, OneBufferInHand, InLoop
    <3>2. owner' = owner
        BY <2>6, <2>k, <3>1 DEF LimitReached, owner, OwnerOf, InLoop, queueVars
    <3>3. UNCHANGED <<content, captured, shown, over>>
        BY <2>6, <2>k, <1>o
        DEF LimitReached, over, SenderOrderly, InLoop, RecvInLoop, queueVars
    <3> QED
        BY <3>2, <3>3 DEF Handover!handoverVars
  <2>7. CASE GotoOut /\ InLoop
      BY <1>i, <1>o, <2>7
      DEF GotoOut, HandoverInv, LoopHasNoExitCode, Orderly, SenderOrderly,
          InLoop
  <2>8. ASSUME spc \in {"streamoff", "close"}, spc' \in {"release", "done"},
               StreamOff, UNCHANGED <<rc, ack_timeout_warned>>
        PROVE  [Handover!Next]_(Handover!handoverVars)
    <3>1. /\ ~InLoop /\ ~InLoop' /\ vb2' = [b \in Buffers |-> "dequeued"]
          /\ UNCHANGED <<content, captured>>
        BY <2>8 DEF StreamOff, InLoop
    <3>2. UNCHANGED <<content, captured, shown, over>> /\ ~over
        BY <2>k, <2>8, <3>1, <1>o DEF over, SenderOrderly, RecvInLoop
    <3>3. rc = 0 /\ AllOrNoneOut
        BY <1>i, <3>1, <3>2 DEF over, SenderOrderly, HandoverInv
    <3>4. owner' = [b \in Buffers |-> "stopped"]
        BY <2>8, <3>1 DEF owner, OwnerOf, InLoop
    <3>5. CASE \A c \in Buffers : vb2[c] # "dequeued"
      <4>1. \A c \in Buffers : vb2[c] \in {"queued", "done"}
          BY <1>i, <3>5 DEF TypeInv, TypeOK, QueueTypeOK
      <4>2. \A c \in Buffers : owner[c] \in {"driver", "captured"}
          BY <4>1 DEF owner, OwnerOf
      <4> QED
          BY <3>2, <3>4, <4>2 DEF Handover!Next, Handover!Stop
    <3>6. CASE \A c \in Buffers : vb2[c] = "dequeued"
      <4>1. owner = [b \in Buffers |-> "stopped"]
          BY <2>8, <3>6 DEF owner, OwnerOf, InLoop
      <4> QED
          BY <3>2, <3>4, <4>1 DEF Handover!handoverVars
    <3> QED
        BY <3>3, <3>5, <3>6 DEF AllOrNoneOut
  <2>9. ASSUME spc \in {"streamoff", "release"},
               spc' \in {"release", "close"},
               UNCHANGED <<queueVars, rc, ack_timeout_warned>>
        PROVE  [Handover!Next]_(Handover!handoverVars)
    <3>1. /\ ~InLoop /\ ~InLoop' /\ rc' = rc
          /\ UNCHANGED <<vb2, content, captured, ack_timeout_warned>>
        BY <2>9 DEF InLoop, queueVars
    <3>2. owner' = owner
        BY <3>1 DEF owner, OwnerOf, InLoop
    <3> QED
        BY <2>k, <3>1, <3>2
        DEF over, SenderOrderly, RecvInLoop, Handover!handoverVars
  <2>10. CASE SenderKilled
      BY <2>10, <1>o DEF SenderKilled, Orderly, SenderOrderly, InLoop
  <2> QED
      BY <2>k, <2>1, <2>2, <2>3, <2>4, <2>5, <2>6, <2>7, <2>8, <2>9, <2>10
      DEF SenderNext, SenderStep, SendFails, RecvAckFails, IoctlFails,
          OutStreamOff, OutRelease, OutClose, InLoop
<1>4. CASE Receiver
  <2>k. /\ UNCHANGED <<spc, pkt, rc, ack_timeout_warned, vb2, content>>
        /\ UNCHANGED <<captured, ack_net>>
        /\ InLoop' <=> InLoop
        /\ Orderly
        /\ ReceiverNext
      BY <1>4, <1>o DEF Receiver, InLoop, Orderly, SenderOrderly, senderVars,
                        queueVars
  <2>1. CASE RecvFrame
    <3>1. /\ rpc = "recv" /\ rpc' = "read" /\ s2r # <<>> /\ shown' = shown
        BY <2>1, <1>o DEF RecvFrame, ReceiveFrame, RecvInLoop
    <3>2. owner' = owner
        BY <2>k, <3>1 DEF owner, OwnerOf, InLoop
    <3> QED
        BY <2>k, <3>1, <3>2
        DEF over, SenderOrderly, RecvInLoop, Handover!handoverVars
  <2>2. CASE FinishRead
    <3>1. /\ rpc = "read" /\ rpc' = "ack" /\ s2r' = s2r
          /\ shown' = content[rpkt.handle]
        BY <2>2 DEF FinishRead, linkVars
    <3>2. /\ spc = "wait" /\ s2r = <<>> /\ rpkt = pkt
          /\ content[pkt.handle] = pkt.sequence
        BY <1>i, <2>k, <3>1
        DEF HandoverInv, FrameInOnePlace, Quiet, ReceiverIdle, FrameSent,
            FrameRead, FrameUsed, FrameAcked, InHandUntouched
    <3>3. pkt.handle \in Buffers
        BY <1>i, OrderTypes
    <3>4. /\ \A c \in Buffers : vb2[c] = "dequeued" <=> c = pkt.handle
          /\ vb2 \in [Buffers -> {"queued", "done", "dequeued"}]
        BY <1>i, <3>2 DEF HandoverInv, OneBufferInHand, InLoop, TypeInv,
                          TypeOK, QueueTypeOK
    <3>5. Handover!Moves(pkt.handle, "receiver", "returned")
        BY <2>k, <3>1, <3>2, <3>3, <3>4, OwnerMoves DEF owner, OwnerOf, InLoop
    <3>6. content[pkt.handle] > shown
        BY <1>i, <2>k, <3>1, <3>2, OrderTypes DEF ShownInv, RecvInLoop
    <3>7. UNCHANGED <<content, captured, over>> /\ ~over
        BY <2>k, <3>1 DEF over, Orderly, SenderOrderly, RecvInLoop
    <3> QED
        BY <3>1, <3>2, <3>3, <3>5, <3>6, <3>7 DEF Handover!Next, Handover!Use
  <2>3. CASE PollIdle \/ UserQuits \/ SendAck
    <3>1. /\ UNCHANGED <<s2r, shown>>
          /\ (rpc # "read" /\ rpc' # "read") \/ rpc' = rpc
          /\ RecvInLoop
        BY <2>3 DEF PollIdle, UserQuits, SendAck, SendAckPart, LoopHead,
                    RecvInLoop, linkVars
    <3>2. owner' = owner
        BY <2>k, <3>1 DEF owner, OwnerOf, InLoop
    <3> QED
        BY <2>k, <3>1, <3>2, <1>o
        DEF over, SenderOrderly, Handover!handoverVars
  <2> QED
      BY <1>o, <2>k, <2>1, <2>2, <2>3
      DEF ReceiverNext, ReceiverStep, RecvLimitReached, PollQuit,
          StreamClosed, SendAckFails, ReadFails, GotoRecvOut, OutCleanup,
          ReceiverKilled, RecvInLoop
<1> QED
    BY <1>1, <1>2, <1>3, <1>4, NetworkUnseen DEF Next, Terminated

(* The two programs, the driver and the connection together implement the  *)
(* handover of FrameHandover.                                              *)
THEOREM Refinement == Spec => ImplementsHandover
<1>1. Init => AllInv
    BY HandoverInit, OrderInit, ShownInit DEF AllInv
<1> QED
    BY <1>1, AllStep, HandoverStarts, HandoverImplemented, PTL
    DEF Spec, ImplementsHandover, Handover!Spec
=============================================================================
