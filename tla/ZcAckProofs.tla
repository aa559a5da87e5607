----------------------------- MODULE ZcAckProofs -----------------------------
(***************************************************************************)
(* Theorems about the ACKs of ZcStream: how many are on the way after a    *)
(* timeout, whose ACK the sender reads, and that the two send_all never    *)
(* wait for each other.                                                    *)
(***************************************************************************)
EXTENDS ZcStreamProofs

-----------------------------------------------------------------------------
(* The clamp                                                               *)

CInv == TypeInv /\ ClampInv

LEMMA ClampInit == Init => CInv
<1>1. Init => Len(s2r) = 0
    BY DEF Init, LinkInit
<1> QED
    BY <1>1, TypeInit, SenderAssumption
    DEF Init, LinkInit, SenderInit, NoPacket, CInv, ClampInv

LEMMA ClampStep == CInv /\ [Next]_vars => CInv'
<1> SUFFICES ASSUME CInv, [Next]_vars PROVE ClampInv'
    BY TypeStep DEF CInv
<1> USE DEF CInv, ClampInv
<1>0. s2r \in Seq(zc_frame_packet)
    BY DEF TypeInv, TypeOK, LinkTypeOK
<1>1. CASE UNCHANGED <<pkt, s2r>>
    BY <1>1
<1>2. ASSUME NEW b \in Buffers, DqBuf(b)
      PROVE  ClampInv'
    BY <1>2, SenderAssumption DEF DqBuf, Clamp, linkVars
<1>3. CASE SendPacket
  <2>1. s2r' = Append(s2r, pkt) /\ pkt' = pkt /\ pkt \in zc_frame_packet
      BY <1>3 DEF SendPacket, SendFrame, TypeInv, TypeOK, SenderTypeOK
  <2>2. \A i \in 1..Len(s2r') :
            s2r'[i] = pkt \/ (i \in 1..Len(s2r) /\ s2r'[i] = s2r[i])
      BY <1>0, <2>1
  <2> QED
      BY <2>1, <2>2
<1>4. CASE RecvFrame /\ UNCHANGED senderVars
  <2>1. /\ s2r' = Tail(s2r) /\ s2r # <<>> /\ pkt' = pkt
      BY <1>4 DEF RecvFrame, ReceiveFrame, senderVars
  <2>2. /\ Len(s2r') = Len(s2r) - 1
        /\ \A i \in 1..Len(s2r') : s2r'[i] = s2r[i + 1]
      BY <1>0, <2>1
  <2> QED
      BY <1>0, <2>1, <2>2
<1>5. ASSUME Camera \/ Network \/ UNCHANGED vars
      PROVE  UNCHANGED <<pkt, s2r>>
    BY <1>5 DEF Camera, Network, DeliverAckPart, vars, linkVars, senderVars
<1>6. ASSUME Sender, \A b \in Buffers : ~DqBuf(b), ~SendPacket
      PROVE  UNCHANGED <<pkt, s2r>>
    BY <1>6 DEF Sender, SenderNext, SenderStep, RecvAck, ReceiveAckPart,
                AckTimeout, Requeue, LimitReached, SendFails, RecvAckFails,
                IoctlFails, GotoOut, OutStreamOff, OutRelease, OutClose,
                SenderKilled, Close, linkVars
<1>7. ASSUME Receiver, ~RecvFrame
      PROVE  UNCHANGED <<pkt, s2r>>
    BY <1>7 DEF Receiver, ReceiverNext, ReceiverStep, RecvLimitReached,
                PollQuit, PollIdle, StreamClosed, FinishRead, SendAck,
                SendAckPart, SendAckFails, ReadFails, OutCleanup, UserQuits,
                ReceiverKilled, GotoRecvOut, Close, linkVars, senderVars
<1> QED
    BY <1>1, <1>2, <1>3, <1>4, <1>5, <1>6, <1>7
    DEF Next, Terminated, Receiver

(* With an import as long as the capture buffer the receiver refuses no    *)
(* frame for its size, whatever bytesused the driver reports.              *)
THEOREM ClampSuffices == Spec => []ClampPreventsRejection
<1>1. CInv => ClampPreventsRejection
  <2> SUFFICES ASSUME CInv, BufLen <= ImportLen, NEW i \in 1..Len(s2r)
               PROVE  ~Oversized(s2r[i])
      BY DEF ClampPreventsRejection
  <2>0. s2r[i] \in zc_frame_packet
      BY DEF CInv, TypeInv, TypeOK, LinkTypeOK
  <2>1. s2r[i].bytesused \in Nat
      BY <2>0 DEF zc_frame_packet
  <2>2. s2r[i].bytesused <= BufLen
      BY DEF CInv, ClampInv
  <2> QED
      BY <2>1, <2>2, SenderAssumption, ReceiverAssumption DEF Oversized
<1> QED
    BY <1>1, ClampInit, ClampStep, PTL DEF Spec

-----------------------------------------------------------------------------
(* The backlog                                                             *)

NInv == HInv /\ CountInv

(* The parts the receiver will still send of the frame it has.             *)
Owed == IF rpc \in {"read", "ack"} THEN AckUnits - ackSent ELSE 0

(* The parts of the frames in the connection.                              *)
Coming == AckUnits * Len(s2r)

(* The parts of n announced frames, in a form the provers can count with.  *)
LEMMA UnitsOf ==
    ASSUME NEW n \in Nat
    PROVE  /\ AckUnits * n \in Nat
           /\ AckUnits * (n + 1) = AckUnits * n + AckUnits
BY PacketAssumption

(* More frames, more parts.                                                *)
LEMMA ProductGrows ==
    ASSUME NEW m \in Nat, NEW n \in Nat, m <= n
    PROVE  AckUnits * m <= AckUnits * n
BY PacketAssumption

(* The most parts the timeouts can have left behind.                       *)
Most == AckUnits * timeouts

CountFacts ==
    /\ Len(s2r) \in Nat /\ Len(r2s) \in Nat /\ Len(ack_net) \in Nat
    /\ ackSent \in Nat /\ ackSent < AckUnits
    /\ timeouts \in Nat /\ ack_timeout_warned \in BOOLEAN
    /\ AckUnits \in Nat \ {0}
    /\ Coming \in Nat /\ Owed \in Nat /\ Most \in Nat
    /\ Backlog \in Nat

BacklogSum == Backlog = Coming + Len(r2s) + Owed

LEMMA CountTypes == TypeInv => CountFacts /\ BacklogSum
<1> SUFFICES ASSUME TypeInv PROVE CountFacts /\ BacklogSum
    OBVIOUS
<1>1. /\ Len(s2r) \in Nat /\ Len(r2s) \in Nat /\ Len(ack_net) \in Nat
      /\ ackSent \in Nat /\ ackSent < AckUnits /\ AckUnits \in Nat \ {0}
      /\ timeouts \in Nat /\ ack_timeout_warned \in BOOLEAN
    BY PacketAssumption DEF TypeInv, TypeOK, LinkTypeOK, SenderTypeOK,
                            ReceiverTypeOK
<1>2. Coming \in Nat /\ Most \in Nat
    BY <1>1, UnitsOf DEF Coming, Most
<1>3. Owed \in Nat
    BY <1>1 DEF Owed
<1>4. Backlog = Coming + Len(r2s) + Owed
    BY DEF Backlog, Owed, Coming
<1> QED
    BY <1>1, <1>2, <1>3, <1>4 DEF CountFacts, BacklogSum

LEMMA CountTypesNext == TypeInv' => CountFacts' /\ BacklogSum'
BY CountTypes, PTL

LEMMA CountInit == Init => NInv
<1> SUFFICES ASSUME Init PROVE CountInv
    BY HandoverInit DEF NInv
<1>1. TypeInv
    BY TypeInit
<1>2. /\ Len(s2r) = 0 /\ Len(r2s) = 0 /\ timeouts = 0 /\ spc = "dqbuf"
      /\ ~ack_timeout_warned /\ rpc \notin {"read", "ack"}
    BY DEF Init, LinkInit, SenderInit, ReceiverInit, LoopHead
<1>3. AckUnits * 0 = 0
    BY PacketAssumption
<1>4. Overdue = 0
    BY <1>2, <1>3 DEF Overdue, Backlog
<1> QED
    BY <1>2, <1>3, <1>4
    DEF CountInv, WaitReadsOneAck, WarnedCounts, OverdueCounts

(* OverdueCounts with the product named.                                   *)
MostCounts ==
    RecvInLoop /\ InLoop => timeouts <= Overdue /\ Overdue <= Most

(* Only a timeout adds to what is overdue: a packet sent, or an ACK read,  *)
(* is that of the frame in hand, or stands for one.                        *)
LEMMA OverdueKept ==
    ASSUME NInv, SenderNext, UNCHANGED receiverVars, ~AckTimeout, InLoop'
    PROVE  InLoop /\ Overdue' = Overdue
<1>y. TypeInv
    BY DEF NInv, HInv, HandoverInv, TypeInv
<1>t. TypeInv'
    BY <1>y, SenderType DEF Sender
<1>f. CountFacts /\ BacklogSum
    BY <1>y, CountTypes
<1>n. CountFacts' /\ BacklogSum'
    BY <1>t, CountTypesNext
<1>m. WaitReadsOneAck
    BY DEF NInv, CountInv
<1>k. /\ rpc' = rpc /\ ackSent' = ackSent /\ (RecvInLoop' <=> RecvInLoop)
      /\ Owed' = Owed
      /\ s2r' = s2r => Coming' = Coming
    BY DEF receiverVars, RecvInLoop, Owed, Coming
<1>1. ASSUME NEW b \in Buffers, DqBuf(b)
      PROVE  InLoop /\ Overdue' = Overdue
  <2>1. /\ spc = "dqbuf" /\ spc' = "send" /\ ack_net' = <<>>
        /\ s2r' = s2r /\ r2s' = r2s /\ timeouts' = timeouts
        /\ ack_timeout_warned' = ack_timeout_warned
      BY <1>1 DEF DqBuf, linkVars
  <2>2. Overdue' = Overdue
      BY <1>f, <1>n, <1>k, <2>1 DEF CountFacts, Overdue, BacklogSum
  <2> QED
      BY <2>1, <2>2 DEF InLoop
<1>2. CASE SendPacket
  <2>1. /\ spc = "send" /\ spc' = "wait" /\ ack_net' = <<>>
        /\ s2r' = Append(s2r, pkt) /\ r2s' = r2s /\ timeouts' = timeouts
        /\ ack_timeout_warned' = ack_timeout_warned
      BY <1>m, <1>2 DEF SendPacket, SendFrame, WaitReadsOneAck
  <2>2. Len(s2r') = Len(s2r) + 1 /\ Len(ack_net') = 0
      BY <2>1 DEF TypeInv, TypeOK, LinkTypeOK
  <2>3. Coming' = Coming + AckUnits
      BY <2>2, UnitsOf DEF Coming
  <2>4. Backlog' = Backlog + AckUnits
      BY <1>f, <1>n, <1>k, <2>1, <2>3 DEF CountFacts, BacklogSum
  <2>5. Overdue' = Overdue
      BY <1>f, <1>n, <2>1, <2>2, <2>4 DEF CountFacts, Overdue, BacklogSum
  <2> QED
      BY <2>1, <2>5 DEF InLoop
<1>3. CASE RecvAck
  <2>0. /\ r2s # <<>> /\ s2r' = s2r /\ Len(r2s') = Len(r2s) - 1
        /\ r2s \in Seq(zc_ack_part)
      BY <1>y, <1>3, PartArrived DEF RecvAck, TypeInv, TypeOK, LinkTypeOK
  <2>1. /\ spc = "wait"
        /\ ack_net' = Append(ack_net, Head(r2s))
        /\ s2r' = s2r /\ timeouts' = timeouts
        /\ ack_timeout_warned' = ack_timeout_warned
        /\ spc' = IF Len(ack_net') < AckUnits THEN "wait" ELSE "requeue"
      BY <1>3, <2>0 DEF RecvAck, AckIncomplete, EndWait
  <2>2. Len(r2s') = Len(r2s) - 1 /\ Len(ack_net') = Len(ack_net) + 1
      BY <1>y, <2>0, <2>1 DEF TypeInv, TypeOK, SenderTypeOK
  <2>3. Backlog' = Backlog - 1
      BY <1>f, <1>n, <1>k, <2>1, <2>2 DEF CountFacts, BacklogSum
  <2>4. Overdue' = Overdue
    <3>1. CASE spc' = "wait"
        BY <1>f, <1>n, <2>1, <2>2, <2>3, <3>1 DEF CountFacts, Overdue
    <3>2. CASE spc' = "requeue"
      <4>1. Overdue' = Backlog' /\ Overdue = Backlog + Len(ack_net) - AckUnits
          BY <2>1, <3>2 DEF Overdue
      <4>2. Len(ack_net) < AckUnits /\ ~(Len(ack_net') < AckUnits)
          BY <1>m, <2>1, <3>2 DEF WaitReadsOneAck
      <4>0. Len(ack_net) \in Nat /\ AckUnits \in Nat
          BY <1>f DEF CountFacts
      <4>3. Len(ack_net) - AckUnits = -1
          BY <2>2, <4>0, <4>2
      <4>4. Overdue = Backlog + (Len(ack_net) - AckUnits)
          BY <4>1
      <4> QED
          BY <2>3, <4>1, <4>3, <4>4
    <3> QED
        BY <2>1, <3>1, <3>2
  <2> QED
      BY <2>1, <2>4 DEF InLoop
<1>4. CASE Requeue
  <2>1. /\ spc = "requeue" /\ spc' = "dqbuf" /\ s2r' = s2r /\ r2s' = r2s
      BY <1>4 DEF Requeue, linkVars
  <2> QED
      BY <1>f, <1>n, <1>k, <2>1 DEF CountFacts, Overdue, BacklogSum, InLoop
<1> QED
    BY <1>1, <1>2, <1>3, <1>4
    DEF SenderNext, SenderStep, SendFails, RecvAckFails, IoctlFails, GotoOut,
        LimitReached, OutStreamOff, OutRelease, OutClose, SenderKilled, InLoop

LEMMA CountSender == NInv /\ Sender => CountInv'
<1> SUFFICES ASSUME NInv, SenderNext, UNCHANGED receiverVars
             PROVE  CountInv'
    BY DEF Sender
<1>y. TypeInv
    BY DEF NInv, HInv, HandoverInv, TypeInv
<1>t. TypeInv'
    BY <1>y, SenderType DEF Sender
<1>f. CountFacts /\ BacklogSum
    BY <1>y, CountTypes
<1>n. CountFacts' /\ BacklogSum'
    BY <1>t, CountTypesNext
<1>m. /\ WaitReadsOneAck /\ WarnedCounts /\ MostCounts
      /\ (WaitReadsOneAck /\ WarnedCounts /\ MostCounts)' => CountInv'
    BY DEF NInv, CountInv, OverdueCounts, MostCounts, Most
<1>k. /\ rpc' = rpc /\ ackSent' = ackSent /\ (RecvInLoop' <=> RecvInLoop)
      /\ Owed' = Owed
      /\ s2r' = s2r => Coming' = Coming
      /\ timeouts' = timeouts => Most' = Most
    BY DEF receiverVars, RecvInLoop, Owed, Coming, Most
<1>1. CASE AckTimeout
  <2>1. /\ spc = "wait" /\ spc' = "requeue" /\ s2r' = s2r /\ r2s' = r2s
        /\ timeouts' = timeouts + 1 /\ ack_timeout_warned' = TRUE
      BY <1>1 DEF AckTimeout, EndWait, linkVars
  <2>2. Overdue' = Backlog /\ Len(ack_net) < AckUnits
      BY <1>f, <1>n, <1>m, <1>k, <2>1
      DEF CountFacts, Overdue, BacklogSum, WaitReadsOneAck
  <2>3. Most' = Most + AckUnits
      BY <1>f, <1>n, <2>1, UnitsOf DEF CountFacts, Most
  <2>4. Overdue = Backlog + Len(ack_net) - AckUnits
      BY <2>1 DEF Overdue
  <2>5. RecvInLoop => timeouts <= Overdue /\ Overdue <= Most
      BY <1>m, <2>1 DEF MostCounts, InLoop
  <2>6. RecvInLoop => timeouts' <= Overdue' /\ Overdue' <= Most'
      BY <1>f, <1>n, <2>1, <2>2, <2>3, <2>4, <2>5 DEF CountFacts
  <2> QED
      BY <1>f, <1>n, <1>m, <1>k, <2>1, <2>6
      DEF CountFacts, WaitReadsOneAck, WarnedCounts, MostCounts
<1>2. CASE ~AckTimeout
  <2>1. timeouts' = timeouts /\ ack_timeout_warned' = ack_timeout_warned
      BY <1>2
      DEF SenderNext, SenderStep, DqBuf, SendPacket, RecvAck, Requeue,
          LimitReached, SendFails, RecvAckFails, IoctlFails, GotoOut,
          OutStreamOff, OutRelease, OutClose, SenderKilled
  <2>2. WarnedCounts'
      BY <1>m, <2>1 DEF WarnedCounts
  <2>3. MostCounts'
      BY <1>m, <1>k, <1>2, <2>1, OverdueKept DEF MostCounts
  <2>4. WaitReadsOneAck'
    <3>1. CASE SendPacket
      <4>1. spc = "send" /\ spc' = "wait" /\ ack_net' = <<>>
          BY <1>m, <3>1 DEF SendPacket, WaitReadsOneAck
      <4>2. Len(ack_net') = 0
          BY <4>1
      <4> QED
          BY <1>f, <4>1, <4>2 DEF CountFacts, WaitReadsOneAck
    <3>2. CASE RecvAck
        BY <3>2 DEF RecvAck, AckIncomplete, EndWait, WaitReadsOneAck
    <3>3. CASE \E b \in Buffers : DqBuf(b)
        BY <3>3 DEF DqBuf, WaitReadsOneAck
    <3>4. ASSUME spc' \notin {"send", "wait"}
          PROVE  WaitReadsOneAck'
        BY <3>4 DEF WaitReadsOneAck
    <3> QED
        BY <1>2, <3>1, <3>2, <3>3, <3>4
        DEF SenderNext, SenderStep, Requeue, LimitReached, SendFails,
            RecvAckFails, IoctlFails, GotoOut, OutStreamOff, OutRelease,
            OutClose, SenderKilled
  <2> QED
      BY <1>m, <2>2, <2>3, <2>4
<1> QED
    BY <1>1, <1>2

(* The receiver moves what it owes, from frames to ACK parts.              *)
LEMMA BacklogKept ==
    ASSUME NInv, ReceiverNext, UNCHANGED <<queueVars, senderVars>>, RecvInLoop'
    PROVE  RecvInLoop /\ Backlog' = Backlog
<1>y. TypeInv
    BY DEF NInv, HInv, HandoverInv, TypeInv
<1>t. TypeInv'
    BY <1>y, ReceiverType DEF Receiver
<1>f. CountFacts /\ BacklogSum
    BY <1>y, CountTypes
<1>n. CountFacts' /\ BacklogSum'
    BY <1>t, CountTypesNext
<1>k. s2r' = s2r => Coming' = Coming
    BY DEF Coming
<1>3. ASSUME NEW code \in {0, 1}, GotoRecvOut(code)
      PROVE  RecvInLoop /\ Backlog' = Backlog
    BY <1>3 DEF GotoRecvOut, RecvInLoop
<1>4. CASE PollIdle \/ UserQuits
    BY <1>f, <1>n, <1>4, <1>k
    DEF CountFacts, PollIdle, UserQuits, RecvInLoop, Owed, BacklogSum,
        linkVars
<1>5. CASE RecvFrame
  <2>1. /\ rpc = "recv" /\ rpc' \in {"out", "read"}
        /\ s2r # <<>> /\ s2r' = Tail(s2r) /\ r2s' = r2s
        /\ ackSent' = ackSent
      BY <1>5 DEF RecvFrame, ReceiveFrame
  <2>2. Len(s2r) = Len(s2r') + 1
      BY <2>1 DEF TypeInv, TypeOK, LinkTypeOK
  <2>3. Len(s2r') \in Nat /\ Len(r2s) \in Nat /\ Coming' \in Nat
        /\ AckUnits \in Nat
      BY <1>f, <1>n DEF CountFacts
  <2>4. Coming = Coming' + AckUnits
      BY <2>2, <2>3, UnitsOf DEF Coming
  <2>5. ackSent = 0
      BY <2>1 DEF NInv, HInv, HandoverInv, AckStartsFresh, RecvInLoop
  <2>6. /\ Owed = 0
        /\ rpc' = "read" => Owed' = AckUnits
      BY <1>f, <1>n, <2>1, <2>5 DEF CountFacts, Owed
  <2>7. ASSUME rpc' = "read"
        PROVE  Backlog' = Backlog
    <3>1. Backlog' = Coming' + Len(r2s) + AckUnits
        BY <1>f, <1>n, <2>1, <2>6, <2>7 DEF CountFacts, BacklogSum
    <3>2. Backlog = Coming' + AckUnits + Len(r2s)
      <4>1. Backlog = (Coming' + AckUnits) + Len(r2s) + 0
          BY <1>f, <2>4, <2>6 DEF BacklogSum
      <4> QED
          BY <2>3, <4>1
    <3> QED
        BY <1>f, <1>n, <2>3, <3>1, <3>2 DEF CountFacts
  <2> QED
      BY <2>1, <2>7 DEF RecvInLoop
<1>6. CASE FinishRead
    BY <1>f, <1>n, <1>6, <1>k
    DEF CountFacts, FinishRead, RecvInLoop, Owed, BacklogSum, linkVars
<1>7. CASE SendAck
  <2>1. /\ rpc = "ack" /\ s2r' = s2r
        /\ r2s' = Append(r2s, AckPart(rpkt, ackSent + 1))
        /\ IF ackSent + 1 < AckUnits
           THEN ackSent' = ackSent + 1 /\ rpc' = "ack"
           ELSE ackSent' = 0 /\ rpc' = LoopHead
      BY <1>7 DEF SendAck, SendAckPart, AckUnsent
  <2>2. Len(r2s') = Len(r2s) + 1
      BY <2>1 DEF TypeInv, TypeOK, LinkTypeOK
  <2>3. Owed' = Owed - 1
    <3>1. Owed = AckUnits - ackSent
        BY <2>1 DEF Owed
    <3>2. CASE ackSent + 1 < AckUnits
      <4>1. Owed' = AckUnits - ackSent' /\ ackSent' = ackSent + 1
          BY <2>1, <3>2 DEF Owed
      <4> QED
          BY <1>f, <1>n, <3>1, <4>1 DEF CountFacts
    <3>3. CASE ~(ackSent + 1 < AckUnits)
      <4>1. Owed' = 0
          BY <2>1, <3>3 DEF Owed, LoopHead
      <4> QED
          BY <1>f, <1>n, <3>1, <3>3, <4>1 DEF CountFacts
    <3> QED
        BY <3>2, <3>3
  <2>4. Backlog' = Backlog
      BY <1>f, <1>n, <1>k, <2>1, <2>2, <2>3 DEF CountFacts, BacklogSum
  <2> QED
      BY <2>1, <2>4 DEF RecvInLoop, LoopHead
<1>8. CASE OutCleanup \/ ReceiverKilled
    BY <1>8 DEF OutCleanup, ReceiverKilled, RecvInLoop
<1> QED
    BY <1>3, <1>4, <1>5, <1>6, <1>7, <1>8
    DEF ReceiverNext, ReceiverStep, RecvLimitReached, PollQuit,
        StreamClosed, SendAckFails, ReadFails

LEMMA CountReceiver == NInv /\ Receiver => CountInv'
<1> SUFFICES ASSUME NInv, ReceiverNext, UNCHANGED <<queueVars, senderVars>>
             PROVE  CountInv'
    BY DEF Receiver
<1>1. /\ spc' = spc /\ ack_net' = ack_net /\ timeouts' = timeouts
      /\ ack_timeout_warned' = ack_timeout_warned
      /\ InLoop' <=> InLoop
    BY DEF senderVars, InLoop
<1>2. WaitReadsOneAck' /\ WarnedCounts'
    BY <1>1 DEF NInv, CountInv, WaitReadsOneAck, WarnedCounts
<1>3. OverdueCounts'
    BY <1>1, BacklogKept DEF NInv, CountInv, OverdueCounts, Overdue
<1> QED
    BY <1>2, <1>3 DEF CountInv

-----------------------------------------------------------------------------
(* The order of the ACKs                                                   *)

LEMMA AckTypes ==
    TypeInv =>
        /\ r2s \in Seq(zc_ack_part) /\ Len(r2s) \in Nat
        /\ \A i \in 1..Len(r2s) : r2s[i].sequence \in Nat
        /\ pkt.sequence \in Nat /\ rpkt.sequence \in Nat
        /\ content \in [Buffers -> Int]
<1> SUFFICES ASSUME TypeInv
             PROVE  /\ r2s \in Seq(zc_ack_part) /\ Len(r2s) \in Nat
                    /\ \A i \in 1..Len(r2s) : r2s[i].sequence \in Nat
                    /\ pkt.sequence \in Nat /\ rpkt.sequence \in Nat
                    /\ content \in [Buffers -> Int]
    OBVIOUS
<1>1. \A i \in 1..Len(r2s) : r2s[i] \in zc_ack_part
    BY DEF TypeInv, TypeOK, LinkTypeOK
<1>2. \A i \in 1..Len(r2s) : r2s[i].sequence \in Nat
    BY <1>1 DEF zc_ack_part
<1> QED
    BY <1>2, OrderTypes DEF TypeInv, TypeOK, LinkTypeOK

LEMMA AckOrderSender == OInv /\ AcksInOrder /\ Sender => AcksInOrder'
<1> SUFFICES ASSUME OInv, AcksInOrder, SenderNext PROVE AcksInOrder'
    BY DEF Sender
<1>t. TypeInv
    BY DEF OInv
<1>1. ASSUME NEW b \in Buffers, DqBuf(b)
      PROVE  AcksInOrder'
  <2>1. /\ spc = "dqbuf" /\ spc' = "send" /\ r2s' = r2s /\ InLoop
        /\ pkt'.sequence = content[b] /\ vb2[b] = "done"
      BY <1>1 DEF DqBuf, DequeueBuffer, linkVars, InLoop
  <2>2. Taken => pkt.sequence < content[b]
      BY <2>1 DEF OInv, OrderInv, SenderInOrder
  <2>3. \A i \in 1..Len(r2s) : r2s[i].sequence < content[b]
    <3>1. CASE Taken
        BY <1>t, <2>1, <2>2, <3>1, AckTypes DEF AcksInOrder
    <3>2. CASE ~Taken
        BY <2>1, <3>2 DEF AcksInOrder
    <3> QED
        BY <3>1, <3>2
  <2> QED
      BY <1>t, <2>1, <2>3, AckTypes DEF AcksInOrder, Taken
<1>2. CASE SendPacket
    BY <1>2 DEF SendPacket, SendFrame, AcksInOrder, InLoop, Taken
<1>3. CASE RecvAck
  <2>1. /\ r2s # <<>> /\ r2s' = Tail(r2s) /\ pkt' = pkt /\ spc = "wait"
        /\ spc' \in {"wait", "requeue"} /\ InLoop
      BY <1>t, <1>3, PartArrived
      DEF RecvAck, EndWait, InLoop, TypeInv, TypeOK
  <2>2. /\ Len(r2s) \in Nat /\ Len(r2s') = Len(r2s) - 1
        /\ \A i \in 1..Len(r2s') : r2s'[i] = r2s[i + 1]
      BY <1>t, <2>1, HeadTailProperties DEF TypeInv, TypeOK, LinkTypeOK
  <2> QED
      BY <2>1, <2>2 DEF AcksInOrder, Taken
<1>4. CASE AckTimeout \/ LimitReached \/ GotoOut
    BY <1>4 DEF AckTimeout, LimitReached, GotoOut, EndWait, AcksInOrder,
                InLoop, Taken, linkVars
<1>5. CASE Requeue
  <2>1. frames \in Nat
      BY <1>t DEF TypeInv, TypeOK, SenderTypeOK
  <2> QED
      BY <1>5, <2>1 DEF Requeue, AcksInOrder, InLoop, Taken, linkVars
<1>6. CASE OutStreamOff \/ OutRelease \/ OutClose \/ SenderKilled
    BY <1>6 DEF OutStreamOff, OutRelease, OutClose, SenderKilled,
                AcksInOrder, InLoop
<1> QED
    BY <1>1, <1>2, <1>3, <1>4, <1>5, <1>6
    DEF SenderNext, SenderStep, SendFails, RecvAckFails, IoctlFails

LEMMA AckOrderReceiver == OInv /\ AcksInOrder /\ Receiver => AcksInOrder'
<1> SUFFICES ASSUME OInv, AcksInOrder, ReceiverNext,
                    UNCHANGED <<queueVars, senderVars>>
             PROVE  AcksInOrder'
    BY DEF Receiver
<1>t. TypeInv
    BY DEF OInv
<1>k. /\ spc' = spc /\ pkt' = pkt
      /\ InLoop' <=> InLoop
      /\ Taken' <=> Taken
    BY DEF senderVars, InLoop, Taken
<1>1. CASE UNCHANGED r2s
    BY <1>1, <1>k DEF AcksInOrder
<1>2. CASE SendAck
  <2>1. /\ rpc = "ack"
        /\ r2s' = Append(r2s, AckPart(rpkt, ackSent + 1))
      BY <1>2 DEF SendAck, SendAckPart
  <2>2. \A i \in 1..Len(r2s') :
            \/ i \in 1..Len(r2s) /\ r2s'[i] = r2s[i]
            \/ r2s'[i] = AckPart(rpkt, ackSent + 1)
      BY <1>t, <2>1, AckTypes
  <2>3. AckPart(rpkt, ackSent + 1).sequence = rpkt.sequence
      BY DEF AckPart
  <2>4. InLoop =>
            /\ Taken
            /\ rpkt.sequence <= pkt.sequence
            /\ spc = "send" => rpkt.sequence < pkt.sequence
      BY <2>1 DEF OInv, OrderInv, SentInOrder, ReceivedInOrder, RecvInLoop,
                  Got
  <2> QED
      BY <1>k, <2>2, <2>3, <2>4 DEF AcksInOrder
<1>3. ASSUME ~SendAck
      PROVE  UNCHANGED r2s
    BY <1>3 DEF ReceiverNext, ReceiverStep, RecvLimitReached, PollQuit,
                PollIdle, RecvFrame, ReceiveFrame, StreamClosed, FinishRead,
                SendAckFails, ReadFails, OutCleanup, UserQuits,
                ReceiverKilled, GotoRecvOut, Close, linkVars
<1> QED
    BY <1>1, <1>2, <1>3

-----------------------------------------------------------------------------
(* Whose ACK the sender reads                                              *)

(* A finished wait read AckUnits parts.                                    *)
LEMMA WholeAck ==
    ASSUME TypeInv, WaitReadsOneAck, RecvAck
    PROVE  /\ spc = "wait" /\ r2s # <<>> /\ r2s' = Tail(r2s)
           /\ Len(ack_net) \in Nat /\ Len(ack_net') = Len(ack_net) + 1
           /\ \A i \in 1..Len(ack_net) : ack_net'[i] = ack_net[i]
           /\ ack_net'[Len(ack_net) + 1] = r2s[1]
           /\ Len(r2s) \in Nat \ {0} /\ Len(r2s') = Len(r2s) - 1
           /\ \A i \in 1..Len(r2s') : r2s'[i] = r2s[i + 1]
           /\ s2r' = s2r /\ pkt' = pkt
           /\ ack_timeout_warned' = ack_timeout_warned
           /\ spc' # "wait" =>
                 /\ spc' = "requeue"
                 /\ Len(ack_net') = AckUnits
                 /\ ackResult' = IF IsAckOf(ack_net', pkt) THEN "matched"
                                                          ELSE "mismatched"
<1>1. /\ spc = "wait" /\ r2s # <<>> /\ r2s' = Tail(r2s)
      /\ ack_net' = Append(ack_net, r2s[1])
      /\ s2r' = s2r /\ pkt' = pkt
      /\ ack_timeout_warned' = ack_timeout_warned
    BY PartArrived DEF RecvAck, TypeInv, TypeOK
<1>2. /\ r2s \in Seq(zc_ack_part) /\ ack_net \in Seq(zc_ack_part)
      /\ Len(ack_net) \in Nat /\ Len(r2s) \in Nat \ {0}
      /\ r2s[1] \in zc_ack_part
    BY <1>1 DEF TypeInv, TypeOK, LinkTypeOK, SenderTypeOK
<1>3. /\ Len(r2s') = Len(r2s) - 1
      /\ \A i \in 1..Len(r2s') : r2s'[i] = r2s[i + 1]
    BY <1>1, <1>2, HeadTailProperties
<1>4. /\ Len(ack_net') = Len(ack_net) + 1
      /\ \A i \in 1..Len(ack_net) : ack_net'[i] = ack_net[i]
      /\ ack_net'[Len(ack_net) + 1] = r2s[1]
    BY <1>1, <1>2, AppendProperties
<1>5. Len(ack_net) < AckUnits /\ AckUnits \in Nat
    BY <1>1, PacketAssumption DEF WaitReadsOneAck
<1>6. ASSUME spc' # "wait"
      PROVE  /\ spc' = "requeue" /\ ~(Len(ack_net') < AckUnits)
             /\ ackResult' = IF IsAckOf(ack_net', pkt) THEN "matched"
                                                      ELSE "mismatched"
    BY <1>1, <1>6 DEF RecvAck, AckIncomplete, EndWait
<1>7. spc' # "wait" => Len(ack_net') = AckUnits
    BY <1>2, <1>4, <1>5, <1>6
<1> QED
    BY <1>1, <1>2, <1>3, <1>4, <1>6, <1>7

AInv == NInv /\ OInv /\ AckInv

WhoseAck == PartsAreOfPkt /\ AcksAreLate /\ AcksMatchUntilTimeout

(* After a timeout the frame to be sent is not the first one the receiver  *)
(* still owes an ACK.                                                      *)
LEMMA LateFromTheStart ==
    ASSUME AInv, spc = "send", ack_timeout_warned
    PROVE  /\ r2s # <<>> => r2s[1].sequence < pkt.sequence
           /\ ~ReceiverIdle => rpkt.sequence < pkt.sequence
           /\ r2s = <<>> /\ ReceiverIdle /\ RecvInLoop =>
                 s2r # <<>> /\ s2r[1].sequence < pkt.sequence
<1>t. TypeInv
    BY DEF AInv, OInv
<1>1. r2s # <<>> => r2s[1].sequence < pkt.sequence
  <2>1. r2s # <<>> => 1 \in 1..Len(r2s)
      BY <1>t DEF TypeInv, TypeOK, LinkTypeOK
  <2> QED
      BY <2>1 DEF AInv, AckInv, AcksInOrder, InLoop
<1>2. ~ReceiverIdle => rpkt.sequence < pkt.sequence
    BY DEF AInv, OInv, OrderInv, ReceivedInOrder, ReceiverIdle, RecvInLoop,
           Got
<1>3. ASSUME r2s = <<>>, ReceiverIdle, RecvInLoop
      PROVE  s2r # <<>> /\ s2r[1].sequence < pkt.sequence
  <2>1. CountFacts /\ BacklogSum
      BY <1>t, CountTypes
  <2>2. timeouts > 0 /\ timeouts <= Backlog
      BY <1>3 DEF AInv, NInv, CountInv, WarnedCounts, OverdueCounts, InLoop,
                  Overdue
  <2>3. Len(r2s) = 0 /\ Owed = 0
      BY <1>3 DEF ReceiverIdle, Owed
  <2>4. Backlog = Coming
      BY <2>1, <2>3 DEF CountFacts, BacklogSum
  <2>5. Coming > 0
      BY <2>1, <2>2, <2>4 DEF CountFacts
  <2>6. s2r # <<>>
    <3> SUFFICES ASSUME s2r = <<>> PROVE FALSE
        OBVIOUS
    <3>1. Coming = AckUnits * 0
        BY DEF Coming
    <3> QED
        BY <2>5, <3>1, PacketAssumption
  <2>7. 1 \in 1..Len(s2r)
      BY <1>t, <2>6 DEF TypeInv, TypeOK, LinkTypeOK
  <2> QED
      BY <2>6, <2>7 DEF AInv, OInv, OrderInv, SentInOrder, InLoop
<1> QED
    BY <1>1, <1>2, <1>3

LEMMA WhoseAckSender == AInv /\ Sender => WhoseAck'
<1> SUFFICES ASSUME AInv, SenderNext, UNCHANGED receiverVars PROVE WhoseAck'
    BY DEF Sender
<1>t. TypeInv
    BY DEF AInv, OInv
<1>c. WaitReadsOneAck
    BY DEF AInv, AckInv, CountInv
<1>k. /\ rpc' = rpc /\ rpkt' = rpkt
      /\ ReceiverIdle' <=> ReceiverIdle
      /\ RecvInLoop' <=> RecvInLoop
    BY DEF receiverVars, ReceiverIdle, RecvInLoop
<1>1. ASSUME spc' \notin {"wait", "requeue"}
      PROVE  WhoseAck'
    BY <1>1 DEF WhoseAck, PartsAreOfPkt, AcksAreLate, AcksMatchUntilTimeout
<1>2. CASE SendPacket
  <2>1. /\ spc = "send" /\ spc' = "wait" /\ ack_net' = <<>>
        /\ s2r' = Append(s2r, pkt) /\ r2s' = r2s /\ pkt' = pkt
        /\ ack_timeout_warned' = ack_timeout_warned
      BY <1>2, <1>c DEF SendPacket, SendFrame, WaitReadsOneAck
  <2>2. AcksMatchUntilTimeout'
      BY <2>1 DEF AcksMatchUntilTimeout
  <2>3. PartsAreOfPkt'
    <3>1. ~ack_timeout_warned => r2s = <<>>
        BY <2>1 DEF AInv, NInv, HInv, HandoverInv, Orderly, SenderOrderly,
                    InLoop, FrameInOnePlace, Quiet
    <3>2. Len(ack_net') = 0 /\ (r2s = <<>> => Len(r2s') = 0)
        BY <2>1
    <3> QED
        BY <2>1, <3>1, <3>2 DEF PartsAreOfPkt
  <2>4. AcksAreLate'
    <3> SUFFICES ASSUME ack_timeout_warned PROVE NextAckIsOld'
        BY <2>1 DEF AcksAreLate
    <3>1. /\ s2r' # <<>>
          /\ s2r # <<>> => s2r'[1] = s2r[1]
        BY <1>t, <2>1, AppendProperties
        DEF TypeInv, TypeOK, LinkTypeOK, SenderTypeOK
    <3> QED
        BY <1>k, <2>1, <3>1, LateFromTheStart DEF NextAckIsOld
  <2> QED
      BY <2>2, <2>3, <2>4 DEF WhoseAck
<1>3. CASE RecvAck /\ ~ack_timeout_warned
  <2>0. /\ \A i \in 1..Len(ack_net) : ack_net[i] = AckPart(pkt, i)
        /\ \A i \in 1..Len(r2s) : r2s[i] = AckPart(pkt, Len(ack_net) + i)
      BY <1>3, <1>t, <1>c, WholeAck DEF AInv, AckInv, PartsAreOfPkt
  <2>1. \A i \in 1..Len(ack_net') : ack_net'[i] = AckPart(pkt, i)
    <3> SUFFICES ASSUME NEW i \in 1..Len(ack_net')
                 PROVE  ack_net'[i] = AckPart(pkt, i)
        OBVIOUS
    <3>1. i \in 1..Len(ack_net) \/ i = Len(ack_net) + 1
        BY <1>3, <1>t, <1>c, WholeAck
    <3>2. 1 \in 1..Len(r2s)
        BY <1>3, <1>t, <1>c, WholeAck
    <3> QED
        BY <1>3, <1>t, <1>c, <2>0, <3>1, <3>2, WholeAck
  <2>2. \A i \in 1..Len(r2s') :
            r2s'[i] = AckPart(pkt, Len(ack_net') + i)
    <3> SUFFICES ASSUME NEW i \in 1..Len(r2s')
                 PROVE  r2s'[i] = AckPart(pkt, Len(ack_net') + i)
        OBVIOUS
    <3>0. Len(r2s) \in Nat /\ Len(r2s') = Len(r2s) - 1
        BY <1>3, <1>t, <1>c, WholeAck
    <3>1. i + 1 \in 1..Len(r2s) /\ r2s'[i] = r2s[i + 1]
        BY <1>3, <1>t, <1>c, <3>0, WholeAck
    <3>2. Len(ack_net) + (i + 1) = Len(ack_net') + i
      <4>1. Len(ack_net) \in Nat /\ Len(ack_net') = Len(ack_net) + 1
          BY <1>3, <1>t, <1>c, WholeAck
      <4> QED
          BY <3>0, <4>1
    <3> QED
        BY <2>0, <3>1, <3>2
  <2>3. pkt' = pkt /\ ~ack_timeout_warned'
      BY <1>3, <1>t, <1>c, WholeAck
  <2>4. PartsAreOfPkt' /\ AcksAreLate'
      BY <2>1, <2>2, <2>3 DEF PartsAreOfPkt, AcksAreLate
  <2>5. ASSUME spc' = "requeue"
        PROVE  ackResult' = "matched"
    <3>1. /\ Len(ack_net') = AckUnits
          /\ ackResult' = IF IsAckOf(ack_net', pkt) THEN "matched"
                                                   ELSE "mismatched"
        BY <1>3, <1>t, <1>c, <2>5, WholeAck
    <3>2. ack_net' \in Seq(zc_ack_part)
        BY <1>3, <1>t, SenderType, TypeStep
        DEF Sender, Next, TypeInv, TypeOK, SenderTypeOK
    <3>3. ack_net' = [i \in 1..Len(ack_net') |-> ack_net'[i]]
        BY <3>2
    <3> QED
        BY <2>1, <3>1, <3>3 DEF IsAckOf
  <2> QED
      BY <2>3, <2>4, <2>5 DEF WhoseAck, AcksMatchUntilTimeout
<1>4. CASE RecvAck /\ ack_timeout_warned
  <2>0. /\ spc = "wait" /\ pkt' = pkt /\ ack_timeout_warned'
        /\ r2s # <<>> /\ Len(ack_net) \in Nat
        /\ Len(ack_net') = Len(ack_net) + 1
      BY <1>4, <1>t, <1>c, WholeAck
  <2>1. ack_net # <<>> => Len(ack_net) # 0
      BY <1>t DEF TypeInv, TypeOK, SenderTypeOK
  <2>2. ack_net'[1].sequence < pkt.sequence
    <3>1. CASE ack_net = <<>>
      <4>1. Len(ack_net) = 0 /\ ack_net'[Len(ack_net) + 1] = r2s[1]
          BY <1>4, <1>t, <1>c, <3>1, WholeAck
      <4> QED
          BY <1>4, <2>0, <3>1, <4>1
          DEF AInv, AckInv, AcksAreLate, NextAckIsOld
    <3>2. CASE ack_net # <<>>
      <4>1. 1 \in 1..Len(ack_net)
          BY <2>0, <2>1, <3>2
      <4>2. ack_net'[1] = ack_net[1]
          BY <1>4, <1>t, <1>c, <4>1, WholeAck
      <4> QED
          BY <1>4, <2>0, <3>2, <4>2 DEF AInv, AckInv, AcksAreLate
    <3> QED
        BY <3>1, <3>2
  <2>3. ack_net' # <<>>
      BY <2>0
  <2>4. PartsAreOfPkt' /\ AcksAreLate'
      BY <2>0, <2>2, <2>3 DEF PartsAreOfPkt, AcksAreLate
  <2>5. ~IsAckOf(ack_net', pkt)
    <3> SUFFICES ASSUME IsAckOf(ack_net', pkt) PROVE FALSE
        OBVIOUS
    <3>1. 1 \in 1..AckUnits
        BY PacketAssumption
    <3>2. ack_net'[1] = AckPart(pkt, 1)
        BY <3>1 DEF IsAckOf
    <3>3. ack_net'[1].sequence = pkt.sequence
        BY <3>2 DEF AckPart
    <3> QED
        BY <1>t, <2>2, <3>3, AckTypes
  <2>6. spc' = "requeue" => ackResult' = "mismatched"
      BY <1>4, <1>t, <1>c, <2>5, WholeAck
  <2> QED
      BY <2>0, <2>4, <2>6 DEF WhoseAck, AcksMatchUntilTimeout
<1>5. CASE AckTimeout
    BY <1>5 DEF AckTimeout, EndWait, WhoseAck, PartsAreOfPkt, AcksAreLate,
                AcksMatchUntilTimeout
<1>6. CASE \/ \E b \in Buffers : DqBuf(b)
           \/ Requeue \/ LimitReached \/ GotoOut
           \/ OutStreamOff \/ OutRelease \/ OutClose \/ SenderKilled
    BY <1>1, <1>6 DEF DqBuf, Requeue, LimitReached, GotoOut, OutStreamOff,
                      OutRelease, OutClose, SenderKilled
<1> QED
    BY <1>2, <1>3, <1>4, <1>5, <1>6
    DEF SenderNext, SenderStep, SendFails, RecvAckFails, IoctlFails

LEMMA WhoseAckReceiver == AInv /\ Receiver => WhoseAck'
<1> SUFFICES ASSUME AInv, ReceiverNext, UNCHANGED <<queueVars, senderVars>>
             PROVE  WhoseAck'
    BY DEF Receiver
<1>t. TypeInv
    BY DEF AInv, OInv
<1>k. /\ spc' = spc /\ pkt' = pkt /\ ack_net' = ack_net
      /\ ack_timeout_warned' = ack_timeout_warned
    BY DEF senderVars
<1>1. AcksMatchUntilTimeout'
    BY <1>k DEF AInv, AckInv, AcksMatchUntilTimeout, senderVars
<1>2. PartsAreOfPkt'
  <2>1. CASE UNCHANGED r2s
      BY <1>k, <2>1 DEF AInv, AckInv, PartsAreOfPkt
  <2>2. CASE SendAck
    <3> SUFFICES ASSUME spc = "wait", ~ack_timeout_warned,
                        NEW i \in 1..Len(r2s')
                 PROVE  r2s'[i] = AckPart(pkt, Len(ack_net) + i)
        BY <1>k DEF AInv, AckInv, PartsAreOfPkt
    <3>1. /\ rpc = "ack"
          /\ r2s' = Append(r2s, AckPart(rpkt, ackSent + 1))
        BY <2>2 DEF SendAck, SendAckPart
    <3>2. FrameUsed
        BY <3>1 DEF AInv, NInv, HInv, HandoverInv, Orderly, SenderOrderly,
                    InLoop, FrameInOnePlace, FrameSent, FrameRead,
                    FrameAcked, ReceiverIdle
    <3>3. rpkt = pkt /\ ackSent = Len(ack_net) + Len(r2s)
        BY <3>2 DEF FrameUsed, PartsOut
    <3>4. \/ i \in 1..Len(r2s) /\ r2s'[i] = r2s[i]
          \/ /\ i = Len(r2s) + 1
             /\ r2s'[i] = AckPart(pkt, ackSent + 1)
        BY <1>t, <3>1, <3>3, AckTypes
    <3>5. ackSent + 1 = Len(ack_net) + (Len(r2s) + 1)
      <4>1. Len(ack_net) \in Nat /\ Len(r2s) \in Nat
          BY <1>t DEF TypeInv, TypeOK, LinkTypeOK, SenderTypeOK
      <4> QED
          BY <3>3, <4>1
    <3> QED
        BY <3>4, <3>5 DEF AInv, AckInv, PartsAreOfPkt
  <2>3. ASSUME ~SendAck
        PROVE  UNCHANGED r2s
      BY <2>3 DEF ReceiverNext, ReceiverStep, RecvLimitReached, PollQuit,
                  PollIdle, RecvFrame, ReceiveFrame, StreamClosed,
                  FinishRead, SendAckFails, ReadFails, OutCleanup,
                  UserQuits, ReceiverKilled, GotoRecvOut, Close, linkVars
  <2> QED
      BY <2>1, <2>2, <2>3
<1>3. AcksAreLate'
  <2> SUFFICES ASSUME NextAckIsOld PROVE NextAckIsOld'
      BY <1>k DEF AInv, AckInv, AcksAreLate
  <2>1. ASSUME UNCHANGED <<r2s, s2r, rpkt>>,
               ReceiverIdle' <=> ReceiverIdle,
               RecvInLoop' => RecvInLoop
        PROVE  NextAckIsOld'
      BY <1>k, <2>1 DEF NextAckIsOld
  <2>2. ASSUME NEW code \in {0, 1}, GotoRecvOut(code)
        PROVE  NextAckIsOld'
      BY <1>k, <2>2 DEF GotoRecvOut, NextAckIsOld, ReceiverIdle, RecvInLoop,
                        linkVars
  <2>3. CASE PollIdle \/ FinishRead \/ UserQuits
      BY <2>1, <2>3 DEF PollIdle, FinishRead, UserQuits, ReceiverIdle,
                        RecvInLoop, linkVars
  <2>4. CASE RecvFrame
    <3>1. /\ rpc = "recv" /\ s2r # <<>> /\ rpkt' = s2r[1] /\ r2s' = r2s
          /\ rpc' \in {"read", "out"}
        BY <2>4 DEF RecvFrame, ReceiveFrame
    <3> QED
        BY <1>k, <3>1 DEF NextAckIsOld, ReceiverIdle, RecvInLoop
  <2>5. CASE SendAck
    <3>1. /\ rpc = "ack" /\ rpkt' = rpkt
          /\ r2s' = Append(r2s, AckPart(rpkt, ackSent + 1))
        BY <2>5 DEF SendAck, SendAckPart
    <3>2. /\ r2s' # <<>>
          /\ r2s # <<>> => r2s'[1] = r2s[1]
          /\ r2s = <<>> => r2s'[1] = AckPart(rpkt, ackSent + 1)
        BY <1>t, <3>1, AckTypes
    <3>3. AckPart(rpkt, ackSent + 1).sequence = rpkt.sequence
        BY DEF AckPart
    <3> QED
        BY <1>k, <3>1, <3>2, <3>3 DEF NextAckIsOld, ReceiverIdle
  <2>6. CASE OutCleanup \/ ReceiverKilled
      BY <1>k, <2>6 DEF OutCleanup, ReceiverKilled, Close, NextAckIsOld,
                        ReceiverIdle, RecvInLoop
  <2> QED
      BY <2>2, <2>3, <2>4, <2>5, <2>6
      DEF ReceiverNext, ReceiverStep, RecvLimitReached, PollQuit,
          StreamClosed, SendAckFails, ReadFails
<1> QED
    BY <1>1, <1>2, <1>3 DEF WhoseAck

LEMMA AckInit == Init => AInv
<1> SUFFICES ASSUME Init PROVE AInv
    OBVIOUS
<1>1. NInv /\ OInv
    BY CountInit, OrderInit
<1>2. spc = "dqbuf" /\ Len(r2s) = 0 /\ r2s = <<>>
    BY DEF Init, LinkInit, SenderInit
<1> QED
    BY <1>1, <1>2 DEF AInv, NInv, AckInv, AcksInOrder, PartsAreOfPkt,
                      AcksAreLate, AcksMatchUntilTimeout

LEMMA AckStep == AInv /\ [Next]_vars => AInv'
<1> SUFFICES ASSUME AInv, [Next]_vars PROVE AInv'
    OBVIOUS
<1>1. HInv' /\ OInv'
    BY HandoverStep, OrderStep DEF AInv, NInv
<1>2. CASE Sender
    BY <1>1, <1>2, CountSender, AckOrderSender, WhoseAckSender
    DEF AInv, NInv, AckInv, WhoseAck
<1>3. CASE Receiver
    BY <1>1, <1>3, CountReceiver, AckOrderReceiver, WhoseAckReceiver
    DEF AInv, NInv, AckInv, WhoseAck
<1>4. CASE UNCHANGED <<s2r, r2s, senderVars, receiverVars>>
  <2>1. AckInv'
      BY <1>4 DEF AInv, AckInv, CountInv, WaitReadsOneAck, WarnedCounts,
                  OverdueCounts, Overdue, Backlog, AcksInOrder,
                  PartsAreOfPkt, AcksAreLate, NextAckIsOld,
                  AcksMatchUntilTimeout, InLoop, RecvInLoop, ReceiverIdle,
                  Taken, senderVars, receiverVars
  <2> QED
      BY <1>1, <2>1 DEF AInv, NInv, AckInv
<1> QED
    BY <1>2, <1>3, <1>4 DEF Next, Camera, Network, DeliverAckPart, Terminated,
                            vars, linkVars

(* Every timeout leaves an ACK on the way and no iteration makes it up.    *)
THEOREM BacklogStays == Spec => []BacklogNeverDrains
<1>1. AInv => BacklogNeverDrains
    BY DEF AInv, AckInv, CountInv, OverdueCounts, Overdue,
           BacklogNeverDrains, InLoop
<1> QED
    BY <1>1, AckInit, AckStep, PTL DEF Spec

(* The sender reads the ACK of the frame just sent exactly as long as no   *)
(* wait has timed out: a late ACK is never taken for a match, and nothing  *)
(* else is ever taken for a mismatch.                                      *)
THEOREM AckMatches == Spec => []AcksMatchUntilTimeout
<1>1. AInv => AcksMatchUntilTimeout
    BY DEF AInv, AckInv
<1> QED
    BY <1>1, AckInit, AckStep, PTL DEF Spec

-----------------------------------------------------------------------------
(* No mutual block                                                         *)

RInv == AInv /\ RoomInv

LEMMA RoomInit == Init => RInv
<1> SUFFICES ASSUME Init PROVE RoomInv
    BY AckInit DEF RInv
<1>1. CountFacts /\ BacklogSum
    BY TypeInit, CountTypes
<1>2. /\ Len(s2r) = 0 /\ Len(r2s) = 0 /\ arrived = 0
      /\ spc = "dqbuf" /\ rpc \notin {"read", "ack"}
    BY DEF Init, LinkInit, SenderInit, ReceiverInit, LoopHead
<1>3. AckUnits * 0 = 0 /\ Room \in Nat
  <2>1. FrameCap + 1 \in Nat /\ AckCap \in Nat
      BY LinkAssumption
  <2> QED
      BY <2>1, UnitsOf, PacketAssumption DEF Room
<1>4. Overdue = 0
    BY <1>2, <1>3 DEF Overdue, Backlog
<1> QED
    BY <1>2, <1>3, <1>4, LinkAssumption
    DEF RoomInv, LinkBounded, OverdueBounded

LEMMA LinkStays == TypeInv /\ LinkBounded /\ [Next]_vars => LinkBounded'
<1> SUFFICES ASSUME TypeInv, LinkBounded, [Next]_vars PROVE LinkBounded'
    OBVIOUS
<1>t. /\ s2r \in Seq(zc_frame_packet) /\ r2s \in Seq(zc_ack_part)
      /\ Len(s2r) \in Nat /\ Len(r2s) \in Nat /\ arrived \in Nat
      /\ FrameCap \in Nat /\ AckCap \in Nat /\ RecvBuf \in Nat
    BY LinkAssumption DEF TypeInv, TypeOK, LinkTypeOK
<1>1. CASE UNCHANGED <<s2r, r2s, arrived>>
    BY <1>1 DEF LinkBounded
<1>2. ASSUME NEW f, SendFrame(f)
      PROVE  LinkBounded'
  <2>1. Len(s2r') = Len(s2r) + 1
      BY <1>t, <1>2 DEF SendFrame
  <2> QED
      BY <1>t, <1>2, <2>1 DEF SendFrame, LinkBounded
<1>3. ASSUME NEW u, SendAckPart(u)
      PROVE  LinkBounded'
  <2>1. Len(r2s') = Len(r2s) + 1
      BY <1>t, <1>3 DEF SendAckPart
  <2> QED
      BY <1>t, <1>3, <2>1 DEF SendAckPart, LinkBounded
<1>4. CASE ReceiveFrame
  <2>1. Len(s2r') = Len(s2r) - 1
      BY <1>t, <1>4 DEF ReceiveFrame
  <2> QED
      BY <1>t, <1>4, <2>1 DEF ReceiveFrame, LinkBounded
<1>5. CASE ReceiveAckPart
  <2>1. Len(r2s') = Len(r2s) - 1 /\ arrived' = arrived - 1 /\ s2r' = s2r
      BY <1>5, PartArrived DEF ReceiveAckPart, TypeInv, TypeOK
  <2> QED
      BY <1>t, <2>1 DEF LinkBounded
<1>6. CASE Network
    BY <1>t, <1>6 DEF Network, DeliverAckPart, LinkBounded
<1>7. CASE Sender
    BY <1>1, <1>2, <1>5, <1>7
    DEF Sender, SenderNext, SenderStep, DqBuf, SendPacket, RecvAck,
        AckTimeout, Requeue, LimitReached, SendFails, RecvAckFails,
        IoctlFails, GotoOut, OutStreamOff, OutRelease, OutClose,
        SenderKilled, Close, linkVars
<1>8. CASE Receiver
    BY <1>1, <1>3, <1>4, <1>8
    DEF Receiver, ReceiverNext, ReceiverStep, RecvLimitReached, PollQuit,
        PollIdle, RecvFrame, StreamClosed, FinishRead, SendAck, SendAckFails,
        ReadFails, OutCleanup, UserQuits, ReceiverKilled, GotoRecvOut, Close,
        linkVars
<1> QED
    BY <1>1, <1>6, <1>7, <1>8 DEF Next, Camera, Terminated, vars, linkVars

(* At a timeout nothing has arrived, so what the receiver owes is in its   *)
(* hand or in the parts of the connection that have a capacity.            *)
LEMMA RoomAtTimeout ==
    ASSUME TypeInv, LinkBounded, AckTimeout, UNCHANGED receiverVars
    PROVE  Overdue' <= Room
<1>f. CountFacts /\ BacklogSum
    BY CountTypes
<1>1. arrived = 0 /\ spc' = "requeue" /\ s2r' = s2r /\ r2s' = r2s
    BY DEF AckTimeout, EndWait, linkVars
<1>2. Len(r2s) <= AckCap /\ Len(s2r) <= FrameCap
    BY <1>f, <1>1, LinkAssumption DEF CountFacts, LinkBounded
<1>3. Coming <= AckUnits * FrameCap
  <2>1. Len(s2r) \in Nat /\ FrameCap \in Nat /\ AckUnits \in Nat
      BY <1>f, LinkAssumption DEF CountFacts
  <2> QED
      BY <1>2, <2>1, ProductGrows DEF Coming
<1>4. Owed <= AckUnits
    BY <1>f DEF CountFacts, Owed
<1>5. AckUnits * (FrameCap + 1) = AckUnits * FrameCap + AckUnits
      /\ AckUnits * FrameCap \in Nat
    BY LinkAssumption, UnitsOf
<1>6. Backlog <= AckUnits * FrameCap + AckCap + AckUnits
    BY <1>f, <1>2, <1>3, <1>4, <1>5, LinkAssumption
    DEF CountFacts, BacklogSum
<1>7. Backlog' = Backlog
  <2>1. rpc' = rpc /\ ackSent' = ackSent
      BY DEF receiverVars
  <2> QED
      BY <1>1, <2>1 DEF Backlog
<1>8. Overdue' = Backlog
    BY <1>1, <1>7 DEF Overdue
<1> QED
    BY <1>f, <1>5, <1>6, <1>8, LinkAssumption DEF CountFacts, Room

LEMMA RoomStep == RInv /\ [Next]_vars => RInv'
<1> SUFFICES ASSUME RInv, [Next]_vars PROVE RoomInv'
    BY AckStep DEF RInv
<1>i. NInv /\ TypeInv /\ LinkBounded /\ OverdueBounded
    BY DEF RInv, AInv, OInv, RoomInv
<1>c. Room' = Room
    BY DEF Room
<1>1. LinkBounded'
    BY <1>i, LinkStays
<1>2. ASSUME UNCHANGED <<s2r, r2s, senderVars, receiverVars>>
      PROVE  OverdueBounded'
    BY <1>c, <1>i, <1>2 DEF OverdueBounded, Overdue, Backlog, InLoop, RecvInLoop,
                      senderVars, receiverVars
<1>3. ASSUME Sender
      PROVE  OverdueBounded'
  <2>1. RecvInLoop' <=> RecvInLoop
      BY <1>3 DEF Sender, RecvInLoop, receiverVars
  <2>2. CASE AckTimeout
      BY <1>c, <1>i, <1>3, <2>2, RoomAtTimeout DEF Sender, OverdueBounded
  <2>3. CASE ~AckTimeout
      BY <1>c, <1>i, <1>3, <2>1, <2>3, OverdueKept
      DEF Sender, OverdueBounded
  <2> QED
      BY <2>2, <2>3
<1>4. ASSUME Receiver
      PROVE  OverdueBounded'
  <2>1. UNCHANGED <<spc, ack_net>> /\ (InLoop' <=> InLoop)
      BY <1>4 DEF Receiver, InLoop, senderVars
  <2> QED
      BY <1>c, <1>i, <1>4, <2>1, BacklogKept
      DEF Receiver, OverdueBounded, Overdue
<1> QED
    BY <1>1, <1>2, <1>3, <1>4
    DEF RoomInv, Next, Camera, Network, DeliverAckPart, Terminated, vars,
        linkVars

(* The send_all of a frame and that of an ACK never wait for each other:   *)
(* the sender goes on without an ACK only when its receive buffer is       *)
(* empty, and to fill both directions that buffer has to fill as well.     *)
THEOREM NoLockup == Spec => []NeverMutualBlock
<1>1. RInv => NeverMutualBlock
  <2> SUFFICES ASSUME RInv, MutualBlock PROVE FALSE
      BY DEF NeverMutualBlock
  <2>f. CountFacts /\ BacklogSum
      BY CountTypes DEF RInv, AInv, OInv
  <2>1. Backlog <= Room
      BY DEF RInv, RoomInv, OverdueBounded, Overdue, InLoop, RecvInLoop,
             MutualBlock
  <2>2. Coming = AckUnits * FrameCap /\ Len(r2s) = AckCap + RecvBuf
      BY DEF MutualBlock, Coming
  <2>3. Owed > 0
      BY <2>f DEF MutualBlock, Owed, CountFacts
  <2>4. AckUnits * (FrameCap + 1) = AckUnits * FrameCap + AckUnits
        /\ AckUnits * FrameCap \in Nat
      BY LinkAssumption, UnitsOf
  <2>5. Coming + Len(r2s) + Owed <= Coming + AckUnits + AckCap
      BY <2>f, <2>1, <2>2, <2>4, LinkAssumption
      DEF CountFacts, BacklogSum, Room
  <2>6. RecvBuf >= AckUnits /\ RecvBuf \in Nat /\ AckCap \in Nat
      BY LinkAssumption
  <2> QED
      BY <2>f, <2>2, <2>3, <2>5, <2>6 DEF CountFacts
<1> QED
    BY <1>1, RoomInit, RoomStep, PTL DEF Spec
=============================================================================
