-------------------------- MODULE CopyStreamProofs ---------------------------
(***************************************************************************)
(* Theorems about CopyStream, for every number of buffers, every buffer    *)
(* length, frame size, frame limit and connection.                         *)
(***************************************************************************)
EXTENDS CopyStreamInv, SequenceTheorems, TLAPS

-----------------------------------------------------------------------------
(* Items of the stream and receiver memory                                 *)

LEMMA ItemKinds ==
    /\ \A p \in frame_packet : IsHeader(p)
    /\ \A u \in payload_unit : ~IsHeader(u)
    /\ \A x \in frame_packet \cup payload_unit :
          IsHeader(x) => x \in frame_packet
    /\ \A x \in frame_packet \cup payload_unit :
          ~IsHeader(x) => x \in payload_unit
BY DEF frame_packet, payload_unit, IsHeader

LEMMA PacketFields ==
    /\ \A p \in frame_packet :
          p.index \in Nat /\ p.bytesused \in Nat /\ p.sequence \in Nat
    /\ \A u \in payload_unit : u.pixels \in Nat \cup {NoFrame}
BY DEF frame_packet, payload_unit

LEMMA AsPixelsType ==
    \A x \in frame_packet \cup payload_unit :
        AsPixels(x) \in Nat \cup {NoFrame}
BY ItemKinds, PacketFields DEF AsPixels

(* The receiver's buffer for a header is one of its pool.                  *)
LEMMA BufferOfHeader == hdr \in frame_packet => idx \in 0..(BufferCount - 1)
<1> SUFFICES ASSUME hdr \in frame_packet PROVE idx \in 0..(BufferCount - 1)
    OBVIOUS
<1>1. BufferCount \in Nat /\ BufferCount > 0 /\ hdr.index \in Nat
    BY CopyLinkAssumption, PacketFields
<1> QED
    BY <1>1 DEF idx

(* The memory with one unit changed.                                       *)
LEMMA StoreUnit ==
    ASSUME NEW M, NEW B, NEW U, NEW V, M \in [B -> [U -> V]],
           NEW b \in B, NEW u \in U, NEW v \in V,
           NEW N, N = [M EXCEPT ![b][u] = v]
    PROVE  /\ N \in [B -> [U -> V]]
           /\ N[b][u] = v
           /\ \A w \in U \ {u} : N[b][w] = M[b][w]
<1>1. N = [M EXCEPT ![b] = [M[b] EXCEPT ![u] = v]]
    OBVIOUS
<1>2. [M[b] EXCEPT ![u] = v] \in [U -> V]
    OBVIOUS
<1>3. N \in [B -> [U -> V]] /\ N[b] = [M[b] EXCEPT ![u] = v]
    BY <1>1, <1>2
<1> QED
    BY <1>3

LEMMA BufferLengths == \A b \in Buffers : b \in Nat /\ BufLen[b] \in Nat
BY CopySenderAssumption, CopyLinkAssumption

-----------------------------------------------------------------------------
(* The initial state                                                       *)

LEMMA StartTypes == Init => TypeOK
<1> SUFFICES ASSUME Init PROVE TypeOK
    OBVIOUS
<1>1. LinkTypeOK
    BY DEF Init, LinkInit, LinkTypeOK
<1>2. QueueTypeOK
    BY DEF Init, QueueInit, QueueTypeOK, NoFrame
<1>3. SenderTypeOK
    BY DEF Init, SenderInit, SenderTypeOK, NoHeader, frame_packet
<1>4. ReceiverTypeOK
  <2>1. output \in Seq(output_frame) /\ mem \in [0..(BufferCount - 1) ->
                              [1..SizeImage -> Nat \cup {NoFrame}]]
      BY DEF Init, ReceiverInit
  <2>2. sdl \in BOOLEAN /\ rpc \in {"poll", "header"} /\ quit \in BOOLEAN
      BY CopyReceiverAssumption DEF Init, ReceiverInit, LoopHead
  <2> QED
      BY <2>1, <2>2
      DEF Init, ReceiverInit, ReceiverTypeOK, NoHdr, frame_packet
<1> QED
    BY <1>1, <1>2, <1>3, <1>4 DEF TypeOK

LEMMA CopyStart == Init => CopyInv
<1> SUFFICES ASSUME Init PROVE CopyInv
    OBVIOUS
<1>1. /\ wire = <<>> /\ closed = {} /\ captured = 0 /\ spc = "dqbuf"
      /\ vb2 = [b \in Buffers |-> "queued"]
      /\ frames = 0 /\ rc = 1 /\ rpc \in {"poll", "header"}
      /\ hdr = NoHdr /\ got = 0 /\ output = <<>> /\ rrc = 1
    BY DEF Init, LinkInit, QueueInit, SenderInit, ReceiverInit, LoopHead
<1>2. Len(wire) = 0 /\ Len(output) = 0 /\ DOMAIN output = {}
    BY <1>1
<1>3. QueueInv
    BY <1>1 DEF QueueInv, Running, Holding, Taken, DoneInOrder
<1>4. HeadersSound
    BY <1>2 DEF HeadersSound
<1>5. StreamInv
  <2>1. Starts = {0} /\ SizeAt(0) = 0 /\ SequenceAt(0) = -1
      BY <1>1, <1>2 DEF Starts, SizeAt, SequenceAt, NoHdr
  <2>2. FramesOnWire
      BY <1>2 DEF FramesOnWire, FrameAt
  <2>3. BetweenFrames
      BY <1>1, <1>2, <2>1 DEF BetweenFrames, WholeFrames
  <2> QED
      BY <1>1, <2>2, <2>3 DEF StreamInv, InFrame, SentSoFar, Running
<1>6. OutputInv
    BY <1>1, <1>2
    DEF OutputInv, HdrInHand, OutputInOrder, EndSeen, Reading, NoHdr
<1> QED
    BY <1>3, <1>4, <1>5, <1>6, StartTypes DEF CopyInv

-----------------------------------------------------------------------------
(* Facts every step uses                                                   *)

LEMMA Types ==
    CopyInv =>
        /\ Len(wire) \in Nat /\ DOMAIN wire = 1..Len(wire)
        /\ wire \in Seq(frame_packet \cup payload_unit)
        /\ \A k \in 1..Len(wire) : wire[k] \in frame_packet \cup payload_unit
        /\ pkt \in frame_packet /\ hdr \in frame_packet
        /\ sent \in Nat /\ pkt.bytesused \in Nat /\ pkt.sequence \in Nat
        /\ got \in Nat /\ hdr.bytesused \in Nat /\ hdr.sequence \in Nat
        /\ frames \in Nat /\ captured \in Nat /\ SizeImage \in Nat
        /\ Len(output) \in Nat /\ DOMAIN output = 1..Len(output)
        /\ Taken \in Nat
        /\ \A k \in Starts : /\ k \in Int /\ k <= Len(wire)
                             /\ SizeAt(k) \in Nat /\ SequenceAt(k) \in Int
<1> SUFFICES ASSUME CopyInv
             PROVE  /\ Len(wire) \in Nat /\ DOMAIN wire = 1..Len(wire)
                    /\ wire \in Seq(frame_packet \cup payload_unit)
                    /\ \A k \in 1..Len(wire) :
                          wire[k] \in frame_packet \cup payload_unit
                    /\ pkt \in frame_packet /\ hdr \in frame_packet
                    /\ sent \in Nat /\ pkt.bytesused \in Nat
                    /\ pkt.sequence \in Nat
                    /\ got \in Nat /\ hdr.bytesused \in Nat
                    /\ hdr.sequence \in Nat
                    /\ frames \in Nat /\ captured \in Nat
                    /\ SizeImage \in Nat
                    /\ Len(output) \in Nat
                    /\ DOMAIN output = 1..Len(output)
                    /\ Taken \in Nat
                    /\ \A k \in Starts :
                          /\ k \in Int /\ k <= Len(wire)
                          /\ SizeAt(k) \in Nat /\ SequenceAt(k) \in Int
    OBVIOUS
<1>1. wire \in Seq(frame_packet \cup payload_unit)
    BY DEF CopyInv, TypeOK, LinkTypeOK
<1>2. /\ Len(wire) \in Nat /\ DOMAIN wire = 1..Len(wire)
      /\ \A k \in 1..Len(wire) : wire[k] \in frame_packet \cup payload_unit
    BY <1>1, ElementOfSeq
<1>3. pkt \in frame_packet /\ hdr \in frame_packet
    BY DEF CopyInv, TypeOK, SenderTypeOK, ReceiverTypeOK
<1>4. /\ pkt.bytesused \in Nat /\ pkt.sequence \in Nat
      /\ hdr.bytesused \in Nat /\ hdr.sequence \in Nat
    BY <1>3, PacketFields
<1>5. sent \in Nat /\ got \in Nat /\ frames \in Nat /\ captured \in Nat
    BY <1>4 DEF CopyInv, TypeOK, SenderTypeOK, ReceiverTypeOK, QueueTypeOK
<1>6. Len(output) \in Nat /\ DOMAIN output = 1..Len(output)
    BY DEF CopyInv, TypeOK, ReceiverTypeOK
<1>7. SizeImage \in Nat
    BY CopyLinkAssumption
<1>8. Taken \in Nat
    BY <1>5 DEF Taken
<1>9. ASSUME NEW k \in Starts
      PROVE  k \in Int /\ k <= Len(wire) /\ SizeAt(k) \in Nat
             /\ SequenceAt(k) \in Int
  <2>1. CASE k = 0 - got
    <3>1. k \in Int /\ k <= Len(wire) /\ ~(k >= 1)
        BY <1>2, <1>5, <2>1
    <3> QED
        BY <1>4, <1>6, <3>1 DEF SizeAt, SequenceAt
  <2>2. CASE k \in 1..Len(wire) /\ IsHeader(wire[k])
    <3>1. wire[k] \in frame_packet
        BY <1>2, <2>2, ItemKinds
    <3>2. k \in Int /\ k >= 1 /\ k <= Len(wire)
        BY <1>2, <2>2
    <3> QED
        BY <3>1, <3>2, PacketFields DEF SizeAt, SequenceAt
  <2> QED
      BY <2>1, <2>2 DEF Starts
<1> QED
    BY <1>1, <1>2, <1>3, <1>4, <1>5, <1>6, <1>7, <1>8, <1>9

(* A step that leaves the stream and the receiver's place in it.           *)
LEMMA PlacesKept ==
    UNCHANGED <<wire, rpc, hdr, got, output>>
        => /\ Starts' = Starts
           /\ \A k \in Starts : SizeAt(k)' = SizeAt(k)
                                /\ SequenceAt(k)' = SequenceAt(k)
           /\ FramesOnWire => FramesOnWire'
BY DEF Starts, SizeAt, SequenceAt, FramesOnWire

LEMMA HeadersKept ==
    ASSUME CopyInv,
           \/ wire' = wire
           \/ wire # <<>> /\ wire' = Tail(wire),
           captured' \in Nat, captured' >= captured
    PROVE  HeadersSound'
<1>1. \A k \in 1..Len(wire) : IsHeader(wire[k]) => HeaderSound(wire[k])
    BY DEF CopyInv, HeadersSound
<1>0. /\ Len(wire) \in Nat /\ captured \in Nat
      /\ wire \in Seq(frame_packet \cup payload_unit)
    BY Types
<1>2. ASSUME NEW k \in 1..Len(wire')
      PROVE  \E j \in 1..Len(wire) : wire'[k] = wire[j]
  <2>1. CASE wire # <<>> /\ wire' = Tail(wire)
    <3>1. /\ Len(wire') = Len(wire) - 1
          /\ \A j \in 1..Len(wire') : wire'[j] = wire[j + 1]
        BY <1>0, <2>1, HeadTailProperties
    <3>2. k + 1 \in 1..Len(wire) /\ wire'[k] = wire[k + 1]
        BY <1>0, <1>2, <3>1
    <3> QED
        BY <3>2
  <2> QED
      BY <1>2, <2>1
<1>3. ASSUME NEW k \in 1..Len(wire), IsHeader(wire[k])
      PROVE  /\ wire[k].index \in Buffers
             /\ wire[k].bytesused <= BufLen[wire[k].index]
             /\ wire[k].sequence < captured'
  <2>1. wire[k] \in frame_packet \cup payload_unit
      BY <1>0, ElementOfSeq
  <2>2. wire[k].sequence \in Nat
      BY <1>3, <2>1, ItemKinds, PacketFields
  <2>3. HeaderSound(wire[k])
      BY <1>1, <1>3
  <2> QED
      BY <1>0, <2>2, <2>3 DEF HeaderSound
<1> QED
    BY <1>2, <1>3 DEF HeadersSound, HeaderSound

(* The receiver's frames and its end do not depend on where the sender is  *)
(* before its own end.                                                     *)
LEMMA OutputKept ==
    ASSUME CopyInv, UNCHANGED receiverVars,
           captured' \in Nat, captured' >= captured,
           spc = "done" => spc' = spc /\ rc' = rc /\ frames' = frames
    PROVE  OutputInv'
<1>1. /\ rpc' = rpc /\ hdr' = hdr /\ got' = got /\ mem' = mem
      /\ output' = output /\ rrc' = rrc /\ quit' = quit
    BY DEF receiverVars
<1>2. HdrInHand /\ OutputInOrder /\ EndSeen
    BY DEF CopyInv, OutputInv
<1>3. HdrInHand'
    BY <1>1, <1>2, Types DEF HdrInHand, idx, Reading
<1>4. OutputInOrder'
    BY <1>1, <1>2 DEF OutputInOrder, OfOneFrame
<1>5. EndSeen'
    BY <1>1, <1>2 DEF EndSeen
<1> QED
    BY <1>3, <1>4, <1>5 DEF OutputInv

-----------------------------------------------------------------------------
(* The camera                                                              *)

LEMMA CameraCopy == CopyInv /\ Camera => CopyInv'
<1> SUFFICES ASSUME CopyInv, NEW b \in Buffers, Fill(b),
                    UNCHANGED <<linkVars, senderVars, receiverVars>>
             PROVE  CopyInv'
    BY DEF Camera
<1>1. /\ streaming /\ vb2[b] = "queued"
      /\ vb2' = [vb2 EXCEPT ![b] = "done"]
      /\ content' = [content EXCEPT ![b] = captured]
      /\ captured' = captured + 1 /\ streaming' = streaming
    BY DEF Fill
<1>2. /\ wire' = wire /\ closed' = closed /\ spc' = spc /\ pkt' = pkt
      /\ sent' = sent /\ frames' = frames /\ rc' = rc
      /\ rpc' = rpc /\ hdr' = hdr /\ got' = got /\ output' = output
    BY DEF linkVars, senderVars, receiverVars
<1>3. captured \in Nat /\ Taken \in Nat
    BY Types
<1>4. TypeOK'
  <2>1. QueueTypeOK'
      BY <1>1, <1>3 DEF CopyInv, TypeOK, QueueTypeOK
  <2>2. LinkTypeOK' /\ SenderTypeOK'
      BY <1>2 DEF CopyInv, TypeOK, LinkTypeOK, SenderTypeOK
  <2>3. ReceiverTypeOK'
      BY DEF CopyInv, TypeOK, ReceiverTypeOK, receiverVars
  <2> QED
      BY <2>1, <2>2, <2>3 DEF TypeOK
<1>5. /\ \A c \in Buffers \ {b} : vb2'[c] = vb2[c]
                                  /\ content'[c] = content[c]
      /\ vb2'[b] = "done" /\ content'[b] = captured
    BY <1>1 DEF CopyInv, TypeOK, QueueTypeOK
<1>6. QueueInv'
  <2>1. Running' = Running /\ Holding' = Holding /\ Taken' = Taken
      BY <1>2 DEF Running, Holding, Taken
  <2>2. ASSUME Running PROVE DoneInOrder' /\ Taken' <= captured'
    <3>1. DoneInOrder /\ Taken <= captured
        BY <2>2 DEF CopyInv, QueueInv
    <3>2. \A c \in Buffers : vb2'[c] = "done" =>
              content'[c] \in Nat /\ Taken <= content'[c]
              /\ content'[c] < captured'
        BY <1>1, <1>3, <1>5, <3>1 DEF DoneInOrder
    <3>3. \A c, d \in Buffers :
              vb2'[c] = "done" /\ vb2'[d] = "done"
                  /\ content'[c] = content'[d] => c = d
        BY <1>3, <1>5, <3>1 DEF DoneInOrder
    <3>4. ASSUME NEW n \in Taken..(captured' - 1)
          PROVE  \E c \in Buffers : vb2'[c] = "done" /\ content'[c] = n
      <4>1. CASE n = captured
          BY <1>5, <4>1
      <4>2. CASE n # captured
        <5>1. n \in Taken..(captured - 1)
            BY <1>1, <1>3, <4>2
        <5>2. PICK c \in Buffers : vb2[c] = "done" /\ content[c] = n
            BY <3>1, <5>1 DEF DoneInOrder
        <5> QED
            BY <1>1, <1>5, <5>2
      <4> QED
          BY <4>1, <4>2
    <3> QED
        BY <1>1, <1>3, <2>1, <3>1, <3>2, <3>3, <3>4 DEF DoneInOrder
  <2>3. ASSUME Holding PROVE PktOfBuffer'
      BY <1>1, <1>2, <1>5, <2>3 DEF CopyInv, QueueInv, PktOfBuffer
  <2> QED
      BY <2>1, <2>2, <2>3 DEF QueueInv
<1>7. captured' \in Nat /\ captured' >= captured
    BY <1>1, <1>3
<1>8. HeadersSound'
    BY <1>2, <1>7, HeadersKept
<1>9. StreamInv'
    BY <1>2, PlacesKept
    DEF CopyInv, StreamInv, Reading, Running, SentSoFar, BetweenFrames,
        InFrame
<1>10. OutputInv'
    BY <1>2, <1>7, OutputKept
<1> QED
    BY <1>4, <1>6, <1>8, <1>9, <1>10 DEF CopyInv

-----------------------------------------------------------------------------
(* sender                                                                  *)

(* What the actions of sender leave alone.                                 *)
LEMMA ReceiverStays ==
    UNCHANGED receiverVars
        => /\ rpc' = rpc /\ hdr' = hdr /\ got' = got /\ output' = output
           /\ ReceiverTypeOK => ReceiverTypeOK'
BY DEF receiverVars, ReceiverTypeOK

LEMMA LinkStays ==
    UNCHANGED linkVars
        => /\ wire' = wire /\ closed' = closed
           /\ LinkTypeOK => LinkTypeOK'
BY DEF linkVars, LinkTypeOK

LEMMA QueueStays ==
    UNCHANGED queueVars
        => /\ vb2' = vb2 /\ content' = content /\ captured' = captured
           /\ streaming' = streaming
           /\ QueueTypeOK => QueueTypeOK'
BY DEF queueVars, QueueTypeOK

(* DQBUF gives the next frame of the stream.                               *)
LEMMA NextFrame ==
    ASSUME CopyInv, spc = "dqbuf", NEW b \in Buffers, DequeueBuffer(b)
    PROVE  content[b] = frames /\ frames < captured
<1>1. Taken = frames /\ DoneInOrder
    BY DEF CopyInv, QueueInv, Running, Holding, Taken
<1>2. /\ vb2[b] = "done"
      /\ \A c \in Buffers : vb2[c] = "done" => content[b] <= content[c]
    BY DEF DequeueBuffer
<1>3. frames \in Nat /\ captured \in Nat
    BY Types
<1>4. content[b] \in Nat /\ frames <= content[b] /\ content[b] < captured
    BY <1>1, <1>2 DEF DoneInOrder
<1>5. frames \in frames..(captured - 1)
    BY <1>3, <1>4
<1>6. PICK c \in Buffers : vb2[c] = "done" /\ content[c] = frames
    BY <1>1, <1>5 DEF DoneInOrder
<1> QED
    BY <1>2, <1>3, <1>4, <1>6

LEMMA DqBufCopy ==
    ASSUME CopyInv, NEW b \in Buffers, DqBuf(b), UNCHANGED receiverVars
    PROVE  CopyInv'
<1>1. /\ spc = "dqbuf" /\ spc' = "header" /\ sent' = 0
      /\ frames' = frames /\ rc' = rc /\ DequeueBuffer(b)
      /\ UNCHANGED linkVars
    BY DEF DqBuf
<1>2. PICK raw \in RawSizes :
          pkt' = [index |-> b, bytesused |-> Clamp(raw, b),
                  sequence |-> content[b]]
    BY DEF DqBuf
<1>3. /\ vb2[b] = "done" /\ vb2' = [vb2 EXCEPT ![b] = "dequeued"]
      /\ content' = content /\ captured' = captured
      /\ streaming' = streaming
    BY <1>1 DEF DequeueBuffer
<1>4. content[b] = frames /\ frames < captured /\ frames \in Nat
      /\ captured \in Nat
    BY <1>1, NextFrame, Types
<1>5. Clamp(raw, b) \in Nat /\ Clamp(raw, b) <= BufLen[b] /\ b \in Nat
    BY BufferLengths, CopySenderAssumption DEF Clamp
<1>6. /\ pkt' \in frame_packet /\ pkt'.index = b
      /\ pkt'.bytesused <= BufLen[b] /\ pkt'.sequence = frames
      /\ pkt'.bytesused \in Nat
    BY <1>2, <1>4, <1>5 DEF frame_packet
<1>7. /\ vb2'[b] = "dequeued"
      /\ \A c \in Buffers \ {b} : vb2'[c] = vb2[c]
    BY <1>3 DEF CopyInv, TypeOK, QueueTypeOK
<1>8. TypeOK'
  <2>1. QueueTypeOK'
      BY <1>3 DEF CopyInv, TypeOK, QueueTypeOK
  <2>2. SenderTypeOK'
    <3>1. 0 \in 0..pkt'.bytesused
        BY <1>6
    <3> QED
        BY <1>1, <1>6, <3>1 DEF CopyInv, TypeOK, SenderTypeOK
  <2> QED
      BY <1>1, <2>1, <2>2, ReceiverStays, LinkStays DEF CopyInv, TypeOK
<1>9. QueueInv'
  <2>1. DoneInOrder /\ Taken = frames /\ Taken' = frames + 1
      BY <1>1 DEF CopyInv, QueueInv, Running, Holding, Taken
  <2>2. \A c \in Buffers : vb2'[c] = "done" =>
            content[c] \in Nat /\ frames + 1 <= content[c]
            /\ content[c] < captured
    <3> SUFFICES ASSUME NEW c \in Buffers, vb2'[c] = "done"
                 PROVE  content[c] \in Nat /\ frames + 1 <= content[c]
                        /\ content[c] < captured
        OBVIOUS
    <3>1. c # b /\ vb2[c] = "done"
        BY <1>7
    <3>2. content[c] # content[b]
        BY <1>3, <2>1, <3>1 DEF DoneInOrder
    <3>3. content[c] \in Nat /\ frames <= content[c]
          /\ content[c] < captured
        BY <2>1, <3>1 DEF DoneInOrder
    <3> QED
        BY <1>4, <3>2, <3>3
  <2>3. \A c, d \in Buffers :
            vb2'[c] = "done" /\ vb2'[d] = "done" /\ content[c] = content[d]
                => c = d
      BY <1>7, <2>1 DEF DoneInOrder
  <2>4. ASSUME NEW n \in (frames + 1)..(captured - 1)
        PROVE  \E c \in Buffers : vb2'[c] = "done" /\ content[c] = n
    <3>1. n \in frames..(captured - 1) /\ n # frames
        BY <1>4
    <3>2. PICK c \in Buffers : vb2[c] = "done" /\ content[c] = n
        BY <2>1, <3>1 DEF DoneInOrder
    <3> QED
        BY <1>4, <1>7, <3>1, <3>2
  <2>5. DoneInOrder'
      BY <1>3, <2>1, <2>2, <2>3, <2>4 DEF DoneInOrder
  <2>6. frames + 1 <= captured
      BY <1>4
  <2>7. PktOfBuffer'
      BY <1>1, <1>3, <1>4, <1>6, <1>7 DEF PktOfBuffer
  <2> QED
      BY <1>3, <2>1, <2>5, <2>6, <2>7 DEF QueueInv
<1>10. captured' \in Nat /\ captured' >= captured
    BY <1>3, <1>4
<1>11. HeadersSound'
    BY <1>1, <1>10, HeadersKept, LinkStays
<1>12. StreamInv'
    BY <1>1, PlacesKept, ReceiverStays, LinkStays
    DEF CopyInv, StreamInv, Reading, Running, SentSoFar, BetweenFrames,
        InFrame
<1>13. OutputInv'
    BY <1>1, <1>10, OutputKept
<1> QED
    BY <1>8, <1>9, <1>11, <1>12, <1>13 DEF CopyInv

(* One more item at the end of the stream.                                 *)
LEMMA ItemSent ==
    ASSUME CopyInv, NEW item \in frame_packet \cup payload_unit,
           SendItem(item), UNCHANGED receiverVars
    PROVE  /\ LinkTypeOK' /\ closed' = closed
           /\ Len(wire') = Len(wire) + 1
           /\ wire'[Len(wire) + 1] = item
           /\ \A j \in 1..Len(wire) : wire'[j] = wire[j]
           /\ \A k \in Starts' :
                 \/ k \in Starts
                 \/ /\ k = Len(wire) + 1 /\ IsHeader(item)
                    /\ SizeAt(k)' = item.bytesused
                    /\ SequenceAt(k)' = item.sequence
           /\ \A k \in Starts : SizeAt(k)' = SizeAt(k)
                                /\ SequenceAt(k)' = SequenceAt(k)
<1>1. /\ wire' = Append(wire, item) /\ closed' = closed
      /\ rpc' = rpc /\ hdr' = hdr /\ got' = got /\ output' = output
    BY ReceiverStays DEF SendItem
<1>2. Len(wire) \in Nat /\ got \in Nat
      /\ wire \in Seq(frame_packet \cup payload_unit)
    BY Types
<1>3. /\ wire' \in Seq(frame_packet \cup payload_unit)
      /\ Len(wire') = Len(wire) + 1
      /\ wire'[Len(wire) + 1] = item
      /\ \A j \in 1..Len(wire) : wire'[j] = wire[j]
    BY <1>1, <1>2, AppendProperties
<1>4. LinkTypeOK'
    BY <1>1, <1>3 DEF CopyInv, TypeOK, LinkTypeOK
<1>5. ASSUME NEW k \in Starts'
      PROVE  \/ k \in Starts
             \/ k = Len(wire) + 1 /\ IsHeader(item)
  <2>1. \/ k = 0 - got
        \/ k \in 1..(Len(wire) + 1) /\ IsHeader(wire'[k])
      BY <1>1, <1>3, <1>5 DEF Starts
  <2>2. k \in 1..(Len(wire) + 1) => k \in 1..Len(wire) \/ k = Len(wire) + 1
      BY <1>2
  <2> QED
      BY <1>3, <2>1, <2>2 DEF Starts
<1>6. ASSUME NEW k \in Starts
      PROVE  SizeAt(k)' = SizeAt(k) /\ SequenceAt(k)' = SequenceAt(k)
  <2>1. CASE k >= 1
    <3>1. k \in 1..Len(wire)
        BY <1>2, <1>6, <2>1 DEF Starts
    <3> QED
        BY <1>3, <2>1, <3>1 DEF SizeAt, SequenceAt
  <2>2. CASE ~(k >= 1)
      BY <1>1, <2>2 DEF SizeAt, SequenceAt
  <2> QED
      BY <2>1, <2>2
<1>7. ASSUME NEW k, k = Len(wire) + 1
      PROVE  /\ SizeAt(k)' = item.bytesused
             /\ SequenceAt(k)' = item.sequence
  <2>1. k >= 1 /\ wire'[k] = item
      BY <1>2, <1>3, <1>7
  <2> QED
      BY <2>1 DEF SizeAt, SequenceAt
<1> QED
    BY <1>1, <1>3, <1>4, <1>5, <1>6, <1>7

LEMMA SendHeaderCopy ==
    CopyInv /\ SendHeader /\ UNCHANGED receiverVars => CopyInv'
<1> SUFFICES ASSUME CopyInv, SendHeader, UNCHANGED receiverVars
             PROVE  CopyInv'
    OBVIOUS
<1>1. /\ spc = "header" /\ spc' = "payload" /\ pkt' = pkt /\ sent' = sent
      /\ frames' = frames /\ rc' = rc /\ UNCHANGED queueVars
      /\ SendItem(pkt)
    BY DEF SendHeader
<1>2. /\ vb2' = vb2 /\ content' = content /\ captured' = captured
      /\ streaming' = streaming
    BY <1>1, QueueStays
<1>3. pkt \in frame_packet /\ IsHeader(pkt) /\ captured \in Nat
      /\ Len(wire) \in Nat /\ frames \in Nat
    BY Types, ItemKinds
<1>4. /\ LinkTypeOK' /\ closed' = closed
      /\ Len(wire') = Len(wire) + 1
      /\ wire'[Len(wire) + 1] = pkt
      /\ \A j \in 1..Len(wire) : wire'[j] = wire[j]
      /\ \A k \in Starts' :
            \/ k \in Starts
            \/ /\ k = Len(wire) + 1 /\ SizeAt(k)' = pkt.bytesused
               /\ SequenceAt(k)' = pkt.sequence
      /\ \A k \in Starts : SizeAt(k)' = SizeAt(k)
                           /\ SequenceAt(k)' = SequenceAt(k)
    BY <1>1, <1>3, ItemSent
<1>5. TypeOK'
    BY <1>1, <1>4, QueueStays, ReceiverStays
    DEF CopyInv, TypeOK, SenderTypeOK
<1>6. QueueInv' /\ PktOfBuffer
  <2>1. Holding /\ Holding' /\ Running /\ Running'
      BY <1>1 DEF Running, Holding
  <2>2. Taken' = Taken
      BY <1>1, <2>1 DEF Taken
  <2> QED
      BY <1>1, <1>2, <2>1, <2>2
      DEF CopyInv, QueueInv, DoneInOrder, PktOfBuffer
<1>7. HeadersSound'
  <2>1. Taken <= captured /\ Taken = frames + 1
      BY <1>1 DEF CopyInv, QueueInv, Running, Holding, Taken
  <2>2. HeaderSound(pkt)
      BY <1>3, <1>6, <2>1 DEF HeaderSound, PktOfBuffer
  <2>3. \A h : HeaderSound(h)' = HeaderSound(h)
      BY <1>2 DEF HeaderSound
  <2>4. \A k \in 1..(Len(wire) + 1) :
            k \in 1..Len(wire) \/ k = Len(wire) + 1
      BY <1>3
  <2> QED
      BY <1>2, <1>4, <2>2, <2>4
      DEF CopyInv, HeadersSound, HeaderSound
<1>8. StreamInv'
  <2>1. ASSUME Reading' PROVE FramesOnWire' /\ InFrame'
    <3>1. FramesOnWire /\ BetweenFrames
        BY <2>1, ReceiverStays DEF CopyInv, StreamInv, Reading
    <3>2. ASSUME NEW k \in Starts
          PROVE  FrameAt(wire', k, SizeAt(k), SequenceAt(k))
                 /\ k + SizeAt(k) < Len(wire')
      <4>1. /\ FrameAt(wire, k, SizeAt(k), SequenceAt(k))
            /\ WholeFrames(Len(wire), k, SizeAt(k), SequenceAt(k), frames)
          BY <1>1, <3>1 DEF FramesOnWire, BetweenFrames
      <4>2. /\ k \in Int /\ SizeAt(k) \in Nat /\ SequenceAt(k) \in Int
          BY Types
      <4>3. k + SizeAt(k) <= Len(wire)
          BY <4>1 DEF WholeFrames
      <4>4. pkt.sequence = frames
          BY <1>6 DEF PktOfBuffer
      <4>5. ASSUME NEW j \in 1..Len(wire')
            PROVE  /\ k < j /\ j <= k + SizeAt(k)
                         => ~IsHeader(wire'[j])
                            /\ wire'[j].pixels = SequenceAt(k)
                   /\ j = k + SizeAt(k) + 1
                         => IsHeader(wire'[j])
                            /\ wire'[j].sequence = SequenceAt(k) + 1
        <5>1. CASE j \in 1..Len(wire)
            BY <1>4, <4>1, <5>1 DEF FrameAt
        <5>2. CASE j = Len(wire) + 1
          <6>1. ~(j <= k + SizeAt(k))
              BY <1>3, <4>2, <4>3, <5>2
          <6>2. ASSUME j = k + SizeAt(k) + 1
                PROVE  SequenceAt(k) + 1 = frames
            <7>1. k + SizeAt(k) = Len(wire)
                BY <1>3, <4>2, <5>2, <6>2
            <7> QED
                BY <4>1, <7>1 DEF WholeFrames
          <6> QED
              BY <1>3, <1>4, <4>4, <5>2, <6>1, <6>2
        <5> QED
            BY <1>3, <1>4, <5>1, <5>2
      <4>6. FrameAt(wire', k, SizeAt(k), SequenceAt(k))
          BY <4>5 DEF FrameAt
      <4>7. k + SizeAt(k) < Len(wire')
          BY <1>3, <1>4, <4>2, <4>3
      <4> QED
          BY <4>6, <4>7
    <3>3. ASSUME NEW k, k = Len(wire) + 1
          PROVE  FrameAt(wire', k, pkt.bytesused, pkt.sequence)
      <4>1. pkt.bytesused \in Nat /\ Len(wire') = k /\ k \in Nat
          BY <1>3, <1>4, <3>3, PacketFields
      <4> QED
          BY <4>1 DEF FrameAt
    <3>4. FramesOnWire'
        BY <1>4, <3>2, <3>3 DEF FramesOnWire
    <3>5. InFrame'
      <4> SUFFICES ASSUME NEW k \in Starts'
                   PROVE  OpenFrame(Len(wire'), k, SizeAt(k)',
                                    SequenceAt(k)', sent, pkt)
          BY <1>1 DEF InFrame
      <4>1. CASE k \in Starts
        <5>1. k + SizeAt(k) < Len(wire') /\ k + SizeAt(k) \in Int
            BY <3>2, <4>1, Types
        <5>2. ~(k + SizeAt(k) >= Len(wire'))
            BY <1>3, <1>4, <5>1
        <5> QED
            BY <1>4, <4>1, <5>2 DEF OpenFrame
      <4>2. CASE k = Len(wire) + 1 /\ SizeAt(k)' = pkt.bytesused
                 /\ SequenceAt(k)' = pkt.sequence
        <5>1. sent = 0
            BY <1>1 DEF CopyInv, StreamInv, SentSoFar
        <5> QED
            BY <1>3, <1>4, <4>2, <5>1 DEF OpenFrame
      <4> QED
          BY <1>4, <4>1, <4>2
    <3> QED
        BY <3>4, <3>5
  <2>2. rc' # 0 /\ BetweenFrames'
      BY <1>1 DEF CopyInv, StreamInv, Running, BetweenFrames
  <2> QED
      BY <1>1, <1>4, <2>1, <2>2
      DEF CopyInv, StreamInv, SentSoFar, Running
<1>9. OutputInv'
  <2>1. captured' \in Nat /\ captured' >= captured
      BY <1>2, <1>3
  <2> QED
      BY <1>1, <2>1, OutputKept
<1> QED
    BY <1>5, <1>6, <1>7, <1>8, <1>9 DEF CopyInv

LEMMA SendPayloadCopy ==
    CopyInv /\ SendPayload /\ UNCHANGED receiverVars => CopyInv'
<1> SUFFICES ASSUME CopyInv, SendPayload, UNCHANGED receiverVars
             PROVE  CopyInv'
    OBVIOUS
<1> DEFINE u == [pixels |-> content[pkt.index]]
<1>1. /\ spc = "payload" /\ spc' = "payload" /\ pkt' = pkt
      /\ sent' = sent + 1 /\ sent < pkt.bytesused
      /\ frames' = frames /\ rc' = rc /\ UNCHANGED queueVars
      /\ SendItem(u)
    BY DEF SendPayload, Unsent
<1>2. /\ vb2' = vb2 /\ content' = content /\ captured' = captured
      /\ streaming' = streaming
    BY <1>1, QueueStays
<1>3. /\ captured \in Nat /\ Len(wire) \in Nat /\ frames \in Nat
      /\ sent \in Nat /\ pkt.bytesused \in Nat
    BY Types
<1>4. QueueInv' /\ PktOfBuffer
  <2>1. Holding /\ Holding' /\ Running /\ Running'
      BY <1>1 DEF Running, Holding
  <2>2. Taken' = Taken
      BY <1>1, <2>1 DEF Taken
  <2> QED
      BY <1>1, <1>2, <2>1, <2>2
      DEF CopyInv, QueueInv, DoneInOrder, PktOfBuffer
<1>5. u.pixels = pkt.sequence /\ u \in payload_unit
  <2>1. content[pkt.index] = pkt.sequence /\ pkt.sequence \in Nat
      BY <1>4, Types DEF PktOfBuffer
  <2> QED
      BY <2>1 DEF payload_unit
<1>6. ~IsHeader(u)
    BY <1>5, ItemKinds
<1> HIDE DEF u
<1>7. /\ LinkTypeOK' /\ closed' = closed
      /\ Len(wire') = Len(wire) + 1
      /\ wire'[Len(wire) + 1] = u
      /\ \A j \in 1..Len(wire) : wire'[j] = wire[j]
      /\ \A k \in Starts' : k \in Starts
      /\ \A k \in Starts : SizeAt(k)' = SizeAt(k)
                           /\ SequenceAt(k)' = SequenceAt(k)
    BY <1>1, <1>5, <1>6, ItemSent
<1>8. TypeOK'
  <2>1. sent' \in 0..pkt.bytesused
      BY <1>1, <1>3
  <2> QED
      BY <1>1, <1>7, <2>1, QueueStays, ReceiverStays
      DEF CopyInv, TypeOK, SenderTypeOK
<1>9. HeadersSound'
  <2>1. \A k \in 1..(Len(wire) + 1) :
            k \in 1..Len(wire) \/ k = Len(wire) + 1
      BY <1>3
  <2> QED
      BY <1>2, <1>6, <1>7, <2>1 DEF CopyInv, HeadersSound, HeaderSound
<1>10. StreamInv'
  <2>1. ASSUME Reading' PROVE FramesOnWire' /\ InFrame'
    <3>1. FramesOnWire /\ InFrame
        BY <2>1, ReceiverStays DEF CopyInv, StreamInv, Reading
    <3>2. ASSUME NEW k \in Starts
          PROVE  /\ FrameAt(wire', k, SizeAt(k), SequenceAt(k))
                 /\ OpenFrame(Len(wire'), k, SizeAt(k), SequenceAt(k),
                              sent', pkt)
      <4>1. /\ FrameAt(wire, k, SizeAt(k), SequenceAt(k))
            /\ OpenFrame(Len(wire), k, SizeAt(k), SequenceAt(k), sent, pkt)
          BY <1>1, <3>1 DEF FramesOnWire, InFrame
      <4>2. k \in Int /\ SizeAt(k) \in Nat
          BY Types
      <4>3. k + SizeAt(k) >= Len(wire)
               => /\ k + sent = Len(wire) /\ SizeAt(k) = pkt.bytesused
                  /\ SequenceAt(k) = pkt.sequence
          BY <4>1 DEF OpenFrame
      <4>4. ASSUME NEW j \in 1..Len(wire')
            PROVE  /\ k < j /\ j <= k + SizeAt(k)
                         => ~IsHeader(wire'[j])
                            /\ wire'[j].pixels = SequenceAt(k)
                   /\ j = k + SizeAt(k) + 1
                         => IsHeader(wire'[j])
                            /\ wire'[j].sequence = SequenceAt(k) + 1
        <5>1. CASE j \in 1..Len(wire)
            BY <1>7, <4>1, <5>1 DEF FrameAt
        <5>2. CASE j = Len(wire) + 1
          <6>1. j <= k + SizeAt(k) => SequenceAt(k) = pkt.sequence
              BY <1>3, <4>2, <4>3, <5>2
          <6>2. j # k + SizeAt(k) + 1
              BY <1>1, <1>3, <4>2, <4>3, <5>2
          <6> QED
              BY <1>5, <1>6, <1>7, <5>2, <6>1, <6>2
        <5> QED
            BY <1>3, <1>7, <5>1, <5>2
      <4>5. FrameAt(wire', k, SizeAt(k), SequenceAt(k))
          BY <4>4 DEF FrameAt
      <4>6. k + SizeAt(k) >= Len(wire')
               => /\ k + sent' = Len(wire') /\ SizeAt(k) = pkt.bytesused
                  /\ SequenceAt(k) = pkt.sequence
          BY <1>1, <1>3, <1>7, <4>2, <4>3
      <4> QED
          BY <4>5, <4>6 DEF OpenFrame
    <3>3. FramesOnWire'
        BY <1>7, <3>2 DEF FramesOnWire
    <3>4. InFrame'
        BY <1>1, <1>7, <3>2 DEF InFrame
    <3> QED
        BY <3>3, <3>4
  <2>2. rc' # 0 /\ BetweenFrames'
      BY <1>1 DEF CopyInv, StreamInv, Running, BetweenFrames
  <2> QED
      BY <1>1, <1>7, <2>1, <2>2
      DEF CopyInv, StreamInv, SentSoFar, Running
<1>11. OutputInv'
  <2>1. captured' \in Nat /\ captured' >= captured
      BY <1>2, <1>3
  <2> QED
      BY <1>1, <2>1, OutputKept
<1> QED
    BY <1>4, <1>8, <1>9, <1>10, <1>11 DEF CopyInv

LEMMA PayloadSentCopy ==
    CopyInv /\ PayloadSent /\ UNCHANGED receiverVars => CopyInv'
<1> SUFFICES ASSUME CopyInv, PayloadSent, UNCHANGED receiverVars
             PROVE  CopyInv'
    OBVIOUS
<1>1. /\ spc = "payload" /\ spc' = "requeue" /\ pkt' = pkt
      /\ sent' = sent /\ ~(sent < pkt.bytesused)
      /\ frames' = frames /\ rc' = rc
      /\ UNCHANGED linkVars /\ UNCHANGED queueVars
    BY DEF PayloadSent, Unsent
<1>2. /\ vb2' = vb2 /\ content' = content /\ captured' = captured
      /\ streaming' = streaming
    BY <1>1, QueueStays
<1>3. sent = pkt.bytesused
  <2>1. sent \in 0..pkt.bytesused
      BY DEF CopyInv, TypeOK, SenderTypeOK
  <2> QED
      BY <1>1, <2>1, Types
<1>4. TypeOK'
    BY <1>1, QueueStays, ReceiverStays, LinkStays
    DEF CopyInv, TypeOK, SenderTypeOK
<1>5. QueueInv'
  <2>1. Holding /\ Holding' /\ Running /\ Running'
      BY <1>1 DEF Running, Holding
  <2>2. Taken' = Taken
      BY <1>1, <2>1 DEF Taken
  <2> QED
      BY <1>1, <1>2, <2>1, <2>2
      DEF CopyInv, QueueInv, DoneInOrder, PktOfBuffer
<1>6. captured' \in Nat /\ captured' >= captured
    BY <1>2, Types
<1>7. HeadersSound'
    BY <1>1, <1>6, HeadersKept, LinkStays
<1>8. StreamInv'
    BY <1>1, <1>3, PlacesKept, ReceiverStays, LinkStays
    DEF CopyInv, StreamInv, Reading, Running, SentSoFar, BetweenFrames,
        InFrame
<1>9. OutputInv'
    BY <1>1, <1>6, OutputKept
<1> QED
    BY <1>4, <1>5, <1>7, <1>8, <1>9 DEF CopyInv

LEMMA RequeueCopy ==
    CopyInv /\ Requeue /\ UNCHANGED receiverVars => CopyInv'
<1> SUFFICES ASSUME CopyInv, Requeue, UNCHANGED receiverVars
             PROVE  CopyInv'
    OBVIOUS
<1>1. /\ spc = "requeue" /\ spc' = "dqbuf" /\ pkt' = pkt
      /\ sent' = sent /\ frames' = frames + 1 /\ rc' = rc
      /\ UNCHANGED linkVars
      /\ vb2' = [vb2 EXCEPT ![pkt.index] = "queued"]
      /\ content' = content /\ captured' = captured
      /\ streaming' = streaming
    BY DEF Requeue, QueueBuffer
<1>2. frames \in Nat /\ captured \in Nat /\ Len(wire) \in Nat
      /\ sent \in Nat
    BY Types
<1>3. PktOfBuffer /\ DoneInOrder /\ Taken <= captured
    BY <1>1 DEF CopyInv, QueueInv, Holding, Running
<1>4. TypeOK'
  <2>1. QueueTypeOK'
      BY <1>1 DEF CopyInv, TypeOK, QueueTypeOK
  <2>2. SenderTypeOK'
      BY <1>1, <1>2 DEF CopyInv, TypeOK, SenderTypeOK
  <2> QED
      BY <1>1, <2>1, <2>2, ReceiverStays, LinkStays DEF CopyInv, TypeOK
<1>5. QueueInv'
  <2>1. Taken = frames + 1 /\ Taken' = frames + 1 /\ ~Holding'
      BY <1>1 DEF Taken, Holding
  <2>2. \A b \in Buffers : vb2'[b] = "done" <=> vb2[b] = "done"
      BY <1>1, <1>3 DEF CopyInv, TypeOK, QueueTypeOK, PktOfBuffer
  <2>3. DoneInOrder'
      BY <1>1, <1>3, <2>1, <2>2 DEF DoneInOrder
  <2> QED
      BY <1>1, <1>3, <2>1, <2>3 DEF QueueInv
<1>6. captured' \in Nat /\ captured' >= captured
    BY <1>1, <1>2
<1>7. HeadersSound'
    BY <1>1, <1>6, HeadersKept, LinkStays
<1>8. StreamInv'
  <2>1. ASSUME Reading' PROVE FramesOnWire' /\ BetweenFrames'
    <3>1. FramesOnWire /\ InFrame
        BY <2>1, ReceiverStays DEF CopyInv, StreamInv, Reading
    <3>2. ASSUME NEW k \in Starts
          PROVE  WholeFrames(Len(wire), k, SizeAt(k), SequenceAt(k),
                             frames + 1)
      <4>1. OpenFrame(Len(wire), k, SizeAt(k), SequenceAt(k), sent, pkt)
          BY <1>1, <3>1 DEF InFrame
      <4>2. k \in Int /\ SizeAt(k) \in Nat
          BY Types
      <4>3. sent = pkt.bytesused /\ pkt.sequence = frames
          BY <1>1, <1>3 DEF CopyInv, StreamInv, SentSoFar, PktOfBuffer
      <4> QED
          BY <1>2, <4>1, <4>2, <4>3 DEF OpenFrame, WholeFrames
    <3> QED
        BY <1>1, <3>1, <3>2, PlacesKept, ReceiverStays, LinkStays
        DEF BetweenFrames
  <2> QED
      BY <1>1, <2>1, LinkStays
      DEF CopyInv, StreamInv, Running, SentSoFar, InFrame
<1>9. OutputInv'
    BY <1>1, <1>6, OutputKept
<1> QED
    BY <1>4, <1>5, <1>7, <1>8, <1>9 DEF CopyInv

(* sender leaves its loop, at the limit or because a call failed.          *)
LEMMA LeaveCopy ==
    CopyInv /\ (LimitReached \/ SendFails \/ IoctlFails)
            /\ UNCHANGED receiverVars
        => CopyInv'
<1> SUFFICES ASSUME CopyInv, LimitReached \/ SendFails \/ IoctlFails,
                    UNCHANGED receiverVars
             PROVE  CopyInv'
    OBVIOUS
<1>1. /\ spc' = "streamoff" /\ pkt' = pkt /\ sent' = sent
      /\ frames' = frames /\ rc' \in {0, 1}
      /\ rc' = 0 => spc = "dqbuf"
      /\ spc # "done"
      /\ UNCHANGED linkVars /\ UNCHANGED queueVars
    BY DEF LimitReached, SendFails, IoctlFails, GotoOut
<1>2. captured' \in Nat /\ captured' >= captured
    BY <1>1, QueueStays, Types
<1>3. TypeOK'
    BY <1>1, QueueStays, ReceiverStays, LinkStays
    DEF CopyInv, TypeOK, SenderTypeOK
<1>4. QueueInv'
    BY <1>1 DEF QueueInv, Running, Holding
<1>5. HeadersSound'
    BY <1>1, <1>2, HeadersKept, LinkStays
<1>6. StreamInv'
    BY <1>1, PlacesKept, ReceiverStays, LinkStays
    DEF CopyInv, StreamInv, Reading, Running, SentSoFar, BetweenFrames,
        InFrame
<1>7. OutputInv'
    BY <1>1, <1>2, OutputKept
<1> QED
    BY <1>3, <1>4, <1>5, <1>6, <1>7 DEF CopyInv

LEMMA SenderExitCopy ==
    CopyInv /\ (OutStreamOff \/ OutClose \/ SenderKilled)
            /\ UNCHANGED receiverVars
        => CopyInv'
<1> SUFFICES ASSUME CopyInv, OutStreamOff \/ OutClose \/ SenderKilled,
                    UNCHANGED receiverVars
             PROVE  CopyInv'
    OBVIOUS
<1>1. /\ spc' \in {"close", "done"} /\ pkt' = pkt /\ sent' = sent
      /\ frames' = frames /\ rc' \in {0, 1}
      /\ rc' = 0 => rc = 0
      /\ spc # "done" /\ wire' = wire
      /\ captured' = captured /\ content' = content
    BY DEF OutStreamOff, OutClose, SenderKilled, StreamOff, Close,
           linkVars, queueVars, CopyInv, TypeOK, SenderTypeOK
<1>2. /\ closed' = closed \/ closed' = closed \cup {"sender"}
      /\ "sender" \in closed' <=> spc' = "done"
    BY <1>1 DEF OutStreamOff, OutClose, SenderKilled, Close, linkVars,
                CopyInv, StreamInv
<1>3. captured' \in Nat /\ captured' >= captured
    BY <1>1, Types
<1>4. QueueTypeOK'
  <2>1. vb2' \in [Buffers -> {"queued", "done", "dequeued"}]
        /\ streaming' \in BOOLEAN
    <3>1. CASE StreamOff
      <4>1. vb2' = [b \in Buffers |-> "dequeued"] /\ streaming' = FALSE
          BY <3>1 DEF StreamOff
      <4> QED
          BY <4>1
    <3>2. CASE UNCHANGED queueVars
        BY <3>2, QueueStays DEF CopyInv, TypeOK, QueueTypeOK
    <3> QED
        BY <3>1, <3>2 DEF OutStreamOff, OutClose, SenderKilled
  <2> QED
      BY <1>1, <2>1 DEF CopyInv, TypeOK, QueueTypeOK
<1>5. TypeOK'
    BY <1>1, <1>2, <1>4, ReceiverStays
    DEF CopyInv, TypeOK, SenderTypeOK, LinkTypeOK
<1>6. QueueInv'
    BY <1>1 DEF QueueInv, Running, Holding
<1>7. HeadersSound'
    BY <1>1, <1>3, HeadersKept
<1>8. StreamInv'
    BY <1>1, <1>2, PlacesKept, ReceiverStays
    DEF CopyInv, StreamInv, Reading, Running, SentSoFar, BetweenFrames,
        InFrame
<1>9. OutputInv'
    BY <1>1, <1>3, OutputKept
<1> QED
    BY <1>5, <1>6, <1>7, <1>8, <1>9 DEF CopyInv

LEMMA SenderCopy == CopyInv /\ Sender => CopyInv'
BY DqBufCopy, SendHeaderCopy, SendPayloadCopy, PayloadSentCopy,
   RequeueCopy, LeaveCopy, SenderExitCopy
DEF Sender, SenderNext, SenderStep

-----------------------------------------------------------------------------
(* The receiver                                                            *)

(* What the actions of the receiver leave alone.                           *)
LEMMA SenderStays ==
    CopyInv /\ UNCHANGED <<queueVars, senderVars>>
        => /\ spc' = spc /\ pkt' = pkt /\ sent' = sent /\ frames' = frames
           /\ rc' = rc /\ captured' = captured
           /\ SenderTypeOK' /\ QueueTypeOK' /\ QueueInv'
BY DEF queueVars, senderVars, CopyInv, TypeOK, SenderTypeOK, QueueTypeOK,
       QueueInv, Running, Holding, Taken, DoneInOrder, PktOfBuffer

(* A step within the frame that reads nothing.                             *)
LEMMA PauseCopy ==
    CopyInv /\ (UserQuits \/ PollIdle \/ PayloadComplete)
            /\ UNCHANGED <<queueVars, senderVars>>
        => CopyInv'
<1> SUFFICES ASSUME CopyInv, UserQuits \/ PollIdle \/ PayloadComplete,
                    UNCHANGED <<queueVars, senderVars>>
             PROVE  CopyInv'
    OBVIOUS
<1>1. /\ sdl' = sdl /\ hdr' = hdr /\ got' = got /\ mem' = mem
      /\ output' = output /\ rrc' = rrc /\ wire' = wire /\ closed' = closed
      /\ quit' \in {quit, TRUE}
      /\ \/ rpc' = rpc
         \/ rpc = "poll" /\ rpc' = "header"
         \/ rpc = "payload" /\ rpc' = "use" /\ got = hdr.bytesused
      /\ Reading
    BY DEF UserQuits, PollIdle, PayloadComplete, linkVars, Reading, CopyInv,
           TypeOK, ReceiverTypeOK
<1>2. TypeOK'
  <2>1. quit' \in BOOLEAN
      BY <1>1 DEF CopyInv, TypeOK, ReceiverTypeOK
  <2>2. ReceiverTypeOK'
      BY <1>1, <2>1 DEF CopyInv, TypeOK, ReceiverTypeOK
  <2> QED
      BY <1>1, <2>2, SenderStays DEF CopyInv, TypeOK, LinkTypeOK
<1>3. HeadersSound'
  <2>1. captured' \in Nat /\ captured' >= captured
      BY SenderStays, Types
  <2> QED
      BY <1>1, <2>1, HeadersKept
<1>4. /\ Starts' = Starts
      /\ \A k \in Starts : SizeAt(k)' = SizeAt(k)
                           /\ SequenceAt(k)' = SequenceAt(k)
    BY <1>1 DEF Starts, SizeAt, SequenceAt
<1>5. StreamInv'
    BY <1>1, <1>4, SenderStays
    DEF CopyInv, StreamInv, Running, SentSoFar, FramesOnWire,
        BetweenFrames, InFrame
<1>6. OutputInv'
  <2>1. HdrInHand'
      BY <1>1, SenderStays DEF CopyInv, OutputInv, HdrInHand, idx, Reading
  <2>2. OutputInOrder'
      BY <1>1 DEF CopyInv, OutputInv, OutputInOrder, OfOneFrame
  <2>3. EndSeen'
      BY <1>1 DEF CopyInv, OutputInv, HdrInHand, EndSeen, Reading
  <2> QED
      BY <2>1, <2>2, <2>3 DEF OutputInv
<1> QED
    BY <1>2, <1>3, <1>5, <1>6, SenderStays DEF CopyInv

(* At the end of the stream of a sender that reached its limit every frame *)
(* has come out.                                                           *)
LEMMA EndOfStream ==
    CopyInv /\ rpc = "header" /\ RecvCanFail
        => spc = "done" /\ (rc = 0 => Len(output) = frames)
<1> SUFFICES ASSUME CopyInv, rpc = "header", RecvCanFail
             PROVE  spc = "done" /\ (rc = 0 => Len(output) = frames)
    OBVIOUS
<1>1. spc = "done" /\ wire = <<>> /\ Reading /\ got = hdr.bytesused
    BY DEF RecvCanFail, CopyInv, StreamInv, OutputInv, HdrInHand, Reading
<1>2. ASSUME rc = 0 PROVE Len(output) = frames
  <2>1. 0 - got \in Starts /\ got \in Nat /\ Len(wire) = 0
        /\ Len(output) \in Nat /\ frames \in Nat
      BY <1>1, Types DEF Starts
  <2>2. WholeFrames(0, 0 - got, SizeAt(0 - got), SequenceAt(0 - got),
                    frames)
      BY <1>1, <1>2, <2>1 DEF CopyInv, StreamInv, BetweenFrames
  <2>3. SizeAt(0 - got) = got /\ SequenceAt(0 - got) = Len(output) - 1
    <3>1. ~(0 - got >= 1)
        BY <2>1
    <3> QED
        BY <1>1, <3>1 DEF SizeAt, SequenceAt
  <2>4. 0 - got + got = 0
      BY <2>1
  <2> QED
      BY <2>1, <2>2, <2>3, <2>4 DEF WholeFrames
<1> QED
    BY <1>1, <1>2

LEMMA StopCopy ==
    CopyInv /\ (\/ PollQuit \/ StreamClosed \/ RejectHeader
                \/ RecvPayloadFails \/ UseFails \/ OutCleanup
                \/ ReceiverKilled)
            /\ UNCHANGED <<queueVars, senderVars>>
        => CopyInv'
<1> SUFFICES ASSUME CopyInv,
                    \/ PollQuit \/ StreamClosed \/ RejectHeader
                    \/ RecvPayloadFails \/ UseFails \/ OutCleanup
                    \/ ReceiverKilled,
                    UNCHANGED <<queueVars, senderVars>>
             PROVE  CopyInv'
    OBVIOUS
<1>1. /\ sdl' = sdl /\ hdr' = hdr /\ got' = got /\ mem' = mem
      /\ output' = output /\ quit' = quit
      /\ rpc' \in {"out", "done"} /\ rrc' \in {0, 1}
      /\ \/ wire' = wire
         \/ wire # <<>> /\ wire' = Tail(wire)
      /\ closed' \in {closed, closed \cup {"receiver"}}
    BY DEF PollQuit, StreamClosed, RejectHeader, RecvPayloadFails, UseFails,
           OutCleanup, ReceiverKilled, GotoRecvOut, ReceiveItem, Close,
           linkVars, CopyInv, TypeOK, ReceiverTypeOK
<1>2. wire' \in Seq(frame_packet \cup payload_unit)
  <2>1. wire \in Seq(frame_packet \cup payload_unit)
      BY Types
  <2> QED
      BY <1>1, <2>1, HeadTailProperties
<1>3. TypeOK'
  <2>1. ReceiverTypeOK'
      BY <1>1 DEF CopyInv, TypeOK, ReceiverTypeOK
  <2>2. LinkTypeOK'
      BY <1>1, <1>2 DEF CopyInv, TypeOK, LinkTypeOK
  <2> QED
      BY <2>1, <2>2, SenderStays DEF TypeOK
<1>4. HeadersSound'
  <2>1. captured' \in Nat /\ captured' >= captured
      BY SenderStays, Types
  <2> QED
      BY <1>1, <2>1, HeadersKept
<1>5. StreamInv'
    BY <1>1, SenderStays
    DEF CopyInv, StreamInv, Reading, Running, SentSoFar
<1>6. OutputInv'
  <2>1. HdrInHand'
      BY <1>1 DEF HdrInHand, Reading
  <2>2. OutputInOrder'
      BY <1>1 DEF CopyInv, OutputInv, OutputInOrder, OfOneFrame
  <2>3. EndSeen'
    <3>1. CASE rrc' = 1
        BY <3>1 DEF EndSeen
    <3>2. CASE PollQuit
        BY <1>1, <3>2 DEF PollQuit, EndSeen
    <3>3. CASE StreamClosed
        BY <1>1, <3>3, EndOfStream, SenderStays DEF StreamClosed, EndSeen
    <3>4. CASE rrc' = rrc /\ rpc = "out"
        BY <1>1, <3>4, SenderStays DEF CopyInv, OutputInv, EndSeen
    <3>5. CASE RejectHeader
        BY <3>1, <3>5
        DEF RejectHeader, CopyInv, OutputInv, HdrInHand, Reading
    <3> QED
        BY <1>1, <3>1, <3>2, <3>3, <3>4, <3>5
        DEF RecvPayloadFails, UseFails, OutCleanup, ReceiverKilled,
            GotoRecvOut
  <2> QED
      BY <2>1, <2>2, <2>3 DEF OutputInv
<1> QED
    BY <1>3, <1>4, <1>5, <1>6, SenderStays DEF CopyInv

(* The frames of the stream after its first item is read.                  *)
LEMMA ReadShifts ==
    ASSUME CopyInv, UNCHANGED <<queueVars, senderVars>>, Reading,
           wire # <<>>, wire' = Tail(wire), output' = output,
           rpc' = "payload", got' \in Nat,
           NEW k0 \in Starts, k0 - 1 = 0 - got', hdr'.bytesused = SizeAt(k0),
           Len(output) = SequenceAt(k0)
    PROVE  FramesOnWire' /\ BetweenFrames' /\ InFrame'
<1>1. /\ Len(wire) \in Nat /\ Len(wire) > 0
      /\ Len(wire') = Len(wire) - 1
      /\ \A j \in 1..Len(wire') : wire'[j] = wire[j + 1]
  <2>1. wire \in Seq(frame_packet \cup payload_unit)
      BY Types
  <2> QED
      BY <2>1, HeadTailProperties, EmptySeq
<1>2. ASSUME NEW k \in Starts'
      PROVE  \E j \in Starts : /\ j = k + 1 /\ SizeAt(k)' = SizeAt(j)
                               /\ SequenceAt(k)' = SequenceAt(j)
  <2>1. CASE k = 0 - got'
    <3>1. k0 \in Int
        BY Types
    <3>2. k = k0 - 1
        BY <2>1
    <3>3. k0 - 1 <= 0
        OBVIOUS
    <3>4. ~(k >= 1) /\ k0 = k + 1
        BY <3>1, <3>2, <3>3
    <3> QED
        BY <2>1, <3>4 DEF SizeAt, SequenceAt
  <2>2. CASE k \in 1..Len(wire') /\ IsHeader(wire'[k])
    <3>1. /\ wire'[k] = wire[k + 1] /\ k + 1 \in 1..Len(wire)
          /\ k >= 1 /\ k + 1 >= 1
        BY <1>1, <2>2
    <3>2. k + 1 \in Starts
        BY <2>2, <3>1 DEF Starts
    <3> QED
        BY <3>1, <3>2 DEF SizeAt, SequenceAt
  <2> QED
      BY <1>2, <2>1, <2>2 DEF Starts
<1>3. FramesOnWire /\ BetweenFrames /\ InFrame
    BY DEF CopyInv, StreamInv
<1>4. ASSUME NEW k \in Starts'
      PROVE  /\ FrameAt(wire', k, SizeAt(k)', SequenceAt(k)')
             /\ spc \in {"dqbuf", "header"} \/ rc = 0 =>
                   WholeFrames(Len(wire'), k, SizeAt(k)', SequenceAt(k)',
                               frames)
             /\ spc \in {"payload", "requeue"} =>
                   OpenFrame(Len(wire'), k, SizeAt(k)', SequenceAt(k)',
                             sent, pkt)
  <2>1. PICK j \in Starts : /\ j = k + 1 /\ SizeAt(k)' = SizeAt(j)
                            /\ SequenceAt(k)' = SequenceAt(j)
      BY <1>2, <1>4
  <2> DEFINE n == SizeAt(j)
             q == SequenceAt(j)
  <2>2. /\ FrameAt(wire, j, n, q)
        /\ spc \in {"dqbuf", "header"} \/ rc = 0 =>
              WholeFrames(Len(wire), j, n, q, frames)
        /\ spc \in {"payload", "requeue"} =>
              OpenFrame(Len(wire), j, n, q, sent, pkt)
      BY <1>3 DEF FramesOnWire, BetweenFrames, InFrame
  <2>3. j \in Int /\ n \in Nat /\ q \in Int
      BY Types
  <2>4. k \in Int /\ k = j - 1 /\ sent \in Nat
    <3>1. k \in Int
        BY <1>1, <1>4 DEF Starts
    <3> QED
        BY <2>1, <2>3, <3>1, Types
  <2> HIDE DEF n, q
  <2>5. FrameAt(wire', k, n, q)
    <3> SUFFICES ASSUME NEW m \in 1..Len(wire')
                 PROVE  /\ k < m /\ m <= k + n =>
                              ~IsHeader(wire'[m]) /\ wire'[m].pixels = q
                        /\ m = k + n + 1 =>
                              IsHeader(wire'[m])
                              /\ wire'[m].sequence = q + 1
        BY DEF FrameAt
    <3>1. wire'[m] = wire[m + 1] /\ m + 1 \in 1..Len(wire)
        BY <1>1
    <3>2. /\ j < m + 1 /\ m + 1 <= j + n =>
                ~IsHeader(wire[m + 1]) /\ wire[m + 1].pixels = q
          /\ m + 1 = j + n + 1 =>
                IsHeader(wire[m + 1]) /\ wire[m + 1].sequence = q + 1
        BY <2>2, <3>1 DEF FrameAt
    <3>3. /\ k < m /\ m <= k + n => j < m + 1 /\ m + 1 <= j + n
          /\ m = k + n + 1 => m + 1 = j + n + 1
        BY <2>3, <2>4
    <3> QED
        BY <3>1, <3>2, <3>3
  <2> DEFINE L == Len(wire)
  <2>8. L \in Nat /\ Len(wire') = L - 1
      BY <1>1
  <2> HIDE DEF L
  <2>9. k + n = (j + n) - 1 /\ k + sent = (j + sent) - 1
      BY <2>3, <2>4
  <2>6. WholeFrames(L, j, n, q, frames)
            => WholeFrames(Len(wire'), k, n, q, frames)
      BY <2>3, <2>4, <2>8, <2>9 DEF WholeFrames
  <2>7. OpenFrame(L, j, n, q, sent, pkt)
            => OpenFrame(Len(wire'), k, n, q, sent, pkt)
      BY <2>3, <2>4, <2>8, <2>9 DEF OpenFrame
  <2> QED
      BY <2>1, <2>2, <2>5, <2>6, <2>7 DEF n, q, L
<1> QED
    BY <1>4, SenderStays DEF FramesOnWire, BetweenFrames, InFrame

LEMMA RecvHeaderCopy ==
    CopyInv /\ RecvHeader /\ UNCHANGED <<queueVars, senderVars>> => CopyInv'
<1> SUFFICES ASSUME CopyInv, RecvHeader,
                    UNCHANGED <<queueVars, senderVars>>
             PROVE  CopyInv'
    OBVIOUS
<1>1. /\ rpc = "header" /\ rpc' = "payload" /\ wire # <<>>
      /\ wire' = Tail(wire) /\ closed' = closed
      /\ IsHeader(Head(wire)) /\ Head(wire).bytesused <= SizeImage
      /\ hdr' = Head(wire) /\ got' = 0
      /\ sdl' = sdl /\ mem' = mem /\ output' = output /\ rrc' = rrc
      /\ quit' = quit /\ Reading
    BY DEF RecvHeader, ReceiveItem, HeaderValid, Reading
<1>2. /\ wire \in Seq(frame_packet \cup payload_unit)
      /\ Len(wire) \in Nat /\ got \in Nat /\ Len(output) \in Nat
      /\ captured \in Nat
    BY Types
<1>3. /\ Len(wire) > 0 /\ Head(wire) = wire[1] /\ 1 \in 1..Len(wire)
      /\ wire' \in Seq(frame_packet \cup payload_unit)
    BY <1>1, <1>2, HeadTailProperties, EmptySeq
<1>4. wire[1] \in frame_packet
    BY <1>1, <1>3, Types, ItemKinds
<1>5. /\ 1 \in Starts /\ SizeAt(1) = wire[1].bytesused
      /\ SequenceAt(1) = wire[1].sequence
    BY <1>1, <1>3 DEF Starts, SizeAt, SequenceAt
<1>6. wire[1].sequence = Len(output)
  <2>1. 0 - got \in Starts /\ ~(0 - got >= 1)
      BY <1>2 DEF Starts
  <2>2. SizeAt(0 - got) = got /\ SequenceAt(0 - got) = Len(output) - 1
      BY <1>1, <2>1
      DEF SizeAt, SequenceAt, CopyInv, OutputInv, HdrInHand
  <2>3. FrameAt(wire, 0 - got, SizeAt(0 - got), SequenceAt(0 - got))
      BY <1>1, <2>1 DEF CopyInv, StreamInv, FramesOnWire
  <2>4. 1 = 0 - got + got + 1
      BY <1>2
  <2>5. wire[1].sequence = (Len(output) - 1) + 1
      BY <1>3, <2>2, <2>3, <2>4 DEF FrameAt
  <2> QED
      BY <1>2, <2>5
<1>7. TypeOK'
  <2>1. 0 \in 0..hdr'.bytesused
      BY <1>1, <1>3, <1>4, PacketFields
  <2>2. ReceiverTypeOK'
      BY <1>1, <1>3, <1>4, <2>1 DEF CopyInv, TypeOK, ReceiverTypeOK
  <2>3. LinkTypeOK'
      BY <1>1, <1>3 DEF CopyInv, TypeOK, LinkTypeOK
  <2> QED
      BY <2>2, <2>3, SenderStays DEF TypeOK
<1>8. HeadersSound'
  <2>1. captured' \in Nat /\ captured' >= captured
      BY SenderStays, <1>2
  <2> QED
      BY <1>1, <2>1, HeadersKept
<1>9. StreamInv'
  <2>1. 1 - 1 = 0 - got' /\ got' \in Nat
    <3>1. got' = 0
        BY <1>1
    <3> QED
        BY <3>1
  <2>2. FramesOnWire' /\ BetweenFrames' /\ InFrame'
      BY <1>1, <1>3, <1>5, <1>6, <2>1, ReadShifts
  <2> QED
      BY <1>1, <2>2, SenderStays DEF CopyInv, StreamInv, Running, SentSoFar
<1>10. OutputInv'
  <2>1. HeaderSound(wire[1])
      BY <1>1, <1>3 DEF CopyInv, HeadersSound
  <2>2. HdrInHand'
    <3>1. \A u \in 1..0 : FALSE
        OBVIOUS
    <3> QED
        BY <1>1, <1>3, <1>6, <2>1, <3>1, SenderStays
        DEF CopyInv, OutputInv, HdrInHand, HeaderSound, Reading
  <2>3. OutputInOrder'
      BY <1>1 DEF CopyInv, OutputInv, OutputInOrder, OfOneFrame
  <2>4. EndSeen'
      BY <1>1 DEF CopyInv, OutputInv, HdrInHand, EndSeen
  <2> QED
      BY <2>2, <2>3, <2>4 DEF OutputInv
<1> QED
    BY <1>7, <1>8, <1>9, <1>10, SenderStays DEF CopyInv

LEMMA RecvPayloadCopy ==
    CopyInv /\ RecvPayload /\ UNCHANGED <<queueVars, senderVars>> => CopyInv'
<1> SUFFICES ASSUME CopyInv, RecvPayload,
                    UNCHANGED <<queueVars, senderVars>>
             PROVE  CopyInv'
    OBVIOUS
<1>1. /\ rpc = "payload" /\ rpc' = "payload" /\ wire # <<>>
      /\ wire' = Tail(wire) /\ closed' = closed
      /\ got < hdr.bytesused /\ got' = got + 1
      /\ mem' = [mem EXCEPT ![idx][got + 1] = AsPixels(Head(wire))]
      /\ hdr' = hdr /\ sdl' = sdl /\ output' = output /\ rrc' = rrc
      /\ quit' = quit /\ Reading
    BY DEF RecvPayload, ReceiveItem, Reading
<1>2. /\ wire \in Seq(frame_packet \cup payload_unit)
      /\ Len(wire) \in Nat /\ got \in Nat /\ hdr.bytesused \in Nat
      /\ SizeImage \in Nat /\ captured \in Nat
    BY Types
<1>3. /\ Len(wire) > 0 /\ Head(wire) = wire[1] /\ 1 \in 1..Len(wire)
      /\ wire' \in Seq(frame_packet \cup payload_unit)
    BY <1>1, <1>2, HeadTailProperties, EmptySeq
<1>4. /\ 0 - got \in Starts /\ SizeAt(0 - got) = hdr.bytesused
      /\ SequenceAt(0 - got) = Len(output)
  <2>1. ~(0 - got >= 1)
      BY <1>2
  <2> QED
      BY <1>1, <2>1 DEF Starts, SizeAt, SequenceAt
<1>5. /\ hdr.sequence = Len(output) /\ hdr.bytesused <= SizeImage
      /\ \A u \in 1..got : mem[idx][u] = hdr.sequence
    BY <1>1 DEF CopyInv, OutputInv, HdrInHand
<1>6. AsPixels(wire[1]) = hdr.sequence
  <2>1. FrameAt(wire, 0 - got, hdr.bytesused, Len(output))
      BY <1>1, <1>4 DEF CopyInv, StreamInv, FramesOnWire
  <2>2. 0 - got < 1 /\ 1 <= 0 - got + hdr.bytesused
      BY <1>1, <1>2
  <2> QED
      BY <1>3, <1>5, <2>1, <2>2 DEF FrameAt, AsPixels
<1>7. /\ mem' \in [0..(BufferCount - 1) ->
                      [1..SizeImage -> Nat \cup {NoFrame}]]
      /\ mem'[idx][got + 1] = hdr.sequence
      /\ \A u \in 1..SizeImage \ {got + 1} : mem'[idx][u] = mem[idx][u]
  <2>1. idx \in 0..(BufferCount - 1)
      BY BufferOfHeader, Types
  <2>2. got + 1 \in 1..SizeImage
      BY <1>1, <1>2, <1>5
  <2>3. mem \in [0..(BufferCount - 1) ->
                    [1..SizeImage -> Nat \cup {NoFrame}]]
      BY DEF CopyInv, TypeOK, ReceiverTypeOK
  <2>4. AsPixels(wire[1]) \in Nat \cup {NoFrame}
      BY <1>3, Types, AsPixelsType
  <2>5. mem' = [mem EXCEPT ![idx][got + 1] = AsPixels(wire[1])]
      BY <1>1, <1>3
  <2> HIDE DEF idx
  <2> QED
      BY <1>6, <2>1, <2>2, <2>3, <2>4, <2>5, StoreUnit
<1>8. TypeOK'
  <2>1. got' \in 0..hdr.bytesused
      BY <1>1, <1>2
  <2>2. ReceiverTypeOK'
      BY <1>1, <1>7, <2>1 DEF CopyInv, TypeOK, ReceiverTypeOK
  <2>3. LinkTypeOK'
      BY <1>1, <1>3 DEF CopyInv, TypeOK, LinkTypeOK
  <2> QED
      BY <2>2, <2>3, SenderStays DEF TypeOK
<1>9. HeadersSound'
  <2>1. captured' \in Nat /\ captured' >= captured
      BY SenderStays, <1>2
  <2> QED
      BY <1>1, <2>1, HeadersKept
<1>10. StreamInv'
  <2>1. (0 - got) - 1 = 0 - got' /\ got' \in Nat
      BY <1>1, <1>2
  <2>2. FramesOnWire' /\ BetweenFrames' /\ InFrame'
      BY <1>1, <1>4, <2>1, ReadShifts
  <2> QED
      BY <1>1, <2>2, SenderStays DEF CopyInv, StreamInv, Running, SentSoFar
<1>11. OutputInv'
  <2>1. idx' = idx
      BY <1>1 DEF idx
  <2>2. ASSUME NEW u \in 1..got' PROVE mem'[idx][u] = hdr.sequence
    <3>1. u = got + 1 \/ (u \in 1..got /\ u \in 1..SizeImage \ {got + 1})
        BY <1>1, <1>2, <1>5
    <3> QED
        BY <1>5, <1>7, <3>1
  <2>3. HdrInHand'
      BY <1>1, <2>1, <2>2, SenderStays
      DEF CopyInv, OutputInv, HdrInHand, Reading
  <2>4. OutputInOrder'
      BY <1>1 DEF CopyInv, OutputInv, OutputInOrder, OfOneFrame
  <2>5. EndSeen'
      BY <1>1 DEF CopyInv, OutputInv, HdrInHand, EndSeen
  <2> QED
      BY <2>3, <2>4, <2>5 DEF OutputInv
<1> QED
    BY <1>8, <1>9, <1>10, <1>11, SenderStays DEF CopyInv

(* The frame that is written or shown.                                     *)
UsedFrame ==
    [sequence |-> hdr.sequence, bytesused |-> hdr.bytesused,
     units |-> [u \in 1..UsedUnits |-> mem[idx][u]]]

LEMMA UsedFrameWhole ==
    CopyInv /\ rpc = "use"
        => /\ UsedFrame \in output_frame
           /\ UsedFrame.sequence = Len(output)
           /\ OfOneFrame(UsedFrame, UsedFrame.bytesused)
<1> SUFFICES ASSUME CopyInv, rpc = "use"
             PROVE  /\ UsedFrame \in output_frame
                    /\ UsedFrame.sequence = Len(output)
                    /\ OfOneFrame(UsedFrame, UsedFrame.bytesused)
    OBVIOUS
<1>1. /\ hdr.sequence = Len(output) /\ hdr.bytesused <= SizeImage
      /\ got = hdr.bytesused
      /\ \A u \in 1..got : mem[idx][u] = hdr.sequence
    BY DEF CopyInv, OutputInv, HdrInHand
<1>2. /\ hdr.sequence \in Nat /\ hdr.bytesused \in Nat
      /\ SizeImage \in Nat
    BY Types
<1>3. UsedUnits \in Nat /\ UsedUnits <= SizeImage
      /\ hdr.bytesused <= UsedUnits
    BY <1>1, <1>2 DEF UsedUnits
<1>4. mem[idx] \in [1..SizeImage -> Nat \cup {NoFrame}]
  <2>1. idx \in 0..(BufferCount - 1)
      BY BufferOfHeader, Types
  <2> HIDE DEF idx
  <2> QED
      BY <2>1 DEF CopyInv, TypeOK, ReceiverTypeOK
<1> DEFINE m == mem[idx]
           units == [u \in 1..UsedUnits |-> m[u]]
<1> HIDE DEF m
<1>5. units \in Seq(Nat \cup {NoFrame})
  <2>1. units \in [1..UsedUnits -> Nat \cup {NoFrame}]
    <3>1. 1..UsedUnits \subseteq 1..SizeImage
        BY <1>2, <1>3
    <3> QED
        BY <1>4, <3>1 DEF m
  <2> QED
      BY <1>3, <2>1, SeqDef
<1>6. \A u \in 1..hdr.bytesused : units[u] = hdr.sequence
  <2>1. 1..hdr.bytesused \subseteq 1..UsedUnits
      BY <1>2, <1>3
  <2> QED
      BY <1>1, <2>1 DEF m
<1>7. UsedFrame = [sequence |-> hdr.sequence, bytesused |-> hdr.bytesused,
                   units |-> units]
    BY DEF UsedFrame, m
<1> HIDE DEF units
<1>8. UsedFrame \in output_frame
    BY <1>2, <1>5, <1>7 DEF output_frame
<1>9. OfOneFrame(UsedFrame, UsedFrame.bytesused)
    BY <1>6, <1>7 DEF OfOneFrame
<1> QED
    BY <1>1, <1>7, <1>8, <1>9

LEMMA UseFrameCopy ==
    CopyInv /\ UseFrame /\ UNCHANGED <<queueVars, senderVars>> => CopyInv'
<1> SUFFICES ASSUME CopyInv, UseFrame,
                    UNCHANGED <<queueVars, senderVars>>
             PROVE  CopyInv'
    OBVIOUS
<1>1. /\ rpc = "use" /\ rpc' \in {"poll", "header"}
      /\ output' = Append(output, UsedFrame)
      /\ wire' = wire /\ closed' = closed
      /\ hdr' = hdr /\ sdl' = sdl /\ got' = got /\ mem' = mem
      /\ rrc' = rrc /\ quit' = quit /\ Reading
    BY DEF UseFrame, UsedFrame, LoopHead, Reading, linkVars
<1>2. /\ UsedFrame \in output_frame
      /\ UsedFrame.sequence = Len(output)
      /\ OfOneFrame(UsedFrame, UsedFrame.bytesused)
    BY <1>1, UsedFrameWhole
<1>3. output \in Seq(output_frame) /\ Len(output) \in Nat
      /\ DOMAIN output = 1..Len(output)
    BY Types DEF CopyInv, TypeOK, ReceiverTypeOK
<1>4. /\ output' \in Seq(output_frame) /\ Len(output') = Len(output) + 1
      /\ DOMAIN output' = 1..(Len(output) + 1)
      /\ output'[Len(output) + 1] = UsedFrame
      /\ \A k \in 1..Len(output) : output'[k] = output[k]
    BY <1>1, <1>2, <1>3, AppendProperties
<1>5. TypeOK'
  <2>1. ReceiverTypeOK'
      BY <1>1, <1>4 DEF CopyInv, TypeOK, ReceiverTypeOK
  <2> QED
      BY <1>1, <2>1, SenderStays DEF CopyInv, TypeOK, LinkTypeOK
<1>6. HeadersSound'
  <2>1. captured' \in Nat /\ captured' >= captured
      BY SenderStays, Types
  <2> QED
      BY <1>1, <2>1, HeadersKept
<1>7. /\ Starts' = Starts
      /\ \A k \in Starts : SizeAt(k)' = SizeAt(k)
                           /\ SequenceAt(k)' = SequenceAt(k)
  <2>1. Len(output') - 1 = Len(output)
      BY <1>3, <1>4
  <2> QED
      BY <1>1, <2>1 DEF Starts, SizeAt, SequenceAt
<1>8. StreamInv'
    BY <1>1, <1>7, SenderStays
    DEF CopyInv, StreamInv, Running, SentSoFar, FramesOnWire,
        BetweenFrames, InFrame
<1>9. OutputInv'
  <2>1. HdrInHand'
      BY <1>1, SenderStays DEF CopyInv, OutputInv, HdrInHand, Reading
  <2>2. OutputInOrder'
    <3> SUFFICES ASSUME NEW k \in 1..(Len(output) + 1)
                 PROVE  /\ output'[k].sequence = k - 1
                        /\ OfOneFrame(output'[k], output'[k].bytesused)
        BY <1>4 DEF OutputInOrder
    <3>1. CASE k \in 1..Len(output)
        BY <1>3, <1>4, <3>1 DEF CopyInv, OutputInv, OutputInOrder
    <3>2. CASE k = Len(output) + 1
        BY <1>2, <1>3, <1>4, <3>2
    <3> QED
        BY <1>3, <3>1, <3>2
  <2>3. EndSeen'
      BY <1>1 DEF CopyInv, OutputInv, HdrInHand, EndSeen
  <2> QED
      BY <2>1, <2>2, <2>3 DEF OutputInv
<1> QED
    BY <1>5, <1>6, <1>8, <1>9, SenderStays DEF CopyInv

LEMMA ReceiverCopy == CopyInv /\ Receiver => CopyInv'
BY PauseCopy, StopCopy, RecvHeaderCopy, RecvPayloadCopy, UseFrameCopy
DEF Receiver, ReceiverNext, ReceiverStep

LEMMA StutterCopy == CopyInv /\ UNCHANGED vars => CopyInv'
<1> SUFFICES ASSUME CopyInv, UNCHANGED vars PROVE CopyInv'
    OBVIOUS
<1>1. /\ UNCHANGED linkVars /\ UNCHANGED queueVars
      /\ UNCHANGED senderVars /\ UNCHANGED receiverVars
    BY DEF vars
<1>2. QueueInv' /\ TypeOK'
    BY <1>1, SenderStays, ReceiverStays, LinkStays DEF CopyInv, TypeOK
<1>3. captured' \in Nat /\ captured' >= captured
    BY <1>1, QueueStays, Types
<1>4. HeadersSound'
    BY <1>1, <1>3, HeadersKept, LinkStays
<1>5. StreamInv'
    BY <1>1, PlacesKept, SenderStays, ReceiverStays, LinkStays
    DEF CopyInv, StreamInv, Reading, Running, SentSoFar, BetweenFrames,
        InFrame
<1>6. OutputInv'
    BY <1>1, <1>3, OutputKept, SenderStays
<1> QED
    BY <1>2, <1>4, <1>5, <1>6 DEF CopyInv

LEMMA CopyStep == CopyInv /\ [Next]_vars => CopyInv'
BY CameraCopy, SenderCopy, ReceiverCopy, StutterCopy DEF Next, Terminated

-----------------------------------------------------------------------------
(* The theorems                                                            *)

(* CopyInv is inductive: sender and receiver divide the bytes on the       *)
(* connection into frames at the same places, in every interleaving of the *)
(* camera, both programs, their faults and the user.                       *)
THEOREM CopyInvariant == Spec => []CopyInv
BY CopyStart, CopyStep, PTL DEF Spec

(* Every variable of sender's frame loop and of the receiver's keeps its   *)
(* type; a receiver buffer is never written past sizeimage.                *)
THEOREM CopyTypeCorrect == Spec => []TypeOK
<1>1. CopyInv => TypeOK
    BY DEF CopyInv
<1> QED
    BY <1>1, CopyInvariant, PTL

(* The receiver never takes pixels for a header (receiver.c:224) nor a     *)
(* header for pixels, whatever sizes the driver reports and wherever the   *)
(* stream breaks off.                                                      *)
THEOREM AlwaysInStep == Spec => []StreamInStep
<1>1. CopyInv => StreamInStep
  <2> SUFFICES ASSUME CopyInv, wire # <<>>
               PROVE  /\ rpc \in {"header", "poll", "use"}
                            => IsHeader(Head(wire))
                      /\ rpc = "payload" =>
                            (got = hdr.bytesused <=> IsHeader(Head(wire)))
      BY DEF StreamInStep
  <2>1. /\ got \in Nat /\ hdr.bytesused \in Nat /\ Len(wire) \in Nat
        /\ wire \in Seq(frame_packet \cup payload_unit)
      BY Types
  <2>2. Len(wire) > 0 /\ Head(wire) = wire[1] /\ 1 \in 1..Len(wire)
      BY <2>1, HeadTailProperties, EmptySeq
  <2>3. 0 - got \in Starts /\ SizeAt(0 - got) = hdr.bytesused
      BY <2>1 DEF Starts, SizeAt
  <2>4. ASSUME Reading
        PROVE  /\ got = hdr.bytesused => IsHeader(wire[1])
               /\ got < hdr.bytesused => ~IsHeader(wire[1])
    <3>1. FrameAt(wire, 0 - got, hdr.bytesused, SequenceAt(0 - got))
        BY <2>3, <2>4 DEF CopyInv, StreamInv, FramesOnWire
    <3>2. /\ got = hdr.bytesused => 1 = 0 - got + hdr.bytesused + 1
          /\ got < hdr.bytesused
                => 0 - got < 1 /\ 1 <= 0 - got + hdr.bytesused
        BY <2>1
    <3> QED
        BY <2>2, <3>1, <3>2 DEF FrameAt
  <2>5. got \in 0..hdr.bytesused
      BY DEF CopyInv, TypeOK, ReceiverTypeOK
  <2>6. rpc \in {"header", "poll", "use"} => got = hdr.bytesused
      BY DEF CopyInv, OutputInv, HdrInHand
  <2>7. got = hdr.bytesused \/ got < hdr.bytesused
      BY <2>1, <2>5
  <2>8. rpc \in {"header", "poll", "use", "payload"} => Reading
      BY DEF Reading
  <2> QED
      BY <2>1, <2>2, <2>4, <2>6, <2>7, <2>8
<1> QED
    BY <1>1, CopyInvariant, PTL

(* The receiver refuses no frame of a buffer that fits sizeimage           *)
(* (receiver.c:229): the clamp of sender.c:571 is enough.                  *)
THEOREM FrameNeverRefused == Spec => []NeverRefused
<1>1. CopyInv => NeverRefused
  <2> SUFFICES ASSUME CopyInv, NEW k \in DOMAIN wire, IsHeader(wire[k]),
                      BufLen[wire[k].index] <= SizeImage
               PROVE  HeaderValid(wire[k])
      BY DEF NeverRefused
  <2>1. wire[k] \in frame_packet /\ k \in 1..Len(wire)
      BY Types, ItemKinds
  <2>2. HeaderSound(wire[k])
      BY <2>1 DEF CopyInv, HeadersSound
  <2>3. /\ wire[k].bytesused \in Nat /\ SizeImage \in Nat
        /\ BufLen[wire[k].index] \in Nat
      BY <2>1, <2>2, PacketFields, BufferLengths, CopyLinkAssumption
      DEF HeaderSound
  <2> QED
      BY <2>2, <2>3 DEF HeaderSound, HeaderValid
<1> QED
    BY <1>1, CopyInvariant, PTL

(* When sender stopped at its limit and the receiver at the end of the     *)
(* stream, every frame sent came out.                                      *)
THEOREM OrderlyEndDeliversAll == Spec => []NothingLost
<1>1. CopyInv => NothingLost
    BY DEF CopyInv, OutputInv, EndSeen, NothingLost
<1> QED
    BY <1>1, CopyInvariant, PTL

(* What came out, read as frames of the abstract flow: 0, 1, 2, ...        *)
DeliveredInOrder ==
    /\ delivered = [k \in 1..Len(output) |-> k - 1]
    /\ delivered \in Seq(Nat)
    /\ Len(delivered) = Len(output)

LEMMA DeliveredFrames == CopyInv => DeliveredInOrder
<1> SUFFICES ASSUME CopyInv PROVE DeliveredInOrder
    OBVIOUS
<1>1. DOMAIN output = 1..Len(output) /\ Len(output) \in Nat
    BY Types
<1>2. \A k \in DOMAIN output :
          /\ output[k].sequence = k - 1
          /\ OfOneFrame(output[k], output[k].bytesused)
    BY DEF CopyInv, OutputInv, OutputInOrder
<1>3. delivered = [k \in 1..Len(output) |-> k - 1]
    BY <1>1, <1>2 DEF delivered
<1>4. [k \in 1..Len(output) |-> k - 1] \in [1..Len(output) -> Nat]
    BY <1>1
<1>5. delivered \in Seq(Nat)
    BY <1>1, <1>3, <1>4, SeqDef
<1>6. Len(delivered) = Len(output)
    BY <1>1, <1>3, <1>5, LenProperties
<1> QED
    BY <1>3, <1>5, <1>6 DEF DeliveredInOrder

LEMMA StreamStart == Init => Promise!Init
<1> SUFFICES ASSUME Init PROVE captured = 0 /\ delivered = <<>>
    BY DEF Promise!Init
<1>1. captured = 0 /\ output = <<>>
    BY DEF Init, QueueInit, ReceiverInit
<1>2. delivered \in Seq(Nat) /\ Len(delivered) = 0
    BY <1>1, CopyStart, DeliveredFrames DEF DeliveredInOrder
<1> QED
    BY <1>1, <1>2, EmptySeq

(* A step of the code is a capture, a delivery, or a stutter of the        *)
(* abstract flow.                                                          *)
LEMMA StreamImplemented ==
    CopyInv /\ CopyInv' /\ [Next]_vars
        => [Promise!Next]_Promise!streamVars
<1> SUFFICES ASSUME CopyInv, CopyInv', [Next]_vars
             PROVE  \/ captured' = captured + 1 /\ delivered' = delivered
                    \/ /\ Len(delivered) < captured
                       /\ delivered' = Append(delivered, Len(delivered))
                       /\ captured' = captured
                    \/ captured' = captured /\ delivered' = delivered
    BY DEF Promise!Next, Promise!Capture, Promise!Deliver,
           Promise!streamVars
<1>1. output' = output => delivered' = delivered
    BY DEF delivered, OfOneFrame
<1>2. CASE Camera
    BY <1>1, <1>2 DEF Camera, Fill, receiverVars
<1>3. CASE Sender
  <2>1. captured' = captured /\ output' = output
      BY <1>3, QueueStays
      DEF Sender, SenderNext, SenderStep, DqBuf, DequeueBuffer, SendHeader,
          SendPayload, PayloadSent, Requeue, QueueBuffer, LimitReached,
          SendFails, IoctlFails, GotoOut, OutStreamOff, OutClose,
          SenderKilled, StreamOff, receiverVars
  <2> QED
      BY <1>1, <2>1
<1>4. CASE Receiver
  <2>1. captured' = captured
      BY <1>4, SenderStays DEF Receiver
  <2>2. CASE UseFrame
    <3>1. output' = Append(output, UsedFrame) /\ rpc = "use"
        BY <2>2 DEF UseFrame, UsedFrame
    <3>2. Len(output') = Len(output) + 1 /\ Len(output) \in Nat
      <4>1. output \in Seq(output_frame) /\ UsedFrame \in output_frame
          BY <3>1, UsedFrameWhole DEF CopyInv, TypeOK, ReceiverTypeOK
      <4> QED
          BY <3>1, <4>1, AppendProperties
    <3>3. Len(output) < captured
        BY <3>1 DEF CopyInv, OutputInv, HdrInHand
    <3>4. /\ delivered = [k \in 1..Len(output) |-> k - 1]
          /\ delivered \in Seq(Nat) /\ Len(delivered) = Len(output)
        BY DeliveredFrames DEF DeliveredInOrder
    <3>5. /\ delivered' = [k \in 1..(Len(output) + 1) |-> k - 1]
          /\ delivered' \in Seq(Nat)
          /\ Len(delivered') = Len(output) + 1
      <4>1. CopyInv' => DeliveredInOrder'
          BY DeliveredFrames, PTL
      <4> QED
          BY <3>2, <4>1 DEF DeliveredInOrder
    <3>6. delivered' = Append(delivered, Len(delivered))
      <4> DEFINE d == Append(delivered, Len(delivered))
      <4>1. /\ d \in Seq(Nat) /\ Len(d) = Len(output) + 1
            /\ d[Len(output) + 1] = Len(output)
            /\ \A k \in 1..Len(output) : d[k] = delivered[k]
          BY <3>2, <3>4, AppendProperties
      <4> HIDE DEF d
      <4>2. \A k \in 1..(Len(output) + 1) : d[k] = k - 1
        <5> SUFFICES ASSUME NEW k \in 1..(Len(output) + 1)
                     PROVE  d[k] = k - 1
            OBVIOUS
        <5>1. CASE k \in 1..Len(output)
            BY <3>4, <4>1, <5>1
        <5>2. CASE k = Len(output) + 1
            BY <3>2, <4>1, <5>2
        <5>3. k \in 1..Len(output) \/ k = Len(output) + 1
            BY <3>2
        <5> QED
            BY <5>1, <5>2, <5>3
      <4>3. \A k \in 1..Len(d) : d[k] = delivered'[k]
          BY <3>5, <4>1, <4>2
      <4>4. d = delivered'
          BY <3>5, <4>1, <4>3, SeqEqual
      <4> QED
          BY <4>4 DEF d
    <3> QED
        BY <2>1, <3>3, <3>4, <3>6
  <2>3. CASE ~UseFrame
    <3>1. output' = output
        BY <1>4, <2>3
        DEF Receiver, ReceiverNext, ReceiverStep, UserQuits, PollQuit,
            PollIdle, RecvHeader, RejectHeader, StreamClosed, RecvPayload,
            PayloadComplete, RecvPayloadFails, UseFails, OutCleanup,
            ReceiverKilled, GotoRecvOut
    <3> QED
        BY <1>1, <2>1, <3>1
  <2> QED
      BY <2>2, <2>3
<1>5. CASE UNCHANGED vars
    BY <1>1, <1>5, QueueStays DEF vars, receiverVars
<1> QED
    BY <1>2, <1>3, <1>4, <1>5 DEF Next, Terminated

(* The code implements FrameStream: the frames that come out are the       *)
(* frames that were captured, in order, none skipped, repeated or torn.    *)
THEOREM StreamRefinement == Spec => ImplementsStream
<1> QED
    BY CopyStart, CopyStep, StreamStart, StreamImplemented, PTL
    DEF Spec, ImplementsStream, Promise!Spec
=============================================================================
