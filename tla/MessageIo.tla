----------------------------- MODULE MessageIo ------------------------------
(***************************************************************************)
(* send_all and recv_all at the two ends of one direction of a connection, *)
(* byte by byte: each call moves any part of what is left, or fails.  A    *)
(* call that EINTR interrupts is made again and changes nothing.  The      *)
(* programs convert a packet before send_all and after recv_all, each on a *)
(* machine of its own.                                                     *)
(***************************************************************************)
EXTENDS Packets

CONSTANTS
    Scripts,        \* sequences of [type, packet] a program sends
    WireCap         \* bytes the connection holds before send blocks

AnyMessage == [type : DOMAIN Layout, packet : AnyPacket]

ASSUME MessageIoAssumption ==
    /\ WireCap \in Nat \ {0}
    /\ Scripts \subseteq Seq(AnyMessage)
    /\ \A s \in Scripts : s # <<>> /\ \A k \in DOMAIN s :
          IsPacket(Layout[s[k].type], s[k].packet)

VARIABLES
    writerHost,     \* byte order of the two machines
    readerHost,
    script,         \* the messages the writer sends before it ends
    offered,        \* how many of them it has begun to send
    left,           \* p, len of send_all: what the current call still has
    wire,           \* sent and not yet received
    buf,            \* what the current recv_all has received
    delivered,      \* the packets the reader got
    wstate,         \* "run", "closed"
    rstate,         \* "run", "ended" (recv_all failed), "left"
    lost            \* "no", "reset" (bytes dropped), "place" (part of a
                    \* message was read and given up)

hostVars == <<writerHost, readerHost, script>>
writerVars == <<offered, left, wstate>>
readerVars == <<buf, delivered, rstate>>
ioVars == <<hostVars, writerVars, wire, readerVars, lost>>

(* The message the reader's next recv_all is for; a loop that has read its *)
(* script goes on with messages of the last kind.                          *)
Expected ==
    LET k == IF Len(delivered) < Len(script) THEN Len(delivered) + 1
             ELSE Len(script)
    IN  script[k].type

TypeOK ==
    /\ {writerHost, readerHost} \subseteq Hosts
    /\ \A k \in DOMAIN script : script[k].type \in DOMAIN Layout
    /\ offered \in 0..Len(script)
    /\ \A b \in {left, wire, buf} : b \in Seq(Byte)
    /\ Len(wire) <= WireCap
    /\ Len(buf) < Sizeof[Expected]
    /\ delivered \in Seq(AnyMessage)
    /\ \A k \in DOMAIN delivered :
          IsPacket(Layout[delivered[k].type], delivered[k].packet)
    /\ wstate \in {"run", "closed"}
    /\ rstate \in {"run", "ended", "left"}
    /\ lost \in {"no", "reset", "place"}

Init ==
    /\ writerHost \in Hosts /\ readerHost \in Hosts
    /\ script \in Scripts
    /\ offered = 0
    /\ left = <<>> /\ wire = <<>> /\ buf = <<>>
    /\ delivered = <<>>
    /\ wstate = "run" /\ rstate = "run"
    /\ lost = "no"

-----------------------------------------------------------------------------
(* The next packet is converted and handed to send_all.                    *)
CallSendAll ==
    /\ wstate = "run" /\ left = <<>>
    /\ offered < Len(script)
    /\ offered' = offered + 1
    /\ LET m == script[offered + 1] IN
       left' = Stored(writerHost, Layout[m.type],
                      host_to_net(m.type, writerHost, m.packet))
    /\ UNCHANGED <<hostVars, wire, wstate, readerVars, lost>>

(* Mutated forms: one send() is taken for the whole message; the rest is   *)
(* counted down and the pointer does not move.                             *)
RestForgotten(n) == <<>>
PointerNotMoved(n) == SubSeq(left, 1, Len(left) - n)

RestAfterSend(n) == SubSeq(left, n + 1, Len(left))

(* send() takes n bytes, as many as fit or fewer.                          *)
Send(n) ==
    /\ wstate = "run"
    /\ n <= Len(left) /\ Len(wire) + n <= WireCap
    /\ wire' = wire \o SubSeq(left, 1, n)
    /\ left' = RestAfterSend(n)
    /\ UNCHANGED <<hostVars, offered, wstate, readerVars, lost>>

(* The reader is gone: send() fails, sooner or later, and the program      *)
(* ends.                                                                   *)
SendFails ==
    /\ wstate = "run" /\ left # <<>>
    /\ rstate # "run"
    /\ wstate' = "closed"
    /\ UNCHANGED <<hostVars, offered, left, wire, readerVars, lost>>

(* The writer closes the connection, at its end or because something else  *)
(* ended it.  If it leaves data of the other direction unread the kernel   *)
(* resets the connection, and what is on the way is gone.                  *)
Close(reset) ==
    /\ wstate = "run"
    /\ wstate' = "closed"
    /\ wire' = IF reset THEN <<>> ELSE wire
    /\ lost' = IF reset /\ wire # <<>> /\ lost = "no" THEN "reset" ELSE lost
    /\ UNCHANGED <<hostVars, offered, left, readerVars>>

AllSent == offered = Len(script) /\ left = <<>>

WriterEnds == AllSent /\ Close(FALSE)

-----------------------------------------------------------------------------
(* Mutated form: recv() is asked for the whole message every time.         *)
WholeMessage == Sizeof[Expected]

Wanted == Sizeof[Expected] - Len(buf)

Complete(bytes) == Len(bytes) = Sizeof[Expected]

Receive(bytes) ==
    LET layout == Layout[Expected] IN
    [type |-> Expected,
     packet |-> net_to_host(Expected, readerHost,
                            Loaded(readerHost, layout, bytes))]

(* recv() returns n bytes; the last ones make recv_all return.             *)
Recv(n) ==
    /\ rstate = "run"
    /\ n <= Len(wire) /\ n <= Wanted
    /\ wire' = SubSeq(wire, n + 1, Len(wire))
    /\ LET bytes == buf \o SubSeq(wire, 1, n) IN
       IF Complete(bytes)
       THEN /\ delivered' = Append(delivered, Receive(bytes))
            /\ buf' = <<>>
       ELSE /\ buf' = bytes
            /\ UNCHANGED delivered
    /\ UNCHANGED <<hostVars, writerVars, rstate, lost>>

(* Mutated form: recv() returning 0 is retried.                            *)
EndUnseen == FALSE

AtEnd == wstate = "closed" /\ wire = <<>>

(* recv() returns 0 or the connection was reset: recv_all fails.           *)
RecvFails ==
    /\ rstate = "run"
    /\ AtEnd
    /\ rstate' = "ended"
    /\ UNCHANGED <<hostVars, writerVars, wire, buf, delivered, lost>>

(* SO_RCVTIMEO of sender_zc, the program that reads ACKs: recv_all returns *)
(* EAGAIN, the loop goes on, and a part already read is forgotten.         *)
RecvTimesOut ==
    /\ rstate = "run"
    /\ Expected = "zc_ack"
    /\ wire = <<>> /\ wstate = "run"
    /\ buf' = <<>>
    /\ lost' = IF buf # <<>> THEN "place" ELSE lost
    /\ UNCHANGED <<hostVars, writerVars, wire, delivered, rstate>>

(* The reader ends for a reason of its own.                                *)
ReaderLeaves ==
    /\ rstate = "run"
    /\ rstate' = "left"
    /\ UNCHANGED <<hostVars, writerVars, wire, buf, delivered, lost>>

-----------------------------------------------------------------------------
WriterStep ==
    \/ CallSendAll
    \/ \E n \in 1..WireCap : Send(n)
    \/ SendFails \/ WriterEnds

ReaderStep == (\E n \in 1..WireCap : Recv(n)) \/ RecvFails

Stopped == wstate = "closed" /\ rstate # "run" /\ UNCHANGED ioVars

Next ==
    \/ WriterStep \/ ReaderStep
    \/ \E reset \in BOOLEAN : Close(reset)
    \/ RecvTimesOut \/ ReaderLeaves
    \/ Stopped

Spec == Init /\ [][Next]_ioVars

(* The two programs run, the network delivers; nothing makes a program     *)
(* end early or a timeout expire.                                          *)
FairSpec == Spec /\ WF_ioVars(WriterStep) /\ WF_ioVars(ReaderStep)

-----------------------------------------------------------------------------
(* The stream is in network order whatever machine wrote it, and what is   *)
(* read, on the way and still to be sent is exactly what was offered and   *)
(* not delivered (common.c:167-217, 219-235): no byte is lost, repeated or *)
(* out of place.                                                           *)
NetworkBytes(m) ==
    FlattenSeq([k \in DOMAIN m.packet |->
        BigEndian(m.packet[k], W * Layout[m.type][k])])

Undelivered ==
    [k \in 1..(offered - Len(delivered)) |->
        NetworkBytes(script[Len(delivered) + k])]

BytesInTransit ==
    lost = "no" /\ rstate = "run" =>
        /\ Len(delivered) <= offered
        /\ buf \o wire \o left = FlattenSeq(Undelivered)

(* recv_all cannot tell an end between two messages from one inside        *)
(* (common.c:207): still, when the writer had sent all it wanted and no    *)
(* reset came, a reader that ended has every message.                      *)
OrderlyEndLosesNothing ==
    rstate = "ended" /\ AllSent /\ lost = "no" =>
        delivered = script

(* The two loops around send() and recv() make a pipe of whole messages    *)
(* out of the stream ("Read exactly len bytes so packet boundaries stay    *)
(* explicit in user space", common.c:197), until a timeout falls inside a  *)
(* message.                                                                *)
Pipe == INSTANCE MessagePipe WITH over <- (lost = "place")

ImplementsPipe == Pipe!Spec

(* Neither loop waits for ever: the writer gets rid of its messages or     *)
(* learns that the reader is gone, and the reader learns of the end        *)
(* (common.c:178, 207).                                                    *)
BothLoopsEnd == <>(wstate = "closed") /\ <>(rstate # "run")

-----------------------------------------------------------------------------
(* The inductive invariant of MessageIoProofs: a connection that was reset *)
(* or has ended carries nothing any more; the messages delivered are the   *)
(* first of the script whatever was cut off behind them; and the account   *)
(* of the bytes holds after the reader has gone, too.                      *)
NothingAfterEnd ==
    lost = "reset" \/ rstate = "ended" => wstate = "closed" /\ wire = <<>>

DeliveredInOrder ==
    lost # "place" =>
        /\ Len(delivered) <= offered
        /\ \A k \in 1..Len(delivered) : delivered[k] = script[k]

BytesAccounted == lost = "no" => buf \o wire \o left = FlattenSeq(Undelivered)

MessageInv ==
    /\ TypeOK
    /\ script \in Scripts
    /\ NothingAfterEnd
    /\ DeliveredInOrder
    /\ BytesAccounted
=============================================================================
