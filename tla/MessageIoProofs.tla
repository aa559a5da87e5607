--------------------------- MODULE MessageIoProofs --------------------------
(***************************************************************************)
(* The safety properties of MessageIo, for every script and every capacity *)
(* of the connection.  First a message as bytes, on the way from one       *)
(* machine to the other; then the bytes of several messages behind each    *)
(* other; then the invariant, action by action; then what follows.         *)
(***************************************************************************)
EXTENDS MessageIo, WireProofs

(* The fields of a message as the network has them.                        *)
NetworkFields(m) ==
    [k \in DOMAIN m.packet |->
        BigEndian(m.packet[k], W * Layout[m.type][k])]

IsMessage(m) == m \in AnyMessage /\ IsPacket(Layout[m.type], m.packet)

(* They are sequences of bytes, as many and as long as the fields of the   *)
(* struct.                                                                 *)
LEMMA NetworkFieldsType ==
    ASSUME NEW m, IsMessage(m)
    PROVE  /\ NetworkFields(m) \in Seq(Seq(Byte))
           /\ Len(NetworkFields(m)) = Len(Layout[m.type])
           /\ Lays(NetworkFields(m), Layout[m.type])
<1>1. PICK layout : layout = Layout[m.type]
  OBVIOUS
<1>2. PICK p : p = m.packet
  OBVIOUS
<1>3. /\ m.type \in DOMAIN Layout /\ p \in AnyPacket
      /\ IsPacket(layout, p)
  BY <1>1, <1>2 DEF IsMessage, AnyMessage
<1>4. layout \in Seq({1, 2}) /\ Len(layout) \in Nat
  BY <1>1, <1>3, LayoutType
<1>5. Len(p) = Len(layout) /\ DOMAIN p = 1..Len(layout)
  BY <1>3, LenProperties DEF IsPacket, AnyPacket
<1>6. ASSUME NEW k \in 1..Len(layout)
      PROVE  /\ BigEndian(p[k], W * layout[k]) \in Seq(Byte)
             /\ Len(BigEndian(p[k], W * layout[k])) = W * layout[k]
  <2>1. layout[k] \in {1, 2} /\ DOMAIN layout = 1..Len(layout)
    BY <1>4, ElementOfSeq, LenProperties
  <2>2. W * layout[k] \in Nat
    <3>1. W * 1 \in Nat /\ W * 2 \in Nat
      BY WireAssumption
    <3> QED BY <2>1, <3>1
  <2>3. p[k] \in number(W * layout[k])
    BY <1>3, <2>1 DEF IsPacket
  <2> QED BY <2>2, <2>3, BigEndianType
<1>7. NetworkFields(m)
        = [k \in 1..Len(layout) |-> BigEndian(p[k], W * layout[k])]
  BY <1>1, <1>2, <1>5 DEF NetworkFields
<1>8. NetworkFields(m) \in Seq(Seq(Byte))
  BY <1>4, <1>6, <1>7
<1>9. Len(NetworkFields(m)) = Len(layout)
  BY <1>4, <1>7
<1> QED BY <1>1, <1>6, <1>7, <1>8, <1>9 DEF Lays

(* The message as bytes: as many as the struct has, and each field where   *)
(* the layout puts it.                                                     *)
LEMMA NetworkBytesType ==
    ASSUME NEW m, IsMessage(m)
    PROVE  /\ NetworkBytes(m) = FlattenSeq(NetworkFields(m))
           /\ NetworkBytes(m) \in Seq(Byte)
           /\ Len(NetworkBytes(m)) = Sizeof[m.type]
           /\ InPlace(NetworkFields(m), Layout[m.type])
<1>1. NetworkBytes(m) = FlattenSeq(NetworkFields(m))
  BY DEF NetworkBytes, NetworkFields
<1>2. /\ NetworkFields(m) \in Seq(Seq(Byte))
      /\ Len(NetworkFields(m)) = Len(Layout[m.type])
      /\ Lays(NetworkFields(m), Layout[m.type])
  BY NetworkFieldsType
<1>3. InPlace(NetworkFields(m), Layout[m.type])
  BY <1>2, FieldsInPlace
<1>4. NetworkBytes(m) \in Seq(Byte)
  BY <1>1, <1>2, FlattenType
<1>5. m.type \in DOMAIN Layout
  BY DEF IsMessage, AnyMessage
<1>6. Sizeof[m.type] = Offset(Layout[m.type], Len(Layout[m.type]))
  BY <1>5, SizeofType
<1> QED BY <1>1, <1>2, <1>3, <1>4, <1>6 DEF InPlace

(* What send_all is given.                                                 *)
LEMMA StoredIsNetworkBytes ==
    ASSUME NEW m, IsMessage(m), NEW writer \in Hosts
    PROVE  Stored(writer, Layout[m.type],
                  host_to_net(m.type, writer, m.packet)) = NetworkBytes(m)
<1>1. PICK net : net = host_to_net(m.type, writer, m.packet)
  OBVIOUS
<1>2. /\ DOMAIN net = DOMAIN m.packet
      /\ \A k \in DOMAIN m.packet :
            Memory(writer, net[k], W * Layout[m.type][k])
              = BigEndian(m.packet[k], W * Layout[m.type][k])
  <2>1. /\ m.type \in DOMAIN Layout /\ m.packet \in AnyPacket
        /\ IsPacket(Layout[m.type], m.packet)
    BY DEF IsMessage, AnyMessage
  <2> QED BY <1>1, <2>1, FieldBytes
<1>3. [k \in DOMAIN net |-> Memory(writer, net[k], W * Layout[m.type][k])]
        = [k \in DOMAIN m.packet |->
              BigEndian(m.packet[k], W * Layout[m.type][k])]
  BY <1>2
<1> QED BY <1>1, <1>3 DEF Stored, NetworkBytes

(* What recv_all delivers of the bytes of a message is the message.        *)
LEMMA Reception ==
    ASSUME NEW m, IsMessage(m), NEW reader \in Hosts
    PROVE  net_to_host(m.type, reader,
               Loaded(reader, Layout[m.type], NetworkBytes(m))) = m.packet
<1>1. PICK layout : layout = Layout[m.type]
  OBVIOUS
<1>2. PICK p : p = m.packet
  OBVIOUS
<1>3. PICK writer \in Hosts : TRUE
  BY DEF Hosts
<1>4. PICK net : net = host_to_net(m.type, writer, p)
  OBVIOUS
<1>5. /\ m.type \in DOMAIN Layout /\ p \in AnyPacket
      /\ IsPacket(layout, p)
  BY <1>1, <1>2 DEF IsMessage, AnyMessage
<1>6. /\ DOMAIN net = DOMAIN p
      /\ \A k \in DOMAIN p :
            Memory(writer, net[k], W * layout[k])
              = BigEndian(p[k], W * layout[k])
  BY <1>1, <1>4, <1>5, FieldBytes
<1>7. DOMAIN layout = DOMAIN p
  <2>1. layout \in Seq({1, 2})
    BY <1>1, <1>5, LayoutType
  <2> QED BY <1>5, <2>1, LenProperties DEF IsPacket, AnyPacket
<1>8. /\ NetworkBytes(m) = FlattenSeq(NetworkFields(m))
      /\ InPlace(NetworkFields(m), layout)
      /\ Len(NetworkFields(m)) = Len(layout)
  BY <1>1, NetworkBytesType, NetworkFieldsType
<1>9. ASSUME NEW k \in DOMAIN p
      PROVE  Loaded(reader, layout, NetworkBytes(m))[k]
               = Value(reader, Memory(writer, net[k], W * layout[k]),
                       W * layout[k])
  <2>1. /\ k \in 1..Len(layout)
        /\ Loaded(reader, layout, NetworkBytes(m))[k]
             = Value(reader, SubSeq(NetworkBytes(m), Offset(layout, k - 1) + 1,
                                    Offset(layout, k)),
                     W * layout[k])
    BY <1>1, <1>5, <1>7, LoadedField
  <2>2. SubSeq(NetworkBytes(m), Offset(layout, k - 1) + 1, Offset(layout, k))
          = NetworkFields(m)[k]
    BY <1>8, <2>1 DEF InPlace
  <2>3. NetworkFields(m)[k] = BigEndian(p[k], W * layout[k])
    BY <1>1, <1>2 DEF NetworkFields
  <2> QED BY <1>6, <2>1, <2>2, <2>3
<1>10. Loaded(reader, layout, NetworkBytes(m))
         = Carried(layout, writer, reader, net)
  <2>1. PICK got : got = Loaded(reader, layout, NetworkBytes(m))
    OBVIOUS
  <2>2. got = [k \in DOMAIN p |-> got[k]]
    BY <1>7, <2>1 DEF Loaded
  <2> QED BY <1>6, <1>9, <2>1, <2>2 DEF Carried
<1>11. net_to_host(m.type, reader, Carried(layout, writer, reader, net)) = p
  BY <1>1, <1>4, <1>5, PacketRoundTrip
<1> QED BY <1>1, <1>2, <1>10, <1>11

(* A message on its way as bytes: what the program that sends it converts  *)
(* and hands to send_all has the size of the struct, and the one that gets *)
(* these bytes from recv_all and converts them has the message again, on   *)
(* machines of whatever byte order (common.c:167-376).                     *)
THEOREM StructRoundTrip ==
    ASSUME NEW m, IsMessage(m), NEW writer \in Hosts, NEW reader \in Hosts,
           NEW bytes, bytes = Stored(writer, Layout[m.type],
                                 host_to_net(m.type, writer, m.packet))
    PROVE  /\ bytes \in Seq(Byte) /\ Len(bytes) = Sizeof[m.type]
           /\ net_to_host(m.type, reader,
                  Loaded(reader, Layout[m.type], bytes)) = m.packet
<1>1. bytes = NetworkBytes(m)
  BY StoredIsNetworkBytes
<1> QED BY <1>1, NetworkBytesType, Reception

-----------------------------------------------------------------------------
(* A sequence is its first n elements and the rest.                        *)
LEMMA SplitSeq ==
    ASSUME NEW A, NEW s \in Seq(A), NEW n \in Nat, n <= Len(s)
    PROVE  /\ SubSeq(s, 1, n) \in Seq(A) /\ Len(SubSeq(s, 1, n)) = n
           /\ SubSeq(s, n + 1, Len(s)) \in Seq(A)
           /\ Len(SubSeq(s, n + 1, Len(s))) = Len(s) - n
           /\ s = SubSeq(s, 1, n) \o SubSeq(s, n + 1, Len(s))
<1>1. Len(s) \in Nat
  BY LenProperties
<1>2. PICK a : a = SubSeq(s, 1, n)
  OBVIOUS
<1>3. PICK b : b = SubSeq(s, n + 1, Len(s))
  OBVIOUS
<1>4. /\ a \in Seq(A) /\ Len(a) = n
      /\ \A i \in 1..n : a[i] = s[i]
  BY <1>1, <1>2, ElementOfSeq
<1>5. /\ b \in Seq(A) /\ Len(b) = Len(s) - n
      /\ \A i \in 1..(Len(s) - n) : b[i] = s[n + i]
  BY <1>1, <1>3, ElementOfSeq
<1>6. /\ a \o b \in Seq(A) /\ Len(a \o b) = Len(s)
      /\ \A i \in 1..Len(s) :
            (a \o b)[i] = IF i <= n THEN a[i] ELSE b[i - n]
  BY <1>1, <1>4, <1>5, ConcatProperties
<1>7. ASSUME NEW i \in 1..Len(s)
      PROVE  s[i] = (a \o b)[i]
  <2>1. CASE i <= n
    BY <1>4, <1>6, <2>1
  <2>2. CASE ~(i <= n)
    <3>1. i - n \in 1..(Len(s) - n) /\ n + (i - n) = i
      BY <1>1, <2>2
    <3> QED BY <1>5, <1>6, <2>2, <3>1
  <2> QED BY <2>1, <2>2
<1>8. s = a \o b
  BY <1>6, <1>7, SeqEqual
<1> QED BY <1>2, <1>3, <1>4, <1>5, <1>8

(* Of two ways to cut a sequence at the same place both parts are equal.   *)
LEMMA SameCut ==
    ASSUME NEW A, NEW a \in Seq(A), NEW b \in Seq(A), NEW c \in Seq(A),
           NEW d \in Seq(A), a \o b = c \o d, Len(a) = Len(c)
    PROVE  a = c /\ b = d
<1>1. /\ Len(a \o b) = Len(a) + Len(b) /\ Len(c \o d) = Len(c) + Len(d)
      /\ Len(a) \in Nat /\ Len(b) \in Nat /\ Len(d) \in Nat
  BY ConcatProperties, LenProperties
<1>2. Len(b) = Len(d)
  BY <1>1
<1>3. /\ SubSeq(a \o b, 1, Len(a)) = a
      /\ SubSeq(a \o b, Len(a) + 1, Len(a) + Len(b)) = b
  BY PartBehind
<1>4. /\ SubSeq(c \o d, 1, Len(c)) = c
      /\ SubSeq(c \o d, Len(c) + 1, Len(c) + Len(d)) = d
  BY PartBehind
<1> QED BY <1>2, <1>3, <1>4

-----------------------------------------------------------------------------
(* A script is a sequence of messages, and is not empty.                   *)
LEMMA ScriptType ==
    ASSUME NEW s \in Scripts
    PROVE  /\ s \in Seq(AnyMessage) /\ Len(s) \in Nat \ {0}
           /\ \A k \in 1..Len(s) :
                 IsMessage(s[k]) /\ s[k].type \in DOMAIN Layout
<1>1. s \in Seq(AnyMessage) /\ s # <<>>
  BY MessageIoAssumption
<1>2. Len(s) \in Nat \ {0} /\ DOMAIN s = 1..Len(s)
  BY <1>1, EmptySeq, LenProperties
<1>3. ASSUME NEW k \in 1..Len(s)
      PROVE  IsMessage(s[k]) /\ s[k].type \in DOMAIN Layout
  <2>1. s[k] \in AnyMessage
    BY <1>1, ElementOfSeq
  <2>2. IsPacket(Layout[s[k].type], s[k].packet)
    BY <1>2, MessageIoAssumption
  <2> QED BY <2>1, <2>2 DEF IsMessage, AnyMessage
<1> QED BY <1>1, <1>2, <1>3

(* The reader always expects a message of one of the five types.           *)
LEMMA ExpectedType ==
    ASSUME NEW s \in Scripts, NEW n \in Nat, NEW type,
           type = s[IF n < Len(s) THEN n + 1 ELSE Len(s)].type
    PROVE  type \in DOMAIN Layout /\ Sizeof[type] \in Nat \ {0}
<1>1. /\ Len(s) \in Nat \ {0}
      /\ \A k \in 1..Len(s) : s[k].type \in DOMAIN Layout
  BY ScriptType
<1>2. (IF n < Len(s) THEN n + 1 ELSE Len(s)) \in 1..Len(s)
  BY <1>1
<1>3. type \in DOMAIN Layout
  BY <1>1, <1>2
<1> QED BY <1>3, SizeofType

(* The bytes of the messages after the first n, up to message o.           *)
NetworkFrom(s, n, o) ==
    [k \in 1..(o - n) |-> NetworkBytes(s[n + k])]

(* One sequence of bytes for each of these messages.                       *)
LEMMA NetworkFromType ==
    ASSUME NEW s \in Scripts, NEW n \in Nat, NEW o \in 0..Len(s), n <= o
    PROVE  /\ NetworkFrom(s, n, o) \in Seq(Seq(Byte))
           /\ Len(NetworkFrom(s, n, o)) = o - n
           /\ \A k \in 1..(o - n) :
                 NetworkFrom(s, n, o)[k] = NetworkBytes(s[n + k])
<1>1. Len(s) \in Nat /\ o - n \in Nat
  BY ScriptType
<1>2. ASSUME NEW k \in 1..(o - n)
      PROVE  NetworkBytes(s[n + k]) \in Seq(Byte)
  <2>1. n + k \in 1..Len(s)
    BY <1>1
  <2> QED BY <2>1, ScriptType, NetworkBytesType
<1>3. PICK r : r = NetworkFrom(s, n, o)
  OBVIOUS
<1>4. r = [k \in 1..(o - n) |-> NetworkBytes(s[n + k])]
  BY <1>3 DEF NetworkFrom
<1>5. r \in Seq(Seq(Byte))
  BY <1>1, <1>2, <1>4
<1>6. Len(r) = o - n
  BY <1>1, <1>4, <1>5, LenProperties
<1> QED BY <1>3, <1>4, <1>5, <1>6

(* One message more is offered: its bytes come behind.                     *)
LEMMA NetworkFromOffer ==
    ASSUME NEW s \in Scripts, NEW n \in Nat, NEW o \in 0..Len(s), n <= o,
           o < Len(s)
    PROVE  FlattenSeq(NetworkFrom(s, n, o + 1))
             = FlattenSeq(NetworkFrom(s, n, o)) \o NetworkBytes(s[o + 1])
<1>1. PICK r : r = NetworkFrom(s, n, o)
  OBVIOUS
<1>2. PICK x : x = NetworkBytes(s[o + 1])
  OBVIOUS
<1>3. PICK o2 : o2 = o + 1
  OBVIOUS
<1>4. PICK t : t = NetworkFrom(s, n, o2)
  OBVIOUS
<1>5. /\ Len(s) \in Nat /\ o \in Nat /\ o2 \in 0..Len(s) /\ n <= o2
      /\ o2 \in 1..Len(s) /\ o2 - n = o - n + 1 /\ o - n \in Nat
      /\ n + (o - n + 1) = o2
  BY <1>3, ScriptType
<1>6. x \in Seq(Byte)
  BY <1>2, <1>3, <1>5, ScriptType, NetworkBytesType
<1>7. /\ r \in Seq(Seq(Byte)) /\ Len(r) = o - n
      /\ \A k \in 1..(o - n) : r[k] = NetworkBytes(s[n + k])
  BY <1>1, NetworkFromType
<1>8. /\ t \in Seq(Seq(Byte)) /\ Len(t) = o2 - n
      /\ \A k \in 1..(o2 - n) : t[k] = NetworkBytes(s[n + k])
  BY <1>4, <1>5, NetworkFromType
<1>9. /\ Append(r, x) \in Seq(Seq(Byte))
      /\ Len(Append(r, x)) = Len(r) + 1
      /\ \A i \in 1..Len(r) : Append(r, x)[i] = r[i]
      /\ Append(r, x)[Len(r) + 1] = x
  BY <1>6, <1>7, AppendProperties
<1>10. ASSUME NEW k \in 1..Len(t)
       PROVE  t[k] = Append(r, x)[k]
  <2>1. CASE k <= o - n
    BY <1>5, <1>7, <1>8, <1>9, <2>1
  <2>2. CASE ~(k <= o - n)
    <3>1. k = o - n + 1
      BY <1>5, <1>8, <2>2
    <3> QED BY <1>2, <1>3, <1>5, <1>7, <1>8, <1>9, <3>1
  <2> QED BY <2>1, <2>2
<1>11. t = Append(r, x)
  <2>1. Len(t) = Len(Append(r, x))
    BY <1>5, <1>7, <1>8, <1>9
  <2> QED BY <1>8, <1>9, <1>10, <2>1, SeqEqual
<1>12. FlattenSeq(Append(r, x)) = FlattenSeq(r) \o x
  BY <1>6, <1>7, FlattenAppend
<1> QED BY <1>1, <1>2, <1>3, <1>4, <1>11, <1>12

(* The first of them is delivered: its bytes were in front.                *)
LEMMA NetworkFromDeliver ==
    ASSUME NEW s \in Scripts, NEW n \in Nat, NEW o \in 0..Len(s), n < o
    PROVE  FlattenSeq(NetworkFrom(s, n, o))
             = NetworkBytes(s[n + 1]) \o FlattenSeq(NetworkFrom(s, n + 1, o))
<1>1. PICK r : r = NetworkFrom(s, n, o)
  OBVIOUS
<1>2. PICK x : x = NetworkBytes(s[n + 1])
  OBVIOUS
<1>3. PICK n2 : n2 = n + 1
  OBVIOUS
<1>4. PICK t : t = NetworkFrom(s, n2, o)
  OBVIOUS
<1>5. /\ Len(s) \in Nat /\ o \in Nat /\ n2 \in Nat /\ n2 <= o /\ n <= o
      /\ n2 \in 1..Len(s) /\ o - n2 = o - n - 1 /\ o - n \in Nat
  BY <1>3, ScriptType
<1>6. x \in Seq(Byte)
  BY <1>2, <1>3, <1>5, ScriptType, NetworkBytesType
<1>7. /\ r \in Seq(Seq(Byte)) /\ Len(r) = o - n
      /\ \A k \in 1..(o - n) : r[k] = NetworkBytes(s[n + k])
  BY <1>1, <1>5, NetworkFromType
<1>8. /\ t \in Seq(Seq(Byte)) /\ Len(t) = o - n2
      /\ \A k \in 1..(o - n2) : t[k] = NetworkBytes(s[n2 + k])
  BY <1>4, <1>5, NetworkFromType
<1>9. /\ <<x>> \in Seq(Seq(Byte)) /\ Len(<<x>>) = 1 /\ <<x>>[1] = x
  BY <1>6
<1>10. PICK c : c = <<x>> \o t
  OBVIOUS
<1>11. /\ c \in Seq(Seq(Byte))
       /\ Len(c) = 1 + Len(t)
       /\ \A i \in 1..(1 + Len(t)) :
             c[i] = IF i <= 1 THEN <<x>>[i] ELSE t[i - 1]
  BY <1>8, <1>9, <1>10, ConcatProperties
<1>12. ASSUME NEW k \in 1..Len(r)
       PROVE  r[k] = c[k]
  <2>0. k \in 1..(1 + Len(t)) /\ k \in 1..(o - n)
    BY <1>5, <1>7, <1>8
  <2>1. CASE k = 1
    BY <1>2, <1>7, <1>9, <1>11, <2>0, <2>1
  <2>2. CASE k # 1
    <3>1. k - 1 \in 1..(o - n2) /\ n2 + (k - 1) = n + k /\ ~(k <= 1)
      BY <1>3, <1>5, <1>7, <2>2
    <3>2. c[k] = t[k - 1]
      BY <1>11, <2>0, <3>1
    <3>3. t[k - 1] = NetworkBytes(s[n2 + (k - 1)])
      BY <1>8, <3>1
    <3> QED BY <1>7, <2>0, <3>1, <3>2, <3>3
  <2> QED BY <2>1, <2>2
<1>13. r = c
  <2>1. Len(r) = Len(c)
    BY <1>5, <1>7, <1>8, <1>11
  <2> QED BY <1>7, <1>11, <1>12, <2>1, SeqEqual
<1>14. FlattenSeq(c) = x \o FlattenSeq(t)
  BY <1>10, <1>6, <1>8, FlattenCons
<1> QED BY <1>1, <1>2, <1>3, <1>4, <1>13, <1>14

(* The bytes the next message needs, when all others came out.             *)
LEMMA NetworkFromNone ==
    ASSUME NEW s, NEW n \in Nat
    PROVE  FlattenSeq(NetworkFrom(s, n, n)) = <<>>
<1>1. NetworkFrom(s, n, n) = <<>>
  BY DEF NetworkFrom
<1> QED BY <1>1, FlattenEmpty

(* Undelivered with its three arguments named.                             *)
LEMMA UndeliveredIs ==
    Undelivered = NetworkFrom(script, Len(delivered), offered)
BY DEF Undelivered, NetworkFrom

-----------------------------------------------------------------------------
(* What the invariant says of the types.                                   *)
LEMMA InvTypes ==
    ASSUME MessageInv
    PROVE  /\ writerHost \in Hosts /\ readerHost \in Hosts
           /\ script \in Scripts /\ Len(script) \in Nat \ {0}
           /\ offered \in 0..Len(script)
           /\ left \in Seq(Byte) /\ wire \in Seq(Byte) /\ buf \in Seq(Byte)
           /\ Len(left) \in Nat /\ Len(wire) \in Nat /\ Len(buf) \in Nat
           /\ delivered \in Seq(AnyMessage) /\ Len(delivered) \in Nat
           /\ Expected \in DOMAIN Layout /\ Sizeof[Expected] \in Nat \ {0}
           /\ Len(buf) < Sizeof[Expected]
<1>1. /\ writerHost \in Hosts /\ readerHost \in Hosts
      /\ script \in Scripts /\ offered \in 0..Len(script)
      /\ left \in Seq(Byte) /\ wire \in Seq(Byte) /\ buf \in Seq(Byte)
      /\ delivered \in Seq(AnyMessage)
      /\ Len(buf) < Sizeof[Expected]
  BY DEF MessageInv, TypeOK
<1>2. /\ Len(left) \in Nat /\ Len(wire) \in Nat /\ Len(buf) \in Nat
      /\ Len(delivered) \in Nat
  BY <1>1, LenProperties
<1>3. Len(script) \in Nat \ {0}
  BY <1>1, ScriptType
<1>4. Expected \in DOMAIN Layout /\ Sizeof[Expected] \in Nat \ {0}
  <2>1. Expected = script[IF Len(delivered) < Len(script)
                          THEN Len(delivered) + 1 ELSE Len(script)].type
    BY DEF Expected
  <2> QED BY <1>1, <1>2, <2>1, ExpectedType
<1> QED BY <1>1, <1>2, <1>3, <1>4

(* At the start nothing was offered, delivered or on the way.              *)
LEMMA InitInv == Init => MessageInv
<1> SUFFICES ASSUME Init PROVE MessageInv
  OBVIOUS
<1>1. script \in Scripts /\ Len(script) \in Nat \ {0}
      /\ \A k \in 1..Len(script) : script[k].type \in DOMAIN Layout
  BY ScriptType DEF Init
<1>2. DOMAIN script = 1..Len(script)
  BY <1>1, ScriptType, LenProperties
<1>3. Len(<<>>) = 0 /\ <<>> \in Seq(Byte) /\ <<>> \in Seq(AnyMessage)
  BY EmptySeq
<1>4. Sizeof[Expected] \in Nat \ {0}
  <2>1. Expected = script[IF 0 < Len(script) THEN 0 + 1
                          ELSE Len(script)].type
    BY <1>3 DEF Init, Expected
  <2> QED BY <1>1, <2>1, ExpectedType
<1>5. TypeOK
  <2>1. Len(wire) <= WireCap
    BY <1>3, MessageIoAssumption DEF Init
  <2>2. Len(buf) < Sizeof[Expected]
    BY <1>3, <1>4 DEF Init
  <2>3. DOMAIN delivered = {}
    BY DEF Init
  <2> QED BY <1>1, <1>2, <1>3, <2>1, <2>2, <2>3 DEF Init, TypeOK
<1>6. NothingAfterEnd /\ DeliveredInOrder
  BY <1>1, <1>3 DEF Init, NothingAfterEnd, DeliveredInOrder
<1>7. BytesAccounted
  <2>1. Undelivered = NetworkFrom(script, 0, 0)
    BY <1>3, UndeliveredIs DEF Init
  <2>2. FlattenSeq(Undelivered) = <<>>
    BY <2>1, NetworkFromNone
  <2>3. <<>> \o <<>> \o <<>> = <<>>
    BY <1>3, ConcatEmptySeq
  <2> QED BY <2>2, <2>3 DEF Init, BytesAccounted
<1> QED BY <1>1, <1>5, <1>6, <1>7 DEF MessageInv

-----------------------------------------------------------------------------
(* A step that touches neither the messages nor the bytes keeps their      *)
(* account.                                                                *)
LEMMA StutterInv == MessageInv /\ UNCHANGED ioVars => MessageInv'
<1> SUFFICES ASSUME MessageInv, UNCHANGED ioVars PROVE MessageInv'
  OBVIOUS
<1> USE DEF ioVars, hostVars, writerVars, readerVars
<1>1. TypeOK'
  BY DEF MessageInv, TypeOK, Expected
<1>2. NothingAfterEnd' /\ DeliveredInOrder'
  BY DEF MessageInv, NothingAfterEnd, DeliveredInOrder
<1>3. BytesAccounted'
  BY DEF MessageInv, BytesAccounted, Undelivered
<1> QED BY <1>1, <1>2, <1>3 DEF MessageInv

(* A message that send_all is called for is accounted for with its bytes.  *)
LEMMA CallSendAllInv == MessageInv /\ CallSendAll => MessageInv'
<1> SUFFICES ASSUME MessageInv, CallSendAll PROVE MessageInv'
  OBVIOUS
<1> USE DEF hostVars, readerVars
<1>1. PICK m : m = script[offered + 1]
  OBVIOUS
<1>2. /\ script \in Scripts /\ offered \in 0..Len(script)
      /\ offered < Len(script) /\ Len(script) \in Nat
      /\ wire \in Seq(Byte) /\ buf \in Seq(Byte) /\ left = <<>>
      /\ Len(delivered) \in Nat /\ writerHost \in Hosts
  BY InvTypes DEF CallSendAll
<1>3. IsMessage(m)
  <2>1. offered + 1 \in 1..Len(script)
    BY <1>2
  <2> QED BY <1>1, <1>2, <2>1, ScriptType
<1>4. left' = NetworkBytes(m)
  BY <1>1, <1>2, <1>3, StoredIsNetworkBytes DEF CallSendAll
<1>5. left' \in Seq(Byte)
  BY <1>3, <1>4, NetworkBytesType
<1>6. /\ UNCHANGED <<writerHost, readerHost, script, wire, wstate>>
      /\ UNCHANGED <<buf, delivered, rstate, lost>>
      /\ offered' = offered + 1
  BY DEF CallSendAll
<1>7. TypeOK'
  <2>1. offered' \in 0..Len(script')
    BY <1>2, <1>6
  <2> QED BY <1>5, <1>6, <2>1 DEF MessageInv, TypeOK, Expected
<1>8. NothingAfterEnd'
  BY <1>6 DEF MessageInv, NothingAfterEnd
<1>9. DeliveredInOrder'
  BY <1>2, <1>6 DEF MessageInv, DeliveredInOrder
<1>10. BytesAccounted'
  <2> SUFFICES ASSUME lost' = "no"
               PROVE  buf' \o wire' \o left' = FlattenSeq(Undelivered')
    BY DEF BytesAccounted
  <2>1. /\ Len(delivered) <= offered
        /\ buf \o wire \o left = FlattenSeq(Undelivered)
    BY <1>6 DEF MessageInv, DeliveredInOrder, BytesAccounted
  <2>2. buf \o wire = FlattenSeq(NetworkFrom(script, Len(delivered), offered))
    <3>1. buf \o wire \in Seq(Byte)
      BY <1>2, ConcatProperties
    <3>2. (buf \o wire) \o <<>> = buf \o wire
      BY <3>1, ConcatEmptySeq
    <3> QED BY <1>2, <2>1, <3>2, UndeliveredIs
  <2>3. Undelivered' = NetworkFrom(script, Len(delivered), offered + 1)
    BY <1>6 DEF Undelivered, NetworkFrom
  <2>4. FlattenSeq(Undelivered')
          = FlattenSeq(NetworkFrom(script, Len(delivered), offered))
               \o NetworkBytes(m)
    BY <1>1, <1>2, <2>1, <2>3, NetworkFromOffer
  <2> QED BY <1>4, <1>6, <2>2, <2>4
<1> QED BY <1>6, <1>7, <1>8, <1>9, <1>10 DEF MessageInv

(* Bytes moved from the front of the rest to the end of the wire, or from  *)
(* the front of the wire to the end of the buffer, stay in their order.    *)
SentInOrder(b, w, a, r) == (b \o (w \o a)) \o r = (b \o w) \o (a \o r)
ReceivedInOrder(b, w, a, r) ==
    ((b \o a) \o w) \o r = (b \o (a \o w)) \o r

(* What send() moves stays in its place in the stream.                     *)
LEMMA BytesSent ==
    ASSUME NEW A, NEW b \in Seq(A), NEW w \in Seq(A), NEW a \in Seq(A),
           NEW r \in Seq(A)
    PROVE  SentInOrder(b, w, a, r)
<1>1. PICK wa : wa = w \o a
  OBVIOUS
<1>2. PICK ar : ar = a \o r
  OBVIOUS
<1>3. wa \in Seq(A) /\ ar \in Seq(A)
  BY <1>1, <1>2, ConcatProperties
<1>4. Associates(b, wa, r)
  BY <1>3, Association
<1>5. Associates(w, a, r)
  BY Association
<1>6. Associates(b, w, ar)
  BY <1>3, Association
<1> QED BY <1>1, <1>2, <1>4, <1>5, <1>6 DEF SentInOrder, Associates

(* So does what recv() moves.                                              *)
LEMMA BytesReceived ==
    ASSUME NEW A, NEW b \in Seq(A), NEW w \in Seq(A), NEW a \in Seq(A),
           NEW r \in Seq(A)
    PROVE  ReceivedInOrder(b, w, a, r)
<1>1. Associates(b, a, w)
  BY Association
<1> QED BY <1>1 DEF ReceivedInOrder, Associates

(* send() moves bytes from the rest to the wire, none is lost or repeated. *)
LEMMA SendInv ==
    \A n \in 1..WireCap : MessageInv /\ Send(n) => MessageInv'
<1> SUFFICES ASSUME NEW n \in 1..WireCap, MessageInv, Send(n)
             PROVE  MessageInv'
  OBVIOUS
<1> USE DEF hostVars, readerVars
<1>1. PICK a : a = SubSeq(left, 1, n)
  OBVIOUS
<1>2. /\ left \in Seq(Byte) /\ wire \in Seq(Byte) /\ buf \in Seq(Byte)
      /\ n \in Nat /\ n <= Len(left) /\ Len(wire) + n <= WireCap
      /\ WireCap \in Nat /\ Len(wire) \in Nat
  BY InvTypes, MessageIoAssumption DEF Send
<1>3. /\ wire' = wire \o a /\ left' = SubSeq(left, n + 1, Len(left))
      /\ UNCHANGED <<writerHost, readerHost, script, offered, wstate>>
      /\ UNCHANGED <<buf, delivered, rstate, lost>>
  BY <1>1 DEF Send, RestAfterSend
<1>4. /\ a \in Seq(Byte) /\ Len(a) = n /\ left' \in Seq(Byte)
      /\ left = a \o left'
  BY <1>1, <1>2, <1>3, SplitSeq
<1>5. wire' \in Seq(Byte) /\ Len(wire') = Len(wire) + n
  <2>1. PICK w \in Seq(Byte) : w = wire
    BY <1>2
  <2>2. w \o a \in Seq(Byte) /\ Len(w \o a) = Len(w) + Len(a)
    BY <1>4, ConcatProperties
  <2> QED BY <1>3, <1>4, <2>1, <2>2
<1>6. TypeOK'
  <2>1. Len(wire') <= WireCap
    BY <1>2, <1>5
  <2> QED BY <1>3, <1>4, <1>5, <2>1 DEF MessageInv, TypeOK, Expected
<1>7. NothingAfterEnd'
  BY <1>3 DEF MessageInv, NothingAfterEnd, Send
<1>8. DeliveredInOrder'
  BY <1>3 DEF MessageInv, DeliveredInOrder
<1>9. BytesAccounted'
  <2>1. buf' \o wire' \o left' = buf \o wire \o left
    <3>1. PICK b \in Seq(Byte) : b = buf
      BY <1>2
    <3>2. PICK w \in Seq(Byte) : w = wire
      BY <1>2
    <3>3. PICK r \in Seq(Byte) : r = left'
      BY <1>4
    <3>4. a \in Seq(Byte)
      BY <1>4
    <3>5. SentInOrder(b, w, a, r)
      BY <3>4, BytesSent
    <3> QED BY <1>3, <1>4, <3>1, <3>2, <3>3, <3>5 DEF SentInOrder
  <2>2. Undelivered' = Undelivered
    BY <1>3 DEF Undelivered
  <2> QED BY <1>3, <2>1, <2>2 DEF MessageInv, BytesAccounted
<1> QED BY <1>3, <1>6, <1>7, <1>8, <1>9 DEF MessageInv

(* A send_all that fails leaves its rest behind.                           *)
LEMMA SendFailsInv == MessageInv /\ SendFails => MessageInv'
<1> SUFFICES ASSUME MessageInv, SendFails PROVE MessageInv'
  OBVIOUS
<1> USE DEF SendFails, hostVars, readerVars
<1>1. TypeOK'
  BY DEF MessageInv, TypeOK, Expected
<1>2. NothingAfterEnd' /\ DeliveredInOrder'
  BY DEF MessageInv, NothingAfterEnd, DeliveredInOrder
<1>3. BytesAccounted'
  BY DEF MessageInv, BytesAccounted, Undelivered
<1> QED BY <1>1, <1>2, <1>3 DEF MessageInv

(* A reset leaves nothing of what was on the way; another end leaves it.   *)
LEMMA CloseInv ==
    \A reset \in BOOLEAN : MessageInv /\ Close(reset) => MessageInv'
<1> SUFFICES ASSUME NEW reset \in BOOLEAN, MessageInv, Close(reset)
             PROVE  MessageInv'
  OBVIOUS
<1> USE DEF hostVars, readerVars
<1>1. /\ UNCHANGED <<writerHost, readerHost, script, offered, left>>
      /\ UNCHANGED <<buf, delivered, rstate>>
      /\ wstate = "run" /\ wstate' = "closed"
  BY DEF Close
<1>2. /\ wire' = IF reset THEN <<>> ELSE wire
      /\ lost' = IF reset /\ wire # <<>> /\ lost = "no" THEN "reset"
                 ELSE lost
  BY DEF Close
<1>3. lost # "reset" /\ rstate # "ended"
  BY <1>1 DEF MessageInv, NothingAfterEnd
<1>4. TypeOK'
  <2>1. wire' \in Seq(Byte) /\ Len(wire') <= WireCap
    <3>1. wire \in Seq(Byte) /\ Len(wire) <= WireCap
      BY DEF MessageInv, TypeOK
    <3>2. <<>> \in Seq(Byte) /\ Len(<<>>) <= WireCap
      BY EmptySeq, MessageIoAssumption
    <3> QED BY <1>2, <3>1, <3>2
  <2>2. lost' \in {"no", "reset", "place"}
    BY <1>2 DEF MessageInv, TypeOK
  <2> QED BY <1>1, <2>1, <2>2 DEF MessageInv, TypeOK, Expected
<1>5. NothingAfterEnd'
  BY <1>1, <1>2, <1>3 DEF NothingAfterEnd
<1>6. DeliveredInOrder'
  BY <1>1, <1>2, <1>3 DEF MessageInv, DeliveredInOrder
<1>7. BytesAccounted'
  <2> SUFFICES ASSUME lost' = "no"
               PROVE  buf' \o wire' \o left' = FlattenSeq(Undelivered')
    BY DEF BytesAccounted
  <2>1. lost = "no" /\ wire' = wire
    BY <1>2, <1>3
  <2>2. Undelivered' = Undelivered
    BY <1>1 DEF Undelivered
  <2> QED BY <1>1, <2>1, <2>2 DEF MessageInv, BytesAccounted
<1> QED BY <1>1, <1>4, <1>5, <1>6, <1>7 DEF MessageInv

(* The end of the stream is seen when nothing is on the way.               *)
LEMMA RecvFailsInv == MessageInv /\ RecvFails => MessageInv'
<1> SUFFICES ASSUME MessageInv, RecvFails PROVE MessageInv'
  OBVIOUS
<1> USE DEF RecvFails, hostVars, writerVars
<1>1. TypeOK'
  BY DEF MessageInv, TypeOK, Expected
<1>2. NothingAfterEnd' /\ DeliveredInOrder'
  BY DEF MessageInv, NothingAfterEnd, DeliveredInOrder, AtEnd
<1>3. BytesAccounted'
  BY DEF MessageInv, BytesAccounted, Undelivered
<1> QED BY <1>1, <1>2, <1>3 DEF MessageInv

(* A reader that leaves changes nothing else.                              *)
LEMMA ReaderLeavesInv == MessageInv /\ ReaderLeaves => MessageInv'
<1> SUFFICES ASSUME MessageInv, ReaderLeaves PROVE MessageInv'
  OBVIOUS
<1> USE DEF ReaderLeaves, hostVars, writerVars
<1>1. TypeOK'
  BY DEF MessageInv, TypeOK, Expected
<1>2. NothingAfterEnd' /\ DeliveredInOrder'
  BY DEF MessageInv, NothingAfterEnd, DeliveredInOrder
<1>3. BytesAccounted'
  BY DEF MessageInv, BytesAccounted, Undelivered
<1> QED BY <1>1, <1>2, <1>3 DEF MessageInv

(* A timeout inside a message makes the reader lose its place, between     *)
(* two messages it changes nothing.                                        *)
LEMMA RecvTimesOutInv == MessageInv /\ RecvTimesOut => MessageInv'
<1> SUFFICES ASSUME MessageInv, RecvTimesOut PROVE MessageInv'
  OBVIOUS
<1> USE DEF hostVars, writerVars
<1>1. /\ UNCHANGED <<writerHost, readerHost, script, offered, left, wstate>>
      /\ UNCHANGED <<wire, delivered, rstate>>
      /\ wstate = "run" /\ rstate = "run" /\ buf' = <<>>
      /\ lost' = IF buf # <<>> THEN "place" ELSE lost
  BY DEF RecvTimesOut
<1>2. lost # "reset"
  BY <1>1 DEF MessageInv, NothingAfterEnd
<1>3. TypeOK'
  <2>1. Expected' = Expected
    BY <1>1 DEF Expected
  <2>2. buf' \in Seq(Byte) /\ Len(buf') < Sizeof[Expected']
    <3>1. <<>> \in Seq(Byte) /\ Len(<<>>) = 0
      BY EmptySeq
    <3>2. Sizeof[Expected] \in Nat \ {0}
      BY InvTypes
    <3> QED BY <1>1, <2>1, <3>1, <3>2
  <2>3. lost' \in {"no", "reset", "place"}
    BY <1>1 DEF MessageInv, TypeOK
  <2> QED BY <1>1, <2>2, <2>3 DEF MessageInv, TypeOK
<1>4. NothingAfterEnd'
  BY <1>1, <1>2 DEF NothingAfterEnd
<1>5. DeliveredInOrder'
  BY <1>1 DEF MessageInv, DeliveredInOrder
<1>6. BytesAccounted'
  <2> SUFFICES ASSUME lost' = "no"
               PROVE  buf' \o wire' \o left' = FlattenSeq(Undelivered')
    BY DEF BytesAccounted
  <2>1. lost = "no" /\ buf' = buf
    BY <1>1
  <2>2. Undelivered' = Undelivered
    BY <1>1 DEF Undelivered
  <2> QED BY <1>1, <2>1, <2>2 DEF MessageInv, BytesAccounted
<1> QED BY <1>1, <1>3, <1>4, <1>5, <1>6 DEF MessageInv

-----------------------------------------------------------------------------
(* The bytes that recv() took, and what is left of them on the wire.       *)
LEMMA RecvTypes ==
    ASSUME MessageInv, NEW n \in 1..WireCap, Recv(n), NEW bytes,
           bytes = buf \o SubSeq(wire, 1, n)
    PROVE  /\ bytes \in Seq(Byte) /\ Len(bytes) = Len(buf) + n
           /\ Len(bytes) <= Sizeof[Expected]
           /\ wire' \in Seq(Byte) /\ Len(wire') = Len(wire) - n
           /\ bytes \o wire' \o left = buf \o wire \o left
<1>1. PICK b \in Seq(Byte) : b = buf
  BY InvTypes
<1>2. PICK r \in Seq(Byte) : r = left
  BY InvTypes
<1>3. PICK a : a = SubSeq(wire, 1, n)
  OBVIOUS
<1>4. PICK w : w = SubSeq(wire, n + 1, Len(wire))
  OBVIOUS
<1>5. /\ wire \in Seq(Byte) /\ n \in Nat /\ n <= Len(wire) /\ wire' = w
      /\ n <= Sizeof[Expected] - Len(buf) /\ Len(buf) \in Nat
      /\ Sizeof[Expected] \in Nat
  BY <1>4, InvTypes DEF Recv, Wanted
<1>6. a \in Seq(Byte) /\ w \in Seq(Byte)
  BY <1>3, <1>4, <1>5, SplitSeq
<1>7. Len(a) = n /\ Len(w) = Len(wire) - n /\ wire = a \o w
  BY <1>3, <1>4, <1>5, SplitSeq
<1>8. ReceivedInOrder(b, w, a, r)
  BY <1>6, BytesReceived
<1>9. bytes \in Seq(Byte) /\ Len(bytes) = Len(b) + Len(a)
  BY <1>1, <1>3, <1>6, ConcatProperties
<1>10. bytes \o wire' \o left = buf \o wire \o left
  BY <1>1, <1>2, <1>3, <1>5, <1>7, <1>8 DEF ReceivedInOrder
<1>11. Len(bytes) = Len(buf) + n
  BY <1>1, <1>7, <1>9
<1>12. Len(bytes) <= Sizeof[Expected]
  BY <1>5, <1>11
<1> QED BY <1>5, <1>6, <1>7, <1>9, <1>10, <1>11, <1>12

(* recv() took a part of the message.                                      *)
LEMMA RecvPartInv ==
    ASSUME MessageInv, NEW n \in 1..WireCap, Recv(n),
           ~Complete(buf \o SubSeq(wire, 1, n))
    PROVE  MessageInv'
<1> USE DEF hostVars, writerVars
<1>1. PICK bytes : bytes = buf \o SubSeq(wire, 1, n)
  OBVIOUS
<1>2. /\ UNCHANGED <<writerHost, readerHost, script, offered, left, wstate>>
      /\ UNCHANGED <<rstate, lost, delivered>>
      /\ buf' = bytes /\ rstate = "run"
  BY <1>1 DEF Recv
<1>3. /\ bytes \in Seq(Byte) /\ Len(bytes) = Len(buf) + n
      /\ Len(bytes) <= Sizeof[Expected]
      /\ wire' \in Seq(Byte) /\ Len(wire') = Len(wire) - n
      /\ bytes \o wire' \o left = buf \o wire \o left
  BY <1>1, RecvTypes
<1>4. /\ Len(wire) \in Nat /\ Len(bytes) \in Nat /\ n \in Nat
      /\ Sizeof[Expected] \in Nat /\ WireCap \in Nat
      /\ Len(wire) <= WireCap
  BY <1>3, InvTypes, LenProperties, MessageIoAssumption
     DEF MessageInv, TypeOK
<1>5. TypeOK'
  <2>1. Len(wire') <= WireCap
    BY <1>3, <1>4
  <2>2. Len(buf') < Sizeof[Expected]
    <3>1. Len(bytes) # Sizeof[Expected]
      BY <1>1 DEF Complete
    <3>2. Len(bytes) <= Sizeof[Expected]
      BY <1>3
    <3>3. Len(bytes) < Sizeof[Expected]
      BY <1>4, <3>1, <3>2
    <3> QED BY <1>2, <3>3
  <2>3. Expected' = Expected
    BY <1>2 DEF Expected
  <2> QED BY <1>2, <1>3, <2>1, <2>2, <2>3 DEF MessageInv, TypeOK
<1>6. NothingAfterEnd'
  <2>1. lost # "reset"
    <3>1. Len(wire) # 0
      BY <1>4 DEF Recv
    <3>2. wire # <<>>
      BY <3>1, EmptySeq
    <3> QED BY <3>2 DEF MessageInv, NothingAfterEnd
  <2> QED BY <1>2, <2>1 DEF NothingAfterEnd
<1>7. DeliveredInOrder'
  BY <1>2 DEF MessageInv, DeliveredInOrder
<1>8. BytesAccounted'
  <2>1. Undelivered' = Undelivered
    BY <1>2 DEF Undelivered
  <2> QED BY <1>2, <1>3, <2>1 DEF MessageInv, BytesAccounted
<1> QED BY <1>2, <1>5, <1>6, <1>7, <1>8 DEF MessageInv

(* The last bytes of a message came: they are its bytes, all before them   *)
(* being accounted for, and what is delivered is that message.             *)
LEMMA LastBytes ==
    ASSUME MessageInv, NEW n \in 1..WireCap, Recv(n), lost = "no",
           NEW bytes, bytes = buf \o SubSeq(wire, 1, n), Complete(bytes)
    PROVE  /\ Len(delivered) < offered
           /\ Receive(bytes) = script[Len(delivered) + 1]
           /\ wire' \o left
                = FlattenSeq(NetworkFrom(script, Len(delivered) + 1, offered))
<1>1. PICK k : k = Len(delivered)
  OBVIOUS
<1>2. PICK o : o = offered
  OBVIOUS
<1>3. PICK s \in Scripts : s = script
  BY InvTypes
<1>4. k \in Nat /\ o \in 0..Len(s) /\ k <= o /\ Len(s) \in Nat
  BY <1>1, <1>2, <1>3, InvTypes DEF MessageInv, DeliveredInOrder
<1>5. /\ bytes \in Seq(Byte) /\ wire' \in Seq(Byte) /\ left \in Seq(Byte)
      /\ Len(bytes) = Sizeof[Expected] /\ Sizeof[Expected] \in Nat \ {0}
  BY InvTypes, RecvTypes DEF Complete
<1>6. bytes \o (wire' \o left) = FlattenSeq(NetworkFrom(s, k, o))
  <2>1. PICK w \in Seq(Byte) : w = wire'
    BY <1>5
  <2>2. PICK r \in Seq(Byte) : r = left
    BY <1>5
  <2>3. bytes \in Seq(Byte)
    BY <1>5
  <2>4. Associates(bytes, w, r)
    BY <2>3, Association
  <2>5. bytes \o wire' \o left = buf \o wire \o left
    BY RecvTypes
  <2>6. buf \o wire \o left = FlattenSeq(NetworkFrom(s, k, o))
    BY <1>1, <1>2, <1>3, UndeliveredIs DEF MessageInv, BytesAccounted
  <2> QED BY <2>1, <2>2, <2>4, <2>5, <2>6 DEF Associates
<1>7. PICK rest : rest = wire' \o left
  OBVIOUS
<1>8. rest \in Seq(Byte)
  BY <1>5, <1>7, ConcatProperties
<1>9. k < o
  <2> SUFFICES ASSUME k = o PROVE FALSE
    BY <1>4
  <2>1. bytes \o rest = <<>>
    BY <1>4, <1>6, <1>7, NetworkFromNone
  <2>2. Len(bytes \o rest) = Len(bytes) + Len(rest) /\ Len(rest) \in Nat
    BY <1>5, <1>8, ConcatProperties, LenProperties
  <2>3. Len(bytes \o rest) = 0
    BY <2>1, EmptySeq
  <2> QED BY <1>5, <2>2, <2>3
<1>10. PICK m : m = s[k + 1]
  OBVIOUS
<1>11. PICK tail : tail = FlattenSeq(NetworkFrom(s, k + 1, o))
  OBVIOUS
<1>12. IsMessage(m)
  <2>1. k + 1 \in 1..Len(s)
    BY <1>4, <1>9
  <2> QED BY <1>10, <2>1, ScriptType
<1>13. Expected = m.type
  <2>1. k < Len(s)
    BY <1>4, <1>9
  <2> QED BY <1>1, <1>3, <1>10, <2>1 DEF Expected
<1>14. FlattenSeq(NetworkFrom(s, k, o)) = NetworkBytes(m) \o tail
  BY <1>4, <1>9, <1>10, <1>11, NetworkFromDeliver
<1>15. bytes = NetworkBytes(m) /\ rest = tail
  <2>1. PICK c : c = NetworkBytes(m)
    OBVIOUS
  <2>2. c \in Seq(Byte) /\ Len(c) = Len(bytes)
    BY <1>5, <1>12, <1>13, <2>1, NetworkBytesType
  <2>3. tail \in Seq(Byte)
    <3>1. k + 1 \in Nat /\ k + 1 <= o
      BY <1>4, <1>9
    <3>2. NetworkFrom(s, k + 1, o) \in Seq(Seq(Byte))
      BY <1>4, <3>1, NetworkFromType
    <3> QED BY <1>11, <3>2, FlattenType
  <2>4. bytes \o rest = c \o tail
    BY <1>6, <1>7, <1>14, <2>1
  <2>5. bytes \in Seq(Byte) /\ c \in Seq(Byte) /\ Len(bytes) = Len(c)
    BY <1>5, <2>2
  <2>6. bytes = c /\ rest = tail
    BY <1>8, <2>3, <2>4, <2>5, SameCut
  <2> QED BY <2>1, <2>6
<1>16. Receive(bytes) = m
  <2>1. readerHost \in Hosts
    BY InvTypes
  <2>2. net_to_host(m.type, readerHost,
            Loaded(readerHost, Layout[m.type], NetworkBytes(m))) = m.packet
    BY <1>12, <2>1, Reception
  <2>3. m = [type |-> m.type, packet |-> m.packet]
    BY <1>12 DEF IsMessage, AnyMessage
  <2> QED BY <1>13, <1>15, <2>2, <2>3 DEF Receive
<1> QED BY <1>1, <1>2, <1>3, <1>7, <1>9, <1>10, <1>11, <1>15, <1>16

(* Whatever bytes came, what is delivered of them is a message.            *)
LEMMA ReceiveType ==
    ASSUME MessageInv, NEW bytes \in Seq(Byte), Complete(bytes)
    PROVE  IsMessage(Receive(bytes))
<1>1. PICK type : type = Expected
  OBVIOUS
<1>2. type \in DOMAIN Layout /\ Len(bytes) = Sizeof[type]
  BY <1>1, InvTypes DEF Complete
<1>3. PICK p : p = net_to_host(type, readerHost,
                       Loaded(readerHost, Layout[type], bytes))
  OBVIOUS
<1>4. p \in AnyPacket /\ IsPacket(Layout[type], p)
  BY <1>2, <1>3, LoadedIsPacket
<1>5. Receive(bytes) = [type |-> type, packet |-> p]
  BY <1>1, <1>3 DEF Receive
<1> QED BY <1>2, <1>4, <1>5 DEF IsMessage, AnyMessage

(* recv() took the rest of the message.                                    *)
LEMMA RecvAllInv ==
    ASSUME MessageInv, NEW n \in 1..WireCap, Recv(n),
           Complete(buf \o SubSeq(wire, 1, n))
    PROVE  MessageInv'
<1> USE DEF hostVars, writerVars
<1>1. PICK bytes : bytes = buf \o SubSeq(wire, 1, n)
  OBVIOUS
<1>2. PICK m : m = Receive(bytes)
  OBVIOUS
<1>3. /\ UNCHANGED <<writerHost, readerHost, script, offered, left, wstate>>
      /\ UNCHANGED <<rstate, lost>>
      /\ buf' = <<>> /\ rstate = "run"
      /\ delivered' = Append(delivered, m)
  BY <1>1, <1>2 DEF Recv
<1>4. /\ bytes \in Seq(Byte)
      /\ wire' \in Seq(Byte) /\ Len(wire') = Len(wire) - n
  BY <1>1, RecvTypes
<1>5. /\ Len(wire) \in Nat /\ n \in Nat /\ WireCap \in Nat
      /\ Len(wire) <= WireCap
  BY InvTypes, MessageIoAssumption DEF MessageInv, TypeOK
<1>6. IsMessage(m)
  BY <1>1, <1>2, <1>4, ReceiveType
<1>7. PICK d \in Seq(AnyMessage) : d = delivered
  BY InvTypes
<1>8. m \in AnyMessage
  BY <1>6 DEF IsMessage
<1>9. /\ delivered' \in Seq(AnyMessage)
      /\ Len(delivered') = Len(d) + 1
      /\ \A k \in 1..Len(d) : delivered'[k] = d[k]
      /\ delivered'[Len(d) + 1] = m
  BY <1>3, <1>7, <1>8, AppendProperties
<1>10. Len(d) \in Nat
  BY LenProperties
<1>11. TypeOK'
  <2>1. Len(wire') <= WireCap
    BY <1>4, <1>5
  <2>2. buf' \in Seq(Byte) /\ Len(buf') < Sizeof[Expected']
    <3>1. <<>> \in Seq(Byte) /\ Len(<<>>) = 0
      BY EmptySeq
    <3>2. PICK k \in Nat : k = Len(delivered')
      BY <1>9, <1>10
    <3>3. PICK s \in Scripts : s = script
      BY InvTypes
    <3>4. Expected' = s[IF k < Len(s) THEN k + 1 ELSE Len(s)].type
      BY <1>3, <3>2, <3>3 DEF Expected
    <3>5. PICK type : type = Expected'
      OBVIOUS
    <3>6. Sizeof[type] \in Nat \ {0}
      BY <3>4, <3>5, ExpectedType
    <3> QED BY <1>3, <3>1, <3>5, <3>6
  <2>3. ASSUME NEW k \in DOMAIN delivered'
        PROVE  IsPacket(Layout[delivered'[k].type], delivered'[k].packet)
    <3>1. DOMAIN d = 1..Len(d) /\ DOMAIN delivered' = 1..(Len(d) + 1)
      BY <1>9, LenProperties
    <3>2. CASE k = Len(d) + 1
      BY <1>6, <1>9, <3>2 DEF IsMessage
    <3>3. CASE k # Len(d) + 1
      <4>1. k \in 1..Len(d) /\ k \in DOMAIN d
        BY <1>10, <3>1, <3>3
      <4>2. IsPacket(Layout[d[k].type], d[k].packet)
        BY <1>7, <4>1 DEF MessageInv, TypeOK
      <4> QED BY <1>9, <4>1, <4>2
    <3> QED BY <3>2, <3>3
  <2> QED BY <1>3, <1>4, <1>9, <2>1, <2>2, <2>3 DEF MessageInv, TypeOK
<1>12. lost # "reset"
  <2>1. Len(wire) # 0
    BY <1>5 DEF Recv
  <2>2. wire # <<>>
    BY <2>1, EmptySeq
  <2> QED BY <2>2 DEF MessageInv, NothingAfterEnd
<1>13. NothingAfterEnd'
  BY <1>3, <1>12 DEF NothingAfterEnd
<1>14. CASE lost = "place"
  BY <1>3, <1>11, <1>13, <1>14
     DEF MessageInv, DeliveredInOrder, BytesAccounted
<1>15. CASE lost = "no"
  <2>1. /\ Len(d) < offered
        /\ m = script[Len(d) + 1]
        /\ wire' \o left
             = FlattenSeq(NetworkFrom(script, Len(d) + 1, offered))
    BY <1>1, <1>2, <1>7, <1>15, LastBytes
  <2>2. offered \in Nat
    BY InvTypes
  <2>3. DeliveredInOrder'
    <3>1. Len(delivered') <= offered'
      BY <1>3, <1>9, <1>10, <2>1, <2>2
    <3>2. ASSUME NEW k \in 1..Len(delivered')
          PROVE  delivered'[k] = script'[k]
      <4>1. CASE k = Len(d) + 1
        BY <1>3, <1>9, <2>1, <4>1
      <4>2. CASE k # Len(d) + 1
        <5>1. k \in 1..Len(d)
          BY <1>9, <1>10, <4>2
        <5>2. d[k] = script[k]
          BY <1>7, <1>15, <5>1 DEF MessageInv, DeliveredInOrder
        <5> QED BY <1>3, <1>9, <5>1, <5>2
      <4> QED BY <4>1, <4>2
    <3> QED BY <3>1, <3>2 DEF DeliveredInOrder
  <2>4. BytesAccounted'
    <3>1. Undelivered' = NetworkFrom(script, Len(d) + 1, offered)
      BY <1>3, <1>9 DEF Undelivered, NetworkFrom
    <3>2. <<>> \o wire' = wire'
      BY <1>4, ConcatEmptySeq
    <3> QED BY <1>3, <2>1, <3>1, <3>2 DEF BytesAccounted
  <2> QED BY <1>3, <1>11, <1>13, <2>3, <2>4 DEF MessageInv
<1> QED BY <1>12, <1>14, <1>15 DEF MessageInv, TypeOK

(* recv() keeps the invariant in both cases.                               *)
LEMMA RecvInv ==
    \A n \in 1..WireCap : MessageInv /\ Recv(n) => MessageInv'
<1> SUFFICES ASSUME NEW n \in 1..WireCap, MessageInv, Recv(n)
             PROVE  MessageInv'
  OBVIOUS
<1>1. CASE Complete(buf \o SubSeq(wire, 1, n))
  BY <1>1, RecvAllInv
<1>2. CASE ~Complete(buf \o SubSeq(wire, 1, n))
  BY <1>2, RecvPartInv
<1> QED BY <1>1, <1>2

-----------------------------------------------------------------------------
(* Every step keeps the invariant.                                         *)
LEMMA NextInv == MessageInv /\ [Next]_ioVars => MessageInv'
<1> SUFFICES ASSUME MessageInv, [Next]_ioVars PROVE MessageInv'
  OBVIOUS
<1>1. CASE CallSendAll
  BY <1>1, CallSendAllInv
<1>2. ASSUME NEW n \in 1..WireCap, Send(n) PROVE MessageInv'
  BY <1>2, SendInv
<1>3. CASE SendFails
  BY <1>3, SendFailsInv
<1>4. ASSUME NEW reset \in BOOLEAN, Close(reset) PROVE MessageInv'
  BY <1>4, CloseInv
<1>5. CASE WriterEnds
  BY <1>4, <1>5 DEF WriterEnds
<1>6. ASSUME NEW n \in 1..WireCap, Recv(n) PROVE MessageInv'
  BY <1>6, RecvInv
<1>7. CASE RecvFails
  BY <1>7, RecvFailsInv
<1>8. CASE RecvTimesOut
  BY <1>8, RecvTimesOutInv
<1>9. CASE ReaderLeaves
  BY <1>9, ReaderLeavesInv
<1>10. CASE UNCHANGED ioVars
  BY <1>10, StutterInv
<1> QED BY <1>1, <1>2, <1>3, <1>4, <1>5, <1>6, <1>7, <1>8, <1>9, <1>10
        DEF Next, WriterStep, ReaderStep, Stopped

(* The invariant holds for every script, any numbers of bytes per call,    *)
(* any failure and any bytes of capacity (common.c:167-217).               *)
THEOREM MessageInvariant == Spec => []MessageInv
<1>1. Init => MessageInv
  BY InitInv
<1>2. MessageInv /\ [Next]_ioVars => MessageInv'
  BY NextInv
<1> QED BY <1>1, <1>2, PTL DEF Spec

(* send_all and recv_all keep their types: recv_all never holds more than  *)
(* the message it was called for (common.c:197-217), and a packet it       *)
(* delivers has the fields of its struct, even when the reader has lost    *)
(* its place.                                                              *)
THEOREM MessageTypes == Spec => []TypeOK
<1>1. MessageInv => TypeOK
  BY DEF MessageInv
<1> QED BY <1>1, MessageInvariant, PTL

(* However send() and recv() divide the stream, what the reader has        *)
(* received and not delivered, what is on the way and what the writer      *)
(* still has to send is exactly the bytes, in network order, of the        *)
(* messages offered and not delivered: no byte is lost, repeated or out of *)
(* place (common.c:167-217, 219-376).                                      *)
THEOREM NoByteLost == Spec => []BytesInTransit
<1>1. MessageInv => BytesInTransit
  BY DEF MessageInv, DeliveredInOrder, BytesAccounted, BytesInTransit
<1> QED BY <1>1, MessageInvariant, PTL

(* At the end nothing is on the way, and the buffer holds less than the    *)
(* message it is for: no message is missing.                               *)
LEMMA AllDelivered ==
    ASSUME MessageInv, rstate = "ended", AllSent, lost = "no"
    PROVE  delivered = script
<1>1. PICK k : k = Len(delivered)
  OBVIOUS
<1>2. PICK s \in Scripts : s = script
  BY InvTypes
<1>3. PICK d \in Seq(AnyMessage) : d = delivered
  BY InvTypes
<1>4. /\ k \in Nat /\ Len(s) \in Nat /\ offered = Len(s) /\ k <= Len(s)
      /\ \A i \in 1..k : d[i] = s[i]
  BY <1>1, <1>2, <1>3, InvTypes DEF AllSent, MessageInv, DeliveredInOrder
<1>5. k = Len(s)
  <2> SUFFICES ASSUME k < Len(s) PROVE FALSE
    BY <1>4
  <2>1. PICK m : m = s[k + 1]
    OBVIOUS
  <2>2. PICK tail : tail = FlattenSeq(NetworkFrom(s, k + 1, Len(s)))
    OBVIOUS
  <2>3. IsMessage(m) /\ Expected = m.type
    <3>1. k + 1 \in 1..Len(s)
      BY <1>4
    <3>2. Expected = m.type
      BY <1>1, <1>2, <2>1 DEF Expected
    <3> QED BY <2>1, <3>1, <3>2, ScriptType
  <2>4. buf = NetworkBytes(m) \o tail
    <3>1. wire = <<>> /\ left = <<>>
      BY DEF AllSent, MessageInv, NothingAfterEnd
    <3>2. buf \in Seq(Byte)
      BY InvTypes
    <3>3. buf \o <<>> \o <<>> = buf
      BY <3>2, ConcatEmptySeq
    <3>4. buf \o wire \o left = FlattenSeq(NetworkFrom(s, k, Len(s)))
      BY <1>1, <1>2, <1>4, UndeliveredIs DEF MessageInv, BytesAccounted
    <3>5. Len(s) \in 0..Len(s)
      BY <1>4
    <3>6. FlattenSeq(NetworkFrom(s, k, Len(s))) = NetworkBytes(m) \o tail
      BY <1>4, <2>1, <2>2, <3>5, NetworkFromDeliver
    <3> QED BY <3>1, <3>3, <3>4, <3>6
  <2>5. PICK c : c = NetworkBytes(m)
    OBVIOUS
  <2>6. c \in Seq(Byte) /\ Len(c) = Sizeof[Expected]
    BY <2>3, <2>5, NetworkBytesType
  <2>7. tail \in Seq(Byte)
    <3>1. k + 1 \in Nat /\ k + 1 <= Len(s) /\ Len(s) \in 0..Len(s)
      BY <1>4
    <3>2. NetworkFrom(s, k + 1, Len(s)) \in Seq(Seq(Byte))
      BY <3>1, NetworkFromType
    <3> QED BY <2>2, <3>2, FlattenType
  <2>8. Len(c \o tail) = Len(c) + Len(tail) /\ Len(tail) \in Nat
    BY <2>6, <2>7, ConcatProperties, LenProperties
  <2>9. Len(buf) < Sizeof[Expected] /\ Sizeof[Expected] \in Nat
    BY InvTypes
  <2> QED BY <2>4, <2>5, <2>6, <2>8, <2>9
<1>6. s \in Seq(AnyMessage)
  BY ScriptType
<1>7. Len(d) = Len(s)
  BY <1>1, <1>3, <1>5
<1>8. \A i \in 1..Len(d) : d[i] = s[i]
  BY <1>4, <1>5, <1>7
<1>9. d = s
  BY <1>6, <1>7, <1>8, SeqEqual
<1> QED BY <1>2, <1>3, <1>9

(* recv_all takes an end inside a message for an end between two           *)
(* (common.c:207); if the writer sent all and no reset came it is an end   *)
(* between two, and the reader that ended has every message of the script. *)
THEOREM NothingLost == Spec => []OrderlyEndLosesNothing
<1>1. MessageInv => OrderlyEndLosesNothing
  BY AllDelivered DEF OrderlyEndLosesNothing
<1> QED BY <1>1, MessageInvariant, PTL

-----------------------------------------------------------------------------
(* The start of the two loops is the start of the pipe.                    *)
LEMMA PipeInit == Init => Pipe!Init
BY DEF Init, Pipe!Init

(* The recv() that ends a message delivers it; any other delivers nothing. *)
LEMMA PipeDeliver ==
    \A n \in 1..WireCap : MessageInv /\ Recv(n) => [Pipe!Next]_(Pipe!pipeVars)
<1> SUFFICES ASSUME NEW n \in 1..WireCap, MessageInv, Recv(n)
             PROVE  [Pipe!Next]_(Pipe!pipeVars)
  OBVIOUS
<1> USE DEF hostVars, writerVars
<1>1. PICK bytes : bytes = buf \o SubSeq(wire, 1, n)
  OBVIOUS
<1>2. /\ UNCHANGED <<script, offered, lost>>
      /\ delivered' = IF Complete(bytes)
                      THEN Append(delivered, Receive(bytes)) ELSE delivered
  BY <1>1 DEF Recv
<1>3. CASE ~Complete(bytes)
  BY <1>2, <1>3 DEF Pipe!pipeVars
<1>4. CASE lost = "place"
  BY <1>2, <1>4 DEF Pipe!Next, Pipe!Anything
<1>5. CASE Complete(bytes) /\ lost = "no"
  <2>1. /\ Len(delivered) < offered
        /\ Receive(bytes) = script[Len(delivered) + 1]
    BY <1>1, <1>5, LastBytes
  <2> QED BY <1>2, <1>5, <2>1 DEF Pipe!Next, Pipe!Deliver
<1>6. lost # "reset"
  <2>1. Len(wire) # 0
    BY InvTypes, MessageIoAssumption DEF Recv
  <2>2. wire # <<>>
    BY <2>1, EmptySeq
  <2> QED BY <2>2 DEF MessageInv, NothingAfterEnd
<1> QED BY <1>3, <1>4, <1>5, <1>6 DEF MessageInv, TypeOK

(* Every step is a step of the pipe or leaves it alone.                    *)
LEMMA PipeStep ==
    MessageInv /\ [Next]_ioVars => [Pipe!Next]_(Pipe!pipeVars)
<1> SUFFICES ASSUME MessageInv, [Next]_ioVars
             PROVE  [Pipe!Next]_(Pipe!pipeVars)
  OBVIOUS
<1> USE DEF ioVars, hostVars, writerVars, readerVars
<1>1. CASE CallSendAll
  BY <1>1 DEF CallSendAll, Pipe!Next, Pipe!Offer
<1>2. ASSUME NEW n \in 1..WireCap, Send(n)
      PROVE  [Pipe!Next]_(Pipe!pipeVars)
  BY <1>2 DEF Send, Pipe!pipeVars
<1>3. CASE SendFails
  BY <1>3 DEF SendFails, Pipe!pipeVars
<1>4. ASSUME NEW reset \in BOOLEAN, Close(reset)
      PROVE  [Pipe!Next]_(Pipe!pipeVars)
  <2>1. UNCHANGED <<script, offered, delivered>>
    BY <1>4 DEF Close
  <2>2. (lost' = "place") = (lost = "place")
    BY <1>4 DEF Close
  <2> QED BY <2>1, <2>2 DEF Pipe!pipeVars
<1>5. CASE WriterEnds
  BY <1>4, <1>5 DEF WriterEnds
<1>6. ASSUME NEW n \in 1..WireCap, Recv(n)
      PROVE  [Pipe!Next]_(Pipe!pipeVars)
  BY <1>6, PipeDeliver
<1>7. CASE RecvFails
  BY <1>7 DEF RecvFails, Pipe!pipeVars
<1>8. CASE RecvTimesOut
  <2>1. UNCHANGED <<script, offered, delivered>>
    BY <1>8 DEF RecvTimesOut
  <2>2. CASE buf # <<>>
    <3>1. lost' = "place"
      BY <1>8, <2>2 DEF RecvTimesOut
    <3> QED BY <2>1, <3>1 DEF Pipe!Next, Pipe!LosePlace
  <2>3. CASE buf = <<>>
    <3>1. lost' = lost
      BY <1>8, <2>3 DEF RecvTimesOut
    <3> QED BY <2>1, <3>1 DEF Pipe!pipeVars
  <2> QED BY <2>2, <2>3
<1>9. CASE ReaderLeaves
  BY <1>9 DEF ReaderLeaves, Pipe!pipeVars
<1>10. CASE UNCHANGED ioVars
  BY <1>10 DEF Pipe!pipeVars
<1> QED BY <1>1, <1>2, <1>3, <1>4, <1>5, <1>6, <1>7, <1>8, <1>9, <1>10
        DEF Next, WriterStep, ReaderStep, Stopped

(* send_all and recv_all implement a pipe of whole messages                *)
(* (common.c:167-217): the messages come out whole, unchanged and in       *)
(* order, until a receive timeout falls inside one.                        *)
THEOREM MessagesArePiped == Spec => ImplementsPipe
<1>1. Init => Pipe!Init
  BY PipeInit
<1>2. MessageInv /\ [Next]_ioVars => [Pipe!Next]_(Pipe!pipeVars)
  BY PipeStep
<1> QED BY <1>1, <1>2, MessageInvariant, PTL
        DEF Spec, ImplementsPipe, Pipe!Spec
=============================================================================
