----------------------------- MODULE WireProofs -----------------------------
(***************************************************************************)
(* The conversions of common.c put every number on the wire in network     *)
(* order and take it back, for words of any length and on any machine, and *)
(* the two conversions of each packet treat the same fields in the same    *)
(* way.  Further down, the structs as bytes: each field has its place, and *)
(* any bytes of the right number make a packet.  These need induction over *)
(* the fields: a property to prove for all numbers or sequences is given   *)
(* as the set of those that have it (AllNumbers, AllSequences).            *)
(***************************************************************************)
EXTENDS Packets, TLAPS, SequenceTheorems, WellFoundedInduction,
        NaturalsInduction

(* htonl gives the bytes of its argument in network order.                 *)
LEMMA HtonlBytes ==
    ASSUME NEW host \in Hosts, NEW v \in uint32_t
    PROVE  Memory(host, htonl(host, v), W) = BigEndian(v, W)
<1> DEFINE m == Memory(host, htonl(host, v), W)
<1>1. W \in Nat \ {0}
  BY WireAssumption
<1>2. ASSUME NEW k \in 1..W
      PROVE  m[k] = v[W - k]
  <2>1. k - 1 \in 0..(W - 1) /\ W - k \in 0..(W - 1)
    BY <1>1
  <2>2. CASE host = "little"
    <3>1. m[k] = htonl(host, v)[k - 1]
      BY <2>2 DEF Memory
    <3>2. htonl(host, v)[k - 1] = v[W - 1 - (k - 1)]
      BY <2>1, <2>2 DEF htonl
    <3>3. W - 1 - (k - 1) = W - k
      BY <1>1
    <3> QED BY <3>1, <3>2, <3>3
  <2>3. CASE host = "big"
    <3>1. host # "little"
      BY <2>3
    <3> QED BY <3>1 DEF Memory, htonl
  <2> QED BY <2>2, <2>3 DEF Hosts
<1> QED BY <1>2 DEF Memory, BigEndian

(* Joining the halves of a number gives the number.                        *)
LEMMA JoinHalves ==
    ASSUME NEW v \in uint64_t
    PROVE  Join(Low(v), High(v)) = v
<1>1. W \in Nat \ {0}
  BY WireAssumption
<1>2. ASSUME NEW d \in 0..(2 * W - 1)
      PROVE  Join(Low(v), High(v))[d] = v[d]
  <2>1. CASE d < W
    <3>1. d \in 0..(W - 1)
      BY <1>1, <2>1
    <3> QED BY <2>1, <3>1 DEF Join, Low
  <2>2. CASE ~(d < W)
    <3>1. d - W \in 0..(W - 1) /\ W + (d - W) = d
      BY <1>1, <2>2
    <3> QED BY <2>2, <3>1 DEF Join, High
  <2> QED BY <2>1, <2>2
<1>3. v = [d \in 0..(2 * W - 1) |-> v[d]]
  BY DEF uint64_t, number
<1> QED BY <1>2, <1>3 DEF Join

(* htonll_u64 turns the order of the digits round on a little-endian       *)
(* machine: the halves are exchanged and each is turned round.             *)
LEMMA HtonllDigits ==
    ASSUME NEW v \in uint64_t, NEW d \in 0..(2 * W - 1)
    PROVE  htonll_u64("little", v)[d] = v[2 * W - 1 - d]
<1>1. W \in Nat \ {0}
  BY WireAssumption
<1>2. htonll_u64("little", v)
        = Join(htonl("little", High(v)), htonl("little", Low(v)))
  BY DEF htonll_u64
<1>3. CASE d < W
  <2>1. d \in 0..(W - 1) /\ W - 1 - d \in 0..(W - 1)
    BY <1>1, <1>3
  <2>2. htonll_u64("little", v)[d] = htonl("little", High(v))[d]
    BY <1>2, <1>3 DEF Join
  <2>3. htonl("little", High(v))[d] = High(v)[W - 1 - d]
    BY <2>1 DEF htonl
  <2>4. High(v)[W - 1 - d] = v[W + (W - 1 - d)]
    BY <2>1 DEF High
  <2>5. W + (W - 1 - d) = 2 * W - 1 - d
    BY <1>1
  <2> QED BY <2>2, <2>3, <2>4, <2>5
<1>4. CASE ~(d < W)
  <2>1. d - W \in 0..(W - 1) /\ W - 1 - (d - W) \in 0..(W - 1)
    BY <1>1, <1>4
  <2>2. htonll_u64("little", v)[d] = htonl("little", Low(v))[d - W]
    BY <1>2, <1>4 DEF Join
  <2>3. htonl("little", Low(v))[d - W] = Low(v)[W - 1 - (d - W)]
    BY <2>1 DEF htonl
  <2>4. Low(v)[W - 1 - (d - W)] = v[W - 1 - (d - W)]
    BY <2>1 DEF Low
  <2>5. W - 1 - (d - W) = 2 * W - 1 - d
    BY <1>1
  <2> QED BY <2>2, <2>3, <2>4, <2>5
<1> QED BY <1>3, <1>4

-----------------------------------------------------------------------------
(* A 64-bit field lies on the wire with its most significant byte first,   *)
(* whatever the machine that converted it (common.c:219-227).              *)
THEOREM HtonllBytes ==
    ASSUME NEW host \in Hosts, NEW v \in uint64_t
    PROVE  Memory(host, htonll_u64(host, v), 2 * W) = BigEndian(v, 2 * W)
<1> DEFINE m == Memory(host, htonll_u64(host, v), 2 * W)
<1>1. W \in Nat \ {0}
  BY WireAssumption
<1>2. ASSUME NEW k \in 1..(2 * W)
      PROVE  m[k] = v[2 * W - k]
  <2>1. CASE host = "little"
    <3>1. k - 1 \in 0..(2 * W - 1)
      BY <1>1
    <3>2. m[k] = htonll_u64("little", v)[k - 1]
      BY <2>1 DEF Memory
    <3>3. htonll_u64("little", v)[k - 1] = v[2 * W - 1 - (k - 1)]
      BY <3>1, HtonllDigits
    <3>4. 2 * W - 1 - (k - 1) = 2 * W - k
      BY <1>1
    <3> QED BY <3>2, <3>3, <3>4
  <2>2. CASE host = "big"
    <3>1. host # "little"
      BY <2>2
    <3> QED BY <3>1 DEF Memory, htonll_u64
  <2> QED BY <2>1, <2>2 DEF Hosts
<1> QED BY <1>2 DEF Memory, BigEndian

(* A 64-bit field that one program converts and another one, on a machine  *)
(* of whatever byte order, reads and converts back is the same number      *)
(* (common.c:219-237): both halves come back to their places.              *)
THEOREM RoundTrip ==
    ASSUME NEW writer \in Hosts, NEW reader \in Hosts, NEW v \in uint64_t
    PROVE  ntohll_u64(reader,
               Value(reader, Memory(writer, htonll_u64(writer, v), 2 * W),
                     2 * W)) = v
<1>1. W \in Nat \ {0}
  BY WireAssumption
<1> DEFINE u == Value(reader, BigEndian(v, 2 * W), 2 * W)
<1>2. Value(reader, Memory(writer, htonll_u64(writer, v), 2 * W), 2 * W) = u
  BY HtonllBytes
<1>3. /\ v = [d \in 0..(2 * W - 1) |-> v[d]]
      /\ \A d \in 0..(2 * W - 1) : v[d] \in Byte
  BY DEF uint64_t, number
<1>4. CASE reader = "little"
  <2>1. ASSUME NEW d \in 0..(2 * W - 1)
        PROVE  u[d] = v[2 * W - 1 - d]
    <3>1. d + 1 \in 1..(2 * W) /\ 2 * W - (d + 1) = 2 * W - 1 - d
      BY <1>1
    <3>2. u[d] = BigEndian(v, 2 * W)[d + 1]
      BY <1>4 DEF Value
    <3>3. BigEndian(v, 2 * W)[d + 1] = v[2 * W - (d + 1)]
      BY <3>1 DEF BigEndian
    <3> QED BY <3>1, <3>2, <3>3
  <2>2. u \in uint64_t
    <3>1. ASSUME NEW d \in 0..(2 * W - 1)
          PROVE  2 * W - 1 - d \in 0..(2 * W - 1)
      BY <1>1
    <3>2. \A d \in 0..(2 * W - 1) : u[d] \in Byte
      BY <1>3, <2>1, <3>1
    <3>3. u = [d \in 0..(2 * W - 1) |-> u[d]]
      BY <1>4 DEF Value
    <3> QED BY <3>2, <3>3 DEF uint64_t, number
  <2>3. ntohll_u64(reader, u) = htonll_u64("little", u)
    BY <1>4 DEF ntohll_u64, htonll_u64, ntohl
  <2>4. ASSUME NEW d \in 0..(2 * W - 1)
        PROVE  htonll_u64("little", u)[d] = v[d]
    <3>1. 2 * W - 1 - d \in 0..(2 * W - 1) /\ 2 * W - 1 - (2 * W - 1 - d) = d
      BY <1>1
    <3>2. htonll_u64("little", u)[d] = u[2 * W - 1 - d]
      BY <2>2, HtonllDigits
    <3> QED BY <2>1, <3>1, <3>2
  <2>5. htonll_u64("little", u)
          = [d \in 0..(2 * W - 1) |-> htonll_u64("little", u)[d]]
    BY DEF htonll_u64, Join
  <2> QED BY <1>2, <1>3, <2>3, <2>4, <2>5
<1>5. CASE reader = "big"
  <2>1. reader # "little"
    BY <1>5
  <2>2. ASSUME NEW d \in 0..(2 * W - 1)
        PROVE  u[d] = v[d]
    <3>1. 2 * W - d \in 1..(2 * W) /\ 2 * W - (2 * W - d) = d
      BY <1>1
    <3>2. u[d] = BigEndian(v, 2 * W)[2 * W - d]
      BY <2>1 DEF Value
    <3>3. BigEndian(v, 2 * W)[2 * W - d] = v[2 * W - (2 * W - d)]
      BY <3>1 DEF BigEndian
    <3> QED BY <3>1, <3>2, <3>3
  <2>3. u = [d \in 0..(2 * W - 1) |-> u[d]]
    BY <2>1 DEF Value
  <2>4. ntohll_u64(reader, u) = u
    BY <2>1 DEF ntohll_u64
  <2> QED BY <1>2, <1>3, <2>2, <2>3, <2>4
<1> QED BY <1>4, <1>5 DEF Hosts

-----------------------------------------------------------------------------
(* A 32-bit field survives the way from one machine to another.            *)
LEMMA ShortRoundTrip ==
    ASSUME NEW writer \in Hosts, NEW reader \in Hosts, NEW v \in uint32_t
    PROVE  ntohl(reader,
               Value(reader, Memory(writer, htonl(writer, v), W), W)) = v
<1>1. W \in Nat \ {0}
  BY WireAssumption
<1> DEFINE u == Value(reader, BigEndian(v, W), W)
<1>2. Value(reader, Memory(writer, htonl(writer, v), W), W) = u
  BY HtonlBytes
<1>3. v = [d \in 0..(W - 1) |-> v[d]]
  BY DEF uint32_t, number
<1>4. CASE reader = "little"
  <2>1. ASSUME NEW d \in 0..(W - 1)
        PROVE  u[W - 1 - d] = v[d]
    <3>1. /\ W - 1 - d \in 0..(W - 1)
          /\ W - d \in 1..W
          /\ W - 1 - d + 1 = W - d /\ W - (W - d) = d
      BY <1>1
    <3>2. u[W - 1 - d] = BigEndian(v, W)[W - d]
      BY <1>4, <3>1 DEF Value
    <3>3. BigEndian(v, W)[W - d] = v[W - (W - d)]
      BY <3>1 DEF BigEndian
    <3> QED BY <3>1, <3>2, <3>3
  <2>2. ntohl(reader, u) = [d \in 0..(W - 1) |-> u[W - 1 - d]]
    BY <1>4 DEF ntohl, htonl
  <2> QED BY <1>2, <1>3, <2>1, <2>2
<1>5. CASE reader = "big"
  <2>1. reader # "little"
    BY <1>5
  <2>2. ASSUME NEW d \in 0..(W - 1)
        PROVE  u[d] = v[d]
    <3>1. W - d \in 1..W /\ W - (W - d) = d
      BY <1>1
    <3>2. u[d] = BigEndian(v, W)[W - d]
      BY <2>1 DEF Value
    <3>3. BigEndian(v, W)[W - d] = v[W - (W - d)]
      BY <3>1 DEF BigEndian
    <3> QED BY <3>1, <3>2, <3>3
  <2>3. u = [d \in 0..(W - 1) |-> u[d]]
    BY <2>1 DEF Value
  <2>4. ntohl(reader, u) = u
    BY <2>1 DEF ntohl, htonl
  <2> QED BY <1>2, <1>3, <2>2, <2>3, <2>4
<1> QED BY <1>4, <1>5 DEF Hosts

(* The fields of packet p, laid down in the memory of the writer, as the   *)
(* reader finds them in its own memory: the bytes are the same.            *)
Carried(layout, writer, reader, p) ==
    [k \in DOMAIN p |->
        Value(reader, Memory(writer, p[k], W * layout[k]), W * layout[k])]

(* In layout the fields in shorts are 32-bit words, all others two words.  *)
Fits(layout, shorts, p) ==
    \A k \in DOMAIN p :
        \/ k \in shorts /\ layout[k] = 1 /\ p[k] \in uint32_t
        \/ k \notin shorts /\ layout[k] = 2 /\ p[k] \in uint64_t

(* What Fields does to a packet before it is sent, Fields undoes after it  *)
(* was received, if both treat the same fields as 32-bit words and these   *)
(* are 32-bit words in the struct.                                         *)
LEMMA FieldsRoundTrip ==
    ASSUME NEW writer \in Hosts, NEW reader \in Hosts,
           NEW layout, NEW shorts, NEW p \in AnyPacket,
           Fits(layout, shorts, p)
    PROVE  Fields(ntohl, ntohll_u64, reader,
               Carried(layout, writer, reader,
                   Fields(htonl, htonll_u64, writer, p, shorts)),
               shorts) = p
<1> DEFINE net == Fields(htonl, htonll_u64, writer, p, shorts)
           got == Carried(layout, writer, reader, net)
           back == Fields(ntohl, ntohll_u64, reader, got, shorts)
<1>1. W \in Nat \ {0} /\ W * 1 = W /\ W * 2 = 2 * W
  BY WireAssumption
<1>2. DOMAIN net = DOMAIN p /\ DOMAIN got = DOMAIN p
  BY DEF Fields, Carried
<1>3. back = [k \in DOMAIN p |-> back[k]]
  BY <1>2 DEF Fields
<1>4. ASSUME NEW k \in DOMAIN p
      PROVE  back[k] = p[k]
  <2>1. got[k] = Value(reader, Memory(writer, net[k], W * layout[k]),
                       W * layout[k])
    BY <1>2 DEF Carried
  <2>2. CASE k \in shorts
    <3>1. layout[k] = 1 /\ p[k] \in uint32_t
      BY <2>2 DEF Fits
    <3>2. net[k] = htonl(writer, p[k])
      BY <2>2 DEF Fields
    <3>3. back[k] = ntohl(reader, got[k])
      BY <1>2, <2>2 DEF Fields
    <3>4. got[k] = Value(reader, Memory(writer, htonl(writer, p[k]), W), W)
      BY <1>1, <2>1, <3>1, <3>2
    <3> QED BY <3>1, <3>3, <3>4, ShortRoundTrip
  <2>3. CASE k \notin shorts
    <3>1. layout[k] = 2 /\ p[k] \in uint64_t
      BY <2>3 DEF Fits
    <3>2. net[k] = htonll_u64(writer, p[k])
      BY <2>3 DEF Fields
    <3>3. back[k] = ntohll_u64(reader, got[k])
      BY <1>2, <2>3 DEF Fields
    <3>4. got[k] = Value(reader,
                       Memory(writer, htonll_u64(writer, p[k]), 2 * W), 2 * W)
      BY <1>1, <2>1, <3>1, <3>2
    <3> QED BY <3>1, <3>3, <3>4, RoundTrip
  <2> QED BY <2>2, <2>3
<1>5. p = [k \in DOMAIN p |-> p[k]]
  BY DEF AnyPacket
<1> QED BY <1>3, <1>4, <1>5

(* Words treats all fields as 32-bit words.                                *)
LEMMA WordsAreFields ==
    ASSUME NEW host, NEW p
    PROVE  /\ Words(htonl, host, p)
                = Fields(htonl, htonll_u64, host, p, DOMAIN p)
           /\ Words(ntohl, host, p)
                = Fields(ntohl, ntohll_u64, host, p, DOMAIN p)
BY DEF Words, Fields

(* Which fields of which packet are 32-bit words, by its struct.           *)
Shorts(type, p) ==
    CASE type = "hello" -> DOMAIN p
      [] type \in {"frame", "zc_frame"} -> 1..4
      [] type = "zc_ack" -> 1..2
      [] type = "zc_handle" -> DOMAIN p \ {3, 4}

(* The conversions of a packet are Fields with these.                      *)
LEMMA ConversionsAreFields ==
    ASSUME NEW type \in DOMAIN Layout, NEW host, NEW p
    PROVE  /\ host_to_net(type, host, p)
                = Fields(htonl, htonll_u64, host, p, Shorts(type, p))
           /\ net_to_host(type, host, p)
                = Fields(ntohl, ntohll_u64, host, p, Shorts(type, p))
<1>1. CASE type = "hello"
  <2>1. Shorts(type, p) = DOMAIN p
    BY <1>1 DEF Shorts
  <2>2. /\ host_to_net(type, host, p) = Words(htonl, host, p)
        /\ net_to_host(type, host, p) = Words(ntohl, host, p)
    BY <1>1 DEF host_to_net, net_to_host, host_to_net_hello,
       net_to_host_hello
  <2> QED BY <2>1, <2>2, WordsAreFields
<1>2. CASE type = "frame"
  BY <1>2 DEF Shorts, host_to_net, net_to_host, host_to_net_frame,
     net_to_host_frame
<1>3. CASE type = "zc_frame"
  BY <1>3 DEF Shorts, host_to_net, net_to_host, host_to_net_zc_frame,
     net_to_host_zc_frame
<1>4. CASE type = "zc_ack"
  BY <1>4 DEF Shorts, host_to_net, net_to_host, host_to_net_zc_ack,
     net_to_host_zc_ack
<1>5. CASE type = "zc_handle"
  BY <1>5 DEF Shorts, host_to_net, net_to_host, host_to_net_zc_handle,
     net_to_host_zc_handle
<1> QED BY <1>1, <1>2, <1>3, <1>4, <1>5 DEF Layout

(* Concatenation by length and element, for sequences of numbers.          *)
LEMMA Concatenated ==
    ASSUME NEW s \in Seq(Nat), NEW t \in Seq(Nat)
    PROVE  /\ s \o t \in Seq(Nat) /\ Len(s \o t) = Len(s) + Len(t)
           /\ \A k \in 1..Len(s) : (s \o t)[k] = s[k]
           /\ \A k \in 1..Len(t) : (s \o t)[Len(s) + k] = t[k]
OBVIOUS

(* The struct of a handle packet: two words, two 64-bit fields, and then   *)
(* words, those of the grant array among them.                             *)
LEMMA HandleLayout ==
    /\ DOMAIN zc_handle_packet = 1..(8 + MaxGrefs)
    /\ Len(zc_handle_packet) = 8 + MaxGrefs
    /\ \A k \in 1..(8 + MaxGrefs) :
          zc_handle_packet[k] = IF k \in {3, 4} THEN 2 ELSE 1
<1>1. MaxGrefs \in Nat
  BY PacketsAssumption
<1>2. PICK fixed : fixed = <<1, 1, 2, 2, 1, 1, 1, 1>>
  OBVIOUS
<1>3. PICK grefs : grefs = [i \in 1..MaxGrefs |-> 1]
  OBVIOUS
<1>4. fixed \in Seq(Nat) /\ Len(fixed) = 8
  BY <1>2
<1>5. grefs \in Seq(Nat) /\ Len(grefs) = MaxGrefs
  BY <1>1, <1>3
<1>6. zc_handle_packet = fixed \o grefs
  BY <1>2, <1>3 DEF zc_handle_packet
<1>7. /\ fixed \o grefs \in Seq(Nat)
      /\ Len(fixed \o grefs) = 8 + MaxGrefs
      /\ \A k \in 1..8 : (fixed \o grefs)[k] = fixed[k]
      /\ \A k \in 1..MaxGrefs : (fixed \o grefs)[8 + k] = grefs[k]
  <2>1. /\ fixed \o grefs \in Seq(Nat)
        /\ Len(fixed \o grefs) = Len(fixed) + Len(grefs)
        /\ \A k \in 1..Len(fixed) : (fixed \o grefs)[k] = fixed[k]
        /\ \A k \in 1..Len(grefs) :
              (fixed \o grefs)[Len(fixed) + k] = grefs[k]
    <3>1. fixed \in Seq(Nat) /\ grefs \in Seq(Nat)
      BY <1>4, <1>5
    <3> QED BY <3>1, Concatenated, Zenon
  <2> QED BY <1>4, <1>5, <2>1, Zenon
<1>8. ASSUME NEW k \in 1..(8 + MaxGrefs)
      PROVE  zc_handle_packet[k] = IF k \in {3, 4} THEN 2 ELSE 1
  <2>1. CASE k <= 8
    <3>1. k \in 1..8
      BY <1>1, <2>1
    <3>2. fixed[k] = IF k \in {3, 4} THEN 2 ELSE 1
      BY <1>2, <3>1
    <3> QED BY <1>6, <1>7, <3>1, <3>2
  <2>2. CASE ~(k <= 8)
    <3>1. k - 8 \in 1..MaxGrefs /\ 8 + (k - 8) = k /\ k \notin {3, 4}
      BY <1>1, <2>2
    <3>2. grefs[k - 8] = 1
      BY <1>3, <3>1
    <3>3. (fixed \o grefs)[8 + (k - 8)] = grefs[k - 8]
      BY <1>7, <3>1
    <3> QED BY <1>6, <3>1, <3>2, <3>3
  <2> QED BY <2>1, <2>2
<1>9. DOMAIN zc_handle_packet = 1..Len(zc_handle_packet)
  BY <1>6, <1>7
<1> QED BY <1>6, <1>7, <1>8, <1>9

(* The struct of every packet has its 32-bit words where the conversions   *)
(* take them.                                                              *)
LEMMA ConversionsFitLayout ==
    ASSUME NEW type \in DOMAIN Layout, NEW p \in AnyPacket,
           IsPacket(Layout[type], p)
    PROVE  Fits(Layout[type], Shorts(type, p), p)
<1>1. W \in Nat \ {0} /\ W * 1 = W /\ W * 2 = 2 * W
  BY WireAssumption
<1>2. DOMAIN p = 1..Len(Layout[type])
  BY DEF IsPacket, AnyPacket
<1>3. SUFFICES ASSUME NEW k \in DOMAIN p
               PROVE  \/ k \in Shorts(type, p) /\ Layout[type][k] = 1
                      \/ k \notin Shorts(type, p) /\ Layout[type][k] = 2
  <2>1. DOMAIN Layout[type] = DOMAIN p
    <3>1. CASE type = "zc_handle"
      <4>1. Layout[type] = zc_handle_packet
        BY <3>1 DEF Layout
      <4> QED BY <1>2, <4>1, HandleLayout
    <3>2. CASE type # "zc_handle"
      BY <1>2, <3>2 DEF Layout, stream_hello, frame_packet, zc_frame_packet,
         zc_ack_packet
    <3> QED BY <3>1, <3>2
  <2>2. ASSUME NEW k \in DOMAIN p
        PROVE  p[k] \in number(W * Layout[type][k])
    BY <2>1 DEF IsPacket
  <2> QED BY <1>1, <2>2 DEF Fits, uint32_t, uint64_t
<1>4. CASE type = "hello"
  BY <1>2, <1>3, <1>4 DEF Shorts, Layout, stream_hello
<1>5. CASE type = "frame"
  BY <1>2, <1>3, <1>5 DEF Shorts, Layout, frame_packet
<1>6. CASE type = "zc_frame"
  BY <1>2, <1>3, <1>6 DEF Shorts, Layout, zc_frame_packet
<1>7. CASE type = "zc_ack"
  BY <1>2, <1>3, <1>7 DEF Shorts, Layout, zc_ack_packet
<1>8. CASE type = "zc_handle"
  <2>1. Layout[type] = zc_handle_packet /\ Shorts(type, p) = DOMAIN p \ {3, 4}
    BY <1>8 DEF Layout, Shorts
  <2> QED BY <1>2, <1>3, <2>1, HandleLayout
<1> QED BY <1>4, <1>5, <1>6, <1>7, <1>8 DEF Layout

(* Each of the five packets that one program converts and sends, and the   *)
(* other, on a machine of whatever byte order, receives and converts back, *)
(* is the same packet: host_to_net_* and net_to_host_* treat the same      *)
(* fields in the same way, by the size each has in the struct              *)
(* (common.c:258-376).                                                     *)
THEOREM PacketRoundTrip ==
    ASSUME NEW writer \in Hosts, NEW reader \in Hosts,
           NEW type \in DOMAIN Layout,
           NEW p \in AnyPacket, IsPacket(Layout[type], p)
    PROVE  net_to_host(type, reader,
               Carried(Layout[type], writer, reader,
                   host_to_net(type, writer, p))) = p
<1> DEFINE net == host_to_net(type, writer, p)
           got == Carried(Layout[type], writer, reader, net)
<1>1. net = Fields(htonl, htonll_u64, writer, p, Shorts(type, p))
  BY ConversionsAreFields
<1>2. DOMAIN got = DOMAIN p
  BY <1>1 DEF Carried, Fields
<1>3. Shorts(type, got) = Shorts(type, p)
  BY <1>2 DEF Shorts
<1>4. net_to_host(type, reader, got)
        = Fields(ntohl, ntohll_u64, reader, got, Shorts(type, p))
  BY <1>3, ConversionsAreFields
<1>5. Fits(Layout[type], Shorts(type, p), p)
  BY ConversionsFitLayout
<1> QED BY <1>1, <1>4, <1>5, FieldsRoundTrip

-----------------------------------------------------------------------------
(* A set of numbers that is not empty has a least one.                     *)
LEMMA LeastNumber ==
    ASSUME NEW T, T \subseteq Nat, T # {}
    PROVE  \E x \in T : \A y \in T : x <= y
<1>1. IsWellFoundedOn(OpToRel(<, Nat), Nat)
  BY NatLessThanWellFounded
<1>2. \E x \in T : \A y \in T : ~ (<<y, x>> \in OpToRel(<, Nat))
  BY <1>1, WFMin
<1>3. PICK x \in T : \A y \in T : ~ (<<y, x>> \in OpToRel(<, Nat))
  BY <1>2
<1>4. ASSUME NEW y \in T PROVE x <= y
  <2>1. ~ (y < x)
    BY <1>3 DEF OpToRel
  <2> QED BY <2>1
<1> QED BY <1>4

(* Induction, for a property given as the set of numbers that have it.     *)
LEMMA AllNumbers ==
    ASSUME NEW T, 0 \in T, \A n \in Nat : n \in T => n + 1 \in T
    PROVE  \A n \in Nat : n \in T
<1> SUFFICES ASSUME NEW n \in Nat, n \notin T PROVE FALSE
  OBVIOUS
<1> DEFINE U == {k \in Nat : k \notin T}
<1>1. PICK x \in U : \A y \in U : x <= y
  BY LeastNumber
<1>2. x - 1 \in Nat
  BY <1>1
<1>3. x - 1 \in T
  BY <1>1, <1>2
<1> QED BY <1>1, <1>2, <1>3

-----------------------------------------------------------------------------
IsFlatten(f, s, n) ==
    f = [i \in 1..n |-> IF i = 1 THEN s[i] ELSE f[i - 1] \o s[i]]

(* FlattenSeq is defined by a function of this form: there is one, ...     *)
LEMMA FlattenExists ==
    ASSUME NEW s, NEW n \in Nat
    PROVE  \E f : IsFlatten(f, s, n)
<1> DEFINE T == {m \in Nat : \E f : IsFlatten(f, s, m)}
<1>1. 0 \in T
  <2> DEFINE e == [i \in 1..0 |-> s[i]]
  <2>1. IsFlatten(e, s, 0)
    BY DEF IsFlatten
  <2> QED BY <2>1
<1>2. ASSUME NEW m \in Nat, m \in T
      PROVE  m + 1 \in T
  <2>1. PICK f : IsFlatten(f, s, m)
    BY <1>2
  <2> DEFINE g == [i \in 1..(m + 1) |->
                      IF i = m + 1
                      THEN IF m = 0 THEN s[i] ELSE f[m] \o s[i]
                      ELSE f[i]]
  <2>2. ASSUME NEW i \in 1..(m + 1)
        PROVE  g[i] = IF i = 1 THEN s[i] ELSE g[i - 1] \o s[i]
    <3>1. CASE i = m + 1
      <4>1. CASE m = 0
        BY <3>1, <4>1
      <4>2. CASE m # 0
        <5>1. i - 1 = m /\ m \in 1..(m + 1) /\ m # m + 1 /\ i # 1
          BY <3>1, <4>2
        <5>2. g[i - 1] = f[m]
          BY <5>1
        <5>3. g[i] = f[m] \o s[i]
          BY <3>1, <4>2
        <5> QED BY <5>1, <5>2, <5>3
      <4> QED BY <4>1, <4>2
    <3>2. CASE i # m + 1
      <4>1. i \in 1..m /\ g[i] = f[i]
        BY <3>2
      <4>2. f[i] = IF i = 1 THEN s[i] ELSE f[i - 1] \o s[i]
        BY <2>1, <4>1 DEF IsFlatten
      <4>3. i # 1 => g[i - 1] = f[i - 1]
        BY <4>1
      <4> QED BY <4>1, <4>2, <4>3
    <3> QED BY <3>1, <3>2
  <2>3. IsFlatten(g, s, m + 1)
    <3> HIDE DEF g
    <3>1. g = [i \in 1..(m + 1) |-> g[i]]
      BY DEF g
    <3> QED BY <2>2, <3>1 DEF IsFlatten
  <2> QED BY <2>3
<1> HIDE DEF T
<1>3. n \in T
  BY <1>1, <1>2, AllNumbers
<1> QED BY <1>3 DEF T

(* ... and FlattenSeq is its last value.                                   *)
LEMMA FlattenIs ==
    ASSUME NEW s, NEW n \in Nat \ {0}, Len(s) = n
    PROVE  \E f : IsFlatten(f, s, n) /\ FlattenSeq(s) = f[n]
<1> DEFINE f == CHOOSE f : IsFlatten(f, s, n)
<1>1. \E f_1 : IsFlatten(f_1, s, n)
  BY FlattenExists
<1>2. IsFlatten(f, s, n)
  BY <1>1
<1>3. FlattenSeq(s) = f[n]
  BY DEF FlattenSeq, IsFlatten
<1> QED BY <1>2, <1>3

(* FlattenSeq of nothing.                                                  *)
LEMMA FlattenEmpty == FlattenSeq(<<>>) = <<>>
BY DEF FlattenSeq

(* One value of that function.                                             *)
LEMMA FlattenStep ==
    ASSUME NEW f, NEW s, NEW n, IsFlatten(f, s, n), NEW i \in 1..n
    PROVE  f[i] = IF i = 1 THEN s[i] ELSE f[i - 1] \o s[i]
BY Zenon DEF IsFlatten

Agree(s, t, n) == \A i \in 1..n : s[i] = t[i]

(* Flattenings agree as far as the sequences do.                           *)
LEMMA FlattenAgrees ==
    ASSUME NEW s, NEW t, NEW n \in Nat, NEW m \in Nat, NEW f, NEW g,
           n <= m, Agree(s, t, n), IsFlatten(f, s, n), IsFlatten(g, t, m)
    PROVE  Agree(f, g, n)
<1> DEFINE T == {i \in Nat : i \in 1..n => f[i] = g[i]}
<1>1. 0 \in T
  OBVIOUS
<1>2. ASSUME NEW i \in Nat, i \in T
      PROVE  i + 1 \in T
  <2> SUFFICES ASSUME i + 1 \in 1..n PROVE f[i + 1] = g[i + 1]
    OBVIOUS
  <2>1. f[i + 1] = IF i + 1 = 1 THEN s[i + 1] ELSE f[i + 1 - 1] \o s[i + 1]
    BY FlattenStep
  <2>2. g[i + 1] = IF i + 1 = 1 THEN t[i + 1] ELSE g[i + 1 - 1] \o t[i + 1]
    <3>1. i + 1 \in 1..m
      OBVIOUS
    <3> QED BY <3>1, FlattenStep
  <2>3. s[i + 1] = t[i + 1] /\ i + 1 - 1 = i
    BY DEF Agree
  <2>4. i + 1 # 1 => f[i] = g[i]
    BY <1>2
  <2> QED BY <2>1, <2>2, <2>3, <2>4
<1> HIDE DEF T
<1>3. \A i \in Nat : i \in T
  BY <1>1, <1>2, AllNumbers
<1> QED BY <1>3 DEF T, Agree

(* FlattenSeq by its last element.                                         *)
LEMMA FlattenAppend ==
    ASSUME NEW A, NEW s \in Seq(Seq(A)), NEW x \in Seq(A)
    PROVE  FlattenSeq(Append(s, x)) = FlattenSeq(s) \o x
<1>1. PICK n : n = Len(s)
  OBVIOUS
<1>2. PICK t : t = Append(s, x)
  OBVIOUS
<1>3. PICK m : m = n + 1
  OBVIOUS
<1>4. /\ n \in Nat /\ m \in Nat /\ m \in Nat \ {0} /\ n <= m
      /\ m \in 1..m /\ m - 1 = n /\ (m = 1 <=> n = 0)
      /\ Len(t) = m /\ t[m] = x
      /\ \A i \in 1..n : s[i] = t[i]
  BY <1>1, <1>2, <1>3, AppendProperties, LenProperties
<1>5. PICK g : IsFlatten(g, t, m) /\ FlattenSeq(t) = g[m]
  BY <1>4, FlattenIs
<1>6. g[m] = IF m = 1 THEN t[m] ELSE g[m - 1] \o t[m]
  BY <1>4, <1>5, FlattenStep
<1>7. CASE n = 0
  <2>1. s = <<>>
    BY <1>1, <1>7, EmptySeq
  <2>2. FlattenSeq(s) \o x = x
    BY <2>1, FlattenEmpty, ConcatEmptySeq
  <2> QED BY <1>2, <1>4, <1>5, <1>6, <1>7, <2>2
<1>8. CASE n # 0
  <2>1. n \in Nat \ {0} /\ n \in 1..n /\ Len(s) = n
    BY <1>1, <1>4, <1>8
  <2>2. PICK f : IsFlatten(f, s, n) /\ FlattenSeq(s) = f[n]
    BY <2>1, FlattenIs
  <2>3. Agree(s, t, n)
    BY <1>4 DEF Agree
  <2>4. Agree(f, g, n)
    BY <1>4, <1>5, <2>2, <2>3, FlattenAgrees
  <2>5. f[n] = g[n]
    BY <2>1, <2>4 DEF Agree
  <2> QED BY <1>2, <1>4, <1>5, <1>6, <1>8, <2>2, <2>5
<1> QED BY <1>7, <1>8

-----------------------------------------------------------------------------
(* Induction over sequences, for a property given as a set of them.        *)
LEMMA AllSequences ==
    ASSUME NEW S, NEW T, <<>> \in T,
           \A s \in Seq(S) : s \in T => \A x \in S : Append(s, x) \in T
    PROVE  \A s \in Seq(S) : s \in T
<1> DEFINE U == {n \in Nat : \A s \in Seq(S) : Len(s) = n => s \in T}
<1>1. 0 \in U
  <2>1. ASSUME NEW s \in Seq(S), Len(s) = 0
        PROVE  s = <<>>
    BY <2>1, EmptySeq
  <2> QED BY <2>1
<1>2. ASSUME NEW n \in Nat, n \in U
      PROVE  n + 1 \in U
  <2>1. ASSUME NEW s \in Seq(S), Len(s) = n + 1
        PROVE  s \in T
    <3>1. s # <<>>
      BY <2>1, EmptySeq
    <3>2. PICK r \in Seq(S), x \in S : s = Append(r, x)
      BY <3>1, SequenceEmptyOrAppend
    <3>3. Len(r) = n
      BY <2>1, <3>2, AppendProperties, LenProperties
    <3>4. r \in T
      BY <1>2, <3>3
    <3> QED BY <3>2, <3>4
  <2> QED BY <2>1
<1> HIDE DEF U
<1>3. \A n \in Nat : n \in U
  BY <1>1, <1>2, AllNumbers
<1>4. ASSUME NEW s \in Seq(S) PROVE s \in T
  <2>1. Len(s) \in U
    BY <1>3, LenProperties
  <2> QED BY <2>1 DEF U
<1> QED BY <1>4

(* FlattenSeq makes one sequence of sequences of the same elements.        *)
LEMMA FlattenType ==
    ASSUME NEW A, NEW s \in Seq(Seq(A))
    PROVE  FlattenSeq(s) \in Seq(A)
<1> DEFINE T == {r \in Seq(Seq(A)) : FlattenSeq(r) \in Seq(A)}
<1>1. <<>> \in T
  BY FlattenEmpty, EmptySeq
<1>2. ASSUME NEW r \in Seq(Seq(A)), r \in T, NEW x \in Seq(A)
      PROVE  Append(r, x) \in T
  <2>1. FlattenSeq(Append(r, x)) = FlattenSeq(r) \o x
    BY FlattenAppend
  <2>2. FlattenSeq(r) \in Seq(A)
    BY <1>2
  <2>3. FlattenSeq(r) \o x \in Seq(A)
    BY <2>2, ConcatProperties
  <2>4. Append(r, x) \in Seq(Seq(A))
    BY AppendProperties
  <2> QED BY <2>1, <2>3, <2>4
<1> HIDE DEF T
<1>3. \A r \in Seq(Seq(A)) : r \in T
  BY <1>1, <1>2, AllSequences
<1> QED BY <1>3 DEF T

(* Concatenation is associative, under a name of its own for the provers.  *)
Associates(s, t, u) == (s \o t) \o u = s \o (t \o u)

LEMMA Association ==
    ASSUME NEW A, NEW s \in Seq(A), NEW t \in Seq(A), NEW u \in Seq(A)
    PROVE  Associates(s, t, u)
BY ConcatAssociative DEF Associates

(* FlattenSeq by its first element.                                        *)
LEMMA FlattenCons ==
    ASSUME NEW A, NEW s \in Seq(Seq(A)), NEW x \in Seq(A)
    PROVE  FlattenSeq(<<x>> \o s) = x \o FlattenSeq(s)
<1> DEFINE T == {r \in Seq(Seq(A)) :
                    FlattenSeq(<<x>> \o r) = x \o FlattenSeq(r)}
<1>0. <<x>> \in Seq(Seq(A)) /\ <<>> \in Seq(Seq(A))
  OBVIOUS
<1>1. <<>> \in T
  <2>1. <<x>> \o <<>> = <<x>> /\ <<x>> = Append(<<>>, x)
    BY <1>0, ConcatEmptySeq
  <2>2. FlattenSeq(Append(<<>>, x)) = FlattenSeq(<<>>) \o x
    BY <1>0, FlattenAppend
  <2>3. FlattenSeq(<<>>) \o x = x /\ x \o FlattenSeq(<<>>) = x
    BY FlattenEmpty, ConcatEmptySeq
  <2> QED BY <1>0, <2>1, <2>2, <2>3
<1>2. ASSUME NEW r \in Seq(Seq(A)), r \in T, NEW y \in Seq(A)
      PROVE  Append(r, y) \in T
  <2>1. <<x>> \o r \in Seq(Seq(A)) /\ Append(r, y) \in Seq(Seq(A))
    BY <1>0, ConcatProperties, AppendProperties
  <2>2. <<x>> \o Append(r, y) = Append(<<x>> \o r, y)
    <3>1. <<y>> \in Seq(Seq(A))
      OBVIOUS
    <3>2. Append(r, y) = r \o <<y>>
      BY AppendIsConcat
    <3>3. Append(<<x>> \o r, y) = (<<x>> \o r) \o <<y>>
      BY <2>1, AppendIsConcat
    <3>4. <<x>> \in Seq(Seq(A))
      BY <1>0
    <3>5. Associates(<<x>>, r, <<y>>)
      BY <3>1, <3>4, Association
    <3> QED BY <3>2, <3>3, <3>5 DEF Associates
  <2>3. FlattenSeq(Append(<<x>> \o r, y)) = FlattenSeq(<<x>> \o r) \o y
    BY <2>1, FlattenAppend
  <2>4. FlattenSeq(Append(r, y)) = FlattenSeq(r) \o y
    BY FlattenAppend
  <2>5. FlattenSeq(<<x>> \o r) = x \o FlattenSeq(r)
    BY <1>2
  <2>6. (x \o FlattenSeq(r)) \o y = x \o (FlattenSeq(r) \o y)
    <3>1. FlattenSeq(r) \in Seq(A)
      BY FlattenType
    <3>2. Associates(x, FlattenSeq(r), y)
      BY <3>1, Association
    <3> QED BY <3>2 DEF Associates
  <2> QED BY <2>1, <2>2, <2>3, <2>4, <2>5, <2>6
<1> HIDE DEF T
<1>3. \A r \in Seq(Seq(A)) : r \in T
  BY <1>1, <1>2, AllSequences
<1> QED BY <1>3 DEF T

-----------------------------------------------------------------------------
IsOffset(f, layout, n) ==
    f = [k \in 0..n |-> IF k = 0 THEN 0 ELSE f[k - 1] + W * layout[k]]

(* Offset is defined by a function of this form: there is one, ...         *)
LEMMA OffsetExists ==
    ASSUME NEW layout, NEW n \in Nat
    PROVE  \E f : IsOffset(f, layout, n)
<1> DEFINE T == {m \in Nat : \E f : IsOffset(f, layout, m)}
<1>1. 0 \in T
  <2> DEFINE e == [k \in 0..0 |-> 0]
  <2>1. IsOffset(e, layout, 0)
    BY DEF IsOffset
  <2> QED BY <2>1
<1>2. ASSUME NEW m \in Nat, m \in T
      PROVE  m + 1 \in T
  <2>1. PICK f : IsOffset(f, layout, m)
    BY <1>2
  <2> DEFINE g == [k \in 0..(m + 1) |->
                      IF k = m + 1 THEN f[m] + W * layout[k] ELSE f[k]]
  <2>2. ASSUME NEW k \in 0..(m + 1)
        PROVE  g[k] = IF k = 0 THEN 0 ELSE g[k - 1] + W * layout[k]
    <3>1. CASE k = m + 1
      <4>1. k - 1 = m /\ k - 1 \in 0..(m + 1) /\ m # m + 1 /\ k # 0
        BY <3>1
      <4>2. g[k - 1] = f[m]
        BY <4>1
      <4>3. g[k] = f[m] + W * layout[k]
        BY <3>1
      <4> QED BY <4>1, <4>2, <4>3
    <3>2. CASE k # m + 1
      <4>1. k \in 0..m /\ g[k] = f[k]
        BY <3>2
      <4>2. f[k] = IF k = 0 THEN 0 ELSE f[k - 1] + W * layout[k]
        BY <2>1, <4>1 DEF IsOffset
      <4>3. k # 0 => g[k - 1] = f[k - 1]
        BY <4>1
      <4> QED BY <4>1, <4>2, <4>3
    <3> QED BY <3>1, <3>2
  <2>3. IsOffset(g, layout, m + 1)
    <3> HIDE DEF g
    <3>1. g = [k \in 0..(m + 1) |-> g[k]]
      BY DEF g
    <3> QED BY <2>2, <3>1 DEF IsOffset
  <2> QED BY <2>3
<1> HIDE DEF T
<1>3. n \in T
  BY <1>1, <1>2, AllNumbers
<1> QED BY <1>3 DEF T

(* ... and Offset is its last value.                                       *)
LEMMA OffsetIs ==
    ASSUME NEW layout, NEW n \in Nat
    PROVE  \E f : IsOffset(f, layout, n) /\ Offset(layout, n) = f[n]
<1> DEFINE f == CHOOSE f : IsOffset(f, layout, n)
<1>1. \E f_1 : IsOffset(f_1, layout, n)
  BY OffsetExists
<1>2. IsOffset(f, layout, n)
  BY <1>1
<1>3. Offset(layout, n) = f[n]
  BY DEF Offset, IsOffset
<1> QED BY <1>2, <1>3

(* One value of that function.                                             *)
LEMMA OffsetStep ==
    ASSUME NEW f, NEW layout, NEW n, IsOffset(f, layout, n), NEW k \in 0..n
    PROVE  f[k] = IF k = 0 THEN 0 ELSE f[k - 1] + W * layout[k]
BY Zenon DEF IsOffset

(* The function for a longer layout goes on from the one for a shorter.    *)
LEMMA OffsetAgrees ==
    ASSUME NEW layout, NEW n \in Nat, NEW m \in Nat, NEW f, NEW g,
           n <= m, IsOffset(f, layout, n), IsOffset(g, layout, m)
    PROVE  f[n] = g[n]
<1> DEFINE T == {k \in Nat : k \in 0..n => f[k] = g[k]}
<1>1. 0 \in T
  <2>1. 0 \in 0..n /\ 0 \in 0..m
    OBVIOUS
  <2>2. f[0] = 0 /\ g[0] = 0
    BY <2>1, OffsetStep
  <2> QED BY <2>2
<1>2. ASSUME NEW k \in Nat, k \in T
      PROVE  k + 1 \in T
  <2> SUFFICES ASSUME k + 1 \in 0..n PROVE f[k + 1] = g[k + 1]
    OBVIOUS
  <2>1. PICK j : j = k + 1
    OBVIOUS
  <2>2. j \in 0..n /\ j \in 0..m /\ j # 0 /\ j - 1 = k
    BY <2>1
  <2>3. f[j] = f[j - 1] + W * layout[j] /\ g[j] = g[j - 1] + W * layout[j]
    BY <2>2, OffsetStep
  <2>4. f[k] = g[k]
    BY <1>2, <2>1, <2>2
  <2> QED BY <2>1, <2>2, <2>3, <2>4
<1> HIDE DEF T
<1>3. n \in T
  BY <1>1, <1>2, AllNumbers
<1> QED BY <1>3 DEF T

(* The offset of a field follows from that of the field before it.         *)
LEMMA OffsetNext ==
    ASSUME NEW layout
    PROVE  /\ Offset(layout, 0) = 0
           /\ \A n \in Nat : Offset(layout, n + 1)
                                = Offset(layout, n) + W * layout[n + 1]
<1>1. Offset(layout, 0) = 0
  <2>1. PICK f : IsOffset(f, layout, 0) /\ Offset(layout, 0) = f[0]
    BY OffsetIs
  <2>2. f[0] = 0
    BY <2>1, OffsetStep
  <2> QED BY <2>1, <2>2
<1>2. ASSUME NEW n \in Nat
      PROVE  Offset(layout, n + 1) = Offset(layout, n) + W * layout[n + 1]
  <2>1. PICK m : m = n + 1
    OBVIOUS
  <2>2. m \in Nat /\ n <= m /\ m \in 0..m /\ m - 1 = n /\ m # 0
    BY <2>1
  <2>3. PICK f : IsOffset(f, layout, n) /\ Offset(layout, n) = f[n]
    BY OffsetIs
  <2>4. PICK g : IsOffset(g, layout, m) /\ Offset(layout, m) = g[m]
    BY <2>2, OffsetIs
  <2>5. g[m] = g[m - 1] + W * layout[m]
    BY <2>2, <2>4, OffsetStep
  <2>6. f[n] = g[n]
    BY <2>2, <2>3, <2>4, OffsetAgrees
  <2> QED BY <2>1, <2>2, <2>3, <2>4, <2>5, <2>6
<1> QED BY <1>1, <1>2

-----------------------------------------------------------------------------
(* A part of a sequence, with more behind it and by itself.                *)
LEMMA PartOfFront ==
    ASSUME NEW A, NEW s \in Seq(A), NEW t \in Seq(A),
           NEW a \in Nat, NEW b \in Nat, b <= Len(s)
    PROVE  SubSeq(s \o t, a + 1, b) = SubSeq(s, a + 1, b)
<1>1. Len(s) \in Nat /\ Len(t) \in Nat
  BY LenProperties
<1>2. \A i \in (a + 1)..b : s[i] \in A /\ (s \o t)[i] = s[i]
  BY <1>1, ConcatProperties, ElementOfSeq
<1>3. /\ SubSeq(s, a + 1, b) \in Seq(A)
      /\ SubSeq(s \o t, a + 1, b) \in Seq(A)
      /\ Len(SubSeq(s, a + 1, b)) = Len(SubSeq(s \o t, a + 1, b))
      /\ Len(SubSeq(s, a + 1, b)) = IF a + 1 <= b THEN b - a ELSE 0
      /\ \A i \in 1..(b - a) : SubSeq(s, a + 1, b)[i] = s[a + i]
      /\ \A i \in 1..(b - a) :
            SubSeq(s \o t, a + 1, b)[i] = (s \o t)[a + i]
  BY <1>1, <1>2
<1>4. ASSUME NEW i \in 1..Len(SubSeq(s, a + 1, b))
      PROVE  SubSeq(s \o t, a + 1, b)[i] = SubSeq(s, a + 1, b)[i]
  <2>1. i \in 1..(b - a) /\ a + i \in (a + 1)..b
    BY <1>3
  <2> QED BY <1>2, <1>3, <2>1
<1> QED BY <1>3, <1>4, SeqEqual

(* The two parts of a concatenation.                                       *)
LEMMA PartBehind ==
    ASSUME NEW A, NEW s \in Seq(A), NEW t \in Seq(A)
    PROVE  /\ SubSeq(s \o t, Len(s) + 1, Len(s) + Len(t)) = t
           /\ SubSeq(s \o t, 1, Len(s)) = s
<1>1. Len(s) \in Nat /\ Len(t) \in Nat
  BY LenProperties
<1> DEFINE r == SubSeq(s \o t, Len(s) + 1, Len(s) + Len(t))
<1>2. /\ s \o t \in Seq(A)
      /\ \A i \in 1..Len(t) : (s \o t)[Len(s) + i] = t[i]
  BY <1>1, ConcatProperties
<1>3. r \in Seq(A) /\ Len(r) = Len(t)
      /\ \A i \in 1..Len(t) : r[i] = (s \o t)[Len(s) + i]
  BY <1>1, <1>2
<1>4. r = t
  <2> HIDE DEF r
  <2> QED BY <1>2, <1>3, SeqEqual
<1>5. SubSeq(s \o t, 1, Len(s)) = SubSeq(s, 1, Len(s))
  <2>1. 0 \in Nat /\ Len(s) <= Len(s) /\ 0 + 1 = 1
    BY <1>1
  <2>2. SubSeq(s \o t, 0 + 1, Len(s)) = SubSeq(s, 0 + 1, Len(s))
    BY <1>1, <2>1, PartOfFront
  <2> QED BY <2>1, <2>2
<1> QED BY <1>4, <1>5, SubSeqFull

-----------------------------------------------------------------------------
(* Sequences of bytes as long as the fields of a layout, and their places  *)
(* in the sequence of all bytes.                                           *)
Lays(s, layout) == \A k \in 1..Len(s) : Len(s[k]) = W * layout[k]

InPlace(s, layout) ==
    /\ Len(FlattenSeq(s)) = Offset(layout, Len(s))
    /\ \A k \in 1..Len(s) :
          /\ Offset(layout, k - 1) \in Nat /\ Offset(layout, k) \in Nat
          /\ Offset(layout, k) <= Len(FlattenSeq(s))
          /\ SubSeq(FlattenSeq(s), Offset(layout, k - 1) + 1,
                    Offset(layout, k)) = s[k]

(* Each of the sequences lies in the sequence of all where the layout      *)
(* says.                                                                   *)
LEMMA FieldsInPlace ==
    ASSUME NEW A, NEW layout, NEW s \in Seq(Seq(A)), Lays(s, layout)
    PROVE  InPlace(s, layout)
<1> DEFINE T == {r \in Seq(Seq(A)) : Lays(r, layout) => InPlace(r, layout)}
<1>1. <<>> \in T
  <2>1. InPlace(<<>>, layout)
    BY FlattenEmpty, OffsetNext DEF InPlace
  <2> QED BY <2>1
<1>2. ASSUME NEW r \in Seq(Seq(A)), r \in T, NEW x \in Seq(A)
      PROVE  Append(r, x) \in T
  <2>1. PICK t : t = Append(r, x)
    OBVIOUS
  <2>2. PICK n : n = Len(r)
    OBVIOUS
  <2>3. PICK flat : flat = FlattenSeq(r)
    OBVIOUS
  <2>4. /\ t \in Seq(Seq(A)) /\ n \in Nat /\ Len(t) = n + 1
        /\ t[n + 1] = x /\ n + 1 \in 1..(n + 1) /\ n + 1 - 1 = n
        /\ \A k \in 1..n : t[k] = r[k] /\ k \in 1..(n + 1)
    BY <2>1, <2>2, AppendProperties, LenProperties
  <2>5. flat \in Seq(A) /\ FlattenSeq(t) = flat \o x
    BY <2>1, <2>3, FlattenType, FlattenAppend
  <2> SUFFICES ASSUME Lays(t, layout) PROVE InPlace(t, layout)
    BY <2>1, <2>4
  <2>6. Lays(r, layout) /\ Len(x) = W * layout[n + 1]
    BY <2>2, <2>4 DEF Lays
  <2>7. InPlace(r, layout)
    BY <1>2, <2>6
  <2>8. /\ Len(flat) \in Nat /\ Len(x) \in Nat
        /\ Len(flat \o x) = Len(flat) + Len(x)
    BY <2>5, LenProperties, ConcatProperties
  <2>9. Len(flat) = Offset(layout, n)
    BY <2>2, <2>3, <2>7 DEF InPlace
  <2>10. Offset(layout, n + 1) = Len(flat) + Len(x)
    BY <2>4, <2>6, <2>9, OffsetNext
  <2>11. ASSUME NEW k \in 1..n
         PROVE  /\ Offset(layout, k - 1) \in Nat /\ Offset(layout, k) \in Nat
                /\ Offset(layout, k) <= Len(flat \o x)
                /\ SubSeq(flat \o x, Offset(layout, k - 1) + 1,
                          Offset(layout, k)) = t[k]
    <3>1. /\ Offset(layout, k - 1) \in Nat /\ Offset(layout, k) \in Nat
          /\ Offset(layout, k) <= Len(flat)
          /\ SubSeq(flat, Offset(layout, k - 1) + 1, Offset(layout, k)) = r[k]
      BY <2>2, <2>3, <2>7 DEF InPlace
    <3>2. SubSeq(flat \o x, Offset(layout, k - 1) + 1, Offset(layout, k))
            = SubSeq(flat, Offset(layout, k - 1) + 1, Offset(layout, k))
      BY <2>5, <3>1, PartOfFront
    <3>3. Offset(layout, k) <= Len(flat \o x)
      BY <2>8, <3>1
    <3> QED BY <2>4, <3>1, <3>2, <3>3
  <2>12. SubSeq(flat \o x, Offset(layout, n) + 1, Offset(layout, n + 1)) = x
    <3>1. SubSeq(flat \o x, Len(flat) + 1, Len(flat) + Len(x)) = x
      BY <2>5, PartBehind
    <3> QED BY <2>9, <2>10, <3>1
  <2>13. ASSUME NEW k \in 1..(n + 1)
         PROVE  /\ Offset(layout, k - 1) \in Nat /\ Offset(layout, k) \in Nat
                /\ Offset(layout, k) <= Len(flat \o x)
                /\ SubSeq(flat \o x, Offset(layout, k - 1) + 1,
                          Offset(layout, k)) = t[k]
    <3>1. CASE k \in 1..n
      BY <2>11, <3>1
    <3>2. CASE k = n + 1
      <4>1. k - 1 = n
        BY <2>4, <3>2
      <4>2. /\ Offset(layout, n) \in Nat
            /\ Offset(layout, n + 1) \in Nat
            /\ Offset(layout, n + 1) <= Len(flat \o x)
        BY <2>8, <2>9, <2>10
      <4> QED BY <2>4, <2>12, <3>2, <4>1, <4>2
    <3>3. k \in 1..n \/ k = n + 1
      BY <2>4
    <3> QED BY <3>1, <3>2, <3>3
  <2> QED BY <2>4, <2>5, <2>8, <2>10, <2>13 DEF InPlace
<1> HIDE DEF T
<1>3. s \in T
  BY <1>1, <1>2, AllSequences
<1> QED BY <1>3 DEF T

-----------------------------------------------------------------------------
(* The structs: fields of one or two words, at least one field.            *)
LEMMA LayoutType ==
    ASSUME NEW type \in DOMAIN Layout
    PROVE  Layout[type] \in Seq({1, 2}) /\ Len(Layout[type]) \in Nat \ {0}
<1>1. CASE type = "zc_handle"
  <2>1. Layout[type] = zc_handle_packet
    BY <1>1 DEF Layout
  <2>2. MaxGrefs \in Nat /\ 8 + MaxGrefs \in Nat \ {0}
    BY PacketsAssumption
  <2>3. zc_handle_packet \in [1..(8 + MaxGrefs) -> {1, 2}]
    <3>1. zc_handle_packet
            = [k \in 1..(8 + MaxGrefs) |-> zc_handle_packet[k]]
      <4>1. <<1, 1, 2, 2, 1, 1, 1, 1>> \in Seq({1, 2})
        OBVIOUS
      <4>2. [i \in 1..MaxGrefs |-> 1] \in Seq({1, 2})
        BY <2>2
      <4>3. zc_handle_packet \in Seq({1, 2})
        BY <4>1, <4>2, ConcatProperties DEF zc_handle_packet
      <4> QED BY <4>3, HandleLayout, LenProperties
    <3> QED BY <3>1, HandleLayout
  <2>4. zc_handle_packet \in Seq({1, 2})
    BY <2>2, <2>3
  <2> QED BY <2>1, <2>2, <2>4, HandleLayout
<1>2. CASE type = "hello"
  BY <1>2 DEF Layout, stream_hello
<1>3. CASE type = "frame"
  BY <1>3 DEF Layout, frame_packet
<1>4. CASE type = "zc_frame"
  BY <1>4 DEF Layout, zc_frame_packet
<1>5. CASE type = "zc_ack"
  BY <1>5 DEF Layout, zc_ack_packet
<1> QED BY <1>1, <1>2, <1>3, <1>4, <1>5 DEF Layout

(* The offsets rise with each field, from 0 to the size of the struct.     *)
Rises(layout, n) ==
    \A k \in 0..n :
        /\ Offset(layout, k) \in Nat
        /\ k # 0 => Offset(layout, k) # 0
        /\ Offset(layout, k) <= Offset(layout, n)

(* So the offsets of the fields rise to the size of the struct.            *)
LEMMA OffsetsRise ==
    ASSUME NEW layout \in Seq({1, 2})
    PROVE  \A n \in 0..Len(layout) : Rises(layout, n)
<1> DEFINE T == {m \in Nat : m <= Len(layout) => Rises(layout, m)}
<1>1. Len(layout) \in Nat /\ W \in Nat \ {0}
  BY LenProperties, WireAssumption
<1>2. 0 \in T
  <2>1. Offset(layout, 0) = 0
    BY OffsetNext
  <2>2. \A k \in 0..0 : k = 0
    OBVIOUS
  <2> QED BY <2>1, <2>2 DEF Rises
<1>3. ASSUME NEW m \in Nat, m \in T
      PROVE  m + 1 \in T
  <2> SUFFICES ASSUME m + 1 <= Len(layout) PROVE Rises(layout, m + 1)
    OBVIOUS
  <2>1. Rises(layout, m)
    BY <1>1, <1>3
  <2>2. PICK n : n = m + 1
    OBVIOUS
  <2>3. Offset(layout, n) = Offset(layout, m) + W * layout[n]
    BY <2>2, OffsetNext
  <2>4. layout[n] \in {1, 2}
    BY <1>1, <2>2, ElementOfSeq
  <2>5. W * layout[n] \in Nat \ {0}
    <3>1. W * 1 \in Nat \ {0} /\ W * 2 \in Nat \ {0}
      BY <1>1
    <3> QED BY <2>4, <3>1
  <2>6. Offset(layout, m) \in Nat
    BY <2>1 DEF Rises
  <2>7. /\ Offset(layout, n) \in Nat
        /\ Offset(layout, n) # 0
        /\ Offset(layout, m) <= Offset(layout, n)
    BY <2>3, <2>5, <2>6
  <2>8. ASSUME NEW k \in 0..n
        PROVE  /\ Offset(layout, k) \in Nat
               /\ k # 0 => Offset(layout, k) # 0
               /\ Offset(layout, k) <= Offset(layout, n)
    <3>1. CASE k = n
      BY <2>7, <3>1
    <3>2. CASE k # n
      <4>1. k \in 0..m
        BY <2>2, <3>2
      <4>2. /\ Offset(layout, k) \in Nat
            /\ k # 0 => Offset(layout, k) # 0
            /\ Offset(layout, k) <= Offset(layout, m)
        BY <2>1, <4>1 DEF Rises
      <4> QED BY <2>6, <2>7, <4>2
    <3> QED BY <3>1, <3>2
  <2> QED BY <2>2, <2>8 DEF Rises
<1> HIDE DEF T
<1>4. \A n \in Nat : n \in T
  BY <1>2, <1>3, AllNumbers
<1> QED BY <1>1, <1>4 DEF T

(* A struct has a size, and its fields lie inside.                         *)
LEMMA SizeofType ==
    ASSUME NEW type \in DOMAIN Layout
    PROVE  /\ Sizeof[type] \in Nat \ {0}
           /\ Sizeof[type] = Offset(Layout[type], Len(Layout[type]))
           /\ Rises(Layout[type], Len(Layout[type]))
<1>1. Layout[type] \in Seq({1, 2}) /\ Len(Layout[type]) \in Nat \ {0}
  BY LayoutType
<1>2. Len(Layout[type]) \in 0..Len(Layout[type])
  BY <1>1
<1>3. Rises(Layout[type], Len(Layout[type]))
  BY <1>1, <1>2, OffsetsRise
<1>4. Sizeof[type] = Offset(Layout[type], Len(Layout[type]))
  BY DEF Sizeof
<1> QED BY <1>1, <1>2, <1>3, <1>4 DEF Rises

-----------------------------------------------------------------------------
(* The bytes of a number are as many as it has.                            *)
LEMMA BigEndianType ==
    ASSUME NEW n \in Nat, NEW v \in number(n)
    PROVE  BigEndian(v, n) \in Seq(Byte) /\ Len(BigEndian(v, n)) = n
<1>1. ASSUME NEW k \in 1..n PROVE v[n - k] \in Byte
  <2>1. n - k \in 0..(n - 1)
    OBVIOUS
  <2> QED BY <2>1 DEF number
<1> QED BY <1>1 DEF BigEndian

(* A field that was converted lies in memory as on the wire.               *)
LEMMA FieldBytes ==
    ASSUME NEW type \in DOMAIN Layout, NEW writer \in Hosts,
           NEW p \in AnyPacket, IsPacket(Layout[type], p)
    PROVE  LET net == host_to_net(type, writer, p) IN
           /\ DOMAIN net = DOMAIN p
           /\ \A k \in DOMAIN p :
                 Memory(writer, net[k], W * Layout[type][k])
                   = BigEndian(p[k], W * Layout[type][k])
<1> DEFINE net == host_to_net(type, writer, p)
           shorts == Shorts(type, p)
<1>1. W \in Nat \ {0} /\ W * 1 = W /\ W * 2 = 2 * W
  BY WireAssumption
<1>2. net = Fields(htonl, htonll_u64, writer, p, shorts)
  BY ConversionsAreFields
<1>3. Fits(Layout[type], shorts, p)
  BY ConversionsFitLayout
<1>4. DOMAIN net = DOMAIN p
  BY <1>2 DEF Fields
<1>5. ASSUME NEW k \in DOMAIN p
      PROVE  Memory(writer, net[k], W * Layout[type][k])
               = BigEndian(p[k], W * Layout[type][k])
  <2>1. CASE k \in shorts
    <3>1. Layout[type][k] = 1 /\ p[k] \in uint32_t
      BY <1>3, <2>1 DEF Fits
    <3>2. net[k] = htonl(writer, p[k])
      BY <1>2, <2>1 DEF Fields
    <3> QED BY <1>1, <3>1, <3>2, HtonlBytes
  <2>2. CASE k \notin shorts
    <3>1. Layout[type][k] = 2 /\ p[k] \in uint64_t
      BY <1>3, <2>2 DEF Fits
    <3>2. net[k] = htonll_u64(writer, p[k])
      BY <1>2, <2>2 DEF Fields
    <3> QED BY <1>1, <3>1, <3>2, HtonllBytes
  <2> QED BY <2>1, <2>2
<1> QED BY <1>4, <1>5

(* A field is loaded from the bytes between its offset and the next.       *)
LEMMA LoadedField ==
    ASSUME NEW host, NEW type \in DOMAIN Layout, NEW bytes,
           NEW k \in DOMAIN Layout[type]
    PROVE  LET layout == Layout[type] IN
           /\ k \in 1..Len(layout) /\ W * layout[k] \in Nat
           /\ Offset(layout, k - 1) \in Nat
           /\ Offset(layout, k) \in 0..Sizeof[type]
           /\ Offset(layout, k) = Offset(layout, k - 1) + W * layout[k]
           /\ Loaded(host, layout, bytes)[k]
                = Value(host, SubSeq(bytes, Offset(layout, k - 1) + 1,
                                     Offset(layout, k)),
                        W * layout[k])
<1>1. PICK layout : layout = Layout[type]
  OBVIOUS
<1>2. layout \in Seq({1, 2}) /\ Len(layout) \in Nat
  BY <1>1, LayoutType
<1>3. k \in 1..Len(layout)
  BY <1>1, <1>2, LenProperties
<1>4. layout[k] \in {1, 2}
  BY <1>2, <1>3, ElementOfSeq
<1>5. W * layout[k] \in Nat
  <2>1. W * 1 \in Nat /\ W * 2 \in Nat
    BY WireAssumption
  <2> QED BY <1>4, <2>1
<1>6. Rises(layout, Len(layout)) /\ Sizeof[type] = Offset(layout, Len(layout))
  BY <1>1, SizeofType
<1>7. PICK j : j = k - 1
  OBVIOUS
<1>8. j \in Nat /\ j + 1 = k /\ j \in 0..Len(layout) /\ k \in 0..Len(layout)
      /\ Len(layout) \in 0..Len(layout)
  BY <1>2, <1>3, <1>7
<1>9. /\ Offset(layout, j) \in Nat /\ Offset(layout, k) \in Nat
      /\ Offset(layout, k) <= Sizeof[type] /\ Sizeof[type] \in Nat
  BY <1>6, <1>8 DEF Rises
<1>10. Offset(layout, k) = Offset(layout, j) + W * layout[k]
  BY <1>8, OffsetNext
<1>11. Offset(layout, j) + 1 + W * layout[k] - 1 = Offset(layout, k)
  BY <1>5, <1>9, <1>10
<1>12. Loaded(host, layout, bytes)[k]
         = Value(host, SubSeq(bytes, Offset(layout, k - 1) + 1,
               Offset(layout, k - 1) + 1 + W * layout[k] - 1), W * layout[k])
  BY <1>1 DEF Loaded
<1> QED BY <1>1, <1>3, <1>5, <1>7, <1>9, <1>10, <1>11, <1>12

-----------------------------------------------------------------------------
(* A number loaded from bytes, and one converted, is a number.             *)
(* A number loaded from its bytes is a number.                             *)
LEMMA ValueType ==
    ASSUME NEW host, NEW n \in Nat, NEW bytes \in Seq(Byte), Len(bytes) = n
    PROVE  Value(host, bytes, n) \in number(n)
<1>1. ASSUME NEW d \in 0..(n - 1)
      PROVE  bytes[d + 1] \in Byte /\ bytes[n - d] \in Byte
  <2>1. d + 1 \in 1..n /\ n - d \in 1..n
    OBVIOUS
  <2> QED BY <2>1, ElementOfSeq
<1> QED BY <1>1 DEF Value, number

(* ntohl makes a 32-bit number of one.                                     *)
LEMMA NtohlType ==
    ASSUME NEW host, NEW v \in uint32_t
    PROVE  ntohl(host, v) \in uint32_t
<1>1. ASSUME NEW d \in 0..(W - 1) PROVE v[W - 1 - d] \in Byte
  <2>1. W - 1 - d \in 0..(W - 1)
    BY WireAssumption
  <2> QED BY <2>1 DEF uint32_t, number
<1> QED BY <1>1 DEF ntohl, htonl, uint32_t, number

(* ntohll_u64 makes a 64-bit number of one.                                *)
LEMMA NtohllType ==
    ASSUME NEW host, NEW v \in uint64_t
    PROVE  ntohll_u64(host, v) \in uint64_t
<1>1. W \in Nat \ {0}
  BY WireAssumption
<1>2. High(v) \in uint32_t /\ Low(v) \in uint32_t
  <2>1. ASSUME NEW d \in 0..(W - 1) PROVE v[W + d] \in Byte /\ v[d] \in Byte
    <3>1. W + d \in 0..(2 * W - 1) /\ d \in 0..(2 * W - 1)
      BY <1>1
    <3> QED BY <3>1 DEF uint64_t, number
  <2> QED BY <2>1 DEF High, Low, uint32_t, number
<1>3. ASSUME NEW low \in uint32_t, NEW high \in uint32_t
      PROVE  Join(low, high) \in uint64_t
  <2>1. ASSUME NEW d \in 0..(2 * W - 1)
        PROVE  (IF d < W THEN low[d] ELSE high[d - W]) \in Byte
    <3>1. d < W => d \in 0..(W - 1)
      BY <1>1
    <3>2. ~(d < W) => d - W \in 0..(W - 1)
      BY <1>1
    <3> QED BY <3>1, <3>2 DEF uint32_t, number
  <2> QED BY <2>1 DEF Join, uint64_t, number
<1>4. ntohl(host, High(v)) \in uint32_t /\ ntohl(host, Low(v)) \in uint32_t
  BY <1>2, NtohlType
<1> QED BY <1>3, <1>4 DEF ntohll_u64

(* Whatever bytes recv_all was given, as many as the struct has, what it   *)
(* delivers of them after net_to_host_* is a packet of that struct         *)
(* (common.c:197-217, 270-376).                                            *)
THEOREM LoadedIsPacket ==
    ASSUME NEW host, NEW type \in DOMAIN Layout,
           NEW bytes \in Seq(Byte), Len(bytes) = Sizeof[type],
           NEW p,
           p = net_to_host(type, host, Loaded(host, Layout[type], bytes))
    PROVE  p \in AnyPacket /\ IsPacket(Layout[type], p)
<1>1. PICK layout : layout = Layout[type]
  OBVIOUS
<1>2. PICK got : got = Loaded(host, layout, bytes)
  OBVIOUS
<1>3. layout \in Seq({1, 2}) /\ Len(layout) \in Nat
      /\ DOMAIN layout = 1..Len(layout)
  BY <1>1, LayoutType, LenProperties
<1>4. DOMAIN got = 1..Len(layout)
      /\ got = [k \in 1..Len(layout) |-> got[k]]
  BY <1>2, <1>3 DEF Loaded
<1>5. ASSUME NEW k \in 1..Len(layout)
      PROVE  got[k] \in number(W * layout[k])
  <2>1. PICK a \in Nat : a = Offset(layout, k - 1)
    BY <1>1, <1>3, LoadedField
  <2>2. PICK b \in 0..Sizeof[type] : b = Offset(layout, k)
    BY <1>1, <1>3, LoadedField
  <2>3. PICK n \in Nat : n = W * layout[k]
    BY <1>1, <1>3, LoadedField
  <2>4. b = a + n /\ got[k] = Value(host, SubSeq(bytes, a + 1, b), n)
    <3>0. k \in DOMAIN Layout[type]
      BY <1>1, <1>3
    <3>1. /\ Offset(layout, k) = Offset(layout, k - 1) + W * layout[k]
          /\ Loaded(host, layout, bytes)[k]
               = Value(host, SubSeq(bytes, Offset(layout, k - 1) + 1,
                                    Offset(layout, k)), W * layout[k])
      BY <1>1, <3>0, LoadedField
    <3> QED BY <1>2, <2>1, <2>2, <2>3, <3>1
  <2>5. PICK part : part = SubSeq(bytes, a + 1, b)
    OBVIOUS
  <2>6. \A i \in (a + 1)..b : bytes[i] \in Byte
    <3>1. ASSUME NEW i \in (a + 1)..b PROVE i \in 1..Len(bytes)
      BY <2>2
    <3> QED BY <3>1, ElementOfSeq
  <2>7. part \in Seq(Byte) /\ Len(part) = n
    <3>1. a + 1 \in Int /\ b \in Int
      BY <2>2
    <3>2. /\ part \in Seq(Byte)
          /\ Len(part) = IF a + 1 <= b THEN b - (a + 1) + 1 ELSE 0
      BY <2>5, <2>6, <3>1, SubSeqProperties
    <3> QED BY <2>4, <3>1, <3>2
  <2> QED BY <2>3, <2>4, <2>5, <2>7, ValueType
<1>6. PICK shorts : shorts = Shorts(type, got)
  OBVIOUS
<1>7. p = Fields(ntohl, ntohll_u64, host, got, shorts)
  BY <1>1, <1>2, <1>6, ConversionsAreFields
<1>8. got \in AnyPacket /\ IsPacket(layout, got)
  <2>1. ASSUME NEW k \in 1..Len(layout)
        PROVE  got[k] \in uint32_t \cup uint64_t
    <3>1. layout[k] \in {1, 2}
      BY <1>3, ElementOfSeq
    <3>2. W * 1 = W /\ W * 2 = 2 * W
      BY WireAssumption
    <3> QED BY <1>5, <3>1, <3>2 DEF uint32_t, uint64_t
  <2>2. got \in Seq(uint32_t \cup uint64_t)
    BY <1>3, <1>4, <2>1
  <2>3. Len(got) = Len(layout)
    BY <1>3, <1>4, <2>2, LenProperties
  <2> QED BY <1>3, <1>5, <2>2, <2>3 DEF AnyPacket, IsPacket
<1>9. Fits(layout, shorts, got)
  BY <1>1, <1>6, <1>8, ConversionsFitLayout
<1>10. W * 1 = W /\ W * 2 = 2 * W
  BY WireAssumption
<1>11. ASSUME NEW k \in 1..Len(layout)
       PROVE  /\ p[k] \in number(W * layout[k])
              /\ p[k] \in uint32_t \cup uint64_t
  <2>1. CASE k \in shorts
    <3>1. layout[k] = 1 /\ got[k] \in uint32_t
      BY <1>4, <1>9, <2>1 DEF Fits
    <3>2. p[k] = ntohl(host, got[k])
      BY <1>4, <1>7, <2>1 DEF Fields
    <3>3. p[k] \in uint32_t
      BY <3>1, <3>2, NtohlType
    <3> QED BY <1>10, <3>1, <3>3 DEF uint32_t
  <2>2. CASE k \notin shorts
    <3>1. layout[k] = 2 /\ got[k] \in uint64_t
      BY <1>4, <1>9, <2>2 DEF Fits
    <3>2. p[k] = ntohll_u64(host, got[k])
      BY <1>4, <1>7, <2>2 DEF Fields
    <3>3. p[k] \in uint64_t
      BY <3>1, <3>2, NtohllType
    <3> QED BY <1>10, <3>1, <3>3 DEF uint64_t
  <2> QED BY <2>1, <2>2
<1>12. DOMAIN p = 1..Len(layout) /\ p = [k \in 1..Len(layout) |-> p[k]]
  BY <1>4, <1>7 DEF Fields
<1>13. p \in Seq(uint32_t \cup uint64_t)
  BY <1>3, <1>11, <1>12
<1>14. Len(p) = Len(layout)
  BY <1>3, <1>12, <1>13, LenProperties
<1> QED BY <1>1, <1>3, <1>11, <1>13, <1>14 DEF AnyPacket, IsPacket
=============================================================================
