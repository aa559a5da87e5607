-------------------------------- MODULE Wire --------------------------------
(***************************************************************************)
(* Numbers, their bytes in the memory of a host, and the conversions       *)
(* between host and network order.  A number of n bytes is the function of *)
(* its digits in base 256, digit 0 the least significant, so that a shift  *)
(* or a cast chooses digits and "|" of two halves joins them.              *)
(***************************************************************************)
EXTENDS Integers

CONSTANTS
    Byte,       \* the values of a byte
    W           \* bytes of a uint32_t (4)

ASSUME WireAssumption == W \in Nat \ {0}

(* __BYTE_ORDER__ of the machine a program runs on.                        *)
Hosts == {"little", "big"}

number(n) == [0..(n - 1) -> Byte]
uint32_t == number(W)
uint64_t == number(2 * W)

(* The bytes of v by rising address, and the number that bytes stand for.  *)
Memory(host, v, n) ==
    [k \in 1..n |-> IF host = "little" THEN v[k - 1] ELSE v[n - k]]

Value(host, bytes, n) ==
    [d \in 0..(n - 1) |->
        IF host = "little" THEN bytes[d + 1] ELSE bytes[n - d]]

(* Network order: the most significant byte first.                         *)
BigEndian(v, n) == [k \in 1..n |-> v[n - k]]

-----------------------------------------------------------------------------
htonl(host, v) ==
    IF host = "little" THEN [d \in 0..(W - 1) |-> v[W - 1 - d]] ELSE v

ntohl(host, v) == htonl(host, v)

(* (uint32_t)(value >> 32), (uint32_t)value, and low | (uint64_t)high << 32 *)
High(v) == [d \in 0..(W - 1) |-> v[W + d]]
Low(v) == [d \in 0..(W - 1) |-> v[d]]
Join(low, high) ==
    [d \in 0..(2 * W - 1) |-> IF d < W THEN low[d] ELSE high[d - W]]

(* Mutated form: each half is converted where it stands.                   *)
HalvesInPlace(host, value) ==
    IF host = "little"
    THEN Join(htonl(host, Low(value)), htonl(host, High(value)))
    ELSE value

htonll_u64(host, value) ==
    IF host = "little"
    THEN Join(htonl(host, High(value)), htonl(host, Low(value)))
    ELSE value

ntohll_u64(host, value) ==
    IF host = "little"
    THEN Join(ntohl(host, High(value)), ntohl(host, Low(value)))
    ELSE value
=============================================================================
