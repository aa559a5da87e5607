--------------------------- MODULE FrameHandover ----------------------------
(***************************************************************************)
(* What the zero-copy flow promises while both programs follow the         *)
(* protocol.  A capture buffer has one owner at a time; its ownership goes *)
(* round from the driver, through the sender, to the receiver and back;    *)
(* the receiver uses every frame that was handed to it exactly once, in    *)
(* capture order, and sees exactly the pixels that were captured.  When    *)
(* one side gives up ("over"), nothing is promised any more.               *)
(***************************************************************************)
EXTENDS Integers

CONSTANTS Buffers

VARIABLES
    owner,          \* who may touch each buffer
    content,        \* the frame each buffer holds
    captured,       \* frames captured so far
    used,           \* the frame the receiver used last
    over            \* one side has left the protocol

handoverVars == <<owner, content, captured, used, over>>

Init ==
    /\ owner = [b \in Buffers |-> "driver"]
    /\ content = [b \in Buffers |-> -1]
    /\ captured = 0
    /\ used = -1
    /\ over = FALSE

Moves(b, from, to) ==
    /\ owner[b] = from
    /\ owner' = [owner EXCEPT ![b] = to]

(* Only an empty buffer of the driver is ever written.                     *)
Capture(b) ==
    /\ Moves(b, "driver", "captured")
    /\ content' = [content EXCEPT ![b] = captured]
    /\ captured' = captured + 1
    /\ UNCHANGED <<used, over>>

(* One buffer at a time leaves the driver, the oldest frame first.         *)
Take(b) ==
    /\ \A c \in Buffers :
          /\ owner[c] \in {"driver", "captured"}
          /\ owner[c] = "captured" => content[b] <= content[c]
    /\ Moves(b, "captured", "sender")
    /\ UNCHANGED <<content, captured, used, over>>

Lend(b) ==
    /\ Moves(b, "sender", "receiver")
    /\ UNCHANGED <<content, captured, used, over>>

Use(b) ==
    /\ Moves(b, "receiver", "returned")
    /\ content[b] > used
    /\ used' = content[b]
    /\ UNCHANGED <<content, captured, over>>

GiveBack(b) ==
    /\ Moves(b, "returned", "driver")
    /\ UNCHANGED <<content, captured, used, over>>

(* The orderly end: the sender takes all buffers while none is in use.     *)
Stop ==
    /\ \A b \in Buffers : owner[b] \in {"driver", "captured"}
    /\ owner' = [b \in Buffers |-> "stopped"]
    /\ UNCHANGED <<content, captured, used, over>>

Next ==
    \/ ~over /\ \/ \E b \in Buffers :
                      \/ Capture(b) \/ Take(b) \/ Lend(b)
                      \/ Use(b) \/ GiveBack(b)
                \/ Stop
    \/ over'

Spec == Init /\ [][Next]_handoverVars
=============================================================================
