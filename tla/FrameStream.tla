---------------------------- MODULE FrameStream -----------------------------
(***************************************************************************)
(* What the payload-copy flow promises: the frames that come out are the   *)
(* frames that were captured, whole, each once, in capture order and with  *)
(* none left out, until the stream stops.                                  *)
(***************************************************************************)
EXTENDS Integers, Sequences

VARIABLES
    captured,       \* frames captured so far
    delivered       \* the frames that came out, oldest first

streamVars == <<captured, delivered>>

Init == captured = 0 /\ delivered = <<>>

Capture == captured' = captured + 1 /\ UNCHANGED delivered

Deliver ==
    /\ Len(delivered) < captured
    /\ delivered' = Append(delivered, Len(delivered))
    /\ UNCHANGED captured

Next == Capture \/ Deliver

Spec == Init /\ [][Next]_streamVars
=============================================================================
