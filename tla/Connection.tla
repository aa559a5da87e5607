----------------------------- MODULE Connection -----------------------------
(***************************************************************************)
(* The one TCP connection between a receiver, which listens, and a sender, *)
(* which connects.  The kernel establishes it, before accept() returns and *)
(* perhaps after the sender stopped waiting for it.                        *)
(***************************************************************************)

VARIABLES
    conn,           \* "none", "listening", "established"
    closed          \* the programs that closed their end or are gone

connVars == <<conn, closed>>

ConnTypeOK ==
    /\ conn \in {"none", "listening", "established"}
    /\ closed \subseteq {"sender", "receiver"}

ConnInit == conn = "none" /\ closed = {}

(* Mutated form: the end of the stream is not told from an empty one.      *)
EndUnseen == FALSE

(* recv() fails when all was read, or earlier on a reset.                  *)
StreamEnded == "sender" \in closed

CloseEnd(peer) == closed' = closed \cup {peer}

(* Nobody can connect any more once the listening socket is gone.          *)
ReceiverGone ==
    /\ CloseEnd("receiver")
    /\ conn' = IF conn = "listening" THEN "none" ELSE conn
=============================================================================
