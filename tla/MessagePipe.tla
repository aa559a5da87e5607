---------------------------- MODULE MessagePipe -----------------------------
(***************************************************************************)
(* What one direction of the connection is to the programs: the messages   *)
(* that one of them sends come out of the other whole, unchanged and in    *)
(* order, until something makes the reader lose its place.                 *)
(***************************************************************************)
EXTENDS Naturals, Sequences

VARIABLES
    script,         \* the messages of this run
    offered,        \* how many of them the writer has begun to send
    delivered,      \* what the reader got
    over            \* the reader lost its place: nothing is promised

pipeVars == <<script, offered, delivered, over>>

Init ==
    /\ offered = 0
    /\ delivered = <<>>
    /\ over = FALSE

Offer ==
    /\ offered < Len(script)
    /\ offered' = offered + 1
    /\ UNCHANGED <<script, delivered, over>>

(* A message may come out before the call that sends it has returned.      *)
Deliver ==
    /\ ~over
    /\ Len(delivered) < offered
    /\ delivered' = Append(delivered, script[Len(delivered) + 1])
    /\ UNCHANGED <<script, offered, over>>

LosePlace ==
    /\ over' = TRUE
    /\ UNCHANGED <<script, offered, delivered>>

Anything ==
    /\ over
    /\ over' = TRUE
    /\ UNCHANGED script

Next == Offer \/ Deliver \/ LosePlace \/ Anything

Spec == Init /\ [][Next]_pipeVars
=============================================================================
