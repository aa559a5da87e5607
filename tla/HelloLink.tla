----------------------------- MODULE HelloLink ------------------------------
(***************************************************************************)
(* What sender tells a receiver before the first frame: one stream_hello.  *)
(* Of its fields the buffer count and the picture size are kept, which the *)
(* receivers size their pool with.                                         *)
(***************************************************************************)
EXTENDS Connection, Integers, Sequences

VARIABLES
    hello           \* the hello packets on the way

helloLinkVars == <<connVars, hello>>

stream_hello == [buffer_count : Nat, sizeimage : Nat]

HelloLinkTypeOK == ConnTypeOK /\ hello \in Seq(stream_hello)

HelloLinkInit == ConnInit /\ hello = <<>>
=============================================================================
