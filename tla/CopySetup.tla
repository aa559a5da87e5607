----------------------------- MODULE CopySetup ------------------------------
(***************************************************************************)
(* sender and a payload-copy receiver from start to exit around the frame  *)
(* loop: which buffers stream, whether the two pools fit, what is left     *)
(* behind when either program stops anywhere.                              *)
(***************************************************************************)
EXTENDS SenderPipeline, ReceiverPool

copySetupVars == <<pipelineVars, poolReceiverVars, helloLinkVars>>

Init == HelloLinkInit /\ PipelineInit /\ PoolReceiverInit

Next ==
    \/ PipelineNext /\ UNCHANGED poolReceiverVars
    \/ PoolReceiverNext /\ UNCHANGED pipelineVars

Spec == Init /\ [][Next]_copySetupVars

(* A program that can go on does; nothing makes a stream end or a signal   *)
(* arrive.  Calls of the sender may fail every time they are made.         *)
Fairness ==
    /\ WF_copySetupVars(PipelineStep /\ UNCHANGED poolReceiverVars)
    /\ WF_copySetupVars(PoolReceiverStep /\ UNCHANGED pipelineVars)

FairSpec == Spec /\ Fairness

-----------------------------------------------------------------------------
TypeOK == HelloLinkTypeOK /\ PipelineTypeOK /\ PoolReceiverTypeOK

(* At every moment the sender's array accounts for exactly what it has     *)
(* open and mapped, through failures in the middle of a pool, two pools in *)
(* a row and the exit: nothing leaks and nothing is closed twice.          *)
SenderAccounts == ~skilled => Accounts(bufs, open, maps)

(* A receiver that copies frames has a descriptor and a mapping of its own *)
(* for every buffer, the connection and no listening socket, and, with a   *)
(* window, all of the window.  One that ended by itself has nothing left,  *)
(* but for what display_init made before it failed (receiver.c:114-143,    *)
(* receiver_sdl.c:171-214, common.c:98-140).                               *)
ReceiverAccounts ==
    /\ rpc \in {"display", "output", "loop"} =>
          /\ Accounts(rbufs, ropen, rmaps)
          /\ \A k \in DOMAIN rbufs : rbufs[k].fd # -1 /\ rbufs[k].mapped
          /\ socks = {"conn_fd"}
    /\ rpc = "loop" /\ program = "receiver_sdl" => objects = AllObjects
    /\ rpc = "done" /\ ~rkilled =>
          /\ ropen \subseteq {Stdin} /\ rmaps = 0 /\ socks = {}
          /\ objects = {} \/ ~display_ok

(* Whatever way the pool came about (sender.c:456-500), the stream runs on *)
(* all of the driver's buffers, each mapped, in the memory type that DQBUF *)
(* will name: nothing of a pool that was given up is still queued.  The    *)
(* modes "dmabuf" and "mmap" stream on no other type (README.md:76-79).    *)
(* That includes a stream that STREAMOFF failed to end (sender.c:612), up  *)
(* to the cleanup and the close of the device, which are one step.         *)
StreamingBacked ==
    streaming =>
        /\ mem = drv
        /\ mem_mode = "dmabuf" => drv = "DMABUF"
        /\ mem_mode = "mmap" => drv = "MMAP"
        /\ DOMAIN bufs = 0..(buffers - 1)
        /\ spc \in {"connect", "hello", "loop"} => queued = DOMAIN bufs
        /\ \A k \in DOMAIN bufs :
              bufs[k].mapped /\ (mem = "DMABUF" => bufs[k].fd # -1)

(* With both programs in their loops the pools have the same size, so that *)
(* index % buffer_count (receiver.c:235) keeps the buffers apart, and each *)
(* of the receiver's buffers has room for the driver's picture: a picture  *)
(* of no size, with which only MMAP buffers stream, gets no receiver       *)
(* (receiver.c:181).                                                       *)
PoolsFit ==
    spc = "loop" /\ rpc = "loop" =>
        /\ DOMAIN rbufs = DOMAIN bufs
        /\ params.sizeimage = sizeimage /\ sizeimage > 0

(* The fallback is tried once (sender.c:481-483): the sender gets to its   *)
(* frame loop or ends, and a receiver it connected to does so too.         *)
SetupEnds ==
    /\ <>(spc \in {"loop", "done"})
    /\ conn = "established" ~> rpc \in {"loop", "done"}

(* "Receiver keeps its own DMABUF pool" (receiver.c:95): what it frees is  *)
(* its own, and standard input stays open until the program ends.          *)
OwnPoolOnly == ~rkilled => Stdin \in ropen
=============================================================================
