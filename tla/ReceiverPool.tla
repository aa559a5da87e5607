---------------------------- MODULE ReceiverPool ----------------------------
(***************************************************************************)
(* receiver and receiver_sdl before and after their frame loop: accept a   *)
(* connection, read the hello packet, allocate a pool of as many dmabufs   *)
(* as the sender has buffers, open the output file or the window, and give *)
(* all of it back.                                                         *)
(***************************************************************************)
EXTENDS HelloLink, ListenAccept, SdlDisplay, DmabufPool

CONSTANTS Programs  \* a subset of {"receiver", "receiver_sdl"}

ASSUME PoolAssumption == Programs \subseteq {"receiver", "receiver_sdl"}

VARIABLES
    program,        \* which of the two runs
    rpc,            \* where main() is
    params,         \* the stream_hello it read
    j,              \* the loop index
    rbufs,          \* the pool, NoPool while NULL
    ropen,          \* the descriptors the process has open
    rmaps,          \* how many buffers it has mapped
    rkilled         \* a signal ended the program

rpoolVars == <<rbufs, ropen, rmaps>>
poolReceiverVars == <<program, rpc, params, j, rpoolVars, rkilled,
                      acceptVars, displayVars>>

PoolReceiverTypeOK ==
    /\ program \in Programs
    /\ rpc \in {"accept", "hello", "alloc", "map", "display", "output",
                "loop", "cleanup", "done"}
    /\ params \in stream_hello
    /\ j \in 0..params.buffer_count
    /\ \E n \in {0, params.buffer_count} :
          rbufs \in [0..(n - 1) -> buffer_ctx]
    /\ ropen \subseteq Nat
    /\ rmaps \in Nat
    /\ rkilled \in BOOLEAN
    /\ AcceptTypeOK /\ DisplayTypeOK

PoolReceiverInit ==
    /\ program \in Programs
    /\ rpc = "accept"
    /\ params = [buffer_count |-> 0, sizeimage |-> 0]
    /\ j = 0
    /\ rbufs = NoPool
    /\ ropen = {Stdin}
    /\ rmaps = 0
    /\ rkilled = FALSE
    /\ AcceptInit /\ DisplayInit

PoolGoto(pc) ==
    /\ rpc' = pc
    /\ UNCHANGED <<program, params, j, rpoolVars, rkilled, acceptVars,
                   displayVars, helloLinkVars>>

-----------------------------------------------------------------------------
(* main() is inside tcp_listen_and_accept, and returns when that fails.    *)
InAccept(step) ==
    /\ rpc = "accept"
    /\ step
    /\ UNCHANGED <<program, rpc, params, j, rpoolVars, rkilled, displayVars,
                   hello>>

Accepted == rpc = "accept" /\ la = "returned" /\ PoolGoto("hello")

NotAccepted == rpc = "accept" /\ la = "failed" /\ PoolGoto("done")

ParamsValid(h) == h.buffer_count > 0 /\ h.sizeimage > 0

(* setup_dmabufs starts with a zeroed array.                               *)
RecvHello ==
    /\ rpc = "hello"
    /\ hello # <<>>
    /\ params' = Head(hello)
    /\ hello' = Tail(hello)
    /\ \/ /\ ParamsValid(params')
          /\ rbufs' = NewPool(params'.buffer_count, 0)
          /\ rpc' = "alloc"
       \/ /\ ~ParamsValid(params')
          /\ rbufs' = rbufs
          /\ rpc' = "cleanup"
    /\ j' = 0
    /\ UNCHANGED <<program, ropen, rmaps, rkilled, acceptVars, displayVars,
                   connVars>>

(* calloc fails.                                                           *)
CallocFails ==
    /\ rpc = "hello"
    /\ hello # <<>> /\ ParamsValid(Head(hello))
    /\ params' = Head(hello)
    /\ hello' = Tail(hello)
    /\ j' = 0
    /\ rpc' = "cleanup"
    /\ UNCHANGED <<program, rpoolVars, rkilled, acceptVars, displayVars,
                   connVars>>

RecvHelloFails ==
    /\ rpc = "hello"
    /\ hello = <<>> /\ StreamEnded
    /\ PoolGoto("cleanup")

AllocInPool ==
    /\ rpc = "alloc"
    /\ rbufs' = [rbufs EXCEPT ![j].fd = alloc_dmabuf_from_heap(ropen)]
    /\ ropen' = ropen \cup {alloc_dmabuf_from_heap(ropen)}
    /\ rpc' = "map"
    /\ UNCHANGED <<program, params, j, rmaps, rkilled, acceptVars, displayVars,
                   helloLinkVars>>

MapInPool ==
    /\ rpc = "map"
    /\ rbufs' = [rbufs EXCEPT ![j].mapped = TRUE]
    /\ rmaps' = rmaps + 1
    /\ IF j + 1 < params.buffer_count
       THEN j' = j + 1 /\ rpc' = "alloc"
       ELSE j' = 0 /\ rpc' = IF program = "receiver" THEN "output"
                               ELSE "display"
    /\ UNCHANGED <<program, params, ropen, rkilled, acceptVars, displayVars,
                   helloLinkVars>>

(* Mutated form: main() still has the array after it was freed.            *)
FreePoolDangling(pool) ==
    /\ ropen' = ropen \ PoolFds(pool)
    /\ rmaps' = rmaps - Cardinality(PoolMaps(pool))
    /\ rbufs' = rbufs

(* Close and unmap all that the array names.                               *)
FreePool(pool) ==
    /\ ropen' = ropen \ PoolFds(pool)
    /\ rmaps' = rmaps - Cardinality(PoolMaps(pool))
    /\ rbufs' = NoPool

(* Mutated form: the entry that failed and those after it are skipped.     *)
FreePoolUpToFailed(pool) ==
    LET before == {k \in DOMAIN pool : k < j} IN
    /\ ropen' = ropen \ {pool[k].fd : k \in before}
    /\ rmaps' = rmaps - Cardinality(PoolMaps(pool) \cap before)
    /\ rbufs' = NoPool

(* The label "fail" of setup_dmabufs: entries the loop never reached still *)
(* hold the zero of calloc, and zero passes the test fd >= 0.              *)
FreeFailedPool(pool) == FreePool(pool)

AllocFails ==
    /\ rpc = "alloc"
    /\ FreeFailedPool([rbufs EXCEPT ![j].fd = -1])
    /\ rpc' = "cleanup"
    /\ UNCHANGED <<program, params, j, rkilled, acceptVars, displayVars,
                   helloLinkVars>>

MapFails ==
    /\ rpc = "map"
    /\ FreeFailedPool(rbufs)
    /\ rpc' = "cleanup"
    /\ UNCHANGED <<program, params, j, rkilled, acceptVars, displayVars,
                   helloLinkVars>>

(* receiver_sdl makes its window, one call of display_init after the other *)
OpenDisplay ==
    /\ rpc = "display"
    /\ CreateObject
    /\ rpc' = IF display_ok' THEN "loop" ELSE "display"
    /\ UNCHANGED <<program, params, j, rpoolVars, rkilled, acceptVars,
                   helloLinkVars>>

(* receiver opens its output file, if it was given one.                    *)
OpenOutput == rpc = "output" /\ PoolGoto("loop")

OutputFails == rpc \in {"display", "output"} /\ PoolGoto("cleanup")

RecvLoopEnds == rpc = "loop" /\ PoolGoto("cleanup")

RecvLoopSeesEnd == StreamEnded /\ RecvLoopEnds

(* display_destroy, cleanup_dmabufs, then the socket is closed             *)
RecvCleanup ==
    /\ rpc = "cleanup"
    /\ DisplayDestroy
    /\ FreePool(rbufs)
    /\ socks' = socks \ {"conn_fd"}
    /\ ReceiverGone
    /\ rpc' = "done"
    /\ UNCHANGED <<program, params, j, rkilled, la, hello>>

ReceiverKilled ==
    /\ rpc # "done"
    /\ ReceiverGone
    /\ rpc' = "done"
    /\ ropen' = {} /\ rmaps' = 0 /\ socks' = {} /\ objects' = {}
    /\ rkilled' = TRUE
    /\ UNCHANGED <<program, params, j, rbufs, la, display_ok, hello>>

PoolReceiverStep ==
    \/ InAccept(AcceptStep) \/ Accepted \/ NotAccepted
    \/ RecvHello \/ RecvHelloFails
    \/ AllocInPool \/ MapInPool \/ OpenDisplay \/ OpenOutput
    \/ RecvLoopSeesEnd \/ RecvCleanup

PoolReceiverNext ==
    \/ PoolReceiverStep \/ InAccept(AcceptFails)
    \/ CallocFails \/ AllocFails \/ MapFails \/ OutputFails
    \/ RecvLoopEnds \/ ReceiverKilled
=============================================================================
