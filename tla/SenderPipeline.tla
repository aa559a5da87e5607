--------------------------- MODULE SenderPipeline ---------------------------
(***************************************************************************)
(* sender before and after its frame loop: the picture size the driver     *)
(* chooses, capture buffers that are either dmabufs of a heap or MMAP      *)
(* buffers of the driver, the fallback from the first to the second in     *)
(* mode "auto", STREAMON, connect, hello packet, and the exit path.  Every *)
(* call may fail.                                                          *)
(***************************************************************************)
EXTENDS HelloLink, DmabufPool

CONSTANTS
    Requested,      \* -b: the buffers asked for
    Grants,         \* the numbers of buffers REQBUFS may grant
    Modes,          \* -m: a subset of {"auto", "dmabuf", "mmap"}
    SizeImages      \* the sizes the driver may report for a picture

ASSUME PipelineAssumption ==
    /\ Requested \in Nat \ {0}
    /\ Grants \subseteq Nat \ {0}
    /\ Modes \subseteq {"auto", "dmabuf", "mmap"}
    /\ SizeImages \subseteq Nat

VARIABLES
    mem_mode,       \* cfg.mem_mode
    spc,            \* where main() is
    sizeimage,      \* fmt.fmt.pix.sizeimage
    i,              \* the loop index
    buffers,        \* cfg.buffers
    bufs,           \* the pool, NoPool while NULL
    mem,            \* the memory type passed to QBUF and DQBUF
    fallback_from_dmabuf,
    open,           \* the descriptors the process has open
    maps,           \* how many buffers it has mapped
    drv,            \* the memory type of the driver's queue, or "none"
    queued,         \* the buffers queued there
    streaming,      \* between STREAMON and STREAMOFF
    skilled         \* a signal ended the program

cfgVars == <<mem_mode, sizeimage>>
driverVars == <<drv, queued, streaming>>
poolVars == <<bufs, open, maps>>
pipelineVars == <<cfgVars, spc, i, buffers, mem, fallback_from_dmabuf,
                  poolVars, driverVars, skilled>>

PipelineTypeOK ==
    /\ mem_mode \in Modes
    /\ sizeimage \in Nat
    /\ spc \in {"open", "format", "request_dma", "dma_alloc",
                "dma_map", "request_mmap", "mmap_map", "mmap_export",
                "prime", "streamon", "connect", "hello", "loop",
                "streamoff", "close", "cleanup", "done"}
    /\ buffers \in Nat
    /\ i \in 0..buffers
    /\ \E n \in 0..buffers : bufs \in [0..(n - 1) -> buffer_ctx]
    /\ mem \in {"DMABUF", "MMAP"}
    /\ fallback_from_dmabuf \in BOOLEAN
    /\ open \subseteq Nat
    /\ maps \in Nat
    /\ drv \in {"none", "DMABUF", "MMAP"}
    /\ queued \subseteq 0..(buffers - 1)
    /\ streaming \in BOOLEAN
    /\ skilled \in BOOLEAN

PipelineInit ==
    /\ mem_mode \in Modes
    /\ sizeimage = 0
    /\ spc = "open"
    /\ i = 0
    /\ buffers = Requested
    /\ bufs = NoPool
    /\ mem = "DMABUF"
    /\ fallback_from_dmabuf = FALSE
    /\ open = {Stdin}
    /\ maps = 0
    /\ drv = "none" /\ queued = {} /\ streaming = FALSE
    /\ skilled = FALSE

-----------------------------------------------------------------------------
(* One more buffer is through this stage; after the last one comes next.   *)
Advance(stage, next) ==
    IF i + 1 < buffers
    THEN i' = i + 1 /\ spc' = stage
    ELSE i' = 0 /\ spc' = next

OpenCapture ==
    /\ spc = "open"
    /\ spc' = "format"
    /\ UNCHANGED <<cfgVars, i, buffers, mem, fallback_from_dmabuf, skilled,
                   driverVars, poolVars, helloLinkVars>>

(* setup_capture_format: the driver answers with a format of its own.      *)
SetupFormat ==
    /\ spc = "format"
    /\ sizeimage' \in SizeImages
    /\ spc' = IF mem_mode = "mmap" THEN "request_mmap" ELSE "request_dma"
    /\ UNCHANGED <<mem_mode, i, buffers, mem, fallback_from_dmabuf, skilled,
                   driverVars, poolVars, helloLinkVars>>

(* request_capture_buffers and alloc_buffer_array                          *)
Request(memory, from, to) ==
    /\ spc = from
    /\ \E n \in Grants : buffers' = n /\ bufs' = NewPool(n, -1)
    /\ drv' = memory
    /\ queued' = {}
    /\ i' = 0
    /\ spc' = to
    /\ UNCHANGED <<cfgVars, mem, fallback_from_dmabuf, open, maps, streaming,
                   skilled, helloLinkVars>>

RequestDmabuf == Request("DMABUF", "request_dma", "dma_alloc")
RequestMmap == Request("MMAP", "request_mmap", "mmap_map")

OpenInto(fd) ==
    /\ bufs' = [bufs EXCEPT ![i].fd = fd]
    /\ open' = open \cup {fd}

MapInto ==
    /\ bufs' = [bufs EXCEPT ![i].mapped = TRUE]
    /\ maps' = maps + 1

(* setup_dmabufs: a dmabuf of the heap, which makes none of no size, and   *)
(* its mapping                                                             *)
AllocDmabuf ==
    /\ spc = "dma_alloc"
    /\ sizeimage > 0
    /\ OpenInto(alloc_dmabuf_from_heap(open))
    /\ spc' = "dma_map"
    /\ UNCHANGED <<cfgVars, i, buffers, mem, fallback_from_dmabuf, maps,
                   skilled, driverVars, helloLinkVars>>

MapDmabuf ==
    /\ spc = "dma_map"
    /\ MapInto
    /\ Advance("dma_alloc", "prime")
    /\ UNCHANGED <<cfgVars, buffers, mem, fallback_from_dmabuf, open, skilled,
                   driverVars, helloLinkVars>>

(* setup_mmap_buffers: the driver's buffer is mapped ...                   *)
MapMmap ==
    /\ spc = "mmap_map"
    /\ MapInto
    /\ spc' = "mmap_export"
    /\ UNCHANGED <<cfgVars, i, buffers, mem, fallback_from_dmabuf, open,
                   skilled, driverVars, helloLinkVars>>

(* Mutated form: QBUF goes on in the old memory type.                      *)
MemUnchanged(last) == mem

(* main() changes mem once the whole MMAP pool is there.                   *)
MemAfterExport(last) == IF last THEN "MMAP" ELSE mem

(* ... and a descriptor is exported if the driver can do it.               *)
ExportMmap ==
    /\ spc = "mmap_export"
    /\ OpenInto(LowestFree(open)) \/ UNCHANGED <<bufs, open>>
    /\ Advance("mmap_map", "prime")
    /\ mem' = MemAfterExport(i + 1 = buffers)
    /\ UNCHANGED <<cfgVars, buffers, fallback_from_dmabuf, maps, skilled,
                   driverVars, helloLinkVars>>

(* queue_buffer for every buffer                                           *)
Prime ==
    /\ spc = "prime"
    /\ mem = "DMABUF" => bufs[i].fd # -1
    /\ queued' = queued \cup {i}
    /\ Advance("prime", "streamon")
    /\ UNCHANGED <<cfgVars, buffers, mem, fallback_from_dmabuf, skilled, drv,
                   streaming, poolVars, helloLinkVars>>

StreamOn ==
    /\ spc = "streamon"
    /\ streaming' = TRUE
    /\ spc' = "connect"
    /\ UNCHANGED <<cfgVars, i, buffers, mem, fallback_from_dmabuf, skilled,
                   drv, queued, poolVars, helloLinkVars>>

(* tcp_connect succeeds when a receiver listens.                           *)
Connect ==
    /\ spc = "connect"
    /\ conn = "listening"
    /\ conn' = "established"
    /\ spc' = "hello"
    /\ UNCHANGED <<cfgVars, i, buffers, mem, fallback_from_dmabuf, skilled,
                   driverVars, poolVars, hello, closed>>

(* Mutated form: the count asked for, not the count granted.               *)
HelloCountRequested == Requested

HelloCount == buffers

SendHello ==
    /\ spc = "hello"
    /\ hello' = Append(hello, [buffer_count |-> HelloCount,
                                sizeimage |-> sizeimage])
    /\ spc' = "loop"
    /\ UNCHANGED <<cfgVars, i, buffers, mem, fallback_from_dmabuf, skilled,
                   driverVars, poolVars, conn, closed>>

-----------------------------------------------------------------------------
(* Mutated form: the pool is freed, what it holds is not.                  *)
DropPoolLeaky ==
    /\ bufs' = NoPool
    /\ drv' = "none"
    /\ queued' = {}
    /\ i' = 0
    /\ UNCHANGED <<open, maps>>

(* cleanup_buffers, free, release_capture_buffers (REQBUFS with count 0)   *)
DropPool ==
    /\ open' = open \ PoolFds(bufs)
    /\ maps' = maps - Cardinality(PoolMaps(bufs))
    /\ bufs' = NoPool
    /\ drv' = "none"
    /\ queued' = {}
    /\ i' = 0

AfterDmabufFailure ==
    IF mem_mode = "dmabuf" THEN "streamoff" ELSE "request_mmap"

(* REQBUFS, calloc, the heap or mmap fails in prepare_dmabuf_pipeline; a   *)
(* calloc that fails leaves the number that REQBUFS granted.               *)
DmabufFails ==
    /\ spc \in {"request_dma", "dma_alloc", "dma_map"}
    /\ DropPool
    /\ \/ buffers' = buffers
       \/ spc = "request_dma" /\ buffers' \in Grants
    /\ spc' = AfterDmabufFailure
    /\ UNCHANGED <<cfgVars, mem, fallback_from_dmabuf, streaming,
                   skilled, helloLinkVars>>

(* REQBUFS, calloc, QUERYBUF or mmap fails in prepare_mmap_pipeline.       *)
MmapFails ==
    /\ spc \in {"request_mmap", "mmap_map"}
    /\ DropPool
    /\ \/ buffers' = buffers
       \/ spc = "request_mmap" /\ buffers' \in Grants
    /\ spc' = "streamoff"
    /\ UNCHANGED <<cfgVars, mem, fallback_from_dmabuf, streaming,
                   skilled, helloLinkVars>>

(* Mutated form: every failing QBUF starts the MMAP path once more.        *)
CanFallBackAgain == mem_mode = "auto"

CanFallBack ==
    mem_mode = "auto" /\ mem = "DMABUF" /\ ~fallback_from_dmabuf

(* QBUF fails, after some buffers may have been queued.                    *)
PrimeFallsBack ==
    /\ spc = "prime"
    /\ CanFallBack
    /\ DropPool
    /\ fallback_from_dmabuf' = TRUE
    /\ spc' = "request_mmap"
    /\ UNCHANGED <<cfgVars, buffers, mem, streaming, skilled, helloLinkVars>>

SetupGotoOut ==
    /\ spc' = "streamoff"
    /\ UNCHANGED <<cfgVars, i, buffers, mem, fallback_from_dmabuf, skilled,
                   driverVars, poolVars, helloLinkVars>>

(* open or S_FMT fails.                                                    *)
FormatFails == spc \in {"open", "format"} /\ SetupGotoOut

PrimeFails == spc = "prime" /\ ~CanFallBack /\ SetupGotoOut

StreamOnFails == spc = "streamon" /\ SetupGotoOut

(* Nobody listens, or the host does not answer.                            *)
ConnectFails == spc = "connect" /\ SetupGotoOut

HelloFails == spc = "hello" /\ "receiver" \in closed /\ SetupGotoOut

(* The frame loop ends: the frame limit, an ioctl that fails, or send when *)
(* the receiver is gone.                                                   *)
LoopEnds == spc = "loop" /\ SetupGotoOut

LoopSeesEnd == "receiver" \in closed /\ LoopEnds

(* The result of STREAMOFF is ignored: when it fails, what is queued and a *)
(* running stream stay until the close of the device.                      *)
OutStreamOff ==
    /\ spc = "streamoff"
    /\ \/ streaming' = FALSE /\ queued' = {}
       \/ UNCHANGED <<streaming, queued>>
    /\ spc' = "close"
    /\ UNCHANGED <<cfgVars, i, buffers, mem, fallback_from_dmabuf, skilled,
                   drv, poolVars, helloLinkVars>>

OutClose ==
    /\ spc = "close"
    /\ CloseEnd("sender")
    /\ spc' = "cleanup"
    /\ UNCHANGED <<cfgVars, i, buffers, mem, fallback_from_dmabuf, skilled,
                   driverVars, poolVars, conn, hello>>

(* cleanup_buffers and the close of the device, which drops the driver's   *)
(* queue and ends the stream.                                              *)
OutCleanup ==
    /\ spc = "cleanup"
    /\ DropPool
    /\ streaming' = FALSE
    /\ spc' = "done"
    /\ UNCHANGED <<cfgVars, buffers, mem, fallback_from_dmabuf, skilled,
                   helloLinkVars>>

SenderKilled ==
    /\ spc # "done"
    /\ CloseEnd("sender")
    /\ spc' = "done"
    /\ open' = {} /\ maps' = 0
    /\ drv' = "none" /\ queued' = {} /\ streaming' = FALSE
    /\ skilled' = TRUE
    /\ UNCHANGED <<cfgVars, i, buffers, bufs, mem, fallback_from_dmabuf, conn,
                   hello>>

(* What a sender that is not waiting for anybody does next.                *)
PipelineStep ==
    \/ OpenCapture \/ SetupFormat \/ FormatFails
    \/ RequestDmabuf \/ AllocDmabuf \/ MapDmabuf \/ DmabufFails
    \/ RequestMmap \/ MapMmap \/ ExportMmap \/ MmapFails
    \/ Prime \/ PrimeFallsBack \/ PrimeFails
    \/ StreamOn \/ StreamOnFails
    \/ Connect \/ ConnectFails \/ SendHello \/ HelloFails
    \/ LoopSeesEnd \/ OutStreamOff \/ OutClose \/ OutCleanup

PipelineNext == PipelineStep \/ LoopEnds \/ SenderKilled
=============================================================================
