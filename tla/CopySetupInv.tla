---------------------------- MODULE CopySetupInv -----------------------------
(***************************************************************************)
(* The inductive invariant behind the safety properties of CopySetup: how  *)
(* much of each pool exists at each stage, what of it is open, mapped and  *)
(* queued, and what the receiver knows of the sender's pool.               *)
(***************************************************************************)
EXTENDS CopySetup

(* The stages of the sender: no array, entry by entry, all queued.         *)
NoArray == {"open", "format", "request_dma", "request_mmap"}
Building == {"dma_alloc", "dma_map", "mmap_map", "mmap_export"}
Primed == {"streamon", "connect", "hello", "loop"}
WithArray == Building \cup {"prime"} \cup Primed
BeforeHello == NoArray \cup Building \cup {"prime", "streamon", "connect",
                                           "hello"}

(* An entry that nothing was done for, and one that QBUF accepts.          *)
Untouched(entry) == entry.fd = -1 /\ ~entry.mapped
Backed(entry) == entry.mapped /\ (drv = "DMABUF" => entry.fd # -1)

ArrayByStage ==
    /\ spc \in NoArray => bufs = NoPool
    /\ spc \in WithArray \/ streaming => DOMAIN bufs = 0..(buffers - 1)
    /\ spc \in Building \cup {"prime"} => i < buffers
    /\ spc \in NoArray \cup Primed => i = 0

(* The entries before the index are done, those after it untouched.        *)
EntriesByStage ==
    /\ spc \in Building => \A k \in DOMAIN bufs :
          /\ k < i => Backed(bufs[k])
          /\ k > i => Untouched(bufs[k])
    /\ spc \in {"dma_alloc", "mmap_map"} => Untouched(bufs[i])
    /\ spc = "dma_map" => bufs[i].fd # -1 /\ ~bufs[i].mapped
    /\ spc = "mmap_export" => bufs[i].fd = -1 /\ bufs[i].mapped
    /\ spc \in {"prime"} \cup Primed \/ streaming =>
          \A k \in DOMAIN bufs : Backed(bufs[k])

(* The memory type of the driver's queue, of QBUF and of the mode.         *)
MemoryByStage ==
    /\ spc \in {"open", "format", "request_dma", "dma_alloc", "dma_map"} =>
          mem = "DMABUF"
    /\ spc \in {"request_dma", "dma_alloc", "dma_map"} => mem_mode # "mmap"
    /\ spc \in {"request_mmap", "mmap_map", "mmap_export"} =>
          mem_mode # "dmabuf"
    /\ spc \in {"dma_alloc", "dma_map"} => drv = "DMABUF"
    /\ spc \in {"mmap_map", "mmap_export"} => drv = "MMAP"
    /\ spc \in {"prime"} \cup Primed \/ streaming =>
          /\ drv = mem
          /\ mem_mode = "dmabuf" => drv = "DMABUF"
          /\ mem_mode = "mmap" => drv = "MMAP"

QueuedByStage ==
    /\ spc \in Building => queued = {}
    /\ spc = "prime" => queued = 0..(i - 1)
    /\ spc \in Primed => queued = DOMAIN bufs
    /\ streaming => spc \in {"connect", "hello", "loop", "streamoff", "close",
                              "cleanup"}

SenderInv ==
    /\ PipelineTypeOK
    /\ skilled => spc = "done"
    /\ IsFiniteSet(open)
    /\ SenderAccounts
    /\ ArrayByStage
    /\ EntriesByStage
    /\ MemoryByStage
    /\ QueuedByStage

-----------------------------------------------------------------------------
(* The stages at which the receiver has an array.                          *)
WithPool == {"alloc", "map", "display", "output", "loop"}

(* The entries that have a dmabuf, those that are mapped.                  *)
Opened ==
    CASE rpc = "alloc" -> j
      [] rpc = "map" -> j + 1
      [] OTHER -> params.buffer_count
Mapped == IF rpc \in {"alloc", "map"} THEN j ELSE params.buffer_count

(* An entry not reached yet still names standard input, as calloc left it. *)
PoolByStage ==
    rpc \in WithPool =>
        /\ ParamsValid(params)
        /\ DOMAIN rbufs = 0..(params.buffer_count - 1)
        /\ rpc \in {"alloc", "map"} => j < params.buffer_count
        /\ \A k \in DOMAIN rbufs :
              /\ k < Opened => rbufs[k].fd # -1 /\ rbufs[k].fd # Stdin
              /\ k >= Opened => rbufs[k].fd = Stdin
              /\ rbufs[k].mapped <=> k < Mapped
        /\ \A k, l \in DOMAIN rbufs :
              k < Opened /\ l < Opened /\ rbufs[k].fd = rbufs[l].fd => k = l
        /\ ropen = {Stdin} \cup PoolFds(rbufs)

(* The process has nothing open or mapped that the array does not name.    *)
HoldsNoMore ==
    ~rkilled =>
        /\ ropen \subseteq {Stdin} \cup PoolFds(rbufs)
        /\ rmaps = Cardinality(PoolMaps(rbufs))

PoolGone ==
    /\ rpc \in {"accept", "hello"} => rbufs = NoPool /\ ropen = {Stdin}
    /\ rpc = "done" => rkilled \/ rbufs = NoPool
    /\ rkilled => rpc = "done"

SocketsByStage ==
    /\ rpc = "accept" =>
          /\ la = "cloexec" => "conn_fd" \in socks
          /\ la = "returned" => socks = {"conn_fd"}
          /\ la = "failed" => socks = {}
    /\ rpc \notin {"accept", "done"} => socks = {"conn_fd"}
    /\ rpc = "done" => socks = {}

WindowByStage ==
    /\ rpc \in {"accept", "hello", "alloc", "map", "output"} =>
          objects = {} /\ ~display_ok
    /\ rpc = "output" => program = "receiver"
    /\ rpc = "display" => ~display_ok
    /\ rpc = "loop" /\ program = "receiver_sdl" => objects = AllObjects
    /\ rpc = "done" => rkilled \/ objects = {} \/ ~display_ok

ReceiverInv ==
    /\ PoolReceiverTypeOK
    /\ IsFiniteSet(ropen)
    /\ PoolByStage
    /\ HoldsNoMore
    /\ PoolGone
    /\ SocketsByStage
    /\ WindowByStage

-----------------------------------------------------------------------------
(* What the sender says in its hello packet.                               *)
Announced == [buffer_count |-> buffers, sizeimage |-> sizeimage]

(* No receiver has a pool before the sender announced its own, and while   *)
(* the sender streams frames, what is on the way or was read is that.      *)
HelloInv ==
    /\ HelloLinkTypeOK
    /\ spc \in BeforeHello => hello = <<>> /\ rpc \notin WithPool
    /\ spc = "loop" =>
          /\ \A k \in DOMAIN hello : hello[k] = Announced
          /\ rpc \in WithPool => params = Announced

CopySetupInv == SenderInv /\ ReceiverInv /\ HelloInv
=============================================================================
