--------------------------- MODULE CopySetupProofs --------------------------
(***************************************************************************)
(* Theorems about CopySetup, for every number of buffers asked for or      *)
(* granted, every memory mode and every picture size.                      *)
(***************************************************************************)
EXTENDS CopySetupInv, FiniteSetTheorems, WellFoundedInduction,
        SequenceTheorems, TLAPS

-----------------------------------------------------------------------------
(* Descriptors and pools                                                   *)

LEMMA LeastNatural ==
    ASSUME NEW T, T \subseteq Nat, T # {}
    PROVE  \E x \in T : \A y \in T : x <= y
<1>1. IsWellFoundedOn(OpToRel(<, Nat), Nat)
    BY NatLessThanWellFounded
<1>2. \E x \in T : \A y \in T : ~ (<<y, x>> \in OpToRel(<, Nat))
    BY <1>1, WFMin
<1>3. PICK x \in T : \A y \in T : ~ (<<y, x>> \in OpToRel(<, Nat))
    BY <1>2
<1>4. ASSUME NEW y \in T PROVE x <= y
  <2>1. ~ (y < x)
      BY <1>3 DEF OpToRel
  <2> QED
      BY <2>1
<1> QED
    BY <1>4

(* There is a lowest free descriptor, and it is free.                      *)
LEMMA LowestIsFree ==
    ASSUME NEW S, IsFiniteSet(S)
    PROVE  LowestFree(S) \in Nat \ S
<1> DEFINE n == Cardinality(S)
           T == {fd \in 0..n : fd \notin S}
<1>1. n \in Nat
    BY FS_CardinalityType
<1>2. T # {}
  <2> SUFFICES ASSUME T = {} PROVE FALSE
      OBVIOUS
  <2>1. 0..n \subseteq S
      OBVIOUS
  <2>2. Cardinality(0..n) = n + 1
      BY <1>1, FS_Interval
  <2>3. Cardinality(0..n) <= n
      BY <2>1, FS_Subset
  <2> QED
      BY <1>1, <2>2, <2>3
<1>3. PICK fd \in T : \A e \in T : fd <= e
  <2>1. T \subseteq Nat
      BY <1>1
  <2> HIDE DEF T
  <2> QED
      BY <1>2, <2>1, LeastNatural
<1>4. \A e \in 0..(fd - 1) : e \in S
    BY <1>1, <1>3
<1>5. \E x \in 0..n : x \notin S /\ \A e \in 0..(x - 1) : e \in S
    BY <1>3, <1>4
<1>6. LowestFree(S) \in 0..n /\ LowestFree(S) \notin S
    BY <1>5 DEF LowestFree
<1> QED
    BY <1>1, <1>6

LEMMA HeapGivesFresh ==
    ASSUME NEW S, IsFiniteSet(S)
    PROVE  alloc_dmabuf_from_heap(S) \in Nat \ S
<1>1. IsFiniteSet(S \cup {LowestFree(S)})
    BY FS_AddElement
<1> QED
    BY <1>1, LowestIsFree DEF alloc_dmabuf_from_heap

(* An array of n entries.                                                  *)
Pool(n) == [0..(n - 1) -> buffer_ctx]

LEMMA MapsFinite ==
    ASSUME NEW n \in Nat, NEW pool \in Pool(n)
    PROVE  IsFiniteSet(PoolMaps(pool)) /\ Cardinality(PoolMaps(pool)) \in Nat
<1>1. IsFiniteSet(0..(n - 1))
    BY FS_Interval
<1>2. PoolMaps(pool) \subseteq 0..(n - 1)
    BY DEF PoolMaps, Pool
<1> QED
    BY <1>1, <1>2, FS_Subset, FS_CardinalityType

LEMMA NewPoolOf ==
    ASSUME NEW n \in Nat, NEW value \in Nat \cup {-1}
    PROVE  /\ NewPool(n, value) \in Pool(n)
           /\ PoolMaps(NewPool(n, value)) = {}
           /\ PoolFds(NewPool(n, value)) \subseteq {value} \ {-1}
           /\ \A k \in 0..(n - 1) :
                 /\ NewPool(n, value)[k].fd = value
                 /\ ~NewPool(n, value)[k].mapped
BY DEF NewPool, Pool, buffer_ctx, PoolMaps, PoolFds

LEMMA NoPoolIsEmpty ==
    /\ NoPool \in Pool(0) /\ DOMAIN NoPool = {}
    /\ PoolFds(NoPool) = {} /\ PoolMaps(NoPool) = {}
<1>1. 0..(0 - 1) = {}
    OBVIOUS
<1>2. NoPool = [k \in {} |-> [fd |-> 0, mapped |-> FALSE]]
    BY <1>1 DEF NoPool, NewPool
<1> QED
    BY <1>1, <1>2 DEF Pool, PoolFds, PoolMaps

(* An array of untouched entries and no array account for standard input   *)
(* alone.                                                                  *)
LEMMA FreshAccounts ==
    /\ Accounts(NoPool, {Stdin}, 0)
    /\ \A n \in Nat : Accounts(NewPool(n, -1), {Stdin}, 0)
<1>1. Accounts(NoPool, {Stdin}, 0)
    BY NoPoolIsEmpty, FS_EmptySet DEF Accounts
<1>2. ASSUME NEW n \in Nat PROVE Accounts(NewPool(n, -1), {Stdin}, 0)
  <2>1. /\ NewPool(n, -1) \in Pool(n) /\ PoolMaps(NewPool(n, -1)) = {}
        /\ PoolFds(NewPool(n, -1)) = {}
        /\ \A k \in 0..(n - 1) : NewPool(n, -1)[k].fd = -1
      BY NewPoolOf
  <2>2. DOMAIN NewPool(n, -1) = 0..(n - 1)
      BY DEF NewPool
  <2> QED
      BY <2>1, <2>2, FS_EmptySet DEF Accounts
<1> QED
    BY <1>1, <1>2

(* A dmabuf opened into an entry is accounted for ...                      *)
LEMMA OpenAccounts ==
    ASSUME NEW n \in Nat, NEW pool \in Pool(n), NEW S, NEW m,
           Accounts(pool, S, m), NEW k \in 0..(n - 1), pool[k].fd = -1,
           NEW fd \in Nat \ S
    PROVE  /\ [pool EXCEPT ![k].fd = fd] \in Pool(n)
           /\ Accounts([pool EXCEPT ![k].fd = fd], S \cup {fd}, m)
<1> DEFINE new == [pool EXCEPT ![k].fd = fd]
<1>1. /\ DOMAIN pool = 0..(n - 1) /\ DOMAIN new = 0..(n - 1)
      /\ \A l \in 0..(n - 1) : pool[l] \in buffer_ctx
    BY DEF Pool
<1>2. /\ new[k].fd = fd
      /\ \A l \in 0..(n - 1) : l # k => new[l] = pool[l]
      /\ \A l \in 0..(n - 1) : new[l].mapped = pool[l].mapped
    BY <1>1 DEF buffer_ctx
<1>3. new \in Pool(n)
    BY <1>1 DEF Pool, buffer_ctx
<1> HIDE DEF new
<1>4. S = {Stdin} \cup PoolFds(pool) /\ Stdin \notin PoolFds(pool)
      /\ m = Cardinality(PoolMaps(pool))
      /\ \A a, b \in 0..(n - 1) :
            pool[a].fd = pool[b].fd /\ pool[a].fd # -1 => a = b
    BY <1>1 DEF Accounts
<1>5. PoolFds(new) = PoolFds(pool) \cup {fd}
  <2>1. \A x : x \in PoolFds(new) => x \in PoolFds(pool) \cup {fd}
      BY <1>1, <1>2 DEF PoolFds
  <2>2. \A x : x \in PoolFds(pool) => x \in PoolFds(new)
      BY <1>1, <1>2 DEF PoolFds
  <2>3. fd \in PoolFds(new)
      BY <1>1, <1>2 DEF PoolFds
  <2> QED
      BY <2>1, <2>2, <2>3
<1>6. PoolMaps(new) = PoolMaps(pool)
    BY <1>1, <1>2 DEF PoolMaps
<1>7. \A a \in 0..(n - 1) : pool[a].fd # -1 => pool[a].fd \in S
    BY <1>1, <1>4 DEF PoolFds
<1>8. \A a, b \in 0..(n - 1) :
          new[a].fd = new[b].fd /\ new[a].fd # -1 => a = b
    BY <1>2, <1>4, <1>7
<1>9. fd # Stdin
    BY <1>4
<1> QED
    BY <1>1, <1>3, <1>4, <1>5, <1>6, <1>8, <1>9 DEF Accounts, new

(* ... and so is a mapping.                                                *)
LEMMA MapAccounts ==
    ASSUME NEW n \in Nat, NEW pool \in Pool(n), NEW S, NEW m,
           Accounts(pool, S, m), NEW k \in 0..(n - 1), ~pool[k].mapped
    PROVE  /\ [pool EXCEPT ![k].mapped = TRUE] \in Pool(n)
           /\ Accounts([pool EXCEPT ![k].mapped = TRUE], S, m + 1)
<1> DEFINE new == [pool EXCEPT ![k].mapped = TRUE]
<1>1. /\ DOMAIN pool = 0..(n - 1) /\ DOMAIN new = 0..(n - 1)
      /\ \A l \in 0..(n - 1) : pool[l] \in buffer_ctx
    BY DEF Pool
<1>2. /\ new[k].mapped
      /\ \A l \in 0..(n - 1) : l # k => new[l] = pool[l]
      /\ \A l \in 0..(n - 1) : new[l].fd = pool[l].fd
    BY <1>1 DEF buffer_ctx
<1>3. new \in Pool(n)
    BY <1>1 DEF Pool, buffer_ctx
<1> HIDE DEF new
<1>4. PoolFds(new) = PoolFds(pool)
    BY <1>1, <1>2 DEF PoolFds
<1>5. PoolMaps(new) = PoolMaps(pool) \cup {k} /\ k \notin PoolMaps(pool)
    BY <1>1, <1>2 DEF PoolMaps
<1>6. Cardinality(PoolMaps(new)) = Cardinality(PoolMaps(pool)) + 1
    BY <1>5, MapsFinite, FS_AddElement
<1>7. Accounts(new, S, m + 1)
    BY <1>1, <1>2, <1>4, <1>6 DEF Accounts
<1> QED
    BY <1>3, <1>7 DEF new

(* Freeing what the array names frees all but standard input.              *)
LEMMA DropAccounts ==
    ASSUME NEW n \in Nat, NEW pool \in Pool(n), NEW S, NEW m,
           Accounts(pool, S, m)
    PROVE  /\ S \ PoolFds(pool) = {Stdin}
           /\ m - Cardinality(PoolMaps(pool)) = 0
<1>1. Cardinality(PoolMaps(pool)) \in Nat
    BY MapsFinite
<1> QED
    BY <1>1 DEF Accounts

-----------------------------------------------------------------------------
(* The sender                                                              *)

LEMMA SenderStart == PipelineInit => SenderInv
<1> SUFFICES ASSUME PipelineInit PROVE SenderInv
    OBVIOUS
<1>1. /\ mem_mode \in Modes /\ sizeimage = 0 /\ spc = "open" /\ i = 0
      /\ buffers = Requested /\ bufs = NoPool /\ mem = "DMABUF"
      /\ fallback_from_dmabuf = FALSE /\ open = {Stdin} /\ maps = 0
      /\ drv = "none" /\ queued = {} /\ streaming = FALSE
      /\ skilled = FALSE
    BY DEF PipelineInit
<1>2. Requested \in Nat
    BY PipelineAssumption
<1>3. PipelineTypeOK
  <2>1. \E n \in 0..buffers : bufs \in [0..(n - 1) -> buffer_ctx]
      BY <1>1, <1>2, NoPoolIsEmpty DEF Pool
  <2>2. open \subseteq Nat
      BY <1>1 DEF Stdin
  <2>3. fallback_from_dmabuf \in BOOLEAN /\ streaming \in BOOLEAN
        /\ skilled \in BOOLEAN
      BY <1>1
  <2> QED
      BY <1>1, <1>2, <2>1, <2>2, <2>3 DEF PipelineTypeOK
<1>4. SenderAccounts /\ IsFiniteSet(open)
    BY <1>1, FreshAccounts, FS_Singleton DEF SenderAccounts
<1>5. ArrayByStage /\ EntriesByStage /\ MemoryByStage /\ QueuedByStage
    BY <1>1 DEF ArrayByStage, EntriesByStage, MemoryByStage, QueuedByStage,
                NoArray, WithArray, Building, Primed
<1> QED
    BY <1>1, <1>3, <1>4, <1>5 DEF SenderInv

(* While the sender goes through its array, it has the entries that REQBUFS *)
(* granted.                                                                *)
LEMMA ArrayOfBuffers ==
    ASSUME SenderInv, spc \in WithArray
    PROVE  /\ buffers \in Nat /\ i \in 0..buffers
           /\ bufs \in Pool(buffers) /\ DOMAIN bufs = 0..(buffers - 1)
           /\ ~skilled /\ Accounts(bufs, open, maps)
<1>1. spc # "done"
    BY DEF WithArray, Building, Primed
<1>2. DOMAIN bufs = 0..(buffers - 1) /\ ~skilled
    BY <1>1 DEF SenderInv, ArrayByStage
<1>3. buffers \in Nat /\ i \in 0..buffers
    BY DEF SenderInv, PipelineTypeOK
<1>4. PICK n \in 0..buffers : bufs \in [0..(n - 1) -> buffer_ctx]
    BY DEF SenderInv, PipelineTypeOK
<1>5. bufs \in Pool(buffers)
    BY <1>2, <1>4 DEF Pool
<1> QED
    BY <1>2, <1>3, <1>5 DEF SenderInv, SenderAccounts

(* A step that leaves the pool and the driver alone.                       *)
LEMMA SenderGoes ==
    ASSUME SenderInv, NEW pc, spc' = pc, sizeimage' \in Nat,
           UNCHANGED <<mem_mode, i, buffers, mem, fallback_from_dmabuf,
                       skilled, driverVars, poolVars>>,
           \/ spc = "open" /\ pc = "format"
           \/ spc = "format" /\ mem_mode = "mmap" /\ pc = "request_mmap"
           \/ spc = "format" /\ mem_mode # "mmap" /\ pc = "request_dma"
           \/ spc = "connect" /\ pc = "hello"
           \/ spc = "hello" /\ pc = "loop"
           \/ /\ spc \notin {"streamoff", "close", "cleanup", "done"}
              /\ pc = "streamoff"
           \/ spc = "close" /\ pc = "cleanup"
    PROVE  SenderInv'
<1>1. /\ mem_mode' = mem_mode /\ i' = i /\ buffers' = buffers
      /\ mem' = mem /\ fallback_from_dmabuf' = fallback_from_dmabuf
      /\ skilled' = skilled /\ drv' = drv /\ queued' = queued
      /\ streaming' = streaming /\ bufs' = bufs /\ open' = open
      /\ maps' = maps
    BY DEF driverVars, poolVars
<1>2. PipelineTypeOK'
    BY <1>1 DEF SenderInv, PipelineTypeOK
<1>3. (skilled => spc = "done")' /\ SenderAccounts' /\ IsFiniteSet(open)'
    BY <1>1 DEF SenderInv, SenderAccounts
<1>4. ArrayByStage' /\ EntriesByStage'
    BY <1>1 DEF SenderInv, ArrayByStage, EntriesByStage, QueuedByStage,
                NoArray, WithArray, Building, Primed, Backed, Untouched
<1>5. MemoryByStage'
    BY <1>1 DEF SenderInv, MemoryByStage, QueuedByStage, Primed
<1>6. QueuedByStage'
    BY <1>1 DEF SenderInv, QueuedByStage, Building, Primed
<1> QED
    BY <1>2, <1>3, <1>4, <1>5, <1>6 DEF SenderInv

(* REQBUFS and the array.                                                  *)
LEMMA RequestKeeps ==
    ASSUME SenderInv, NEW memory, NEW from, NEW to,
           Request(memory, from, to),
           \/ memory = "DMABUF" /\ from = "request_dma" /\ to = "dma_alloc"
           \/ memory = "MMAP" /\ from = "request_mmap" /\ to = "mmap_map"
    PROVE  SenderInv'
<1>1. /\ spc = from /\ spc' = to /\ drv' = memory /\ queued' = {} /\ i' = 0
      /\ mem_mode' = mem_mode /\ sizeimage' = sizeimage /\ mem' = mem
      /\ fallback_from_dmabuf' = fallback_from_dmabuf
      /\ open' = open /\ maps' = maps /\ streaming' = streaming
      /\ skilled' = skilled
    BY DEF Request, cfgVars
<1>2. PICK n \in Grants : buffers' = n /\ bufs' = NewPool(n, -1)
    BY DEF Request
<1>3. n \in Nat /\ n > 0
    BY PipelineAssumption
<1>4. /\ bufs' \in Pool(n) /\ DOMAIN bufs' = 0..(n - 1)
      /\ \A k \in 0..(n - 1) : bufs'[k].fd = -1 /\ ~bufs'[k].mapped
    BY <1>2, <1>3, NewPoolOf DEF Pool
<1>5. ~skilled /\ bufs = NoPool /\ ~streaming
    BY <1>1 DEF SenderInv, ArrayByStage, NoArray, QueuedByStage
<1>6. open = {Stdin} /\ maps = 0
  <2>1. Accounts(NoPool, open, maps)
      BY <1>5 DEF SenderInv, SenderAccounts
  <2> QED
      BY <2>1, NoPoolIsEmpty, FS_EmptySet DEF Accounts
<1>7. PipelineTypeOK'
    BY <1>1, <1>2, <1>3, <1>4 DEF SenderInv, PipelineTypeOK, Pool
<1>8. SenderAccounts' /\ IsFiniteSet(open)' /\ (skilled => spc = "done")'
    BY <1>1, <1>2, <1>3, <1>5, <1>6, FreshAccounts
    DEF SenderInv, SenderAccounts
<1>9. ArrayByStage' /\ EntriesByStage'
    BY <1>1, <1>2, <1>3, <1>4, <1>5
    DEF ArrayByStage, EntriesByStage, NoArray, WithArray, Building, Primed,
        Untouched
<1>10. MemoryByStage' /\ QueuedByStage'
    BY <1>1, <1>5
    DEF SenderInv, MemoryByStage, QueuedByStage, Building, Primed
<1> QED
    BY <1>7, <1>8, <1>9, <1>10 DEF SenderInv

(* A dmabuf of the heap for the entry in hand ...                          *)
LEMMA AllocDmabufKeeps == SenderInv /\ AllocDmabuf => SenderInv'
<1> SUFFICES ASSUME SenderInv, AllocDmabuf PROVE SenderInv'
    OBVIOUS
<1> DEFINE fd == alloc_dmabuf_from_heap(open)
<1>1. /\ spc = "dma_alloc" /\ spc' = "dma_map"
      /\ bufs' = [bufs EXCEPT ![i].fd = fd] /\ open' = open \cup {fd}
      /\ mem_mode' = mem_mode /\ sizeimage' = sizeimage /\ i' = i
      /\ buffers' = buffers /\ mem' = mem
      /\ fallback_from_dmabuf' = fallback_from_dmabuf /\ maps' = maps
      /\ skilled' = skilled /\ drv' = drv /\ queued' = queued
      /\ streaming' = streaming
    BY DEF AllocDmabuf, OpenInto, cfgVars, driverVars
<1>2. /\ fd \in Nat \ open /\ IsFiniteSet(open \cup {fd})
    BY HeapGivesFresh, FS_AddElement DEF SenderInv
<1> HIDE DEF fd
<1>3. /\ buffers \in Nat /\ i \in 0..(buffers - 1)
      /\ bufs \in Pool(buffers) /\ DOMAIN bufs = 0..(buffers - 1)
      /\ ~skilled /\ Accounts(bufs, open, maps)
  <2>1. spc \in WithArray /\ i < buffers
      BY <1>1 DEF SenderInv, ArrayByStage, WithArray, Building
  <2> QED
      BY <2>1, ArrayOfBuffers
<1>4. bufs[i].fd = -1 /\ ~bufs[i].mapped /\ ~streaming
    BY <1>1 DEF SenderInv, EntriesByStage, Untouched, QueuedByStage
<1>5. bufs' \in Pool(buffers) /\ Accounts(bufs, open, maps)'
    BY <1>1, <1>2, <1>3, <1>4, OpenAccounts
<1>6. /\ DOMAIN bufs' = 0..(buffers - 1)
      /\ bufs'[i].fd = fd /\ bufs'[i].mapped = bufs[i].mapped
      /\ \A k \in 0..(buffers - 1) : k # i => bufs'[k] = bufs[k]
    BY <1>1, <1>3 DEF Pool, buffer_ctx
<1>7. PipelineTypeOK'
  <2>1. \E n \in 0..buffers : bufs' \in [0..(n - 1) -> buffer_ctx]
      BY <1>3, <1>5 DEF Pool
  <2> QED
      BY <1>1, <1>2, <2>1 DEF SenderInv, PipelineTypeOK
<1>8. SenderAccounts' /\ IsFiniteSet(open)' /\ (skilled => spc = "done")'
    BY <1>1, <1>2, <1>3, <1>5 DEF SenderAccounts
<1>9. ArrayByStage'
    BY <1>1, <1>3, <1>6
    DEF ArrayByStage, NoArray, WithArray, Building, Primed
<1>10. EntriesByStage'
  <2>1. \A k \in 0..(buffers - 1) :
            /\ k < i => Backed(bufs[k])
            /\ k > i => Untouched(bufs[k])
      BY <1>1, <1>3 DEF SenderInv, EntriesByStage, Building
  <2>2. \A k \in 0..(buffers - 1) :
            /\ k < i => Backed(bufs[k])'
            /\ k > i => Untouched(bufs[k])'
      BY <1>1, <1>3, <1>6, <2>1 DEF Backed, Untouched
  <2> QED
      BY <1>1, <1>2, <1>3, <1>4, <1>6, <2>2
      DEF EntriesByStage, Building, Primed
<1>11. MemoryByStage' /\ QueuedByStage'
    BY <1>1, <1>4
    DEF SenderInv, MemoryByStage, QueuedByStage, Building, Primed
<1> QED
    BY <1>7, <1>8, <1>9, <1>10, <1>11 DEF SenderInv

(* ... and its mapping, after which the next entry has its turn.           *)
LEMMA MapDmabufKeeps == SenderInv /\ MapDmabuf => SenderInv'
<1> SUFFICES ASSUME SenderInv, MapDmabuf PROVE SenderInv'
    OBVIOUS
<1>1. /\ spc = "dma_map"
      /\ bufs' = [bufs EXCEPT ![i].mapped = TRUE] /\ maps' = maps + 1
      /\ mem_mode' = mem_mode /\ sizeimage' = sizeimage
      /\ buffers' = buffers /\ mem' = mem
      /\ fallback_from_dmabuf' = fallback_from_dmabuf /\ open' = open
      /\ skilled' = skilled /\ drv' = drv /\ queued' = queued
      /\ streaming' = streaming
    BY DEF MapDmabuf, MapInto, cfgVars, driverVars
<1>2. \/ i + 1 < buffers /\ i' = i + 1 /\ spc' = "dma_alloc"
      \/ ~(i + 1 < buffers) /\ i' = 0 /\ spc' = "prime"
    BY DEF MapDmabuf, Advance
<1>3. /\ buffers \in Nat /\ i \in 0..(buffers - 1)
      /\ bufs \in Pool(buffers) /\ DOMAIN bufs = 0..(buffers - 1)
      /\ ~skilled /\ Accounts(bufs, open, maps)
  <2>1. spc \in WithArray /\ i < buffers
      BY <1>1 DEF SenderInv, ArrayByStage, WithArray, Building
  <2> QED
      BY <2>1, ArrayOfBuffers
<1>4. bufs[i].fd # -1 /\ ~bufs[i].mapped /\ ~streaming
    BY <1>1 DEF SenderInv, EntriesByStage, QueuedByStage
<1>5. bufs' \in Pool(buffers) /\ Accounts(bufs, open, maps)'
    BY <1>1, <1>3, <1>4, MapAccounts
<1>6. /\ DOMAIN bufs' = 0..(buffers - 1)
      /\ bufs'[i].fd = bufs[i].fd /\ bufs'[i].mapped
      /\ \A k \in 0..(buffers - 1) : k # i => bufs'[k] = bufs[k]
    BY <1>1, <1>3 DEF Pool, buffer_ctx
<1>7. PipelineTypeOK'
  <2>1. \E n \in 0..buffers : bufs' \in [0..(n - 1) -> buffer_ctx]
      BY <1>3, <1>5 DEF Pool
  <2>2. i' \in 0..buffers /\ maps + 1 \in Nat
      BY <1>2, <1>3 DEF SenderInv, PipelineTypeOK
  <2>3. spc' \in {"dma_alloc", "prime"}
      BY <1>2
  <2> QED
      BY <1>1, <2>1, <2>2, <2>3 DEF SenderInv, PipelineTypeOK
<1>8. SenderAccounts' /\ IsFiniteSet(open)' /\ (skilled => spc = "done")'
    BY <1>1, <1>3, <1>5 DEF SenderInv, SenderAccounts
<1>9. ArrayByStage'
    BY <1>1, <1>2, <1>3, <1>6
    DEF ArrayByStage, NoArray, WithArray, Building, Primed
<1>10. EntriesByStage'
  <2>1. \A k \in 0..(buffers - 1) :
            /\ k < i => Backed(bufs[k])
            /\ k > i => Untouched(bufs[k])
      BY <1>1, <1>3 DEF SenderInv, EntriesByStage, Building
  <2>2. \A k \in 0..(buffers - 1) :
            /\ k <= i => Backed(bufs[k])'
            /\ k > i => Untouched(bufs[k])'
      BY <1>1, <1>3, <1>4, <1>6, <2>1 DEF Backed, Untouched
  <2>3. CASE i + 1 < buffers
    <3>1. \A k \in 0..(buffers - 1) : k < i + 1 => Backed(bufs[k])'
        BY <1>3, <2>2
    <3>2. \A k \in 0..(buffers - 1) : k > i + 1 => Untouched(bufs[k])'
        BY <1>3, <2>2
    <3>3. i' = i + 1 /\ spc' = "dma_alloc" /\ i + 1 \in 0..(buffers - 1)
        BY <1>2, <1>3, <2>3
    <3>4. \A k \in 0..(buffers - 1) : k = i' => Untouched(bufs[k])'
        BY <1>3, <2>2, <3>3
    <3>5. Untouched(bufs'[i'])
        BY <3>3, <3>4 DEF Untouched
    <3> QED
        BY <1>1, <1>4, <1>6, <3>1, <3>2, <3>3, <3>5
        DEF EntriesByStage, Building, Primed, Untouched
  <2>4. CASE ~(i + 1 < buffers)
    <3>1. \A k \in 0..(buffers - 1) : Backed(bufs[k])'
        BY <1>3, <2>2, <2>4
    <3> QED
        BY <1>1, <1>2, <1>4, <1>6, <2>4, <3>1
        DEF EntriesByStage, Building, Primed
  <2> QED
      BY <2>3, <2>4
<1>11. MemoryByStage'
    BY <1>1, <1>2, <1>4 DEF SenderInv, MemoryByStage, Building, Primed
<1>12. QueuedByStage'
  <2>1. queued = {} /\ 0..(0 - 1) = {}
      BY <1>1 DEF SenderInv, QueuedByStage, Building
  <2> QED
      BY <1>1, <1>2, <1>4, <2>1 DEF QueuedByStage, Building, Primed
<1> QED
    BY <1>7, <1>8, <1>9, <1>10, <1>11, <1>12 DEF SenderInv

(* The driver's buffer is mapped for the entry in hand ...                 *)
LEMMA MapMmapKeeps == SenderInv /\ MapMmap => SenderInv'
<1> SUFFICES ASSUME SenderInv, MapMmap PROVE SenderInv'
    OBVIOUS
<1>1. /\ spc = "mmap_map" /\ spc' = "mmap_export"
      /\ bufs' = [bufs EXCEPT ![i].mapped = TRUE] /\ maps' = maps + 1
      /\ mem_mode' = mem_mode /\ sizeimage' = sizeimage /\ i' = i
      /\ buffers' = buffers /\ mem' = mem
      /\ fallback_from_dmabuf' = fallback_from_dmabuf /\ open' = open
      /\ skilled' = skilled /\ drv' = drv /\ queued' = queued
      /\ streaming' = streaming
    BY DEF MapMmap, MapInto, cfgVars, driverVars
<1>2. /\ buffers \in Nat /\ i \in 0..(buffers - 1)
      /\ bufs \in Pool(buffers) /\ DOMAIN bufs = 0..(buffers - 1)
      /\ ~skilled /\ Accounts(bufs, open, maps)
  <2>1. spc \in WithArray /\ i < buffers
      BY <1>1 DEF SenderInv, ArrayByStage, WithArray, Building
  <2> QED
      BY <2>1, ArrayOfBuffers
<1>3. bufs[i].fd = -1 /\ ~bufs[i].mapped /\ ~streaming
    BY <1>1 DEF SenderInv, EntriesByStage, Untouched, QueuedByStage
<1>4. bufs' \in Pool(buffers) /\ Accounts(bufs, open, maps)'
    BY <1>1, <1>2, <1>3, MapAccounts
<1>5. /\ DOMAIN bufs' = 0..(buffers - 1)
      /\ bufs'[i].fd = bufs[i].fd /\ bufs'[i].mapped
      /\ \A k \in 0..(buffers - 1) : k # i => bufs'[k] = bufs[k]
    BY <1>1, <1>2 DEF Pool, buffer_ctx
<1>6. PipelineTypeOK'
  <2>1. \E n \in 0..buffers : bufs' \in [0..(n - 1) -> buffer_ctx]
      BY <1>2, <1>4 DEF Pool
  <2>2. maps + 1 \in Nat
      BY DEF SenderInv, PipelineTypeOK
  <2> QED
      BY <1>1, <2>1, <2>2 DEF SenderInv, PipelineTypeOK
<1>7. SenderAccounts' /\ IsFiniteSet(open)' /\ (skilled => spc = "done")'
    BY <1>1, <1>2, <1>4 DEF SenderInv, SenderAccounts
<1>8. ArrayByStage'
    BY <1>1, <1>2, <1>5
    DEF ArrayByStage, NoArray, WithArray, Building, Primed
<1>9. EntriesByStage'
  <2>1. \A k \in 0..(buffers - 1) :
            /\ k < i => Backed(bufs[k])
            /\ k > i => Untouched(bufs[k])
      BY <1>1, <1>2 DEF SenderInv, EntriesByStage, Building
  <2>2. \A k \in 0..(buffers - 1) :
            /\ k < i => Backed(bufs[k])'
            /\ k > i => Untouched(bufs[k])'
      BY <1>1, <1>2, <1>5, <2>1 DEF Backed, Untouched
  <2> QED
      BY <1>1, <1>2, <1>3, <1>5, <2>2 DEF EntriesByStage, Building, Primed
<1>10. MemoryByStage' /\ QueuedByStage'
    BY <1>1, <1>3
    DEF SenderInv, MemoryByStage, QueuedByStage, Building, Primed
<1> QED
    BY <1>6, <1>7, <1>8, <1>9, <1>10 DEF SenderInv

(* ... and exported if the driver can; QBUF changes over to MMAP with the  *)
(* last one.                                                               *)
LEMMA ExportMmapKeeps == SenderInv /\ ExportMmap => SenderInv'
<1> SUFFICES ASSUME SenderInv, ExportMmap PROVE SenderInv'
    OBVIOUS
<1> DEFINE fd == LowestFree(open)
<1>1. /\ spc = "mmap_export"
      /\ mem_mode' = mem_mode /\ sizeimage' = sizeimage
      /\ buffers' = buffers /\ maps' = maps
      /\ fallback_from_dmabuf' = fallback_from_dmabuf
      /\ skilled' = skilled /\ drv' = drv /\ queued' = queued
      /\ streaming' = streaming
    BY DEF ExportMmap, cfgVars, driverVars
<1>2. \/ /\ i + 1 < buffers /\ i' = i + 1 /\ spc' = "mmap_map"
         /\ mem' = mem
      \/ /\ ~(i + 1 < buffers) /\ i' = 0 /\ spc' = "prime"
         /\ mem' = "MMAP"
  <2>1. /\ buffers \in Nat /\ i \in Nat /\ i < buffers
      BY <1>1 DEF SenderInv, PipelineTypeOK, ArrayByStage, Building
  <2> QED
      BY <2>1 DEF ExportMmap, Advance, MemAfterExport
<1>3. \/ bufs' = [bufs EXCEPT ![i].fd = fd] /\ open' = open \cup {fd}
      \/ bufs' = bufs /\ open' = open
    BY DEF ExportMmap, OpenInto
<1>4. /\ fd \in Nat \ open /\ IsFiniteSet(open \cup {fd})
    BY LowestIsFree, FS_AddElement DEF SenderInv
<1> HIDE DEF fd
<1>5. /\ buffers \in Nat /\ i \in 0..(buffers - 1)
      /\ bufs \in Pool(buffers) /\ DOMAIN bufs = 0..(buffers - 1)
      /\ ~skilled /\ Accounts(bufs, open, maps)
  <2>1. spc \in WithArray /\ i < buffers
      BY <1>1 DEF SenderInv, ArrayByStage, WithArray, Building
  <2> QED
      BY <2>1, ArrayOfBuffers
<1>6. bufs[i].fd = -1 /\ bufs[i].mapped /\ ~streaming /\ drv = "MMAP"
    BY <1>1 DEF SenderInv, EntriesByStage, QueuedByStage, MemoryByStage
<1>7. bufs' \in Pool(buffers) /\ Accounts(bufs, open, maps)'
  <2>1. CASE bufs' = [bufs EXCEPT ![i].fd = fd] /\ open' = open \cup {fd}
      BY <1>1, <1>4, <1>5, <1>6, <2>1, OpenAccounts
  <2>2. CASE bufs' = bufs /\ open' = open
      BY <1>1, <1>5, <2>2
  <2> QED
      BY <1>3, <2>1, <2>2
<1>8. /\ DOMAIN bufs' = 0..(buffers - 1) /\ bufs'[i].mapped
      /\ \A k \in 0..(buffers - 1) : k # i => bufs'[k] = bufs[k]
    BY <1>3, <1>5, <1>6 DEF Pool, buffer_ctx
<1>9. PipelineTypeOK'
  <2>1. \E n \in 0..buffers : bufs' \in [0..(n - 1) -> buffer_ctx]
      BY <1>5, <1>7 DEF Pool
  <2>2. i' \in 0..buffers
      BY <1>2, <1>5
  <2>3. open' \subseteq Nat
      BY <1>3, <1>4 DEF SenderInv, PipelineTypeOK
  <2>4. mem' \in {"DMABUF", "MMAP"}
      BY <1>2 DEF SenderInv, PipelineTypeOK
  <2>5. spc' \in {"mmap_map", "prime"}
      BY <1>2
  <2> QED
      BY <1>1, <2>1, <2>2, <2>3, <2>4, <2>5 DEF SenderInv, PipelineTypeOK
<1>10. SenderAccounts' /\ IsFiniteSet(open)' /\ (skilled => spc = "done")'
    BY <1>1, <1>3, <1>4, <1>5, <1>7 DEF SenderInv, SenderAccounts
<1>11. ArrayByStage'
    BY <1>1, <1>2, <1>5, <1>8
    DEF ArrayByStage, NoArray, WithArray, Building, Primed
<1>12. EntriesByStage'
  <2>1. \A k \in 0..(buffers - 1) :
            /\ k < i => Backed(bufs[k])
            /\ k > i => Untouched(bufs[k])
      BY <1>1, <1>5 DEF SenderInv, EntriesByStage, Building
  <2>2. \A k \in 0..(buffers - 1) :
            /\ k <= i => Backed(bufs[k])'
            /\ k > i => Untouched(bufs[k])'
      BY <1>1, <1>5, <1>6, <1>8, <2>1 DEF Backed, Untouched
  <2>3. CASE i + 1 < buffers
    <3>1. \A k \in 0..(buffers - 1) : k < i + 1 => Backed(bufs[k])'
        BY <1>5, <2>2
    <3>2. \A k \in 0..(buffers - 1) : k > i + 1 => Untouched(bufs[k])'
        BY <1>5, <2>2
    <3>3. i' = i + 1 /\ spc' = "mmap_map" /\ i + 1 \in 0..(buffers - 1)
        BY <1>2, <1>5, <2>3
    <3>4. \A k \in 0..(buffers - 1) : k = i' => Untouched(bufs[k])'
        BY <1>5, <2>2, <3>3
    <3>5. Untouched(bufs'[i'])
        BY <3>3, <3>4 DEF Untouched
    <3> QED
        BY <1>1, <1>6, <1>8, <3>1, <3>2, <3>3, <3>5
        DEF EntriesByStage, Building, Primed, Untouched
  <2>4. CASE ~(i + 1 < buffers)
    <3>1. \A k \in 0..(buffers - 1) : Backed(bufs[k])'
        BY <1>5, <2>2, <2>4
    <3> QED
        BY <1>1, <1>2, <1>6, <1>8, <2>4, <3>1
        DEF EntriesByStage, Building, Primed
  <2> QED
      BY <2>3, <2>4
<1>13. MemoryByStage'
    BY <1>1, <1>2, <1>6 DEF SenderInv, MemoryByStage, Building, Primed
<1>14. QueuedByStage'
  <2>1. queued = {} /\ 0..(0 - 1) = {}
      BY <1>1 DEF SenderInv, QueuedByStage, Building
  <2> QED
      BY <1>1, <1>2, <1>6, <2>1 DEF QueuedByStage, Building, Primed
<1> QED
    BY <1>9, <1>10, <1>11, <1>12, <1>13, <1>14 DEF SenderInv

(* QBUF of one entry after the other.                                      *)
LEMMA PrimeKeeps == SenderInv /\ Prime => SenderInv'
<1> SUFFICES ASSUME SenderInv, Prime PROVE SenderInv'
    OBVIOUS
<1>1. /\ spc = "prime" /\ queued' = queued \cup {i}
      /\ mem_mode' = mem_mode /\ sizeimage' = sizeimage
      /\ buffers' = buffers /\ mem' = mem /\ bufs' = bufs
      /\ fallback_from_dmabuf' = fallback_from_dmabuf /\ open' = open
      /\ maps' = maps /\ skilled' = skilled /\ drv' = drv
      /\ streaming' = streaming
    BY DEF Prime, cfgVars, poolVars
<1>2. \/ i + 1 < buffers /\ i' = i + 1 /\ spc' = "prime"
      \/ ~(i + 1 < buffers) /\ i' = 0 /\ spc' = "streamon"
    BY DEF Prime, Advance
<1>3. /\ buffers \in Nat /\ i \in 0..(buffers - 1)
      /\ DOMAIN bufs = 0..(buffers - 1)
      /\ queued = 0..(i - 1) /\ ~streaming
  <2>1. /\ spc \in WithArray /\ i < buffers
        /\ queued = 0..(i - 1) /\ ~streaming
      BY <1>1 DEF SenderInv, ArrayByStage, WithArray, QueuedByStage
  <2> QED
      BY <2>1, ArrayOfBuffers
<1>4. queued' = 0..i
    BY <1>1, <1>3
<1>5. PipelineTypeOK'
  <2>1. i' \in 0..buffers /\ queued' \subseteq 0..(buffers - 1)
      BY <1>2, <1>3, <1>4
  <2>2. spc' \in {"prime", "streamon"}
      BY <1>2
  <2> QED
      BY <1>1, <2>1, <2>2 DEF SenderInv, PipelineTypeOK
<1>6. SenderAccounts' /\ IsFiniteSet(open)' /\ (skilled => spc = "done")'
    BY <1>1 DEF SenderInv, SenderAccounts
<1>7. ArrayByStage'
    BY <1>1, <1>2, <1>3
    DEF ArrayByStage, NoArray, WithArray, Building, Primed
<1>8. EntriesByStage'
    BY <1>1, <1>2
    DEF SenderInv, EntriesByStage, Building, Primed, Backed
<1>9. MemoryByStage'
    BY <1>1, <1>2 DEF SenderInv, MemoryByStage, Building, Primed
<1>10. QueuedByStage'
  <2>1. CASE i + 1 < buffers
    <3>1. (i + 1) - 1 = i
        BY <1>3
    <3> QED
        BY <1>1, <1>2, <1>3, <1>4, <2>1, <3>1
        DEF QueuedByStage, Building, Primed
  <2>2. CASE ~(i + 1 < buffers)
    <3>1. i = buffers - 1
        BY <1>3, <2>2
    <3> QED
        BY <1>1, <1>2, <1>3, <1>4, <2>2, <3>1
        DEF QueuedByStage, Building, Primed
  <2> QED
      BY <2>1, <2>2
<1> QED
    BY <1>5, <1>6, <1>7, <1>8, <1>9, <1>10 DEF SenderInv

LEMMA StreamOnKeeps == SenderInv /\ StreamOn => SenderInv'
<1> SUFFICES ASSUME SenderInv, StreamOn PROVE SenderInv'
    OBVIOUS
<1>1. /\ spc = "streamon" /\ spc' = "connect" /\ streaming' = TRUE
      /\ mem_mode' = mem_mode /\ sizeimage' = sizeimage /\ i' = i
      /\ buffers' = buffers /\ mem' = mem /\ bufs' = bufs
      /\ fallback_from_dmabuf' = fallback_from_dmabuf /\ open' = open
      /\ maps' = maps /\ skilled' = skilled /\ drv' = drv
      /\ queued' = queued
    BY DEF StreamOn, cfgVars, poolVars
<1>2. PipelineTypeOK'
    BY <1>1 DEF SenderInv, PipelineTypeOK
<1>3. SenderAccounts' /\ IsFiniteSet(open)' /\ (skilled => spc = "done")'
    BY <1>1 DEF SenderInv, SenderAccounts
<1>4. ArrayByStage' /\ EntriesByStage'
    BY <1>1
    DEF SenderInv, ArrayByStage, EntriesByStage, NoArray, WithArray,
        Building, Primed, Backed
<1>5. MemoryByStage' /\ QueuedByStage'
    BY <1>1
    DEF SenderInv, MemoryByStage, QueuedByStage, Building, Primed
<1> QED
    BY <1>2, <1>3, <1>4, <1>5 DEF SenderInv

LEMMA StreamOffKeeps == SenderInv /\ OutStreamOff => SenderInv'
<1> SUFFICES ASSUME SenderInv, OutStreamOff PROVE SenderInv'
    OBVIOUS
<1>1. /\ spc = "streamoff" /\ spc' = "close"
      /\ \/ streaming' = FALSE /\ queued' = {}
         \/ streaming' = streaming /\ queued' = queued
      /\ mem_mode' = mem_mode /\ sizeimage' = sizeimage
      /\ i' = i /\ buffers' = buffers /\ mem' = mem /\ bufs' = bufs
      /\ fallback_from_dmabuf' = fallback_from_dmabuf /\ open' = open
      /\ maps' = maps /\ skilled' = skilled /\ drv' = drv
    BY DEF OutStreamOff, cfgVars, poolVars
<1>2. PipelineTypeOK'
    BY <1>1 DEF SenderInv, PipelineTypeOK
<1>3. SenderAccounts' /\ IsFiniteSet(open)' /\ (skilled => spc = "done")'
    BY <1>1 DEF SenderInv, SenderAccounts
<1>4. /\ ArrayByStage' /\ EntriesByStage' /\ MemoryByStage'
      /\ QueuedByStage'
    BY <1>1
    DEF SenderInv, ArrayByStage, EntriesByStage, MemoryByStage,
        QueuedByStage, NoArray, WithArray, Building, Primed, Backed
<1> QED
    BY <1>2, <1>3, <1>4 DEF SenderInv

(* A pool is given up, whatever there is of it.                            *)
LEMMA DropKeeps ==
    ASSUME SenderInv, DropPool, NEW pc, spc' = pc,
           UNCHANGED <<mem_mode, sizeimage, mem, skilled>>,
           fallback_from_dmabuf' \in BOOLEAN,
           streaming' \in {streaming, FALSE},
           buffers' \in {buffers} \cup Grants,
           \/ /\ spc \in {"request_dma", "dma_alloc", "dma_map"}
              /\ mem_mode = "dmabuf" /\ pc = "streamoff"
           \/ /\ spc \in {"request_dma", "dma_alloc", "dma_map", "prime"}
              /\ mem_mode # "dmabuf" /\ pc = "request_mmap"
           \/ spc \in {"request_mmap", "mmap_map"} /\ pc = "streamoff"
           \/ spc = "cleanup" /\ pc = "done"
              /\ streaming' = FALSE
    PROVE  SenderInv'
<1>1. /\ open' = open \ PoolFds(bufs)
      /\ maps' = maps - Cardinality(PoolMaps(bufs))
      /\ bufs' = NoPool /\ drv' = "none" /\ queued' = {} /\ i' = 0
      /\ mem_mode' = mem_mode /\ sizeimage' = sizeimage /\ mem' = mem
      /\ skilled' = skilled
    BY DEF DropPool
<1>2. ~skilled /\ streaming' = FALSE /\ Accounts(bufs, open, maps)
  <2>1. streaming \in BOOLEAN
      BY DEF SenderInv, PipelineTypeOK
  <2>2. spc # "cleanup" => ~streaming
      BY DEF SenderInv, QueuedByStage
  <2>3. streaming' = FALSE
    <3>1. CASE spc = "cleanup"
        BY <3>1
    <3>2. CASE spc # "cleanup"
        BY <2>1, <2>2, <3>2
    <3> QED
        BY <3>1, <3>2
  <2> QED
      BY <2>3 DEF SenderInv, SenderAccounts
<1>3. open' = {Stdin} /\ maps' = 0
  <2>1. PICK n \in 0..buffers : bufs \in [0..(n - 1) -> buffer_ctx]
      BY DEF SenderInv, PipelineTypeOK
  <2>2. n \in Nat /\ bufs \in Pool(n)
      BY <2>1 DEF Pool
  <2> QED
      BY <1>1, <1>2, <2>2, DropAccounts
<1>4. buffers' \in Nat
    BY PipelineAssumption DEF SenderInv, PipelineTypeOK
<1>5. PipelineTypeOK'
  <2>1. \E n \in 0..buffers' : bufs' \in [0..(n - 1) -> buffer_ctx]
    <3>1. 0 \in 0..buffers'
        BY <1>4
    <3> QED
        BY <1>1, <3>1, NoPoolIsEmpty DEF Pool
  <2>2. open' \subseteq Nat
      BY <1>3 DEF Stdin
  <2>3. spc' \in {"streamoff", "request_mmap", "done"}
        /\ streaming' \in BOOLEAN
      BY <1>2
  <2> QED
      BY <1>1, <1>2, <1>3, <1>4, <2>1, <2>2, <2>3
      DEF SenderInv, PipelineTypeOK
<1>6. SenderAccounts' /\ IsFiniteSet(open)' /\ (skilled => spc = "done")'
  <2>1. Accounts(bufs, open, maps)'
      BY <1>1, <1>3, FreshAccounts
  <2>2. IsFiniteSet(open)'
      BY <1>3, FS_Singleton
  <2> QED
      BY <1>1, <1>2, <2>1, <2>2 DEF SenderAccounts
<1>7. /\ ArrayByStage' /\ EntriesByStage' /\ MemoryByStage'
      /\ QueuedByStage'
    BY <1>1, <1>2
    DEF ArrayByStage, EntriesByStage, MemoryByStage, QueuedByStage,
        NoArray, WithArray, Building, Primed
<1> QED
    BY <1>5, <1>6, <1>7 DEF SenderInv

LEMMA SenderKilledKeeps == SenderInv /\ SenderKilled => SenderInv'
<1> SUFFICES ASSUME SenderInv, SenderKilled PROVE SenderInv'
    OBVIOUS
<1>1. /\ spc' = "done" /\ open' = {} /\ maps' = 0 /\ drv' = "none"
      /\ queued' = {} /\ streaming' = FALSE /\ skilled' = TRUE
      /\ mem_mode' = mem_mode /\ sizeimage' = sizeimage /\ i' = i
      /\ buffers' = buffers /\ mem' = mem /\ bufs' = bufs
      /\ fallback_from_dmabuf' = fallback_from_dmabuf
    BY DEF SenderKilled, cfgVars
<1>2. PipelineTypeOK'
    BY <1>1 DEF SenderInv, PipelineTypeOK
<1>3. SenderAccounts' /\ IsFiniteSet(open)' /\ (skilled => spc = "done")'
    BY <1>1, FS_EmptySet DEF SenderAccounts
<1>4. /\ ArrayByStage' /\ EntriesByStage' /\ MemoryByStage'
      /\ QueuedByStage'
    BY <1>1
    DEF ArrayByStage, EntriesByStage, MemoryByStage, QueuedByStage,
        NoArray, WithArray, Building, Primed
<1> QED
    BY <1>2, <1>3, <1>4 DEF SenderInv

LEMMA SenderUntouched == SenderInv /\ UNCHANGED pipelineVars => SenderInv'
BY DEF SenderInv, pipelineVars, cfgVars, driverVars, poolVars,
       PipelineTypeOK, SenderAccounts, ArrayByStage, EntriesByStage,
       MemoryByStage, QueuedByStage, Backed, Untouched

LEMMA SenderKeeps == SenderInv /\ PipelineNext => SenderInv'
<1> SUFFICES ASSUME SenderInv, PipelineNext PROVE SenderInv'
    OBVIOUS
<1>1. sizeimage \in Nat
    BY DEF SenderInv, PipelineTypeOK
<1>2. CASE OpenCapture
    BY <1>1, <1>2, SenderGoes DEF OpenCapture, cfgVars
<1>3. CASE SetupFormat
  <2>1. sizeimage' \in Nat
      BY <1>3, PipelineAssumption DEF SetupFormat
  <2>2. CASE mem_mode = "mmap"
      BY <1>3, <2>1, <2>2, SenderGoes DEF SetupFormat
  <2>3. CASE mem_mode # "mmap"
      BY <1>3, <2>1, <2>3, SenderGoes DEF SetupFormat
  <2> QED
      BY <2>2, <2>3
<1>4. CASE RequestDmabuf
    BY <1>4, RequestKeeps DEF RequestDmabuf
<1>5. CASE RequestMmap
    BY <1>5, RequestKeeps DEF RequestMmap
<1>6. CASE DmabufFails
  <2>1. CASE mem_mode = "dmabuf"
      BY <1>6, <2>1, DropKeeps
      DEF DmabufFails, AfterDmabufFailure, cfgVars, SenderInv,
          PipelineTypeOK
  <2>2. CASE mem_mode # "dmabuf"
      BY <1>6, <2>2, DropKeeps
      DEF DmabufFails, AfterDmabufFailure, cfgVars, SenderInv,
          PipelineTypeOK
  <2> QED
      BY <2>1, <2>2
<1>7. CASE MmapFails
    BY <1>7, DropKeeps DEF MmapFails, cfgVars, SenderInv, PipelineTypeOK
<1>8. CASE PrimeFallsBack
  <2>1. fallback_from_dmabuf' \in BOOLEAN
      BY <1>8 DEF PrimeFallsBack
  <2> QED
      BY <1>8, <2>1, DropKeeps DEF PrimeFallsBack, CanFallBack, cfgVars
<1>9. CASE OutCleanup
    BY <1>9, DropKeeps DEF OutCleanup, cfgVars, SenderInv, PipelineTypeOK
<1>10. CASE Connect
    BY <1>1, <1>10, SenderGoes DEF Connect, cfgVars
<1>11. CASE SendHello
    BY <1>1, <1>11, SenderGoes DEF SendHello, cfgVars
<1>12. CASE OutClose
    BY <1>1, <1>12, SenderGoes DEF OutClose, cfgVars
<1>13. CASE \/ FormatFails \/ PrimeFails \/ StreamOnFails \/ ConnectFails
            \/ HelloFails \/ LoopEnds
    BY <1>1, <1>13, SenderGoes
    DEF FormatFails, PrimeFails, StreamOnFails, ConnectFails, HelloFails,
        LoopEnds, SetupGotoOut, cfgVars
<1> QED
    BY <1>2, <1>3, <1>4, <1>5, <1>6, <1>7, <1>8, <1>9, <1>10, <1>11, <1>12,
       <1>13, AllocDmabufKeeps, MapDmabufKeeps, MapMmapKeeps,
       ExportMmapKeeps, PrimeKeeps, StreamOnKeeps, StreamOffKeeps,
       SenderKilledKeeps
    DEF PipelineNext, PipelineStep, LoopSeesEnd

-----------------------------------------------------------------------------
(* The receiver                                                            *)

LEMMA ReceiverStart == PoolReceiverInit => ReceiverInv
<1> SUFFICES ASSUME PoolReceiverInit PROVE ReceiverInv
    OBVIOUS
<1>1. /\ program \in Programs /\ rpc = "accept" /\ j = 0
      /\ params = [buffer_count |-> 0, sizeimage |-> 0]
      /\ rbufs = NoPool /\ ropen = {Stdin} /\ rmaps = 0
      /\ rkilled = FALSE /\ la = "socket" /\ socks = {}
      /\ objects = {} /\ display_ok = FALSE
    BY DEF PoolReceiverInit, AcceptInit, DisplayInit
<1>2. PoolReceiverTypeOK
  <2>1. params \in stream_hello /\ params.buffer_count = 0
      BY <1>1 DEF stream_hello
  <2>2. \E n \in {0, params.buffer_count} :
            rbufs \in [0..(n - 1) -> buffer_ctx]
      BY <1>1, NoPoolIsEmpty DEF Pool
  <2>3. AcceptTypeOK /\ DisplayTypeOK
      BY <1>1 DEF AcceptTypeOK, DisplayTypeOK
  <2>4. ropen \subseteq Nat
      BY <1>1 DEF Stdin
  <2>5. rkilled \in BOOLEAN
      BY <1>1
  <2> QED
      BY <1>1, <2>1, <2>2, <2>3, <2>4, <2>5 DEF PoolReceiverTypeOK
<1>3. HoldsNoMore /\ IsFiniteSet(ropen)
    BY <1>1, NoPoolIsEmpty, FS_EmptySet, FS_Singleton DEF HoldsNoMore
<1>4. PoolByStage /\ PoolGone /\ SocketsByStage /\ WindowByStage
    BY <1>1
    DEF PoolByStage, PoolGone, SocketsByStage, WindowByStage, WithPool
<1> QED
    BY <1>2, <1>3, <1>4 DEF ReceiverInv

(* While the receiver has an array, it is of the announced size.           *)
LEMMA PoolOfParams ==
    ASSUME ReceiverInv, rpc \in WithPool
    PROVE  /\ params.buffer_count \in Nat \ {0} /\ ~rkilled
           /\ rbufs \in Pool(params.buffer_count)
           /\ DOMAIN rbufs = 0..(params.buffer_count - 1)
<1>1. /\ DOMAIN rbufs = 0..(params.buffer_count - 1)
      /\ params.buffer_count > 0 /\ ~rkilled
    BY DEF ReceiverInv, PoolByStage, PoolGone, WithPool, ParamsValid
<1>2. params.buffer_count \in Nat
    BY DEF ReceiverInv, PoolReceiverTypeOK, stream_hello
<1>3. PICK n \in {0, params.buffer_count} :
          rbufs \in [0..(n - 1) -> buffer_ctx]
    BY DEF ReceiverInv, PoolReceiverTypeOK
<1>4. rbufs \in Pool(params.buffer_count)
    BY <1>1, <1>3 DEF Pool
<1> QED
    BY <1>1, <1>2, <1>4

LEMMA ReceiverGoes ==
    ASSUME ReceiverInv, NEW pc, PoolGoto(pc),
           \/ rpc = "accept" /\ la = "returned" /\ pc = "hello"
           \/ rpc = "accept" /\ la = "failed" /\ pc = "done"
           \/ rpc = "output" /\ pc = "loop"
           \/ rpc \in {"hello", "display", "output", "loop"}
              /\ pc = "cleanup"
    PROVE  ReceiverInv'
<1>1. /\ rpc' = pc /\ program' = program /\ params' = params /\ j' = j
      /\ rbufs' = rbufs /\ ropen' = ropen /\ rmaps' = rmaps
      /\ rkilled' = rkilled /\ la' = la /\ socks' = socks
      /\ objects' = objects /\ display_ok' = display_ok
    BY DEF PoolGoto, rpoolVars, acceptVars, displayVars
<1>2. PoolReceiverTypeOK'
    BY <1>1
    DEF ReceiverInv, PoolReceiverTypeOK, AcceptTypeOK, DisplayTypeOK
<1>3. IsFiniteSet(ropen)' /\ HoldsNoMore'
    BY <1>1 DEF ReceiverInv, HoldsNoMore
<1>4. PoolByStage'
    BY <1>1 DEF ReceiverInv, PoolByStage, WithPool, Opened, Mapped
<1>5. PoolGone' /\ SocketsByStage'
    BY <1>1 DEF ReceiverInv, PoolGone, SocketsByStage
<1>6. WindowByStage'
    BY <1>1 DEF ReceiverInv, WindowByStage
<1> QED
    BY <1>2, <1>3, <1>4, <1>5, <1>6 DEF ReceiverInv

(* Steps and failures of tcp_listen_and_accept.                            *)
LEMMA InAcceptKeeps ==
    ReceiverInv /\ (InAccept(AcceptStep) \/ InAccept(AcceptFails))
        => ReceiverInv'
<1> SUFFICES ASSUME ReceiverInv,
                    InAccept(AcceptStep) \/ InAccept(AcceptFails)
             PROVE  ReceiverInv'
    OBVIOUS
<1>1. /\ rpc = "accept" /\ rpc' = rpc /\ program' = program
      /\ params' = params /\ j' = j /\ rbufs' = rbufs /\ ropen' = ropen
      /\ rmaps' = rmaps /\ rkilled' = rkilled /\ objects' = objects
      /\ display_ok' = display_ok
    BY DEF InAccept, rpoolVars, displayVars
<1>2. AcceptTypeOK /\ socks \subseteq {"listen_fd", "conn_fd"}
    BY DEF ReceiverInv, PoolReceiverTypeOK, AcceptTypeOK
<1>3. /\ AcceptTypeOK'
      /\ (la = "cloexec" => "conn_fd" \in socks)'
      /\ (la = "returned" => socks = {"conn_fd"})'
      /\ (la = "failed" => socks = {})'
  <2>1. CASE InAccept(AcceptStep)
    <3>1. CASE MakeListener
        BY <3>1 DEF MakeListener, AcceptTypeOK
    <3>2. CASE BindListener
        BY <1>2, <3>2 DEF BindListener, AcceptTypeOK
    <3>3. CASE Listen
        BY <1>2, <3>3 DEF Listen, AcceptTypeOK
    <3>4. CASE Accept
        BY <1>2, <3>4 DEF Accept, AcceptTypeOK
    <3>5. CASE ReturnConnection
      <4>1. "conn_fd" \in socks
          BY <1>1, <3>5 DEF ReturnConnection, ReceiverInv, SocketsByStage
      <4>2. socks' = {"conn_fd"} /\ la' = "returned"
          BY <1>2, <3>5, <4>1 DEF ReturnConnection
      <4> QED
          BY <4>2 DEF AcceptTypeOK
    <3> QED
        BY <2>1, <3>1, <3>2, <3>3, <3>4, <3>5 DEF InAccept, AcceptStep
  <2>2. CASE InAccept(AcceptFails)
      BY <2>2 DEF InAccept, AcceptFails, AcceptTypeOK
  <2> QED
      BY <2>1, <2>2
<1>4. PoolReceiverTypeOK'
    BY <1>1, <1>3 DEF ReceiverInv, PoolReceiverTypeOK, DisplayTypeOK
<1>5. IsFiniteSet(ropen)' /\ HoldsNoMore' /\ PoolByStage' /\ PoolGone'
    BY <1>1
    DEF ReceiverInv, HoldsNoMore, PoolByStage, PoolGone, WithPool
<1>6. SocketsByStage' /\ WindowByStage'
    BY <1>1, <1>3 DEF ReceiverInv, SocketsByStage, WindowByStage
<1> QED
    BY <1>4, <1>5, <1>6 DEF ReceiverInv

(* The hello packet: the pool is made for a valid one.                     *)
LEMMA RecvPoolHelloKeeps ==
    ReceiverInv /\ hello \in Seq(stream_hello) /\ (RecvHello \/ CallocFails)
        => ReceiverInv'
<1> SUFFICES ASSUME ReceiverInv, hello \in Seq(stream_hello),
                    RecvHello \/ CallocFails
             PROVE  ReceiverInv'
    OBVIOUS
<1>1. /\ rpc = "hello" /\ hello # <<>> /\ params' = Head(hello) /\ j' = 0
      /\ program' = program /\ ropen' = ropen /\ rmaps' = rmaps
      /\ rkilled' = rkilled /\ la' = la /\ socks' = socks
      /\ objects' = objects /\ display_ok' = display_ok
    BY DEF RecvHello, CallocFails, rpoolVars, acceptVars, displayVars
<1>2. \/ /\ ParamsValid(params') /\ rpc' = "alloc"
         /\ rbufs' = NewPool(params'.buffer_count, 0)
      \/ rpc' = "cleanup" /\ rbufs' = rbufs
    BY DEF RecvHello, CallocFails, rpoolVars
<1>3. params' \in stream_hello /\ params'.buffer_count \in Nat
  <2>1. Head(hello) \in stream_hello
      BY <1>1, HeadTailProperties
  <2> QED
      BY <1>1, <2>1 DEF stream_hello
<1>4. /\ rbufs = NoPool /\ ropen = {Stdin} /\ ~rkilled /\ rmaps = 0
      /\ socks = {"conn_fd"} /\ objects = {} /\ ~display_ok
  <2>1. /\ rbufs = NoPool /\ ropen = {Stdin} /\ ~rkilled
        /\ socks = {"conn_fd"} /\ objects = {} /\ ~display_ok
      BY <1>1 DEF ReceiverInv, PoolGone, SocketsByStage, WindowByStage
  <2>2. rmaps = 0
      BY <2>1, NoPoolIsEmpty, FS_EmptySet DEF ReceiverInv, HoldsNoMore
  <2> QED
      BY <2>1, <2>2
<1>5. CASE /\ ParamsValid(params') /\ rpc' = "alloc"
           /\ rbufs' = NewPool(params'.buffer_count, 0)
  <2> DEFINE n == params'.buffer_count
  <2>1. n \in Nat /\ n > 0
      BY <1>3, <1>5 DEF ParamsValid
  <2>2. /\ rbufs' \in Pool(n) /\ PoolMaps(rbufs') = {}
        /\ PoolFds(rbufs') \subseteq {0}
        /\ DOMAIN rbufs' = 0..(n - 1)
        /\ \A k \in 0..(n - 1) : rbufs'[k].fd = 0 /\ ~rbufs'[k].mapped
    <3> HIDE DEF n
    <3>1. /\ NewPool(n, 0) \in Pool(n) /\ PoolMaps(NewPool(n, 0)) = {}
          /\ PoolFds(NewPool(n, 0)) \subseteq {0} \ {-1}
          /\ \A k \in 0..(n - 1) :
                /\ NewPool(n, 0)[k].fd = 0
                /\ ~NewPool(n, 0)[k].mapped
        BY <2>1, NewPoolOf
    <3>2. rbufs' = NewPool(n, 0)
        BY <1>5 DEF n
    <3>3. DOMAIN NewPool(n, 0) = 0..(n - 1)
        BY DEF NewPool
    <3> QED
        BY <3>1, <3>2, <3>3
  <2>3. PoolReceiverTypeOK'
    <3>1. \E m \in {0, params.buffer_count}' :
              rbufs' \in [0..(m - 1) -> buffer_ctx]
        BY <2>2 DEF Pool
    <3> QED
        BY <1>1, <1>3, <1>5, <2>1, <3>1
        DEF ReceiverInv, PoolReceiverTypeOK, AcceptTypeOK, DisplayTypeOK
  <2>4. IsFiniteSet(ropen)' /\ HoldsNoMore'
      BY <1>1, <1>4, <2>2, FS_EmptySet DEF ReceiverInv, HoldsNoMore
  <2>5. PoolByStage'
      BY <1>1, <1>4, <1>5, <2>1, <2>2
      DEF PoolByStage, WithPool, Opened, Mapped, Stdin
  <2>6. PoolGone' /\ SocketsByStage' /\ WindowByStage'
      BY <1>1, <1>4, <1>5 DEF PoolGone, SocketsByStage, WindowByStage
  <2> QED
      BY <2>3, <2>4, <2>5, <2>6 DEF ReceiverInv
<1>6. CASE rpc' = "cleanup" /\ rbufs' = rbufs
  <2>1. PoolReceiverTypeOK'
    <3>1. \E m \in {0, params.buffer_count}' :
              rbufs' \in [0..(m - 1) -> buffer_ctx]
        BY <1>4, <1>6, NoPoolIsEmpty DEF Pool
    <3> QED
        BY <1>1, <1>3, <1>6, <3>1
        DEF ReceiverInv, PoolReceiverTypeOK, AcceptTypeOK, DisplayTypeOK
  <2>2. IsFiniteSet(ropen)' /\ HoldsNoMore'
      BY <1>1, <1>6 DEF ReceiverInv, HoldsNoMore
  <2>3. PoolByStage' /\ PoolGone' /\ SocketsByStage' /\ WindowByStage'
      BY <1>1, <1>4, <1>6
      DEF PoolByStage, WithPool, PoolGone, SocketsByStage, WindowByStage
  <2> QED
      BY <2>1, <2>2, <2>3 DEF ReceiverInv
<1> QED
    BY <1>2, <1>5, <1>6

(* A dmabuf for the entry in hand: never descriptor 0, which is in use.    *)
LEMMA AllocInPoolKeeps == ReceiverInv /\ AllocInPool => ReceiverInv'
<1> SUFFICES ASSUME ReceiverInv, AllocInPool PROVE ReceiverInv'
    OBVIOUS
<1> DEFINE fd == alloc_dmabuf_from_heap(ropen)
           n == params.buffer_count
<1>1. /\ rpc = "alloc" /\ rpc' = "map" /\ program' = program
      /\ rbufs' = [rbufs EXCEPT ![j].fd = fd] /\ ropen' = ropen \cup {fd}
      /\ params' = params /\ j' = j /\ rmaps' = rmaps
      /\ rkilled' = rkilled /\ la' = la /\ socks' = socks
      /\ objects' = objects /\ display_ok' = display_ok
    BY DEF AllocInPool, acceptVars, displayVars
<1>2. fd \in Nat \ ropen /\ IsFiniteSet(ropen \cup {fd})
    BY HeapGivesFresh, FS_AddElement DEF ReceiverInv
<1> HIDE DEF fd
<1>3. /\ n \in Nat \ {0} /\ ~rkilled /\ rbufs \in Pool(n)
      /\ DOMAIN rbufs = 0..(n - 1)
    BY <1>1, PoolOfParams DEF WithPool
<1>4. /\ j \in 0..(n - 1) /\ ParamsValid(params)
      /\ \A k \in 0..(n - 1) :
            /\ k < j => rbufs[k].fd # -1 /\ rbufs[k].fd # Stdin
            /\ k >= j => rbufs[k].fd = Stdin
            /\ rbufs[k].mapped <=> k < j
      /\ \A k, l \in 0..(n - 1) :
            k < j /\ l < j /\ rbufs[k].fd = rbufs[l].fd => k = l
      /\ ropen = {Stdin} \cup PoolFds(rbufs)
      /\ rmaps = Cardinality(PoolMaps(rbufs))
  <2>1. rpc \in WithPool /\ Opened = j /\ Mapped = j
      BY <1>1 DEF WithPool, Opened, Mapped
  <2>2. j \in 0..n
      BY DEF ReceiverInv, PoolReceiverTypeOK
  <2> QED
      BY <1>1, <1>3, <2>1, <2>2
      DEF ReceiverInv, PoolByStage, HoldsNoMore
<1> HIDE DEF n
<1>5. /\ DOMAIN rbufs' = 0..(n - 1) /\ rbufs'[j].fd = fd
      /\ rbufs' \in Pool(n)
      /\ \A k \in 0..(n - 1) : k # j => rbufs'[k] = rbufs[k]
      /\ \A k \in 0..(n - 1) : rbufs'[k].mapped = rbufs[k].mapped
    BY <1>1, <1>2, <1>3, <1>4 DEF Pool, buffer_ctx
<1>6. PoolMaps(rbufs') = PoolMaps(rbufs)
    BY <1>3, <1>5 DEF PoolMaps
<1>7. ropen' = {Stdin} \cup PoolFds(rbufs')
  <2>1. \A x : x \in PoolFds(rbufs') => x = fd \/ x \in PoolFds(rbufs)
      BY <1>3, <1>5 DEF PoolFds
  <2>2. \A x : x \in PoolFds(rbufs) => x = Stdin \/ x \in PoolFds(rbufs')
      BY <1>3, <1>4, <1>5 DEF PoolFds
  <2>3. fd \in PoolFds(rbufs')
      BY <1>2, <1>4, <1>5 DEF PoolFds
  <2> QED
      BY <1>1, <1>4, <2>1, <2>2, <2>3
<1>8. \A k \in 0..(n - 1) : k < j => rbufs[k].fd \in ropen
    BY <1>3, <1>4 DEF PoolFds
<1>9. PoolReceiverTypeOK'
  <2>1. \E m \in {0, params.buffer_count}' :
            rbufs' \in [0..(m - 1) -> buffer_ctx]
      BY <1>1, <1>5 DEF Pool, n
  <2> QED
      BY <1>1, <1>2, <2>1
      DEF ReceiverInv, PoolReceiverTypeOK, AcceptTypeOK, DisplayTypeOK
<1>10. IsFiniteSet(ropen)' /\ HoldsNoMore'
    BY <1>1, <1>2, <1>4, <1>6, <1>7 DEF HoldsNoMore
<1>11. PoolByStage'
  <2>1. Opened' = j + 1 /\ Mapped' = j
      BY <1>1 DEF Opened, Mapped
  <2>2. \A k \in 0..(n - 1) :
            /\ k < j + 1 => rbufs'[k].fd # -1 /\ rbufs'[k].fd # Stdin
            /\ k >= j + 1 => rbufs'[k].fd = Stdin
            /\ rbufs'[k].mapped <=> k < j
      BY <1>2, <1>4, <1>5
  <2>3. \A k, l \in 0..(n - 1) :
            k < j + 1 /\ l < j + 1 /\ rbufs'[k].fd = rbufs'[l].fd => k = l
      BY <1>2, <1>4, <1>5, <1>8
  <2>4. params'.buffer_count = n /\ ParamsValid(params') /\ j' < n
      BY <1>1, <1>3, <1>4 DEF n
  <2> HIDE DEF n
  <2> QED
      BY <1>4, <1>5, <1>7, <2>1, <2>2, <2>3, <2>4 DEF PoolByStage
<1>12. PoolGone' /\ SocketsByStage' /\ WindowByStage'
    BY <1>1 DEF ReceiverInv, PoolGone, SocketsByStage, WindowByStage
<1> QED
    BY <1>9, <1>10, <1>11, <1>12 DEF ReceiverInv

(* Its mapping, after which the next entry has its turn, or the output.    *)
LEMMA MapInPoolKeeps == ReceiverInv /\ MapInPool => ReceiverInv'
<1> SUFFICES ASSUME ReceiverInv, MapInPool PROVE ReceiverInv'
    OBVIOUS
<1> DEFINE n == params.buffer_count
<1>1. /\ rpc = "map" /\ rbufs' = [rbufs EXCEPT ![j].mapped = TRUE]
      /\ rmaps' = rmaps + 1 /\ program' = program /\ ropen' = ropen
      /\ params' = params /\ rkilled' = rkilled /\ la' = la
      /\ socks' = socks /\ objects' = objects /\ display_ok' = display_ok
    BY DEF MapInPool, acceptVars, displayVars
<1>2. \/ j + 1 < n /\ j' = j + 1 /\ rpc' = "alloc"
      \/ /\ ~(j + 1 < n) /\ j' = 0
         /\ \/ program = "receiver" /\ rpc' = "output"
            \/ program # "receiver" /\ rpc' = "display"
    BY DEF MapInPool
<1>3. /\ n \in Nat \ {0} /\ ~rkilled /\ rbufs \in Pool(n)
      /\ DOMAIN rbufs = 0..(n - 1)
    BY <1>1, PoolOfParams DEF WithPool
<1>4. /\ j \in 0..(n - 1) /\ ParamsValid(params)
      /\ \A k \in 0..(n - 1) :
            /\ k < j + 1 => rbufs[k].fd # -1 /\ rbufs[k].fd # Stdin
            /\ k >= j + 1 => rbufs[k].fd = Stdin
            /\ rbufs[k].mapped <=> k < j
      /\ \A k, l \in 0..(n - 1) :
            k < j + 1 /\ l < j + 1 /\ rbufs[k].fd = rbufs[l].fd => k = l
      /\ ropen = {Stdin} \cup PoolFds(rbufs)
      /\ rmaps = Cardinality(PoolMaps(rbufs))
  <2>1. rpc \in WithPool /\ Opened = j + 1 /\ Mapped = j
      BY <1>1 DEF WithPool, Opened, Mapped
  <2>2. j \in 0..n
      BY DEF ReceiverInv, PoolReceiverTypeOK
  <2> QED
      BY <1>1, <1>3, <2>1, <2>2
      DEF ReceiverInv, PoolByStage, HoldsNoMore
<1> HIDE DEF n
<1>5. /\ DOMAIN rbufs' = 0..(n - 1) /\ rbufs'[j].mapped
      /\ rbufs' \in Pool(n)
      /\ \A k \in 0..(n - 1) : k # j => rbufs'[k] = rbufs[k]
      /\ \A k \in 0..(n - 1) : rbufs'[k].fd = rbufs[k].fd
    BY <1>1, <1>3, <1>4 DEF Pool, buffer_ctx
<1>6. Cardinality(PoolMaps(rbufs')) = rmaps + 1 /\ rmaps \in Nat
  <2>1. PoolMaps(rbufs') = PoolMaps(rbufs) \cup {j}
        /\ j \notin PoolMaps(rbufs)
      BY <1>3, <1>4, <1>5 DEF PoolMaps
  <2>2. /\ IsFiniteSet(PoolMaps(rbufs))
        /\ Cardinality(PoolMaps(rbufs)) \in Nat
      BY <1>3, MapsFinite
  <2> QED
      BY <1>4, <2>1, <2>2, FS_AddElement
<1>7. PoolFds(rbufs') = PoolFds(rbufs)
    BY <1>3, <1>5 DEF PoolFds
<1>8. PoolReceiverTypeOK'
  <2>1. \E m \in {0, params.buffer_count}' :
            rbufs' \in [0..(m - 1) -> buffer_ctx]
      BY <1>1, <1>5 DEF Pool, n
  <2>2. j' \in 0..n
      BY <1>2, <1>3, <1>4
  <2>3. rpc' \in {"alloc", "output", "display"}
      BY <1>2
  <2> QED
      BY <1>1, <1>6, <2>1, <2>2, <2>3
      DEF ReceiverInv, PoolReceiverTypeOK, AcceptTypeOK, DisplayTypeOK, n
<1>9. IsFiniteSet(ropen)' /\ HoldsNoMore'
    BY <1>1, <1>4, <1>6, <1>7 DEF ReceiverInv, HoldsNoMore
<1>10. PoolByStage'
  <2>1. \A k \in 0..(n - 1) :
            /\ k < j + 1 => rbufs'[k].fd # -1 /\ rbufs'[k].fd # Stdin
            /\ k >= j + 1 => rbufs'[k].fd = Stdin
            /\ rbufs'[k].mapped <=> k < j + 1
      BY <1>4, <1>5
  <2>2. \A k, l \in 0..(n - 1) :
            k < j + 1 /\ l < j + 1 /\ rbufs'[k].fd = rbufs'[l].fd => k = l
      BY <1>4, <1>5
  <2>3. Opened' = j + 1 /\ Mapped' = j + 1
    <3>1. CASE j + 1 < n
        BY <1>2, <3>1 DEF Opened, Mapped
    <3>2. CASE ~(j + 1 < n)
      <4>1. n = j + 1
          BY <1>3, <1>4, <3>2
      <4> QED
          BY <1>1, <1>2, <3>2, <4>1 DEF Opened, Mapped, n
    <3> QED
        BY <3>1, <3>2
  <2>4. rpc' \in {"alloc", "map"} => j' < n
      BY <1>2, <1>4
  <2> QED
      BY <1>1, <1>4, <1>5, <1>7, <2>1, <2>2, <2>3, <2>4
      DEF PoolByStage, ParamsValid, n
<1>11. PoolGone' /\ SocketsByStage'
    BY <1>1, <1>2 DEF ReceiverInv, PoolGone, SocketsByStage
<1>12. WindowByStage'
    BY <1>1, <1>2 DEF ReceiverInv, WindowByStage
<1> QED
    BY <1>8, <1>9, <1>10, <1>11, <1>12 DEF ReceiverInv

(* Closing what the array names leaves no more than standard input; an     *)
(* entry that was not reached names that too, and closes it.               *)
LEMMA FreedPool ==
    ASSUME NEW n \in Nat, NEW pool \in Pool(n), NEW S,
           S \subseteq {Stdin} \cup PoolFds(pool)
    PROVE  /\ S \ PoolFds(pool) \subseteq {Stdin}
           /\ Cardinality(PoolMaps(pool)) - Cardinality(PoolMaps(pool)) = 0
<1>1. Cardinality(PoolMaps(pool)) \in Nat
    BY MapsFinite
<1> QED
    BY <1>1

LEMMA SetupFailsKeeps ==
    ReceiverInv /\ (AllocFails \/ MapFails) => ReceiverInv'
<1> SUFFICES ASSUME ReceiverInv, AllocFails \/ MapFails PROVE ReceiverInv'
    OBVIOUS
<1> DEFINE n == params.buffer_count
<1>1. /\ rpc \in {"alloc", "map"} /\ rpc' = "cleanup" /\ rbufs' = NoPool
      /\ program' = program /\ params' = params /\ j' = j
      /\ rkilled' = rkilled /\ la' = la /\ socks' = socks
      /\ objects' = objects /\ display_ok' = display_ok
    BY DEF AllocFails, MapFails, FreeFailedPool, FreePool, acceptVars,
           displayVars
<1>2. /\ n \in Nat \ {0} /\ ~rkilled /\ rbufs \in Pool(n)
      /\ DOMAIN rbufs = 0..(n - 1)
    BY <1>1, PoolOfParams DEF WithPool
<1>3. /\ ropen = {Stdin} \cup PoolFds(rbufs)
      /\ rmaps = Cardinality(PoolMaps(rbufs))
    BY <1>1, <1>2 DEF ReceiverInv, PoolByStage, HoldsNoMore, WithPool
<1>4. ropen' \subseteq {Stdin} /\ rmaps' = 0
  <2>1. CASE MapFails
    <3>1. /\ ropen' = ropen \ PoolFds(rbufs)
          /\ rmaps' = rmaps - Cardinality(PoolMaps(rbufs))
        BY <2>1 DEF MapFails, FreeFailedPool, FreePool
    <3> QED
        BY <1>2, <1>3, <3>1, FreedPool
  <2>2. CASE AllocFails
    <3> DEFINE pool == [rbufs EXCEPT ![j].fd = -1]
    <3>1. /\ ropen' = ropen \ PoolFds(pool)
          /\ rmaps' = rmaps - Cardinality(PoolMaps(pool))
        BY <2>2 DEF AllocFails, FreeFailedPool, FreePool
    <3>2. /\ rpc = "alloc" /\ j \in 0..(n - 1) /\ rbufs[j].fd = Stdin
      <4>1. rpc = "alloc" /\ rpc \in WithPool /\ Opened = j
          BY <2>2 DEF AllocFails, WithPool, Opened
      <4>2. j \in 0..(n - 1)
          BY <1>2, <4>1
          DEF ReceiverInv, PoolByStage, PoolReceiverTypeOK
      <4> QED
          BY <1>2, <4>1, <4>2 DEF ReceiverInv, PoolByStage
    <3>3. /\ pool \in Pool(n) /\ DOMAIN pool = 0..(n - 1)
          /\ \A k \in 0..(n - 1) : k # j => pool[k] = rbufs[k]
          /\ \A k \in 0..(n - 1) : pool[k].mapped = rbufs[k].mapped
        BY <1>2, <3>2 DEF Pool, buffer_ctx
    <3> HIDE DEF pool, n
    <3>4. PoolMaps(pool) = PoolMaps(rbufs)
        BY <1>2, <3>3 DEF PoolMaps
    <3>5. ropen \subseteq {Stdin} \cup PoolFds(pool)
      <4>1. \A x : x \in PoolFds(rbufs) => x = Stdin \/ x \in PoolFds(pool)
          BY <1>2, <3>2, <3>3 DEF PoolFds
      <4> QED
          BY <1>3, <4>1
    <3> QED
        BY <1>2, <1>3, <3>1, <3>3, <3>4, <3>5, FreedPool
  <2> QED
      BY <2>1, <2>2
<1>5. PoolReceiverTypeOK'
  <2>1. \E m \in {0, params.buffer_count}' :
            rbufs' \in [0..(m - 1) -> buffer_ctx]
      BY <1>1, NoPoolIsEmpty DEF Pool
  <2>2. ropen' \subseteq Nat /\ rmaps' \in Nat
      BY <1>4 DEF Stdin
  <2> QED
      BY <1>1, <2>1, <2>2
      DEF ReceiverInv, PoolReceiverTypeOK, AcceptTypeOK, DisplayTypeOK
<1>6. IsFiniteSet(ropen)' /\ HoldsNoMore'
  <2>1. IsFiniteSet(ropen')
      BY <1>4, FS_Singleton, FS_Subset
  <2> QED
      BY <1>1, <1>4, <2>1, NoPoolIsEmpty, FS_EmptySet DEF HoldsNoMore
<1>7. PoolByStage' /\ PoolGone' /\ SocketsByStage' /\ WindowByStage'
    BY <1>1
    DEF ReceiverInv, PoolByStage, WithPool, PoolGone, SocketsByStage,
        WindowByStage
<1> QED
    BY <1>5, <1>6, <1>7 DEF ReceiverInv

(* display_init has an object left to make.                                *)
LEMMA ObjectLeft ==
    ASSUME objects \subseteq AllObjects, objects # AllObjects
    PROVE  SdlObjects[Cardinality(objects) + 1] \in AllObjects
<1>1. /\ DOMAIN SdlObjects = 1..4
      /\ AllObjects = {"SDL", "window", "renderer", "texture"}
  <2>1. DOMAIN SdlObjects = 1..4
      BY DEF SdlObjects
  <2>2. /\ SdlObjects[1] = "SDL" /\ SdlObjects[2] = "window"
        /\ SdlObjects[3] = "renderer" /\ SdlObjects[4] = "texture"
      BY DEF SdlObjects
  <2>3. 1..4 = {1, 2, 3, 4}
      OBVIOUS
  <2> QED
      BY <2>1, <2>2, <2>3 DEF AllObjects
<1>2. IsFiniteSet(AllObjects) /\ Cardinality(AllObjects) = 4
  <2> DEFINE A1 == {"SDL"}
             A2 == A1 \cup {"window"}
             A3 == A2 \cup {"renderer"}
             A4 == A3 \cup {"texture"}
  <2>1. IsFiniteSet(A1) /\ Cardinality(A1) = 1
      BY FS_Singleton
  <2>2. IsFiniteSet(A2) /\ Cardinality(A2) = 2
      BY <2>1, FS_AddElement
  <2>3. IsFiniteSet(A3) /\ Cardinality(A3) = 3
      BY <2>2, FS_AddElement
  <2>4. IsFiniteSet(A4) /\ Cardinality(A4) = 4
      BY <2>3, FS_AddElement
  <2>5. AllObjects = A4
      BY <1>1
  <2> QED
      BY <2>4, <2>5
<1>3. /\ Cardinality(objects) \in Nat
      /\ Cardinality(objects) < Cardinality(AllObjects)
    BY <1>2, FS_Subset, FS_CardinalityType
<1>4. Cardinality(objects) + 1 \in DOMAIN SdlObjects
    BY <1>1, <1>2, <1>3
<1> QED
    BY <1>4 DEF AllObjects

LEMMA OpenWindowKeeps == ReceiverInv /\ OpenDisplay => ReceiverInv'
<1> SUFFICES ASSUME ReceiverInv, OpenDisplay PROVE ReceiverInv'
    OBVIOUS
<1>1. /\ rpc = "display" /\ rpc' \in {"display", "loop"}
      /\ rpc' = "loop" <=> display_ok'
      /\ objects # AllObjects
      /\ objects' = objects \cup {SdlObjects[Cardinality(objects) + 1]}
      /\ display_ok' = (objects' = AllObjects)
      /\ program' = program /\ params' = params /\ j' = j
      /\ rbufs' = rbufs /\ ropen' = ropen /\ rmaps' = rmaps
      /\ rkilled' = rkilled /\ la' = la /\ socks' = socks
    BY DEF OpenDisplay, CreateObject, rpoolVars, acceptVars
<1>2. DisplayTypeOK'
  <2>1. objects \subseteq AllObjects
      BY DEF ReceiverInv, PoolReceiverTypeOK, DisplayTypeOK
  <2>2. display_ok' \in BOOLEAN
      BY <1>1
  <2> QED
      BY <1>1, <2>1, <2>2, ObjectLeft DEF DisplayTypeOK
<1>3. PoolReceiverTypeOK'
    BY <1>1, <1>2 DEF ReceiverInv, PoolReceiverTypeOK, AcceptTypeOK
<1>4. IsFiniteSet(ropen)' /\ HoldsNoMore'
    BY <1>1 DEF ReceiverInv, HoldsNoMore
<1>5. PoolByStage'
    BY <1>1 DEF ReceiverInv, PoolByStage, WithPool, Opened, Mapped
<1>6. PoolGone' /\ SocketsByStage'
    BY <1>1 DEF ReceiverInv, PoolGone, SocketsByStage
<1>7. WindowByStage'
    BY <1>1 DEF WindowByStage
<1> QED
    BY <1>3, <1>4, <1>5, <1>6, <1>7 DEF ReceiverInv

LEMMA RecvCleanupKeeps == ReceiverInv /\ RecvCleanup => ReceiverInv'
<1> SUFFICES ASSUME ReceiverInv, RecvCleanup PROVE ReceiverInv'
    OBVIOUS
<1>1. /\ rpc = "cleanup" /\ rpc' = "done" /\ rbufs' = NoPool
      /\ ropen' = ropen \ PoolFds(rbufs)
      /\ rmaps' = rmaps - Cardinality(PoolMaps(rbufs))
      /\ socks' = socks \ {"conn_fd"}
      /\ objects' = (IF display_ok THEN {} ELSE objects)
      /\ display_ok' = display_ok /\ program' = program
      /\ params' = params /\ j' = j /\ rkilled' = rkilled /\ la' = la
    BY DEF RecvCleanup, DisplayDestroy, FreePool
<1>2. ~rkilled /\ socks = {"conn_fd"}
    BY <1>1 DEF ReceiverInv, PoolGone, SocketsByStage
<1>3. ropen' \subseteq {Stdin} /\ rmaps' = 0
  <2>1. PICK n \in {0, params.buffer_count} :
            rbufs \in [0..(n - 1) -> buffer_ctx]
      BY DEF ReceiverInv, PoolReceiverTypeOK
  <2>2. n \in Nat /\ rbufs \in Pool(n)
      BY <2>1 DEF Pool, ReceiverInv, PoolReceiverTypeOK, stream_hello
  <2>3. /\ ropen \subseteq {Stdin} \cup PoolFds(rbufs)
        /\ rmaps = Cardinality(PoolMaps(rbufs))
      BY <1>2 DEF ReceiverInv, HoldsNoMore
  <2> QED
      BY <1>1, <2>2, <2>3, FreedPool
<1>4. PoolReceiverTypeOK'
  <2>1. \E m \in {0, params.buffer_count}' :
            rbufs' \in [0..(m - 1) -> buffer_ctx]
      BY <1>1, NoPoolIsEmpty DEF Pool
  <2>2. ropen' \subseteq Nat /\ rmaps' \in Nat
      BY <1>3 DEF Stdin
  <2>3. objects' \subseteq AllObjects
      BY <1>1 DEF ReceiverInv, PoolReceiverTypeOK, DisplayTypeOK
  <2> QED
      BY <1>1, <2>1, <2>2, <2>3
      DEF ReceiverInv, PoolReceiverTypeOK, AcceptTypeOK, DisplayTypeOK
<1>5. IsFiniteSet(ropen)' /\ HoldsNoMore'
  <2>1. IsFiniteSet(ropen')
      BY <1>3, FS_Singleton, FS_Subset
  <2> QED
      BY <1>1, <1>3, <2>1, NoPoolIsEmpty, FS_EmptySet DEF HoldsNoMore
<1>6. PoolByStage' /\ PoolGone' /\ SocketsByStage' /\ WindowByStage'
    BY <1>1, <1>2
    DEF PoolByStage, WithPool, PoolGone, SocketsByStage, WindowByStage
<1> QED
    BY <1>4, <1>5, <1>6 DEF ReceiverInv

LEMMA ReceiverKilledKeeps == ReceiverInv /\ ReceiverKilled => ReceiverInv'
<1> SUFFICES ASSUME ReceiverInv, ReceiverKilled PROVE ReceiverInv'
    OBVIOUS
<1>1. /\ rpc' = "done" /\ ropen' = {} /\ rmaps' = 0 /\ socks' = {}
      /\ objects' = {} /\ rkilled' = TRUE /\ rbufs' = rbufs
      /\ display_ok' = display_ok /\ program' = program
      /\ params' = params /\ j' = j /\ la' = la
    BY DEF ReceiverKilled
<1>2. PoolReceiverTypeOK'
    BY <1>1
    DEF ReceiverInv, PoolReceiverTypeOK, AcceptTypeOK, DisplayTypeOK
<1>3. IsFiniteSet(ropen)' /\ HoldsNoMore'
    BY <1>1, FS_EmptySet DEF HoldsNoMore
<1>4. PoolByStage' /\ PoolGone' /\ SocketsByStage' /\ WindowByStage'
    BY <1>1
    DEF PoolByStage, WithPool, PoolGone, SocketsByStage, WindowByStage
<1> QED
    BY <1>2, <1>3, <1>4 DEF ReceiverInv

LEMMA ReceiverUntouched ==
    ReceiverInv /\ UNCHANGED poolReceiverVars => ReceiverInv'
BY DEF ReceiverInv, poolReceiverVars, rpoolVars, acceptVars, displayVars,
       PoolReceiverTypeOK, AcceptTypeOK, DisplayTypeOK, PoolByStage,
       HoldsNoMore, PoolGone, SocketsByStage, WindowByStage, Opened, Mapped

LEMMA ReceiverKeeps ==
    ReceiverInv /\ hello \in Seq(stream_hello) /\ PoolReceiverNext
        => ReceiverInv'
<1> SUFFICES ASSUME ReceiverInv, hello \in Seq(stream_hello),
                    PoolReceiverNext
             PROVE  ReceiverInv'
    OBVIOUS
<1>1. CASE Accepted \/ NotAccepted
    BY <1>1, ReceiverGoes DEF Accepted, NotAccepted
<1>2. CASE RecvHelloFails \/ OutputFails \/ RecvLoopEnds \/ OpenOutput
    BY <1>2, ReceiverGoes
    DEF RecvHelloFails, OutputFails, RecvLoopEnds, OpenOutput
<1> QED
    BY <1>1, <1>2, InAcceptKeeps, RecvPoolHelloKeeps, AllocInPoolKeeps,
       MapInPoolKeeps, SetupFailsKeeps, OpenWindowKeeps, RecvCleanupKeeps,
       ReceiverKilledKeeps
    DEF PoolReceiverNext, PoolReceiverStep, RecvLoopSeesEnd

-----------------------------------------------------------------------------
(* The connection and the hello packet                                     *)

LEMMA HelloStart == Init => HelloInv
<1> SUFFICES ASSUME Init PROVE HelloInv
    OBVIOUS
<1>1. /\ conn = "none" /\ closed = {} /\ hello = <<>> /\ spc = "open"
      /\ rpc = "accept"
    BY DEF Init, HelloLinkInit, ConnInit, PipelineInit, PoolReceiverInit
<1>2. hello \in Seq(stream_hello)
    BY <1>1, EmptySeq
<1> QED
    BY <1>1, <1>2
    DEF HelloInv, HelloLinkTypeOK, ConnTypeOK, BeforeHello, NoArray,
        WithPool

(* What the sender's steps do to the connection.                           *)
LEMMA SenderOnLink ==
    ASSUME PipelineNext
    PROVE  /\ conn' \in {conn, "established"}
           /\ closed' \subseteq closed \cup {"sender"}
           /\ \/ SendHello
              \/ /\ hello' = hello /\ spc' # "loop"
                 /\ spc' \in BeforeHello => spc \in BeforeHello
<1>1. CASE PipelineStep \/ LoopEnds
    BY <1>1
    DEF PipelineStep, OpenCapture, SetupFormat, FormatFails, RequestDmabuf,
        RequestMmap, Request, AllocDmabuf, MapDmabuf, DmabufFails, MapMmap,
        ExportMmap, MmapFails, Prime, PrimeFallsBack, PrimeFails, StreamOn,
        StreamOnFails, Connect, ConnectFails, SendHello, HelloFails,
        LoopSeesEnd, LoopEnds, OutStreamOff, OutClose, OutCleanup,
        SetupGotoOut, Advance, AfterDmabufFailure, CloseEnd, helloLinkVars,
        connVars, BeforeHello, NoArray, Building
<1>2. CASE SenderKilled
    BY <1>2 DEF SenderKilled, CloseEnd, BeforeHello, NoArray, Building
<1> QED
    BY <1>1, <1>2 DEF PipelineNext

LEMMA SenderKeepsHello ==
    SenderInv /\ HelloInv /\ PipelineNext /\ UNCHANGED poolReceiverVars
        => HelloInv'
<1> SUFFICES ASSUME SenderInv, HelloInv, PipelineNext,
                    UNCHANGED poolReceiverVars
             PROVE  HelloInv'
    OBVIOUS
<1>1. rpc' = rpc /\ params' = params
    BY DEF poolReceiverVars
<1>2. ConnTypeOK'
    BY SenderOnLink DEF HelloInv, HelloLinkTypeOK, ConnTypeOK
<1>3. CASE SendHello
  <2>1. /\ spc = "hello" /\ spc' = "loop" /\ buffers' = buffers
        /\ sizeimage' = sizeimage /\ hello' = Append(hello, Announced)
      BY <1>3 DEF SendHello, cfgVars, Announced, HelloCount
  <2>2. hello = <<>> /\ rpc \notin WithPool
      BY <2>1 DEF HelloInv, BeforeHello
  <2>3. Announced \in stream_hello /\ Announced' = Announced
      BY <2>1 DEF Announced, stream_hello, SenderInv, PipelineTypeOK
  <2>4. hello \in Seq(stream_hello) /\ Len(hello) = 0
      BY <2>2, EmptySeq
  <2>5. /\ hello' \in Seq(stream_hello) /\ Len(hello') = 1
        /\ hello'[1] = Announced
      BY <2>1, <2>3, <2>4, AppendProperties
  <2>6. \A k \in DOMAIN hello' : hello'[k] = Announced'
    <3>1. DOMAIN hello' = 1..1
        BY <2>5, LenProperties
    <3> QED
        BY <2>3, <2>5, <3>1
  <2> QED
      BY <1>1, <1>2, <2>1, <2>2, <2>5, <2>6
      DEF HelloInv, HelloLinkTypeOK, BeforeHello, NoArray, Building
<1>4. CASE /\ hello' = hello /\ spc' # "loop"
           /\ spc' \in BeforeHello => spc \in BeforeHello
    BY <1>1, <1>2, <1>4 DEF HelloInv, HelloLinkTypeOK
<1> QED
    BY <1>3, <1>4, SenderOnLink

(* What the receiver's steps do to it.                                     *)
LEMMA ReceiverOnLink ==
    ASSUME PoolReceiverNext
    PROVE  /\ conn' \in {conn, "none", "listening"}
           /\ closed' \subseteq closed \cup {"receiver"}
           /\ \/ /\ hello # <<>> /\ hello' = Tail(hello)
                 /\ params' = Head(hello)
              \/ /\ hello' = hello /\ params' = params
                 /\ rpc' \in WithPool => rpc \in WithPool
<1>1. CASE InAccept(AcceptStep) \/ InAccept(AcceptFails)
    BY <1>1
    DEF InAccept, AcceptStep, AcceptFails, MakeListener, BindListener,
        Listen, Accept, ReturnConnection, ReceiverGone, CloseEnd, connVars
<1>2. CASE RecvHello \/ CallocFails
    BY <1>2 DEF RecvHello, CallocFails, connVars
<1>3. CASE RecvCleanup \/ ReceiverKilled
    BY <1>3
    DEF RecvCleanup, ReceiverKilled, ReceiverGone, CloseEnd, WithPool
<1>4. CASE \/ Accepted \/ NotAccepted \/ RecvHelloFails \/ AllocInPool
           \/ MapInPool \/ OpenDisplay \/ OpenOutput \/ RecvLoopEnds
           \/ AllocFails \/ MapFails \/ OutputFails
    BY <1>4
    DEF Accepted, NotAccepted, RecvHelloFails, AllocInPool, MapInPool,
        OpenDisplay, OpenOutput, RecvLoopEnds, AllocFails, MapFails,
        OutputFails, PoolGoto, helloLinkVars, connVars, WithPool
<1> QED
    BY <1>1, <1>2, <1>3, <1>4
    DEF PoolReceiverNext, PoolReceiverStep, RecvLoopSeesEnd

LEMMA ReceiverKeepsHello ==
    HelloInv /\ PoolReceiverNext /\ UNCHANGED pipelineVars => HelloInv'
<1> SUFFICES ASSUME HelloInv, PoolReceiverNext, UNCHANGED pipelineVars
             PROVE  HelloInv'
    OBVIOUS
<1>1. spc' = spc /\ Announced' = Announced
    BY DEF pipelineVars, cfgVars, Announced
<1>2. ConnTypeOK'
    BY ReceiverOnLink DEF HelloInv, HelloLinkTypeOK, ConnTypeOK
<1>3. CASE /\ hello # <<>> /\ hello' = Tail(hello)
           /\ params' = Head(hello)
  <2>1. spc \notin BeforeHello
      BY <1>3 DEF HelloInv
  <2>2. hello \in Seq(stream_hello)
      BY DEF HelloInv, HelloLinkTypeOK
  <2>3. /\ hello' \in Seq(stream_hello) /\ Len(hello') = Len(hello) - 1
        /\ Len(hello) \in Nat \ {0}
        /\ params' = hello[1]
        /\ \A k \in 1..(Len(hello) - 1) : hello'[k] = hello[k + 1]
      BY <1>3, <2>2, HeadTailProperties, LenProperties
  <2>4. DOMAIN hello' = 1..(Len(hello) - 1) /\ DOMAIN hello = 1..Len(hello)
      BY <2>2, <2>3, LenProperties
  <2>5. spc = "loop" =>
            /\ params' = Announced
            /\ \A k \in DOMAIN hello' : hello'[k] = Announced
      BY <2>3, <2>4 DEF HelloInv
  <2> QED
      BY <1>1, <1>2, <2>1, <2>3, <2>5 DEF HelloInv, HelloLinkTypeOK
<1>4. CASE /\ hello' = hello /\ params' = params
           /\ rpc' \in WithPool => rpc \in WithPool
    BY <1>1, <1>2, <1>4 DEF HelloInv, HelloLinkTypeOK
<1> QED
    BY <1>3, <1>4, ReceiverOnLink

-----------------------------------------------------------------------------
(* The theorems                                                            *)

LEMMA PoolsStart == Init => CopySetupInv
BY SenderStart, ReceiverStart, HelloStart DEF Init, CopySetupInv

LEMMA PoolsStep == CopySetupInv /\ [Next]_copySetupVars => CopySetupInv'
<1> SUFFICES ASSUME CopySetupInv, [Next]_copySetupVars PROVE CopySetupInv'
    OBVIOUS
<1>1. SenderInv /\ ReceiverInv /\ HelloInv
      /\ hello \in Seq(stream_hello)
    BY DEF CopySetupInv, HelloInv, HelloLinkTypeOK
<1>2. CASE PipelineNext /\ UNCHANGED poolReceiverVars
    BY <1>1, <1>2, SenderKeeps, ReceiverUntouched, SenderKeepsHello
    DEF CopySetupInv
<1>3. CASE PoolReceiverNext /\ UNCHANGED pipelineVars
    BY <1>1, <1>3, ReceiverKeeps, SenderUntouched, ReceiverKeepsHello
    DEF CopySetupInv
<1>4. CASE UNCHANGED copySetupVars
  <2>1. UNCHANGED pipelineVars /\ UNCHANGED poolReceiverVars
      BY <1>4 DEF copySetupVars
  <2>2. HelloInv'
      BY <1>1, <1>4
      DEF copySetupVars, pipelineVars, cfgVars, poolReceiverVars,
          helloLinkVars, connVars, HelloInv, HelloLinkTypeOK, ConnTypeOK,
          Announced
  <2> QED
      BY <1>1, <2>1, <2>2, SenderUntouched, ReceiverUntouched
      DEF CopySetupInv
<1> QED
    BY <1>2, <1>3, <1>4 DEF Next

(* CopySetupInv is inductive: at each stage of either program, what it has *)
(* open, mapped and queued is what its array says, and a receiver with a   *)
(* pool has the sender's sizes.                                            *)
THEOREM PoolsInvariant == Spec => []CopySetupInv
BY PoolsStart, PoolsStep, PTL DEF Spec

(* Every variable of the two setups keeps its type: the loop indices stay  *)
(* within the arrays, which have as many entries as REQBUFS granted or the *)
(* hello packet says.                                                      *)
THEOREM PoolsTypeCorrect == Spec => []TypeOK
<1>1. CopySetupInv => TypeOK
    BY DEF CopySetupInv, SenderInv, ReceiverInv, HelloInv, TypeOK
<1> QED
    BY <1>1, PoolsInvariant, PTL

(* The sender's array accounts for exactly what sender has open and        *)
(* mapped, through failures in the middle of a pool, two pools in a row    *)
(* and the exit (sender.c:250-318, 322-348, 609-623).                      *)
THEOREM SenderAlwaysAccounts == Spec => []SenderAccounts
<1>1. CopySetupInv => SenderAccounts
    BY DEF CopySetupInv, SenderInv
<1> QED
    BY <1>1, PoolsInvariant, PTL

(* A receiver that copies frames has a descriptor and a mapping for each   *)
(* buffer, and one that ended by itself has nothing left but what          *)
(* display_init made before it failed (receiver.c:90-144, 263-272).        *)
THEOREM ReceiverAlwaysAccounts == Spec => []ReceiverAccounts
<1>1. CopySetupInv => ReceiverAccounts
  <2> SUFFICES ASSUME CopySetupInv PROVE ReceiverAccounts
      OBVIOUS
  <2>1. ReceiverInv
      BY DEF CopySetupInv
  <2>2. ASSUME rpc \in {"display", "output", "loop"}
        PROVE  /\ Accounts(rbufs, ropen, rmaps)
               /\ \A k \in DOMAIN rbufs : rbufs[k].fd # -1
                                          /\ rbufs[k].mapped
               /\ socks = {"conn_fd"}
    <3> DEFINE n == params.buffer_count
    <3>1. /\ n \in Nat \ {0} /\ ~rkilled /\ DOMAIN rbufs = 0..(n - 1)
        BY <2>1, <2>2, PoolOfParams DEF WithPool
    <3>2. rpc \in WithPool /\ Opened = n /\ Mapped = n
        BY <2>2 DEF WithPool, Opened, Mapped
    <3>3. /\ \A k \in 0..(n - 1) : /\ rbufs[k].fd # -1
                                   /\ rbufs[k].fd # Stdin
                                   /\ rbufs[k].mapped
          /\ \A k, l \in 0..(n - 1) : rbufs[k].fd = rbufs[l].fd => k = l
          /\ ropen = {Stdin} \cup PoolFds(rbufs)
        BY <2>1, <3>1, <3>2 DEF ReceiverInv, PoolByStage
    <3>4. Stdin \notin PoolFds(rbufs)
        BY <3>1, <3>3 DEF PoolFds
    <3>5. rmaps = Cardinality(PoolMaps(rbufs)) /\ socks = {"conn_fd"}
        BY <2>1, <2>2, <3>1 DEF ReceiverInv, HoldsNoMore, SocketsByStage
    <3> QED
        BY <3>1, <3>3, <3>4, <3>5 DEF Accounts
  <2>3. rpc = "loop" /\ program = "receiver_sdl" => objects = AllObjects
      BY <2>1 DEF ReceiverInv, WindowByStage
  <2>4. ASSUME rpc = "done", ~rkilled
        PROVE  /\ ropen \subseteq {Stdin} /\ rmaps = 0 /\ socks = {}
               /\ objects = {} \/ ~display_ok
      BY <2>1, <2>4, NoPoolIsEmpty, FS_EmptySet
      DEF ReceiverInv, PoolGone, HoldsNoMore, SocketsByStage,
          WindowByStage
  <2> QED
      BY <2>2, <2>3, <2>4 DEF ReceiverAccounts
<1> QED
    BY <1>1, PoolsInvariant, PTL

(* Whichever way the pool came about, the stream runs on all of the        *)
(* driver's buffers, mapped, queued and of the memory type that QBUF and   *)
(* DQBUF name (sender.c:456-507).                                          *)
THEOREM AlwaysBacked == Spec => []StreamingBacked
<1>1. CopySetupInv => StreamingBacked
    BY DEF CopySetupInv, SenderInv, StreamingBacked, ArrayByStage,
           EntriesByStage, MemoryByStage, QueuedByStage, Primed, Backed
<1> QED
    BY <1>1, PoolsInvariant, PTL

(* With both programs in their loops the pools have the same size, so that *)
(* index % buffer_count (receiver.c:235) keeps the buffers apart, and each *)
(* receiver buffer holds a picture.                                        *)
THEOREM PoolsAlwaysFit == Spec => []PoolsFit
<1>1. CopySetupInv => PoolsFit
  <2> SUFFICES ASSUME CopySetupInv, spc = "loop", rpc = "loop"
               PROVE  /\ DOMAIN rbufs = DOMAIN bufs
                      /\ params.sizeimage = sizeimage /\ sizeimage > 0
      BY DEF PoolsFit
  <2>1. params = Announced
      BY DEF CopySetupInv, HelloInv, WithPool
  <2>2. DOMAIN bufs = 0..(buffers - 1)
      BY DEF CopySetupInv, SenderInv, ArrayByStage, WithArray, Primed
  <2>3. ParamsValid(params) /\ DOMAIN rbufs = 0..(params.buffer_count - 1)
      BY DEF CopySetupInv, ReceiverInv, PoolByStage, WithPool
  <2> QED
      BY <2>1, <2>2, <2>3 DEF Announced, ParamsValid
<1> QED
    BY <1>1, PoolsInvariant, PTL

LEMMA PoolChangesEarly ==
    ASSUME PipelineNext,
           spc \in {"connect", "hello", "loop", "streamoff", "close",
                    "cleanup", "done"}
    PROVE  /\ UNCHANGED <<buffers, sizeimage, mem, fallback_from_dmabuf>>
           /\ spc \notin {"cleanup", "done"} /\ ~skilled'
                  => UNCHANGED <<bufs, open, maps, drv>>
           /\ spc = "cleanup" => ~streaming'
BY DEF PipelineNext, PipelineStep, OpenCapture, SetupFormat, FormatFails,
       RequestDmabuf, RequestMmap, Request, AllocDmabuf, MapDmabuf,
       DmabufFails, MapMmap, ExportMmap, MmapFails, Prime, PrimeFallsBack,
       PrimeFails, StreamOn, StreamOnFails, Connect, ConnectFails, SendHello,
       HelloFails, LoopSeesEnd, OutStreamOff, OutClose, OutCleanup, LoopEnds,
       SenderKilled, SetupGotoOut, cfgVars, driverVars, poolVars,
       helloLinkVars

(* No pool is given up, made or exchanged under a running stream: neither  *)
(* the fallback nor a failure in the middle of a pool can follow STREAMON  *)
(* (sender.c:456-507).  And from the hello packet on, in flight or read,   *)
(* the number of buffers and the picture size it names stay the sender's,  *)
(* on the way out too (sender.c:518-528, 609-623).                         *)
THEOREM PoolFinalOnceStreaming ==
    Spec => [][/\ streaming /\ streaming'
                      => UNCHANGED <<buffers, sizeimage, mem, drv, bufs,
                                     open, maps, fallback_from_dmabuf>>
               /\ hello # <<>> \/ rpc \in WithPool
                      => UNCHANGED <<buffers, sizeimage>>]_copySetupVars
<1> DEFINE Streams ==
        streaming /\ streaming'
            => UNCHANGED <<buffers, sizeimage, mem, drv, bufs, open, maps,
                           fallback_from_dmabuf>>
           Announces ==
        hello # <<>> \/ rpc \in WithPool => UNCHANGED <<buffers, sizeimage>>
<1>1. ASSUME CopySetupInv, [Next]_copySetupVars
      PROVE  Streams /\ Announces
  <2>1. streaming => spc \in {"connect", "hello", "loop", "streamoff",
                              "close", "cleanup"}
      BY <1>1 DEF CopySetupInv, SenderInv, QueuedByStage
  <2>2. hello # <<>> \/ rpc \in WithPool
            => spc \in {"loop", "streamoff", "close", "cleanup", "done"}
      BY <1>1 DEF CopySetupInv, HelloInv, BeforeHello, NoArray, Building,
                  SenderInv, PipelineTypeOK
  <2>3. CASE PipelineNext
    <3>1. streaming' => ~skilled'
        BY <1>1, <2>3, PoolsStep
        DEF CopySetupInv, SenderInv, QueuedByStage
    <3> QED
        BY <2>1, <2>2, <2>3, <3>1, PoolChangesEarly
  <2>4. CASE UNCHANGED pipelineVars
      BY <2>4 DEF pipelineVars, cfgVars, driverVars, poolVars
  <2> QED
      BY <1>1, <2>3, <2>4 DEF Next, copySetupVars
<1>2. CopySetupInv /\ [Next]_copySetupVars
          => [Streams /\ Announces]_copySetupVars
    BY <1>1
<1> QED
    BY <1>2, PoolsInvariant, PTL DEF Spec
=============================================================================
