----------------------------- MODULE DmabufPool -----------------------------
(***************************************************************************)
(* The array of buffer_ctx that sender, receiver and receiver_sdl keep:    *)
(* for each buffer a dmabuf descriptor and whether it is mapped.  Of the   *)
(* descriptors of a process the dmabufs are modelled, and descriptor 0,    *)
(* standard input, which the programs inherit and do not use.              *)
(***************************************************************************)
EXTENDS Integers, FiniteSets

Stdin == 0

(* n entries with this value in fd and nothing mapped.                     *)
NewPool(n, value) ==
    [k \in 0..(n - 1) |-> [fd |-> value, mapped |-> FALSE]]

(* bufs is NULL.                                                           *)
NoPool == NewPool(0, 0)

buffer_ctx == [fd : Nat \cup {-1}, mapped : BOOLEAN]

(* The descriptors the array names (fd >= 0), the buffers it has mapped.   *)
PoolFds(pool) == {pool[k].fd : k \in DOMAIN pool} \ {-1}
PoolMaps(pool) == {k \in DOMAIN pool : pool[k].mapped}

(* The array and the process agree: each entry has a descriptor of its     *)
(* own, or none, and nothing is open or mapped that no entry knows of.     *)
Accounts(pool, open, maps) ==
    /\ open = {Stdin} \cup PoolFds(pool)
    /\ Stdin \notin PoolFds(pool)
    /\ maps = Cardinality(PoolMaps(pool))
    /\ \A k, l \in DOMAIN pool :
          pool[k].fd = pool[l].fd /\ pool[k].fd # -1 => k = l

(* A call that returns a descriptor returns the lowest one that is free.   *)
LowestFree(open) ==
    CHOOSE fd \in 0..Cardinality(open) :
        fd \notin open /\ \A e \in 0..(fd - 1) : e \in open

(* alloc_dmabuf_from_heap: the heap is open while it makes the dmabuf, and *)
(* closed again before the function returns.                               *)
alloc_dmabuf_from_heap(open) == LowestFree(open \cup {LowestFree(open)})
=============================================================================
