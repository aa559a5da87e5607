---------------------------- MODULE ZcSetupProofs ----------------------------
(***************************************************************************)
(* Theorems about ZcSetup, for every number of buffers, every backend and  *)
(* every connection.                                                       *)
(***************************************************************************)
EXTENDS ZcSetupInv, SequenceTheorems, FiniteSetTheorems, TLAPS

-----------------------------------------------------------------------------
(* The sender                                                              *)

LEMMA ExportStart == ExportInit => ExportInv
<1> SUFFICES ASSUME ExportInit PROVE ExportInv
    OBVIOUS
<1>1. /\ epc = "open" /\ buffers = 0 /\ i = 0 /\ bufs = FALSE /\ maps = {}
      /\ DOMAIN handle_id = {} /\ DOMAIN share = {}
      /\ queued = {} /\ streamingOn = FALSE /\ live = {}
      /\ erc = 1 /\ ekilled = FALSE /\ offFailed = FALSE /\ unreleased = {}
      /\ cpc = "socket" /\ sock = FALSE /\ nonblock = FALSE
    BY DEF ExportInit, EmptyFn, ConnectInit
<1>2. 0..(0 - 1) = {} /\ 0 \in 0..0
    OBVIOUS
<1>3. handle_id \in [0..(0 - 1) -> Handles]
      /\ share \in [0..(0 - 1) -> share_meta]
    BY <1>1, <1>2 DEF ExportInit, EmptyFn
<1>4. {sock, nonblock} \subseteq BOOLEAN /\ bufs \in BOOLEAN
      /\ {streamingOn, ekilled, offFailed} \subseteq BOOLEAN
    BY <1>1
<1>5. ExportTypeOK
    BY <1>1, <1>2, <1>3, <1>4 DEF ExportTypeOK, ConnectTypeOK
<1>6. IndexInRange /\ TablesByStage /\ MetadataValid
    BY <1>1, <1>2 DEF IndexInRange, TablesByStage, MetadataValid, TablesHold,
                      NoBuffersYet, EachBuffer, AllBuffers, TablesComplete
<1>7. LiveByStage /\ SockByStage
    BY <1>1 DEF LiveByStage, SockByStage, Exported
<1> QED
    BY <1>5, <1>6, <1>7 DEF ExportInv

(* A step that leaves the tables, the buffers and the sockets alone and    *)
(* goes to a stage at which the same holds of them.                        *)
LEMMA GotoKeeps ==
    ASSUME ExportInv, NEW pc, epc' = pc,
           UNCHANGED <<i, bufferVars, tableVars, driverVars, ekilled,
                       offFailed, unreleased, connectVars>>,
           erc' \in {0, 1},
           \/ /\ epc = "open" /\ pc = "format"
           \/ /\ epc = "format" /\ pc = "reqbufs"
           \/ /\ epc = "connect" /\ cpc = "returned" /\ pc = "sockopt"
           \/ /\ epc = "connect" /\ cpc = "failed" /\ pc = "streamoff"
           \/ /\ epc = "sockopt" /\ pc = "hello"
           \/ /\ epc = "hello" /\ pc = "handles"
           \/ /\ epc \notin {"connect", "release", "close", "done"}
              /\ pc = "streamoff"
    PROVE  ExportInv'
<1>1. /\ i' = i /\ buffers' = buffers /\ bufs' = bufs /\ maps' = maps
      /\ handle_id' = handle_id /\ share' = share /\ queued' = queued
      /\ streamingOn' = streamingOn /\ live' = live /\ ekilled' = ekilled
      /\ cpc' = cpc /\ sock' = sock /\ nonblock' = nonblock
      /\ offFailed' = offFailed /\ unreleased' = unreleased
    BY DEF bufferVars, tableVars, driverVars, connectVars
<1>2. ExportTypeOK'
    BY <1>1 DEF ExportInv, ExportTypeOK, ConnectTypeOK, Index
<1>3. IndexInRange' /\ TablesByStage' /\ MetadataValid'
    BY <1>1 DEF ExportInv, IndexInRange, TablesByStage, MetadataValid,
                TablesHold, NoBuffersYet, EachBuffer, AllBuffers,
                TablesComplete
<1>4. LiveByStage' /\ SockByStage'
    BY <1>1 DEF ExportInv, LiveByStage, SockByStage, Exported
<1> QED
    BY <1>2, <1>3, <1>4 DEF ExportInv

LEMMA ReqBufsKeeps == ExportInv /\ ReqBufs => ExportInv'
<1> SUFFICES ASSUME ExportInv, ReqBufs PROVE ExportInv'
    OBVIOUS
<1>1. PICK n \in Grants \ {0} : buffers' = n
    BY DEF ReqBufs
<1>2. n \in Nat /\ n > 0
    BY ExportAssumption
<1>3. /\ epc = "reqbufs" /\ epc' = "querybuf"
      /\ i' = i /\ bufs' = bufs /\ maps' = maps
      /\ handle_id' = handle_id /\ share' = share /\ queued' = queued
      /\ streamingOn' = streamingOn /\ live' = live /\ ekilled' = ekilled
      /\ erc' = erc /\ cpc' = cpc /\ sock' = sock /\ nonblock' = nonblock
      /\ offFailed' = offFailed /\ unreleased' = unreleased
    BY DEF ReqBufs, tableVars, driverVars, endVars, connectVars
<1>4. buffers = 0 /\ i = 0 /\ maps = {} /\ queued = {} /\ ~bufs
      /\ TablesHold(0, 0)
    BY <1>3 DEF ExportInv, ExportTypeOK, IndexInRange, TablesByStage,
                NoBuffersYet, Index
<1>5. /\ handle_id \in [0..(0 - 1) -> Handles]
      /\ share \in [0..(0 - 1) -> share_meta]
    BY <1>4 DEF ExportInv, ExportTypeOK
<1>6. ExportTypeOK'
  <2>1. 0 \in 0..n
      BY <1>2
  <2> QED
      BY <1>1, <1>2, <1>3, <1>4, <1>5, <2>1
      DEF ExportInv, ExportTypeOK, ConnectTypeOK, Index
<1>7. IndexInRange' /\ TablesByStage' /\ MetadataValid'
    BY <1>1, <1>2, <1>3, <1>4
    DEF ExportInv, IndexInRange, TablesByStage, MetadataValid, TablesHold,
        NoBuffersYet, EachBuffer, AllBuffers, TablesComplete
<1>8. LiveByStage' /\ SockByStage'
    BY <1>3 DEF ExportInv, LiveByStage, SockByStage, Exported
<1> QED
    BY <1>6, <1>7, <1>8 DEF ExportInv

(* Advance stays within the buffers.                                       *)
LEMMA AdvanceInRange ==
    ASSUME NEW stage, NEW next, Advance(stage, next),
           buffers \in Nat, i \in 0..buffers, i < buffers
    PROVE  /\ i' \in 0..buffers
           /\ \/ epc' = stage /\ i' = i + 1 /\ i + 1 < buffers
              \/ epc' = next /\ i' = 0 /\ i + 1 = buffers
BY DEF Advance

LEMMA QueryAndMapKeeps == ExportInv /\ QueryAndMap => ExportInv'
<1> SUFFICES ASSUME ExportInv, QueryAndMap PROVE ExportInv'
    OBVIOUS
<1>1. /\ epc = "querybuf" /\ Advance("querybuf", "export")
      /\ buffers' = buffers /\ maps' = maps \cup {i}
      /\ bufs' = (i + 1 = buffers)
      /\ handle_id' = handle_id /\ share' = share /\ queued' = queued
      /\ streamingOn' = streamingOn /\ live' = live /\ ekilled' = ekilled
      /\ erc' = erc /\ cpc' = cpc /\ sock' = sock /\ nonblock' = nonblock
      /\ offFailed' = offFailed /\ unreleased' = unreleased
    BY DEF QueryAndMap, tableVars, driverVars, endVars, connectVars
<1>2. buffers \in Nat /\ i \in 0..buffers /\ i < buffers
    BY <1>1 DEF ExportInv, ExportTypeOK, IndexInRange, EachBuffer
<1>3. /\ i' \in 0..buffers
      /\ \/ epc' = "querybuf" /\ i' = i + 1 /\ i + 1 < buffers
         \/ epc' = "export" /\ i' = 0 /\ i + 1 = buffers
    BY <1>1, <1>2, AdvanceInRange
<1>4. TablesHold(0, 0)
    BY <1>1 DEF ExportInv, TablesByStage
<1>5. ExportTypeOK'
  <2>1. maps' \subseteq Index'
      BY <1>1, <1>2 DEF ExportInv, ExportTypeOK, Index
  <2>2. bufs' \in BOOLEAN
      BY <1>1
  <2> QED
      BY <1>1, <1>2, <1>3, <2>1, <2>2
      DEF ExportInv, ExportTypeOK, ConnectTypeOK, Index
<1>6. IndexInRange' /\ TablesByStage' /\ MetadataValid'
  <2>1. IndexInRange'
      BY <1>1, <1>2, <1>3
      DEF IndexInRange, NoBuffersYet, EachBuffer, AllBuffers
  <2>2. /\ epc' = "querybuf" => ~bufs'
        /\ epc' = "export" => bufs' /\ i' = 0
    <3>1. /\ epc' = "querybuf" => ~(i + 1 = buffers)
          /\ epc' = "export" => i + 1 = buffers /\ i' = 0
        BY <1>2, <1>3
    <3> QED
        BY <1>1, <3>1, Zenon
  <2>3. TablesByStage'
      BY <1>1, <1>3, <1>4, <2>2
      DEF TablesByStage, TablesHold, NoBuffersYet, AllBuffers,
          TablesComplete
  <2>4. MetadataValid'
      BY <1>1 DEF ExportInv, MetadataValid
  <2> QED
      BY <2>1, <2>3, <2>4
<1>7. LiveByStage' /\ SockByStage'
    BY <1>1, <1>3 DEF ExportInv, LiveByStage, SockByStage, Exported
<1> QED
    BY <1>5, <1>6, <1>7 DEF ExportInv

LEMMA ExportHandleKeeps == ExportInv /\ ExportHandle => ExportInv'
<1> SUFFICES ASSUME ExportInv, ExportHandle PROVE ExportInv'
    OBVIOUS
<1>1. PICK h \in Handles :
          /\ handle_id' = [k \in 0..i |-> IF k = i THEN h ELSE handle_id[k]]
          /\ live' = live \cup {h}
    BY DEF ExportHandle
<1>2. /\ epc = "export" /\ epc' = "metadata"
      /\ i' = i /\ buffers' = buffers /\ maps' = maps /\ bufs' = bufs
      /\ share' = share /\ queued' = queued
      /\ streamingOn' = streamingOn /\ ekilled' = ekilled
      /\ erc' = erc /\ cpc' = cpc /\ sock' = sock /\ nonblock' = nonblock
      /\ offFailed' = offFailed /\ unreleased' = unreleased
    BY DEF ExportHandle, bufferVars, endVars, connectVars
<1>3. buffers \in Nat /\ i \in 0..buffers /\ i < buffers
    BY <1>2 DEF ExportInv, ExportTypeOK, IndexInRange, EachBuffer
<1>4. bufs /\ TablesHold(i, i)
    BY <1>2 DEF ExportInv, TablesByStage
<1>5. \A k \in DOMAIN handle_id : handle_id[k] \in Handles
    BY DEF ExportInv, ExportTypeOK
<1>6. handle_id' \in [0..((i + 1) - 1) -> Handles] /\ i + 1 \in 0..buffers
  <2>1. (i + 1) - 1 = i /\ i + 1 \in 0..buffers
      BY <1>3
  <2>2. \A k \in 0..i : k = i \/ k \in DOMAIN handle_id
      BY <1>3, <1>4 DEF TablesHold
  <2> QED
      BY <1>1, <1>5, <2>1, <2>2
<1>7. ExportTypeOK'
    BY <1>1, <1>2, <1>3, <1>6 DEF ExportInv, ExportTypeOK, ConnectTypeOK,
                                  Index
<1>8. IndexInRange' /\ TablesByStage' /\ MetadataValid'
  <2>1. DOMAIN handle_id' = 0..((i + 1) - 1)
      BY <1>6
  <2> QED
      BY <1>2, <1>3, <1>4, <2>1
      DEF ExportInv, IndexInRange, TablesByStage, MetadataValid, TablesHold,
          NoBuffersYet, EachBuffer, AllBuffers, TablesComplete
<1>9. Exported' = Exported \cup {h}
  <2>1. DOMAIN handle_id = 0..(i - 1) /\ DOMAIN handle_id' = 0..i
      BY <1>1, <1>4 DEF TablesHold
  <2>2. handle_id'[i] = h /\ i \in 0..i
      BY <1>1, <1>3
  <2>3. \A k \in DOMAIN handle_id :
            k \in 0..i /\ handle_id'[k] = handle_id[k]
      BY <1>1, <1>3, <2>1
  <2>4. \A k \in 0..i : k = i \/ k \in DOMAIN handle_id
      BY <1>3, <2>1
  <2> QED
      BY <2>1, <2>2, <2>3, <2>4 DEF Exported
<1>10. LiveByStage' /\ SockByStage'
    BY <1>1, <1>2, <1>9 DEF ExportInv, LiveByStage, SockByStage
<1> QED
    BY <1>7, <1>8, <1>10 DEF ExportInv

LEMMA FetchMetadataKeeps == ExportInv /\ FetchMetadata => ExportInv'
<1> SUFFICES ASSUME ExportInv, FetchMetadata PROVE ExportInv'
    OBVIOUS
<1>1. PICK m \in share_meta :
          /\ ShareValid(m)
          /\ share' = [k \in 0..i |-> IF k = i THEN m ELSE share[k]]
    BY DEF FetchMetadata
<1>2. /\ epc = "metadata" /\ Advance("export", "queue")
      /\ buffers' = buffers /\ maps' = maps /\ bufs' = bufs
      /\ handle_id' = handle_id /\ queued' = queued /\ live' = live
      /\ streamingOn' = streamingOn /\ ekilled' = ekilled
      /\ erc' = erc /\ cpc' = cpc /\ sock' = sock /\ nonblock' = nonblock
      /\ offFailed' = offFailed /\ unreleased' = unreleased
    BY DEF FetchMetadata, bufferVars, driverVars, endVars, connectVars
<1>3. buffers \in Nat /\ i \in 0..buffers /\ i < buffers
    BY <1>2 DEF ExportInv, ExportTypeOK, IndexInRange, EachBuffer
<1>4. /\ i' \in 0..buffers
      /\ \/ epc' = "export" /\ i' = i + 1 /\ i + 1 < buffers
         \/ epc' = "queue" /\ i' = 0 /\ i + 1 = buffers
    BY <1>2, <1>3, AdvanceInRange
<1>5. bufs /\ TablesHold(i + 1, i)
    BY <1>2 DEF ExportInv, TablesByStage
<1>6. \A k \in DOMAIN share : share[k] \in share_meta /\ ShareValid(share[k])
    BY DEF ExportInv, ExportTypeOK, MetadataValid
<1>7. share' \in [0..((i + 1) - 1) -> share_meta] /\ i + 1 \in 0..buffers
      /\ \A k \in 0..i : ShareValid(share'[k])
  <2>1. (i + 1) - 1 = i /\ i + 1 \in 0..buffers
      BY <1>3
  <2>2. \A k \in 0..i : k = i \/ k \in DOMAIN share
      BY <1>3, <1>5 DEF TablesHold
  <2> QED
      BY <1>1, <1>6, <2>1, <2>2
<1>8. ExportTypeOK'
    BY <1>2, <1>3, <1>4, <1>7 DEF ExportInv, ExportTypeOK, ConnectTypeOK,
                                  Index
<1>9. IndexInRange' /\ TablesByStage' /\ MetadataValid'
  <2>1. DOMAIN share' = 0..((i + 1) - 1) /\ DOMAIN share' = 0..i
      BY <1>1, <1>3
  <2> QED
      BY <1>2, <1>3, <1>4, <1>5, <1>7, <2>1
      DEF ExportInv, IndexInRange, TablesByStage, MetadataValid, TablesHold,
          NoBuffersYet, EachBuffer, AllBuffers, TablesComplete
<1>10. LiveByStage' /\ SockByStage'
    BY <1>2, <1>4 DEF ExportInv, LiveByStage, SockByStage, Exported
<1> QED
    BY <1>8, <1>9, <1>10 DEF ExportInv

LEMMA QueueIndexKeeps == ExportInv /\ QueueIndex => ExportInv'
<1> SUFFICES ASSUME ExportInv, QueueIndex PROVE ExportInv'
    OBVIOUS
<1>1. /\ epc = "queue" /\ Advance("queue", "streamon")
      /\ buffers' = buffers /\ maps' = maps /\ bufs' = bufs
      /\ handle_id' = handle_id /\ share' = share /\ live' = live
      /\ queued' = queued \cup {i}
      /\ streamingOn' = streamingOn /\ ekilled' = ekilled
      /\ erc' = erc /\ cpc' = cpc /\ sock' = sock /\ nonblock' = nonblock
      /\ offFailed' = offFailed /\ unreleased' = unreleased
    BY DEF QueueIndex, bufferVars, tableVars, endVars, connectVars
<1>2. buffers \in Nat /\ i \in 0..buffers /\ i < buffers
    BY <1>1 DEF ExportInv, ExportTypeOK, IndexInRange, EachBuffer
<1>3. /\ i' \in 0..buffers
      /\ \/ epc' = "queue" /\ i' = i + 1 /\ i + 1 < buffers
         \/ epc' = "streamon" /\ i' = 0 /\ i + 1 = buffers
    BY <1>1, <1>2, AdvanceInRange
<1>4. ExportTypeOK'
  <2>1. queued' \subseteq Index'
      BY <1>1, <1>2 DEF ExportInv, ExportTypeOK, Index
  <2> QED
      BY <1>1, <1>2, <1>3, <2>1 DEF ExportInv, ExportTypeOK, ConnectTypeOK,
                                    Index
<1>5. IndexInRange' /\ TablesByStage' /\ MetadataValid'
    BY <1>1, <1>2, <1>3
    DEF ExportInv, IndexInRange, TablesByStage, MetadataValid, TablesHold,
        NoBuffersYet, EachBuffer, AllBuffers, TablesComplete
<1>6. LiveByStage' /\ SockByStage'
    BY <1>1, <1>3 DEF ExportInv, LiveByStage, SockByStage, Exported
<1> QED
    BY <1>4, <1>5, <1>6 DEF ExportInv

LEMMA SendHandleKeeps == ExportInv /\ SendHandle => ExportInv'
<1> SUFFICES ASSUME ExportInv, SendHandle PROVE ExportInv'
    OBVIOUS
<1>1. /\ epc = "handles" /\ Advance("handles", "loop")
      /\ buffers' = buffers /\ maps' = maps /\ bufs' = bufs
      /\ handle_id' = handle_id /\ share' = share /\ live' = live
      /\ queued' = queued
      /\ streamingOn' = streamingOn /\ ekilled' = ekilled
      /\ erc' = erc /\ cpc' = cpc /\ sock' = sock /\ nonblock' = nonblock
      /\ offFailed' = offFailed /\ unreleased' = unreleased
    BY DEF SendHandle, bufferVars, tableVars, driverVars, endVars,
           connectVars
<1>2. buffers \in Nat /\ i \in 0..buffers /\ i < buffers
    BY <1>1 DEF ExportInv, ExportTypeOK, IndexInRange, EachBuffer
<1>3. /\ i' \in 0..buffers
      /\ \/ epc' = "handles" /\ i' = i + 1 /\ i + 1 < buffers
         \/ epc' = "loop" /\ i' = 0 /\ i + 1 = buffers
    BY <1>1, <1>2, AdvanceInRange
<1>4. ExportTypeOK'
    BY <1>1, <1>2, <1>3 DEF ExportInv, ExportTypeOK, ConnectTypeOK, Index
<1>5. IndexInRange' /\ TablesByStage' /\ MetadataValid'
    BY <1>1, <1>2, <1>3
    DEF ExportInv, IndexInRange, TablesByStage, MetadataValid, TablesHold,
        NoBuffersYet, EachBuffer, AllBuffers, TablesComplete
<1>6. LiveByStage' /\ SockByStage'
    BY <1>1, <1>3 DEF ExportInv, LiveByStage, SockByStage, Exported
<1> QED
    BY <1>4, <1>5, <1>6 DEF ExportInv

LEMMA StreamOnKeeps == ExportInv /\ StreamOn => ExportInv'
<1> SUFFICES ASSUME ExportInv, StreamOn PROVE ExportInv'
    OBVIOUS
<1>1. /\ epc = "streamon" /\ epc' = "connect"
      /\ i' = i /\ buffers' = buffers /\ maps' = maps /\ bufs' = bufs
      /\ handle_id' = handle_id /\ share' = share /\ live' = live
      /\ queued' = queued /\ streamingOn' = TRUE /\ ekilled' = ekilled
      /\ erc' = erc /\ cpc' = cpc /\ sock' = sock /\ nonblock' = nonblock
      /\ offFailed' = offFailed /\ unreleased' = unreleased
    BY DEF StreamOn, bufferVars, tableVars, endVars, connectVars
<1>2. ExportTypeOK'
  <2>1. streamingOn' \in BOOLEAN
      BY <1>1
  <2> QED
      BY <1>1, <2>1 DEF ExportInv, ExportTypeOK, ConnectTypeOK, Index
<1>3. IndexInRange' /\ TablesByStage' /\ MetadataValid'
    BY <1>1
    DEF ExportInv, IndexInRange, TablesByStage, MetadataValid, TablesHold,
        NoBuffersYet, EachBuffer, AllBuffers, TablesComplete
<1>4. LiveByStage' /\ SockByStage'
    BY <1>1 DEF ExportInv, LiveByStage, SockByStage, Exported
<1> QED
    BY <1>2, <1>3, <1>4 DEF ExportInv

(* tcp_connect_timeout changes the socket only; it returns without one     *)
(* when it fails.                                                          *)
LEMMA ConnectKeeps ==
    ExportInv /\ (\/ InConnect(ConnectStep) \/ InConnect(Handshake)
                  \/ InConnect(ConnectCallFails))
        => ExportInv'
<1> SUFFICES ASSUME ExportInv, epc = "connect",
                    ConnectStep \/ Handshake \/ ConnectCallFails,
                    UNCHANGED <<epc, i, bufferVars, tableVars, driverVars,
                                endVars>>
             PROVE  ExportInv'
    BY DEF InConnect
<1>1. /\ epc' = epc /\ i' = i /\ buffers' = buffers /\ maps' = maps
      /\ bufs' = bufs /\ handle_id' = handle_id /\ share' = share
      /\ live' = live /\ queued' = queued /\ streamingOn' = streamingOn
      /\ ekilled' = ekilled /\ erc' = erc
      /\ offFailed' = offFailed /\ unreleased' = unreleased
    BY DEF bufferVars, tableVars, driverVars, endVars
<1>2. ConnectTypeOK' /\ (cpc' \in {"socket", "failed"} => ~sock')
  <2>1. ConnectTypeOK /\ (cpc \in {"socket", "failed"} => ~sock)
      BY DEF ExportInv, ExportTypeOK, SockByStage
  <2>2. CASE MakeSocket
    <3>1. sock' \in BOOLEAN /\ nonblock' \in BOOLEAN /\ cpc' = "connect"
        BY <2>2 DEF MakeSocket
    <3> QED
        BY <3>1 DEF ConnectTypeOK
  <2>3. CASE ConnectAtOnce
    <3>1. sock' = sock /\ nonblock' \in BOOLEAN /\ cpc' = "returned"
        BY <2>3 DEF ConnectAtOnce
    <3> QED
        BY <2>1, <3>1 DEF ConnectTypeOK
  <2>4. CASE ConnectStarts \/ PollReady \/ Handshake
      BY <2>1, <2>4 DEF ConnectStarts, PollReady, Handshake, ConnectTypeOK,
                        connectVars
  <2>5. CASE RestoreFlags
    <3>1. sock' = sock /\ nonblock' \in BOOLEAN /\ cpc' = "returned"
        BY <2>5 DEF RestoreFlags
    <3> QED
        BY <2>1, <3>1 DEF ConnectTypeOK
  <2>6. CASE ConnectGivesUp
    <3>1. sock' \in BOOLEAN /\ nonblock' \in BOOLEAN /\ cpc' = "failed"
          /\ ~sock'
        BY <2>6 DEF ConnectGivesUp
    <3> QED
        BY <3>1 DEF ConnectTypeOK
  <2> QED
      BY <2>2, <2>3, <2>4, <2>5, <2>6
      DEF ConnectStep, PollFails, ConnectCallFails
<1>3. ExportTypeOK'
    BY <1>1, <1>2 DEF ExportInv, ExportTypeOK, Index
<1>4. IndexInRange' /\ TablesByStage' /\ MetadataValid'
    BY <1>1 DEF ExportInv, IndexInRange, TablesByStage, MetadataValid,
                TablesHold
<1>5. LiveByStage' /\ SockByStage'
    BY <1>1, <1>2 DEF ExportInv, LiveByStage, SockByStage, Exported
<1> QED
    BY <1>3, <1>4, <1>5 DEF ExportInv

LEMMA ExitKeeps ==
    ExportInv /\ (ExitStreamOff \/ ReleaseHandles \/ ExportClose
                  \/ ExportKilled)
        => ExportInv'
<1> SUFFICES ASSUME ExportInv,
                    \/ ExitStreamOff \/ ReleaseHandles
                    \/ ExportClose \/ ExportKilled
             PROVE  ExportInv'
    OBVIOUS
<1>1. /\ i' = i /\ buffers' = buffers /\ bufs' = bufs
      /\ handle_id' = handle_id /\ share' = share /\ cpc' = cpc
      /\ Index' = Index /\ Exported' = Exported
      /\ epc' \in {"release", "close", "done"}
    BY DEF ExitStreamOff, ReleaseHandles, ExportClose, ExportKilled,
           bufferVars, tableVars, connectVars, driverVars, endVars, Index,
           Exported
<1>2. IndexInRange' /\ TablesByStage' /\ MetadataValid'
    BY <1>1 DEF ExportInv, IndexInRange, TablesByStage, MetadataValid,
                TablesHold, NoBuffersYet, EachBuffer, AllBuffers,
                TablesComplete
<1>3. ASSUME maps' \subseteq Index, queued' \subseteq Index,
             streamingOn' \in BOOLEAN, live' \subseteq Handles,
             erc' \in {0, 1}, ekilled' \in BOOLEAN, sock' \in BOOLEAN,
             nonblock' \in BOOLEAN, offFailed' \in BOOLEAN,
             unreleased' \subseteq Handles
      PROVE  ExportTypeOK'
    BY <1>1, <1>3 DEF ExportInv, ExportTypeOK, ConnectTypeOK
<1>4. CASE ExitStreamOff
  <2>1. /\ epc = "streamoff" /\ epc' = "release" /\ live' = live
        /\ maps' = maps /\ erc' = erc /\ unreleased' = unreleased
        /\ ekilled' = ekilled /\ sock' = sock /\ nonblock' = nonblock
      BY <1>4 DEF ExitStreamOff, bufferVars, connectVars
  <2>2. \/ streamingOn' = FALSE /\ queued' = {} /\ offFailed' = offFailed
        \/ streamingOn' = streamingOn /\ queued' = queued
           /\ offFailed' = TRUE
      BY <1>4 DEF ExitStreamOff
  <2>3. /\ queued' \subseteq Index /\ streamingOn' \in BOOLEAN
        /\ offFailed' \in BOOLEAN
      BY <2>2 DEF ExportInv, ExportTypeOK
  <2>4. ExportTypeOK'
      BY <1>3, <2>1, <2>3 DEF ExportInv, ExportTypeOK, ConnectTypeOK
  <2>5. streamingOn' = FALSE \/ offFailed' = TRUE
      BY <2>2
  <2>6. LiveByStage' /\ SockByStage'
      BY <1>1, <2>1, <2>5 DEF ExportInv, LiveByStage, SockByStage
  <2> QED
      BY <1>2, <2>4, <2>6 DEF ExportInv
<1>5. CASE ReleaseHandles
  <2>1. /\ epc = "release" /\ epc' = "close" /\ streamingOn' = streamingOn
        /\ queued' = queued /\ maps' = maps /\ erc' = erc
        /\ offFailed' = offFailed
        /\ ekilled' = ekilled /\ sock' = sock /\ nonblock' = nonblock
      BY <1>5 DEF ReleaseHandles, bufferVars, connectVars
  <2>2. live = Exported
      BY <2>1 DEF ExportInv, LiveByStage
  <2>3. live' \subseteq unreleased' /\ live' \subseteq live
        /\ unreleased' \subseteq unreleased \cup Exported
    <3>1. CASE bufs
      <4>1. PICK failed \in SUBSET Exported :
               live' = live \ (Exported \ failed) /\ unreleased' = failed
          BY <1>5, <3>1 DEF ReleaseHandles
      <4> QED
          BY <2>2, <4>1
    <3>2. CASE ~bufs
      <4>1. DOMAIN handle_id = {}
          BY <3>2 DEF ExportInv, TablesByStage, TablesHold
      <4>2. live' = live /\ unreleased' = unreleased
          BY <1>5, <3>2 DEF ReleaseHandles
      <4> QED
          BY <2>2, <4>1, <4>2 DEF Exported
    <3> QED
        BY <3>1, <3>2
  <2>4. live' \subseteq Handles /\ unreleased' \subseteq Handles
      BY <2>2, <2>3 DEF ExportInv, ExportTypeOK
  <2>5. ExportTypeOK'
      BY <1>3, <2>1, <2>4 DEF ExportInv, ExportTypeOK, ConnectTypeOK
  <2>6. LiveByStage' /\ SockByStage'
      BY <1>1, <2>1, <2>3 DEF ExportInv, LiveByStage, SockByStage
  <2> QED
      BY <1>2, <2>5, <2>6 DEF ExportInv
<1>6. CASE ExportClose
  <2>1. /\ epc = "close" /\ epc' = "done" /\ streamingOn' = FALSE
        /\ live' = live /\ queued' = {} /\ erc' = erc
        /\ ekilled' = ekilled /\ offFailed' = FALSE
        /\ unreleased' = unreleased
        /\ maps' = (IF bufs THEN {} ELSE maps)
        /\ sock' = (sock /\ cpc # "returned")
        /\ nonblock' = (nonblock /\ sock')
      BY <1>6 DEF ExportClose
  <2>2. /\ sock' \in BOOLEAN /\ nonblock' \in BOOLEAN
        /\ streamingOn' \in BOOLEAN /\ offFailed' \in BOOLEAN
      BY <2>1
  <2>3. ~sock'
    <3>1. cpc # "returned" => ~sock
        BY <2>1 DEF ExportInv, SockByStage
    <3> QED
        BY <2>1, <3>1
  <2>4. maps' \subseteq Index /\ (~bufs \/ maps' = {})
      BY <2>1 DEF ExportInv, ExportTypeOK
  <2>5. ExportTypeOK'
      BY <1>3, <2>1, <2>2, <2>4 DEF ExportInv, ExportTypeOK, ConnectTypeOK
  <2>6. LiveByStage' /\ SockByStage'
      BY <1>1, <2>1, <2>3, <2>4 DEF ExportInv, LiveByStage, SockByStage
  <2> QED
      BY <1>2, <2>5, <2>6 DEF ExportInv
<1>7. CASE ExportKilled
  <2>1. /\ epc' = "done" /\ streamingOn' = FALSE /\ queued' = {}
        /\ sock' = FALSE /\ nonblock' = FALSE /\ maps' = {} /\ erc' = 1
        /\ ekilled' = TRUE /\ live' = live /\ offFailed' = FALSE
        /\ unreleased' = unreleased
      BY <1>7 DEF ExportKilled
  <2>2. streamingOn' \in BOOLEAN /\ sock' \in BOOLEAN
        /\ nonblock' \in BOOLEAN /\ ekilled' \in BOOLEAN
        /\ offFailed' \in BOOLEAN
      BY <2>1
  <2>3. ExportTypeOK'
      BY <1>3, <2>1, <2>2 DEF ExportInv, ExportTypeOK
  <2>4. LiveByStage' /\ SockByStage'
      BY <1>1, <2>1 DEF LiveByStage, SockByStage
  <2> QED
      BY <1>2, <2>3, <2>4 DEF ExportInv
<1> QED
    BY <1>4, <1>5, <1>6, <1>7

LEMMA ExportUntouched == ExportInv /\ UNCHANGED exportVars => ExportInv'
BY DEF ExportInv, ExportTypeOK, ConnectTypeOK, IndexInRange, TablesByStage,
       TablesHold, MetadataValid, LiveByStage, SockByStage, Exported, Index,
       exportVars, bufferVars, tableVars, driverVars, endVars, connectVars

LEMMA ExportKeeps == ExportInv /\ ExportNext => ExportInv'
<1> SUFFICES ASSUME ExportInv, ExportNext PROVE ExportInv'
    OBVIOUS
<1>0. erc \in {0, 1}
    BY DEF ExportInv, ExportTypeOK
<1>1. ASSUME NEW pc, ExportGoto(pc)
      PROVE  /\ epc' = pc /\ erc' \in {0, 1}
             /\ UNCHANGED <<i, bufferVars, tableVars, driverVars, ekilled,
                            offFailed, unreleased, connectVars>>
    BY <1>0, <1>1 DEF ExportGoto, endVars
<1>2. CASE OpenCapture
    BY <1>1, <1>2, GotoKeeps DEF OpenCapture
<1>3. CASE SetupFormat
    BY <1>1, <1>3, GotoKeeps DEF SetupFormat
<1>4. CASE Connected
    BY <1>1, <1>4, GotoKeeps DEF Connected
<1>5. CASE ConnectFailed
    BY <1>1, <1>5, GotoKeeps DEF ConnectFailed
<1>6. CASE SetRcvTimeo
    BY <1>1, <1>6, GotoKeeps DEF SetRcvTimeo
<1>7. CASE SetupCallFails \/ SetupSendFails \/ LoopFails
    BY <1>1, <1>7, GotoKeeps DEF SetupCallFails, SetupSendFails, LoopFails
<1>8. CASE SendHello
    BY <1>0, <1>8, GotoKeeps DEF SendHello, endVars
<1>9. CASE LoopEnds
  <2>1. erc' \in {0, 1}
      BY <1>9 DEF LoopEnds
  <2> QED
      BY <1>9, <2>1, GotoKeeps DEF LoopEnds
<1>10. CASE AnnounceFrame
    BY <1>10, ExportUntouched DEF AnnounceFrame
<1> QED
    BY <1>2, <1>3, <1>4, <1>5, <1>6, <1>7, <1>8, <1>9, <1>10, ReqBufsKeeps,
       QueryAndMapKeeps, ExportHandleKeeps, FetchMetadataKeeps,
       QueueIndexKeeps, StreamOnKeeps, ConnectKeeps, SendHandleKeeps,
       ExitKeeps
    DEF ExportNext, ExportStep

-----------------------------------------------------------------------------
(* The receiver                                                            *)

LEMMA ImportStart == ImportInit => ImportInv
<1> SUFFICES ASSUME ImportInit PROVE ImportInv
    OBVIOUS
<1>1. /\ ipc = "open" /\ buffer_count = 0 /\ hp = NoPacket
      /\ entries = <<>> /\ entry_capacity = 0 /\ fds = 0
      /\ refused = FALSE /\ irc = 1 /\ ikilled = FALSE
      /\ la = "socket" /\ socks = {}
      /\ objects = {} /\ display_ok = FALSE
    BY DEF ImportInit, AcceptInit, DisplayInit
<1>2. entries \in Seq(zc_handle_packet) /\ Len(entries) = 0
    BY <1>1
<1>3. {refused, ikilled} \subseteq BOOLEAN /\ display_ok \in BOOLEAN
    BY <1>1
<1>4. ImportTypeOK
    BY <1>1, <1>2, <1>3 DEF ImportTypeOK, AcceptTypeOK, DisplayTypeOK
<1>5. PacketInHand /\ DmabufsByStage /\ TableHasRoom
    BY <1>1, <1>2 DEF PacketInHand, DmabufsByStage, TableHasRoom,
                      EntryInBounds
<1>6. SocksByStage /\ WindowByStage
    BY <1>1 DEF SocksByStage, SocksOf, WindowByStage
<1> QED
    BY <1>4, <1>5, <1>6 DEF ImportInv

(* A step that leaves the table, the sockets and the window alone, and     *)
(* does not leave import_handle_direct.                                    *)
LEMMA ImportGotoKeeps ==
    ASSUME ImportInv, NEW pc, ipc' = pc,
           UNCHANGED <<importedVars, ikilled, acceptVars, displayVars>>,
           hp' \in {hp, NoPacket}, irc' \in {0, 1}, refused' \in BOOLEAN,
           buffer_count' \in Nat,
           \/ /\ ipc = "open" /\ pc = "accept"
           \/ /\ ipc = "accept" /\ la = "returned" /\ pc = "hello"
           \/ /\ ipc = "accept" /\ la = "failed" /\ pc = "cleanup"
           \/ /\ ipc = "hello"
              /\ pc \in {"handle", "display", "output", "cleanup"}
              /\ pc = "output" => ~Display
           \/ /\ ipc = "handle" /\ pc = "cleanup"
           \/ /\ ipc \in {"import", "display", "output", "loop"}
              /\ pc = "cleanup"
           \/ /\ ipc = "output" /\ pc = "loop"
           \/ /\ ipc = "loop" /\ pc = "loop"
    PROVE  ImportInv'
<1>1. /\ entries' = entries /\ entry_capacity' = entry_capacity /\ fds' = fds
      /\ ikilled' = ikilled /\ la' = la /\ socks' = socks
      /\ objects' = objects /\ display_ok' = display_ok
    BY DEF importedVars, acceptVars, displayVars
<1>2. {refused', ikilled'} \subseteq BOOLEAN
    BY <1>1 DEF ImportInv, ImportTypeOK
<1>3. ImportTypeOK'
    BY <1>1, <1>2 DEF ImportInv, ImportTypeOK, AcceptTypeOK, DisplayTypeOK
<1>4. PacketInHand' /\ DmabufsByStage' /\ TableHasRoom'
    BY <1>1 DEF ImportInv, PacketInHand, DmabufsByStage, TableHasRoom,
                EntryInBounds
<1>5. SocksByStage'
    BY <1>1 DEF ImportInv, SocksByStage
<1>6. WindowByStage'
    BY <1>1 DEF ImportInv, WindowByStage
<1> QED
    BY <1>3, <1>4, <1>5, <1>6 DEF ImportInv

LEMMA AcceptKeeps ==
    ImportInv /\ (InAccept(AcceptStep) \/ InAccept(AcceptFails))
        => ImportInv'
<1> SUFFICES ASSUME ImportInv, ipc = "accept", AcceptStep \/ AcceptFails,
                    UNCHANGED <<ipc, announcedVars, importedVars,
                                outcomeVars, displayVars>>
             PROVE  ImportInv'
    BY DEF InAccept
<1>1. /\ ipc' = ipc /\ buffer_count' = buffer_count /\ hp' = hp
      /\ entries' = entries /\ entry_capacity' = entry_capacity /\ fds' = fds
      /\ refused' = refused /\ irc' = irc /\ ikilled' = ikilled
      /\ objects' = objects /\ display_ok' = display_ok
    BY DEF announcedVars, importedVars, outcomeVars, displayVars
<1>2. socks = SocksOf(la)
    BY DEF ImportInv, SocksByStage
<1>3. AcceptTypeOK' /\ socks' = SocksOf(la')
    BY <1>2 DEF AcceptStep, AcceptFails, MakeListener, BindListener, Listen,
                Accept, ReturnConnection, AcceptTypeOK, SocksOf
<1>4. ImportTypeOK'
    BY <1>1, <1>3 DEF ImportInv, ImportTypeOK, DisplayTypeOK
<1>5. PacketInHand' /\ DmabufsByStage' /\ TableHasRoom'
    BY <1>1 DEF ImportInv, PacketInHand, DmabufsByStage, TableHasRoom,
                EntryInBounds
<1>6. SocksByStage' /\ WindowByStage'
    BY <1>1, <1>3 DEF ImportInv, SocksByStage, WindowByStage
<1> QED
    BY <1>4, <1>5, <1>6 DEF ImportInv

LEMMA RecvHandleKeeps ==
    SetupLinkTypeOK /\ ImportInv /\ RecvHandle => ImportInv'
<1> SUFFICES ASSUME SetupLinkTypeOK, ImportInv, RecvHandle PROVE ImportInv'
    OBVIOUS
<1>1. CASE Refuse
  <2>1. refused' \in BOOLEAN
      BY <1>1 DEF Refuse
  <2> QED
      BY <1>1, <2>1, ImportGotoKeeps
      DEF RecvHandle, Refuse, announcedVars, ImportInv, ImportTypeOK
<1>2. CASE ~Refuse
  <2>1. /\ ipc = "handle" /\ ipc' = "import" /\ wire # <<>>
        /\ Head(wire).magic = "HANDLE" /\ hp' = Head(wire)
        /\ entry_capacity' = GrownCapacity
        /\ buffer_count' = buffer_count /\ entries' = entries /\ fds' = fds
        /\ refused' = refused /\ irc' = irc /\ ikilled' = ikilled
        /\ la' = la /\ socks' = socks
        /\ objects' = objects /\ display_ok' = display_ok
      BY <1>2 DEF RecvHandle, Importable, HandlePacketValid, outcomeVars,
                  acceptVars, displayVars
  <2>2. Head(wire) \in stream_hello \cup zc_handle_packet \cup zc_frame_packet
      BY <2>1 DEF SetupLinkTypeOK
  <2>3. hp' \in zc_handle_packet
      BY <2>1, <2>2 DEF stream_hello, zc_handle_packet, zc_frame_packet
  <2>4. entry_capacity' \in Nat /\ Len(entries) < entry_capacity'
    <3>1. /\ Len(entries) \in Nat /\ entry_capacity \in Nat
          /\ Len(entries) <= entry_capacity
        BY DEF ImportInv, ImportTypeOK, TableHasRoom
    <3> QED
        BY <2>1, <3>1, ImportAssumption DEF GrownCapacity
  <2>5. ImportTypeOK'
      BY <2>1, <2>3, <2>4 DEF ImportInv, ImportTypeOK, AcceptTypeOK,
                              DisplayTypeOK
  <2>6. PacketInHand' /\ DmabufsByStage' /\ TableHasRoom'
    <3>1. Len(entries) \in Nat
        BY DEF ImportInv, ImportTypeOK
    <3> QED
        BY <2>1, <2>3, <2>4, <3>1
        DEF ImportInv, PacketInHand, DmabufsByStage, TableHasRoom,
            EntryInBounds
  <2>7. SocksByStage' /\ WindowByStage'
      BY <2>1 DEF ImportInv, SocksByStage, WindowByStage
  <2> QED
      BY <2>5, <2>6, <2>7 DEF ImportInv
<1> QED
    BY <1>1, <1>2

LEMMA ImportBufferKeeps == ImportInv /\ ImportBuffer => ImportInv'
<1> SUFFICES ASSUME ImportInv, ImportBuffer PROVE ImportInv'
    OBVIOUS
<1>1. /\ ipc = "import" /\ ipc' = "map" /\ fds' = fds + 1
      /\ buffer_count' = buffer_count /\ hp' = hp
      /\ entries' = entries /\ entry_capacity' = entry_capacity
      /\ refused' = refused /\ irc' = irc /\ ikilled' = ikilled
      /\ la' = la /\ socks' = socks
      /\ objects' = objects /\ display_ok' = display_ok
    BY DEF ImportBuffer, announcedVars, outcomeVars, acceptVars, displayVars
<1>2. fds' \in Nat /\ fds = Len(entries) /\ Len(entries) \in Nat
    BY <1>1 DEF ImportInv, ImportTypeOK, DmabufsByStage
<1>3. ImportTypeOK'
    BY <1>1, <1>2 DEF ImportInv, ImportTypeOK, AcceptTypeOK, DisplayTypeOK
<1>4. PacketInHand' /\ DmabufsByStage' /\ TableHasRoom'
    BY <1>1, <1>2 DEF ImportInv, PacketInHand, DmabufsByStage, TableHasRoom,
                      EntryInBounds
<1>5. SocksByStage' /\ WindowByStage'
    BY <1>1 DEF ImportInv, SocksByStage, WindowByStage
<1> QED
    BY <1>3, <1>4, <1>5 DEF ImportInv

LEMMA MapImportedKeeps == ImportInv /\ MapImported => ImportInv'
<1> SUFFICES ASSUME ImportInv, MapImported PROVE ImportInv'
    OBVIOUS
<1>1. /\ ipc = "map" /\ entries' = Append(entries, hp) /\ hp' = NoPacket
      /\ ipc' \in {"handle", "display", "output"}
      /\ ipc' = "output" => ~Display
      /\ buffer_count' = buffer_count
      /\ entry_capacity' = entry_capacity /\ fds' = fds
      /\ refused' = refused /\ irc' = irc /\ ikilled' = ikilled
      /\ la' = la /\ socks' = socks
      /\ objects' = objects /\ display_ok' = display_ok
    BY DEF MapImported, NextHandle, outcomeVars, acceptVars, displayVars
<1>2. hp \in zc_handle_packet /\ entries \in Seq(zc_handle_packet)
    BY <1>1 DEF ImportInv, ImportTypeOK, PacketInHand
<1>3. /\ entries' \in Seq(zc_handle_packet)
      /\ Len(entries) \in Nat /\ Len(entries') = Len(entries) + 1
    BY <1>1, <1>2
<1>4. ImportTypeOK'
    BY <1>1, <1>3 DEF ImportInv, ImportTypeOK, AcceptTypeOK, DisplayTypeOK
<1>5. PacketInHand' /\ DmabufsByStage' /\ TableHasRoom'
  <2>1. fds = Len(entries) + 1 /\ Len(entries) < entry_capacity
        /\ entry_capacity \in Nat
      BY <1>1 DEF ImportInv, ImportTypeOK, DmabufsByStage, TableHasRoom,
                  EntryInBounds
  <2> QED
      BY <1>1, <1>3, <2>1 DEF PacketInHand, DmabufsByStage, TableHasRoom,
                              EntryInBounds
<1>6. SocksByStage' /\ WindowByStage'
    BY <1>1 DEF ImportInv, SocksByStage, WindowByStage
<1> QED
    BY <1>4, <1>5, <1>6 DEF ImportInv

LEMMA MapFailsKeeps == ImportInv /\ MapFails => ImportInv'
<1> SUFFICES ASSUME ImportInv, MapFails PROVE ImportInv'
    OBVIOUS
<1>1. /\ ipc = "map" /\ ipc' = "cleanup" /\ fds' = fds - 1 /\ hp' = NoPacket
      /\ buffer_count' = buffer_count
      /\ entries' = entries /\ entry_capacity' = entry_capacity
      /\ refused' = refused /\ irc' = irc /\ ikilled' = ikilled
      /\ la' = la /\ socks' = socks
      /\ objects' = objects /\ display_ok' = display_ok
    BY DEF MapFails, outcomeVars, acceptVars, displayVars
<1>2. fds' \in Nat /\ fds' = Len(entries) /\ Len(entries) \in Nat
    BY <1>1 DEF ImportInv, ImportTypeOK, DmabufsByStage
<1>3. ImportTypeOK'
    BY <1>1, <1>2 DEF ImportInv, ImportTypeOK, AcceptTypeOK, DisplayTypeOK
<1>4. PacketInHand' /\ DmabufsByStage' /\ TableHasRoom'
    BY <1>1, <1>2 DEF ImportInv, PacketInHand, DmabufsByStage, TableHasRoom,
                      EntryInBounds
<1>5. SocksByStage' /\ WindowByStage'
    BY <1>1 DEF ImportInv, SocksByStage, WindowByStage
<1> QED
    BY <1>3, <1>4, <1>5 DEF ImportInv

(* display_init has an object left to make.                                *)
LEMMA ObjectLeft ==
    ASSUME objects \subseteq AllObjects, objects # AllObjects
    PROVE  SdlObjects[Cardinality(objects) + 1] \in AllObjects
<1>1. /\ DOMAIN SdlObjects = 1..4
      /\ AllObjects = {"SDL", "window", "renderer", "texture"}
  <2>1. DOMAIN SdlObjects = 1..4
      BY DEF SdlObjects
  <2>2. /\ SdlObjects[1] = "SDL" /\ SdlObjects[2] = "window"
        /\ SdlObjects[3] = "renderer" /\ SdlObjects[4] = "texture"
      BY DEF SdlObjects
  <2>3. 1..4 = {1, 2, 3, 4}
      OBVIOUS
  <2> QED
      BY <2>1, <2>2, <2>3 DEF AllObjects
<1>2. IsFiniteSet(AllObjects) /\ Cardinality(AllObjects) = 4
  <2> DEFINE A1 == {"SDL"}
             A2 == A1 \cup {"window"}
             A3 == A2 \cup {"renderer"}
             A4 == A3 \cup {"texture"}
  <2>1. IsFiniteSet(A1) /\ Cardinality(A1) = 1
      BY FS_Singleton
  <2>2. IsFiniteSet(A2) /\ Cardinality(A2) = 2
      BY <2>1, FS_AddElement
  <2>3. IsFiniteSet(A3) /\ Cardinality(A3) = 3
      BY <2>2, FS_AddElement
  <2>4. IsFiniteSet(A4) /\ Cardinality(A4) = 4
      BY <2>3, FS_AddElement
  <2>5. AllObjects = A4
      BY <1>1
  <2> QED
      BY <2>4, <2>5
<1>3. /\ Cardinality(objects) \in Nat
      /\ Cardinality(objects) < Cardinality(AllObjects)
    BY <1>2, FS_Subset, FS_CardinalityType
<1>4. Cardinality(objects) + 1 \in DOMAIN SdlObjects
    BY <1>1, <1>2, <1>3
<1> QED
    BY <1>4 DEF AllObjects

LEMMA OpenDisplayKeeps == ImportInv /\ OpenDisplay => ImportInv'
<1> SUFFICES ASSUME ImportInv, OpenDisplay PROVE ImportInv'
    OBVIOUS
<1>1. /\ ipc = "display" /\ ipc' \in {"display", "output"}
      /\ ipc' = "output" <=> display_ok'
      /\ objects # AllObjects
      /\ objects' = objects \cup {SdlObjects[Cardinality(objects) + 1]}
      /\ display_ok' = (objects' = AllObjects)
      /\ buffer_count' = buffer_count /\ hp' = hp
      /\ entries' = entries /\ entry_capacity' = entry_capacity /\ fds' = fds
      /\ refused' = refused /\ irc' = irc /\ ikilled' = ikilled
      /\ la' = la /\ socks' = socks
    BY DEF OpenDisplay, CreateObject, announcedVars, importedVars,
           outcomeVars, acceptVars
<1>2. DisplayTypeOK'
  <2>1. objects \subseteq AllObjects
      BY DEF ImportInv, ImportTypeOK, DisplayTypeOK
  <2>2. display_ok' \in BOOLEAN
      BY <1>1
  <2> QED
      BY <1>1, <2>1, <2>2, ObjectLeft DEF DisplayTypeOK
<1>3. ImportTypeOK'
    BY <1>1, <1>2 DEF ImportInv, ImportTypeOK, AcceptTypeOK
<1>4. PacketInHand' /\ DmabufsByStage' /\ TableHasRoom'
    BY <1>1 DEF ImportInv, PacketInHand, DmabufsByStage, TableHasRoom,
                EntryInBounds
<1>5. SocksByStage'
    BY <1>1 DEF ImportInv, SocksByStage
<1>6. WindowByStage'
    BY <1>1 DEF WindowByStage
<1> QED
    BY <1>3, <1>4, <1>5, <1>6 DEF ImportInv

LEMMA LeaveKeeps ==
    ImportInv /\ (CleanupEntries \/ ImportClose \/ OpenFails \/ ImportKilled)
        => ImportInv'
<1> SUFFICES ASSUME ImportInv,
                    \/ CleanupEntries \/ ImportClose
                    \/ OpenFails \/ ImportKilled
             PROVE  ImportInv'
    OBVIOUS
<1>1. /\ entries' = entries /\ entry_capacity' = entry_capacity
      /\ buffer_count' = buffer_count /\ hp' = hp /\ refused' = refused
      /\ la' = la /\ display_ok' = display_ok
      /\ ipc' \in {"close", "done"}
    BY DEF CleanupEntries, DisplayDestroy, ImportClose, OpenFails,
           ImportKilled, announcedVars, importedVars, outcomeVars,
           acceptVars, displayVars
<1>2. ASSUME fds' = 0, socks' \subseteq socks, irc' \in {0, 1},
             ikilled' \in BOOLEAN, objects' \subseteq objects
      PROVE  ImportTypeOK'
    BY <1>1, <1>2 DEF ImportInv, ImportTypeOK, AcceptTypeOK, DisplayTypeOK
<1>3. PacketInHand' /\ TableHasRoom'
    BY <1>1 DEF ImportInv, PacketInHand, TableHasRoom, EntryInBounds
<1>4. CASE CleanupEntries
  <2>1. /\ ipc = "cleanup" /\ ipc' = "close" /\ fds' = fds - Len(entries)
        /\ objects' = (IF display_ok THEN {} ELSE objects)
        /\ socks' = socks /\ irc' = irc /\ ikilled' = ikilled
      BY <1>4 DEF CleanupEntries, DisplayDestroy, outcomeVars, acceptVars
  <2>2. fds' = 0
      BY <2>1 DEF ImportInv, ImportTypeOK, DmabufsByStage
  <2>3. ImportTypeOK'
      BY <1>2, <2>1, <2>2 DEF ImportInv, ImportTypeOK
  <2>4. DmabufsByStage' /\ SocksByStage' /\ WindowByStage'
      BY <1>1, <2>1, <2>2 DEF ImportInv, DmabufsByStage, SocksByStage,
                              WindowByStage
  <2> QED
      BY <1>3, <2>3, <2>4 DEF ImportInv
<1>5. CASE ImportClose
  <2>1. /\ ipc = "close" /\ ipc' = "done" /\ fds' = fds
        /\ objects' = objects /\ socks' = socks \ {"conn_fd"}
        /\ irc' = irc /\ ikilled' = ikilled
      BY <1>5 DEF ImportClose, importedVars, outcomeVars, displayVars
  <2>2. fds' = 0
      BY <2>1 DEF ImportInv, DmabufsByStage
  <2>3. ImportTypeOK'
      BY <1>2, <2>1, <2>2 DEF ImportInv, ImportTypeOK
  <2>4. socks' = {}
      BY <2>1 DEF ImportInv, SocksByStage, SocksOf
  <2>5. DmabufsByStage' /\ SocksByStage' /\ WindowByStage'
      BY <1>1, <2>1, <2>2, <2>4 DEF ImportInv, DmabufsByStage, SocksByStage,
                                    WindowByStage
  <2> QED
      BY <1>3, <2>3, <2>5 DEF ImportInv
<1>6. CASE OpenFails
  <2>1. /\ ipc = "open" /\ ipc' = "done" /\ fds' = fds
        /\ objects' = objects /\ socks' = socks
        /\ irc' = irc /\ ikilled' = ikilled
      BY <1>6 DEF OpenFails, importedVars, outcomeVars, displayVars,
                  acceptVars
  <2>2. fds' = 0 /\ socks' = {} /\ (objects' = {} \/ ~display_ok)
    <3>1. Len(entries) = 0
        BY <2>1 DEF ImportInv, TableHasRoom
    <3> QED
        BY <2>1, <3>1 DEF ImportInv, ImportTypeOK, DmabufsByStage,
                          SocksByStage, SocksOf, WindowByStage
  <2>3. ImportTypeOK'
      BY <1>2, <2>1, <2>2 DEF ImportInv, ImportTypeOK
  <2>4. DmabufsByStage' /\ SocksByStage' /\ WindowByStage'
      BY <1>1, <2>1, <2>2 DEF DmabufsByStage, SocksByStage, WindowByStage
  <2> QED
      BY <1>3, <2>3, <2>4 DEF ImportInv
<1>7. CASE ImportKilled
  <2>1. /\ ipc' = "done" /\ fds' = 0 /\ socks' = {} /\ objects' = {}
        /\ irc' = 1 /\ ikilled' = TRUE
      BY <1>7 DEF ImportKilled
  <2>2. ikilled' \in BOOLEAN
      BY <2>1
  <2>3. ImportTypeOK'
      BY <1>2, <2>1, <2>2
  <2>4. DmabufsByStage' /\ SocksByStage' /\ WindowByStage'
      BY <2>1 DEF DmabufsByStage, SocksByStage, WindowByStage
  <2> QED
      BY <1>3, <2>3, <2>4 DEF ImportInv
<1> QED
    BY <1>4, <1>5, <1>6, <1>7

LEMMA ImportUntouched == ImportInv /\ UNCHANGED importVars => ImportInv'
BY DEF ImportInv, ImportTypeOK, AcceptTypeOK, DisplayTypeOK, PacketInHand,
       DmabufsByStage, TableHasRoom, EntryInBounds, SocksByStage,
       WindowByStage, importVars, announcedVars, importedVars, outcomeVars,
       acceptVars, displayVars

LEMMA RecvHelloKeeps ==
    SetupLinkTypeOK /\ ImportInv /\ RecvHello => ImportInv'
<1> SUFFICES ASSUME SetupLinkTypeOK, ImportInv, RecvHello PROVE ImportInv'
    OBVIOUS
<1>1. /\ ipc = "hello" /\ wire # <<>>
      /\ UNCHANGED <<importedVars, ikilled, acceptVars, displayVars>>
      /\ irc' = irc /\ hp' = hp
    BY DEF RecvHello, Refuse, announcedVars, outcomeVars
<1>2. Head(wire) \in stream_hello \cup zc_handle_packet \cup zc_frame_packet
    BY <1>1 DEF SetupLinkTypeOK
<1>3. irc \in {0, 1} /\ refused \in BOOLEAN /\ buffer_count \in Nat
    BY DEF ImportInv, ImportTypeOK
<1>4. CASE Head(wire).magic = "STREAM"
  <2>1. Head(wire).buffer_count \in Nat
      BY <1>2, <1>4 DEF stream_hello, zc_handle_packet, zc_frame_packet
  <2>2. /\ buffer_count' \in Nat /\ refused' = refused
        /\ ipc' \in {"handle", "display", "output"}
        /\ ipc' = "output" => ~Display
      BY <1>4, <2>1 DEF RecvHello, NextHandle, outcomeVars
  <2> QED
      BY <1>1, <1>3, <2>2, ImportGotoKeeps
<1>5. CASE Head(wire).magic # "STREAM"
  <2>1. ipc' = "cleanup" /\ refused' \in BOOLEAN
        /\ buffer_count' = buffer_count
      BY <1>5 DEF RecvHello, Refuse, announcedVars
  <2> QED
      BY <1>1, <1>3, <2>1, ImportGotoKeeps
<1> QED
    BY <1>4, <1>5

LEMMA ImportKeeps ==
    SetupLinkTypeOK /\ ImportInv /\ ImportNext => ImportInv'
<1> SUFFICES ASSUME SetupLinkTypeOK, ImportInv, ImportNext PROVE ImportInv'
    OBVIOUS
<1>0. irc \in {0, 1} /\ refused \in BOOLEAN /\ buffer_count \in Nat
    BY DEF ImportInv, ImportTypeOK
<1>1. ASSUME NEW pc, ImportGoto(pc)
      PROVE  /\ ipc' = pc /\ irc' \in {0, 1} /\ refused' \in BOOLEAN
             /\ buffer_count' \in Nat /\ hp' \in {hp, NoPacket}
             /\ UNCHANGED <<importedVars, ikilled, acceptVars, displayVars>>
    BY <1>0, <1>1 DEF ImportGoto, announcedVars, outcomeVars
<1>2. CASE OpenDevice
    BY <1>1, <1>2, ImportGotoKeeps DEF OpenDevice
<1>3. CASE Accepted \/ NotAccepted
    BY <1>1, <1>3, ImportGotoKeeps DEF Accepted, NotAccepted
<1>4. CASE OpenOutput \/ ImportLoopFails
    BY <1>1, <1>4, ImportGotoKeeps DEF OpenOutput, ImportLoopFails
<1>5. CASE RecvSetupFails
    BY <1>1, <1>5, ImportGotoKeeps DEF RecvSetupFails
<1>6. CASE ImportCallFails
  <2>1. /\ ipc \in {"import", "display", "output"} /\ ipc' = "cleanup"
        /\ hp' = NoPacket /\ irc' = irc /\ refused' = refused
        /\ buffer_count' = buffer_count
        /\ UNCHANGED <<importedVars, ikilled, acceptVars, displayVars>>
      BY <1>6 DEF ImportCallFails, outcomeVars
  <2> QED
      BY <1>0, <2>1, ImportGotoKeeps
<1>7. CASE ImportLoopEnds
  <2>1. /\ ipc = "loop" /\ ipc' = "cleanup"
        /\ hp' = hp /\ irc' \in {0, 1} /\ refused' = refused
        /\ buffer_count' = buffer_count
        /\ UNCHANGED <<importedVars, ikilled, acceptVars, displayVars>>
      BY <1>7 DEF ImportLoopEnds, announcedVars
  <2> QED
      BY <1>0, <2>1, ImportGotoKeeps
<1>8. CASE RecvFrame
  <2>1. /\ ipc = "loop" /\ ipc' \in {"loop", "cleanup"}
        /\ hp' = hp /\ irc' = irc /\ refused' \in {refused, TRUE}
        /\ buffer_count' = buffer_count
        /\ UNCHANGED <<importedVars, ikilled, acceptVars, displayVars>>
      BY <1>8 DEF RecvFrame, Refuse, announcedVars, outcomeVars
  <2>2. refused' \in BOOLEAN
      BY <1>0, <2>1
  <2> QED
      BY <1>0, <2>1, <2>2, ImportGotoKeeps
<1> QED
    BY <1>2, <1>3, <1>4, <1>5, <1>6, <1>7, <1>8, AcceptKeeps,
       RecvHelloKeeps, RecvHandleKeeps, ImportBufferKeeps, MapImportedKeeps,
       MapFailsKeeps, OpenDisplayKeeps, LeaveKeeps
    DEF ImportNext, ImportStep

-----------------------------------------------------------------------------
(* The packets between them                                                *)

LEMMA WireTypes ==
    SetupInv => /\ buffers \in Nat /\ i \in 0..buffers
                /\ wire \in Seq(stream_hello \cup zc_handle_packet
                                                \cup zc_frame_packet)
                /\ Len(wire) \in Nat
                /\ entries \in Seq(zc_handle_packet) /\ Len(entries) \in Nat
                /\ DOMAIN entries = 1..Len(entries)
                /\ Received \in Nat
BY DEF SetupInv, SetupLinkTypeOK, ExportInv, ExportTypeOK, ImportInv,
       ImportTypeOK, Received

LEMMA ConnUnchanged == ConnTypeOK /\ UNCHANGED connVars => ConnTypeOK'
BY DEF ConnTypeOK, connVars

LEMMA LinkExport ==
    SetupInv /\ ExportNext => SetupLinkTypeOK'
<1> SUFFICES ASSUME SetupInv, ExportNext PROVE SetupLinkTypeOK'
    OBVIOUS
<1>0. /\ ConnTypeOK
      /\ wire \in Seq(stream_hello \cup zc_handle_packet \cup zc_frame_packet)
    BY DEF SetupInv, SetupLinkTypeOK
<1>1. ASSUME NEW p, SendPacket(p),
             p \in stream_hello \cup zc_handle_packet \cup zc_frame_packet
      PROVE  SetupLinkTypeOK'
    BY <1>0, <1>1, ConnUnchanged DEF SendPacket, SetupLinkTypeOK
<1>2. CASE SendHello
  <2>1. [magic |-> "STREAM", buffer_count |-> HelloCount] \in stream_hello
      BY WireTypes DEF HelloCount, stream_hello
  <2> QED
      BY <1>1, <1>2, <2>1 DEF SendHello
<1>3. CASE SendHandle
  <2>1. /\ TablesHold(buffers, buffers) /\ i < buffers
      BY <1>3 DEF SetupInv, ExportInv, IndexInRange, EachBuffer,
                  TablesByStage, TablesComplete, SendHandle
  <2>2. i \in DOMAIN handle_id /\ i \in DOMAIN share
      BY <2>1, WireTypes DEF TablesHold
  <2>3. handle_id[i] \in Handles /\ share[i] \in share_meta
      BY <2>2 DEF SetupInv, ExportInv, ExportTypeOK
  <2>4. [magic |-> "HANDLE", handle_id |-> handle_id[i], meta |-> share[i]]
            \in zc_handle_packet
      BY <2>3 DEF zc_handle_packet
  <2> QED
      BY <1>1, <1>3, <2>4 DEF SendHandle
<1>4. CASE AnnounceFrame
  <2>1. PICK k \in Index :
            SendPacket([magic |-> "FRAME", handle_id |-> handle_id[k]])
      BY <1>4 DEF AnnounceFrame
  <2>2. TablesHold(buffers, buffers)
      BY <1>4 DEF SetupInv, ExportInv, TablesByStage, TablesComplete,
                  AllBuffers, AnnounceFrame
  <2>3. handle_id[k] \in Handles
      BY <2>2 DEF SetupInv, ExportInv, ExportTypeOK, TablesHold, Index
  <2>4. [magic |-> "FRAME", handle_id |-> handle_id[k]] \in zc_frame_packet
      BY <2>3 DEF zc_frame_packet
  <2> QED
      BY <1>1, <2>1, <2>4
<1>5. ASSUME UNCHANGED wire, ConnTypeOK'
      PROVE  SetupLinkTypeOK'
    BY <1>0, <1>5 DEF SetupLinkTypeOK
<1>6. CASE \/ InConnect(ConnectStep) \/ InConnect(Handshake)
           \/ InConnect(ConnectCallFails)
  <2>1. ConnTypeOK'
      BY <1>0, <1>6
      DEF InConnect, ConnectStep, Handshake, ConnectCallFails, MakeSocket,
          ConnectAtOnce, ConnectStarts, PollReady, PollFails, RestoreFlags,
          ConnectGivesUp, CloseEnd, ConnTypeOK, connVars
  <2> QED
      BY <1>5, <1>6, <2>1 DEF InConnect
<1>7. CASE ExportClose \/ ExportKilled
    BY <1>0, <1>5, <1>7 DEF ExportClose, ExportKilled, CloseEnd, ConnTypeOK
<1>8. CASE UNCHANGED setupLinkVars
    BY <1>0, <1>5, <1>8, ConnUnchanged DEF setupLinkVars
<1> QED
    BY <1>2, <1>3, <1>4, <1>6, <1>7, <1>8
    DEF ExportNext, ExportStep, ExportGoto,
        OpenCapture, SetupFormat, ReqBufs, QueryAndMap, ExportHandle,
        FetchMetadata, QueueIndex, StreamOn, Connected, ConnectFailed,
        SetRcvTimeo, SetupSendFails, ExitStreamOff, ReleaseHandles,
        SetupCallFails, LoopEnds, LoopFails

LEMMA LinkImport ==
    SetupInv /\ ImportNext => SetupLinkTypeOK'
<1> SUFFICES ASSUME SetupInv, ImportNext PROVE SetupLinkTypeOK'
    OBVIOUS
<1>0. /\ ConnTypeOK
      /\ wire \in Seq(stream_hello \cup zc_handle_packet \cup zc_frame_packet)
    BY DEF SetupInv, SetupLinkTypeOK
<1>1. ASSUME wire # <<>>, wire' = Tail(wire), UNCHANGED connVars
      PROVE  SetupLinkTypeOK'
  <2>1. wire' \in Seq(stream_hello \cup zc_handle_packet
                                   \cup zc_frame_packet)
      BY <1>0, <1>1, HeadTailProperties
  <2> QED
      BY <1>0, <1>1, <2>1, ConnUnchanged DEF SetupLinkTypeOK
<1>2. ASSUME UNCHANGED wire, ConnTypeOK' PROVE SetupLinkTypeOK'
    BY <1>0, <1>2 DEF SetupLinkTypeOK
<1>3. CASE RecvHello \/ RecvHandle \/ RecvFrame
    BY <1>1, <1>3 DEF RecvHello, RecvHandle, RecvFrame
<1>4. CASE InAccept(AcceptStep) \/ InAccept(AcceptFails)
  <2>1. ConnTypeOK'
      BY <1>0, <1>4
      DEF InAccept, AcceptStep, AcceptFails, MakeListener, BindListener,
          Listen, Accept, ReturnConnection, ReceiverGone, CloseEnd,
          ConnTypeOK, connVars
  <2> QED
      BY <1>2, <1>4, <2>1 DEF InAccept
<1>5. CASE OpenFails \/ ImportClose \/ ImportKilled
  <2>1. ConnTypeOK'
      BY <1>0, <1>5 DEF OpenFails, ImportClose, ImportKilled, ReceiverGone,
                        CloseEnd, ConnTypeOK
  <2> QED
      BY <1>2, <1>5, <2>1 DEF OpenFails, ImportClose, ImportKilled
<1>6. CASE UNCHANGED setupLinkVars
    BY <1>0, <1>2, <1>6, ConnUnchanged DEF setupLinkVars
<1> QED
    BY <1>3, <1>4, <1>5, <1>6
    DEF ImportNext, ImportStep, ImportGoto, OpenDevice, Accepted,
        NotAccepted, ImportBuffer, MapImported, MapFails, OpenDisplay,
        OpenOutput, RecvSetupFails, CleanupEntries, ImportCallFails,
        ImportLoopEnds, ImportLoopFails

LEMMA WireStart == Init => WireInv
<1> SUFFICES ASSUME Init PROVE WireInv
    OBVIOUS
<1>1. /\ wire = <<>> /\ entries = <<>> /\ ipc = "open" /\ epc = "open"
      /\ refused = FALSE /\ buffers = 0
    BY DEF Init, SetupLinkInit, ExportInit, ImportInit
<1>2. Len(wire) = 0 /\ Len(entries) = 0 /\ DOMAIN entries = {}
    BY <1>1
<1> QED
    BY <1>1, <1>2
    DEF WireInv, WireContinues, WireEndsAtSender, SentFromFullTables,
        EntriesAgree, HandlesByStage, NoPacketRefused, BeforeHello,
        NoBuffersYet, BeforeHandles, Stopped

(* Where the receiver is, as long as only the sender moves.                *)
LEMMA ReceiverWaits ==
    UNCHANGED importVars
        => /\ ipc' = ipc /\ entries' = entries /\ hp' = hp
           /\ buffer_count' = buffer_count /\ refused' = refused
           /\ Received' = Received
BY DEF importVars, announcedVars, importedVars, outcomeVars, Received

(* A step of the sender that sends nothing and leaves the tables.          *)
LEMMA SenderQuiet ==
    ASSUME SetupInv, UNCHANGED importVars, wire' = wire,
           buffers' = buffers, handle_id' = handle_id, share' = share,
           epc' \in BeforeHello => epc \in BeforeHello,
           epc' = "handles" => epc = "handles" /\ i' = i,
           epc' = "loop" => epc = "loop"
    PROVE  WireInv'
<1>1. WireInv
    BY DEF SetupInv
<1>2. WireContinues' /\ WireEndsAtSender'
    BY <1>1, ReceiverWaits
    DEF WireInv, WireContinues, WireEndsAtSender
<1>3. SentFromFullTables' /\ EntriesAgree'
    BY <1>1, ReceiverWaits
    DEF WireInv, SentFromFullTables, TablesHold, EntriesAgree
<1>4. HandlesByStage' /\ NoPacketRefused'
    BY <1>1, ReceiverWaits
    DEF WireInv, HandlesByStage, find_entry, NoPacketRefused
<1> QED
    BY <1>2, <1>3, <1>4 DEF WireInv

(* The sender fills its tables before it sends anything.                   *)
LEMMA SenderPrepares ==
    ASSUME SetupInv, UNCHANGED importVars, wire' = wire, buffers' \in Nat,
           epc \in BeforeHello, epc' \in BeforeHello,
           \A k \in DOMAIN handle_id :
              k \in DOMAIN handle_id' /\ handle_id'[k] = handle_id[k]
    PROVE  WireInv'
<1>1. WireInv
    BY DEF SetupInv
<1>2. /\ wire' = <<>> /\ entries' = <<>>
      /\ ipc' \in BeforeHandles \cup Stopped
    BY <1>1, ReceiverWaits DEF WireInv, WireEndsAtSender
<1>3. Len(wire') = 0 /\ Len(entries') = 0 /\ DOMAIN entries' = {}
    BY <1>2
<1>4. WireContinues'
    BY <1>3 DEF WireContinues
<1>5. WireEndsAtSender'
    BY <1>2 DEF WireEndsAtSender, BeforeHello, NoBuffersYet
<1>6. SentFromFullTables' /\ EntriesAgree'
    BY <1>2, <1>3 DEF SentFromFullTables, EntriesAgree
<1>7. HandlesByStage'
    BY <1>2 DEF HandlesByStage, BeforeHandles, Stopped
<1>8. NoPacketRefused'
    BY <1>1, ReceiverWaits DEF WireInv, NoPacketRefused
<1> QED
    BY <1>4, <1>5, <1>6, <1>7, <1>8 DEF WireInv

(* The sender sends the next packet of its sequence.                       *)
LEMMA SenderSends ==
    ASSUME SetupInv, UNCHANGED importVars, NEW p, wire' = Append(wire, p),
           p \in stream_hello \cup zc_handle_packet \cup zc_frame_packet,
           buffers' = buffers, handle_id' = handle_id, share' = share,
           buffers > 0, TablesHold(buffers, buffers),
           epc' \notin BeforeHello,
           ipc \notin Stopped =>
              IsPacket(p, Received + Len(wire), buffers, handle_id, share),
           ipc \notin Stopped /\ epc' = "handles" =>
              Received + Len(wire) + 1 = i' + 1,
           ipc \notin Stopped /\ epc' = "loop" =>
              Received + Len(wire) + 1 > buffers
    PROVE  WireInv'
<1>1. WireInv
    BY DEF SetupInv
<1>2. /\ Len(wire') = Len(wire) + 1 /\ Len(wire) \in Nat
      /\ wire'[Len(wire) + 1] = p
      /\ \A j \in 1..Len(wire) : wire'[j] = wire[j]
    BY WireTypes, AppendProperties
<1>3. Received \in Nat
    BY WireTypes
<1>4. WireContinues'
  <2> SUFFICES ASSUME ipc' \notin Stopped, NEW j \in 1..Len(wire')
               PROVE  IsPacket(wire'[j], Received' + j - 1, buffers',
                               handle_id', share')
      BY DEF WireContinues
  <2>1. /\ ipc \notin Stopped /\ Received' = Received
        /\ buffers' = buffers /\ handle_id' = handle_id /\ share' = share
      BY ReceiverWaits
  <2>2. CASE j = Len(wire) + 1
    <3>1. Received + j - 1 = Received + Len(wire)
        BY <1>2, <1>3, <2>2
    <3> QED
        BY <1>2, <2>1, <2>2, <3>1
  <2>3. CASE j \in 1..Len(wire)
    <3>1. IsPacket(wire[j], Received + j - 1, buffers, handle_id, share)
        BY <1>1, <2>1, <2>3 DEF WireInv, WireContinues
    <3> QED
        BY <1>2, <2>1, <2>3, <3>1
  <2> QED
      BY <1>2, <2>2, <2>3
<1>5. WireEndsAtSender'
  <2>1. Received' + Len(wire') = Received + Len(wire) + 1
      BY <1>2, <1>3, ReceiverWaits
  <2> QED
      BY <2>1, ReceiverWaits DEF WireEndsAtSender
<1>6. SentFromFullTables' /\ EntriesAgree'
    BY <1>1, ReceiverWaits
    DEF WireInv, SentFromFullTables, TablesHold, EntriesAgree
<1>7. HandlesByStage' /\ NoPacketRefused'
    BY <1>1, ReceiverWaits
    DEF WireInv, HandlesByStage, find_entry, NoPacketRefused
<1> QED
    BY <1>4, <1>5, <1>6, <1>7 DEF WireInv

LEMMA HelloInSequence ==
    SetupInv /\ SendHello /\ UNCHANGED importVars => WireInv'
<1> SUFFICES ASSUME SetupInv, SendHello, UNCHANGED importVars
             PROVE  WireInv'
    OBVIOUS
<1> DEFINE p == [magic |-> "STREAM", buffer_count |-> buffers]
<1>1. /\ epc = "hello" /\ epc' = "handles" /\ wire' = Append(wire, p)
      /\ i' = i /\ buffers' = buffers /\ handle_id' = handle_id
      /\ share' = share
    BY DEF SendHello, SendPacket, HelloCount, bufferVars, tableVars
<1>2. buffers > 0 /\ TablesHold(buffers, buffers) /\ i = 0
    BY <1>1 DEF SetupInv, ExportInv, IndexInRange, AllBuffers,
                TablesByStage, TablesComplete
<1>3. /\ wire = <<>> /\ (ipc \notin Stopped => ipc \in BeforeHandles)
    BY <1>1 DEF SetupInv, WireInv, WireEndsAtSender, BeforeHello
<1>4. Len(wire) = 0 /\ (ipc \notin Stopped => Received = 0)
    BY <1>3 DEF Received
<1>5. p \in stream_hello
    BY WireTypes DEF stream_hello
<1>6. IsPacket(p, 0, buffers, handle_id, share)
    BY <1>2, WireTypes DEF IsPacket
<1> QED
    BY <1>1, <1>2, <1>4, <1>5, <1>6, SenderSends
    DEF BeforeHello, NoBuffersYet

LEMMA HandleInSequence ==
    SetupInv /\ SendHandle /\ UNCHANGED importVars => WireInv'
<1> SUFFICES ASSUME SetupInv, SendHandle, UNCHANGED importVars
             PROVE  WireInv'
    OBVIOUS
<1> DEFINE p == HandlePacket(handle_id, share, i)
<1>1. /\ epc = "handles" /\ Advance("handles", "loop")
      /\ wire' = Append(wire, p) /\ buffers' = buffers
      /\ handle_id' = handle_id /\ share' = share
    BY DEF SendHandle, SendPacket, HandlePacket, bufferVars, tableVars
<1>2. /\ i < buffers /\ TablesHold(buffers, buffers)
      /\ buffers \in Nat /\ i \in 0..buffers
    BY <1>1, WireTypes
    DEF SetupInv, ExportInv, IndexInRange, EachBuffer, TablesByStage,
        TablesComplete
<1>3. \/ epc' = "handles" /\ i' = i + 1 /\ i + 1 < buffers
      \/ epc' = "loop" /\ i' = 0 /\ i + 1 = buffers
    BY <1>1, <1>2, AdvanceInRange
<1>4. ipc \notin Stopped => Received + Len(wire) = i + 1
    BY <1>1 DEF SetupInv, WireInv, WireEndsAtSender
<1>5. p \in zc_handle_packet
  <2>1. i \in DOMAIN handle_id /\ i \in DOMAIN share
      BY <1>2 DEF TablesHold
  <2>2. handle_id[i] \in Handles /\ share[i] \in share_meta
      BY <2>1 DEF SetupInv, ExportInv, ExportTypeOK
  <2> QED
      BY <2>2 DEF zc_handle_packet, HandlePacket
<1>6. IsPacket(p, i + 1, buffers, handle_id, share)
  <2>1. (i + 1) - 1 = i /\ i + 1 # 0 /\ ~(i + 1 > buffers)
      BY <1>2
  <2> QED
      BY <2>1 DEF IsPacket
<1>7. /\ ipc \notin Stopped /\ epc' = "handles"
            => Received + Len(wire) + 1 = i' + 1
      /\ ipc \notin Stopped /\ epc' = "loop"
            => Received + Len(wire) + 1 > buffers
    BY <1>2, <1>3, <1>4, WireTypes
<1>8. buffers > 0 /\ epc' \notin BeforeHello
    BY <1>2, <1>3 DEF BeforeHello, NoBuffersYet
<1> QED
    BY <1>1, <1>2, <1>4, <1>5, <1>6, <1>7, <1>8, SenderSends

LEMMA FrameInSequence ==
    SetupInv /\ AnnounceFrame /\ UNCHANGED importVars => WireInv'
<1> SUFFICES ASSUME SetupInv, AnnounceFrame, UNCHANGED importVars
             PROVE  WireInv'
    OBVIOUS
<1>1. /\ epc = "loop" /\ epc' = epc /\ buffers' = buffers
      /\ handle_id' = handle_id /\ share' = share
    BY DEF AnnounceFrame, exportVars, bufferVars, tableVars
<1>2. PICK k \in Index :
          wire' = Append(wire,
                         [magic |-> "FRAME", handle_id |-> handle_id[k]])
    BY DEF AnnounceFrame, SendPacket
<1> DEFINE p == [magic |-> "FRAME", handle_id |-> handle_id[k]]
<1>3. buffers > 0 /\ TablesHold(buffers, buffers)
    BY <1>1 DEF SetupInv, ExportInv, IndexInRange, AllBuffers,
                TablesByStage, TablesComplete
<1>4. ipc \notin Stopped => Received + Len(wire) > buffers
    BY <1>1 DEF SetupInv, WireInv, WireEndsAtSender, BeforeHello,
                NoBuffersYet
<1>5. p \in zc_frame_packet
  <2>1. handle_id[k] \in Handles
      BY <1>3 DEF SetupInv, ExportInv, ExportTypeOK, TablesHold, Index
  <2> QED
      BY <2>1 DEF zc_frame_packet
<1>6. ASSUME NEW n \in Nat, n > buffers
      PROVE  IsPacket(p, n, buffers, handle_id, share)
  <2>1. n # 0 /\ n \notin 1..buffers
      BY <1>6, WireTypes
  <2> QED
      BY <2>1 DEF IsPacket, Index
<1>7. /\ Received + Len(wire) \in Nat
      /\ Received + Len(wire) > buffers => Received + Len(wire) + 1 > buffers
    BY WireTypes
<1>8. epc' = "loop" /\ epc' \notin BeforeHello
    BY <1>1 DEF BeforeHello, NoBuffersYet
<1>9. /\ ipc \notin Stopped =>
            IsPacket(p, Received + Len(wire), buffers, handle_id, share)
      /\ ipc \notin Stopped => Received + Len(wire) + 1 > buffers
    BY <1>4, <1>6, <1>7
<1> HIDE DEF p
<1> QED
    BY <1>1, <1>2, <1>3, <1>5, <1>8, <1>9, SenderSends DEF p

LEMMA SenderKeepsWire ==
    SetupInv /\ ExportNext /\ UNCHANGED importVars => WireInv'
<1> SUFFICES ASSUME SetupInv, ExportNext, UNCHANGED importVars
             PROVE  WireInv'
    OBVIOUS
<1>1. ASSUME NEW pc, ExportGoto(pc),
             pc \in {"format", "reqbufs", "sockopt", "hello", "streamoff"},
             pc = "streamoff" \/ epc \in BeforeHello
      PROVE  WireInv'
    BY <1>1, SenderQuiet
    DEF ExportGoto, bufferVars, tableVars, setupLinkVars, BeforeHello,
        NoBuffersYet
<1>2. CASE \/ OpenCapture \/ SetupFormat \/ SetRcvTimeo \/ Connected
           \/ ConnectFailed \/ SetupSendFails \/ SetupCallFails \/ LoopFails
    BY <1>1, <1>2
    DEF OpenCapture, SetupFormat, SetRcvTimeo, Connected, ConnectFailed,
        SetupSendFails, SetupCallFails, LoopFails, BeforeHello, NoBuffersYet
<1>3. CASE ReqBufs
  <2>1. \A n \in Grants : n \in Nat
      BY ExportAssumption
  <2> QED
      BY <1>3, <2>1, SenderPrepares
      DEF ReqBufs, tableVars, setupLinkVars, BeforeHello, NoBuffersYet
<1>4. CASE ExportHandle
  <2>1. epc = "export" /\ epc' = "metadata" /\ buffers' = buffers
        /\ wire' = wire
      BY <1>4 DEF ExportHandle, bufferVars, setupLinkVars
  <2>2. DOMAIN handle_id = 0..(i - 1) /\ i \in Nat
      BY <2>1, WireTypes
      DEF SetupInv, ExportInv, TablesByStage, TablesHold
  <2>3. \A k \in DOMAIN handle_id : k \in 0..i /\ k # i
      BY <2>2
  <2>4. \A k \in DOMAIN handle_id :
            k \in DOMAIN handle_id' /\ handle_id'[k] = handle_id[k]
      BY <1>4, <2>3 DEF ExportHandle
  <2> QED
      BY <2>1, <2>4, WireTypes, SenderPrepares
      DEF BeforeHello, NoBuffersYet
<1>5. CASE FetchMetadata
  <2>1. /\ epc = "metadata" /\ epc' \in {"export", "queue"}
        /\ buffers' = buffers /\ wire' = wire /\ handle_id' = handle_id
      BY <1>5 DEF FetchMetadata, Advance, bufferVars, setupLinkVars
  <2> QED
      BY <2>1, WireTypes, SenderPrepares DEF BeforeHello, NoBuffersYet
<1>6. CASE QueryAndMap \/ QueueIndex \/ StreamOn
  <2>1. /\ epc \in {"querybuf", "queue", "streamon"}
        /\ epc' \in {"querybuf", "queue", "streamon", "export", "connect"}
        /\ buffers' = buffers /\ wire' = wire /\ handle_id' = handle_id
        /\ share' = share
      BY <1>6 DEF QueryAndMap, QueueIndex, StreamOn, Advance, bufferVars,
                  tableVars, setupLinkVars
  <2> QED
      BY <2>1, SenderQuiet DEF BeforeHello, NoBuffersYet
<1>7. CASE \/ InConnect(ConnectStep) \/ InConnect(Handshake)
           \/ InConnect(ConnectCallFails)
    BY <1>7, SenderQuiet DEF InConnect, bufferVars, tableVars
<1>8. CASE \/ LoopEnds \/ ExitStreamOff \/ ReleaseHandles \/ ExportClose
           \/ ExportKilled
  <2>1. /\ epc' \in {"streamoff", "release", "close", "done"}
        /\ buffers' = buffers /\ wire' = wire /\ handle_id' = handle_id
        /\ share' = share
      BY <1>8 DEF LoopEnds, ExitStreamOff, ReleaseHandles, ExportClose,
                  ExportKilled, bufferVars, tableVars, setupLinkVars
  <2> QED
      BY <2>1, SenderQuiet DEF BeforeHello, NoBuffersYet
<1> QED
    BY <1>2, <1>3, <1>4, <1>5, <1>6, <1>7, <1>8, HelloInSequence,
       HandleInSequence, FrameInSequence
    DEF ExportNext, ExportStep

(* Where the sender is, as long as only the receiver moves.                *)
LEMMA SenderWaits ==
    UNCHANGED exportVars
        => /\ epc' = epc /\ i' = i /\ buffers' = buffers
           /\ handle_id' = handle_id /\ share' = share
BY DEF exportVars, bufferVars, tableVars

(* What is left after the first packet is read.                            *)
LEMMA TailOfWire ==
    SetupInv /\ wire # <<>>
        => /\ Len(wire) > 0 /\ 1 \in 1..Len(wire) /\ Head(wire) = wire[1]
           /\ Len(Tail(wire)) = Len(wire) - 1
           /\ \A j \in 1..Len(Tail(wire)) :
                 Tail(wire)[j] = wire[j + 1] /\ j + 1 \in 1..Len(wire)
BY WireTypes, HeadTailProperties, EmptySeq

(* A receiver that has not stopped reads the packet that is due.           *)
LEMMA NextPacket ==
    SetupInv /\ wire # <<>> /\ ipc \notin Stopped
        => /\ IsPacket(Head(wire), Received, buffers, handle_id, share)
           /\ epc \notin BeforeHello
           /\ buffers > 0 /\ TablesHold(buffers, buffers)
<1> SUFFICES ASSUME SetupInv, wire # <<>>, ipc \notin Stopped
             PROVE  /\ IsPacket(Head(wire), Received, buffers, handle_id,
                                share)
                    /\ epc \notin BeforeHello
                    /\ buffers > 0 /\ TablesHold(buffers, buffers)
    OBVIOUS
<1>1. Received + 1 - 1 = Received
    BY WireTypes
<1> QED
    BY <1>1, TailOfWire
    DEF SetupInv, WireInv, WireContinues, WireEndsAtSender,
        SentFromFullTables

(* It stops, having read the packet or not.                                *)
LEMMA ReceiverStops ==
    ASSUME SetupInv, UNCHANGED exportVars, ipc' \in Stopped,
           \/ wire' = wire
           \/ wire # <<>> /\ wire' = Tail(wire),
           entries' = entries,
           refused' => \E k \in DOMAIN handle_id :
                          \E l \in DOMAIN handle_id \ {k} :
                             handle_id[k] = handle_id[l]
    PROVE  WireInv'
<1>1. WireInv
    BY DEF SetupInv
<1>2. WireContinues'
    BY DEF WireContinues
<1>3. WireEndsAtSender'
    BY <1>1, SenderWaits DEF WireInv, WireEndsAtSender
<1>4. SentFromFullTables' /\ EntriesAgree'
    BY <1>1, SenderWaits
    DEF WireInv, SentFromFullTables, TablesHold, EntriesAgree
<1>5. HandlesByStage'
    BY DEF HandlesByStage, BeforeHandles, Stopped
<1>6. NoPacketRefused'
    BY SenderWaits DEF NoPacketRefused
<1> QED
    BY <1>2, <1>3, <1>4, <1>5, <1>6 DEF WireInv

(* It goes on without reading and without a change of its table.           *)
LEMMA ReceiverMoves ==
    ASSUME SetupInv, UNCHANGED exportVars, wire' = wire,
           entries' = entries, buffer_count' = buffer_count, hp' = hp,
           refused' = refused,
           \/ ipc \in BeforeHandles /\ ipc' \in BeforeHandles
           \/ ipc = "import" /\ ipc' = "map"
           \/ ipc = "display" /\ ipc' \in {"display", "output"}
           \/ ipc = "output" /\ ipc' = "loop"
    PROVE  WireInv'
<1>1. WireInv
    BY DEF SetupInv
<1>2. ipc \notin Stopped /\ ipc' \notin Stopped /\ Received' = Received
    BY DEF Received, BeforeHandles, Stopped
<1>3. WireContinues'
    BY <1>1, <1>2, SenderWaits DEF WireInv, WireContinues
<1>4. WireEndsAtSender'
    BY <1>1, <1>2, SenderWaits
    DEF WireInv, WireEndsAtSender, BeforeHandles, Stopped
<1>5. SentFromFullTables' /\ EntriesAgree'
    BY <1>1, SenderWaits
    DEF WireInv, SentFromFullTables, TablesHold, EntriesAgree,
        BeforeHandles, Stopped
<1>6. HandlesByStage' /\ NoPacketRefused'
    BY <1>1, SenderWaits
    DEF WireInv, HandlesByStage, find_entry, NoPacketRefused,
        BeforeHandles, Stopped
<1> QED
    BY <1>3, <1>4, <1>5, <1>6 DEF WireInv

(* It reads the packet that is due: the rest of the wire continues it.     *)
LEMMA RestContinues ==
    ASSUME SetupInv, UNCHANGED exportVars, wire # <<>>, wire' = Tail(wire),
           ipc \notin Stopped, ipc' \notin Stopped,
           \/ Received' = Received + 1
           \/ Received' = Received /\ Received > buffers
    PROVE  /\ WireContinues'
           /\ epc = "handles" /\ Received' = Received + 1
                => Received' + Len(wire') = i + 1
           /\ epc = "loop" => Received' + Len(wire') > buffers
<1>1. /\ WireContinues
      /\ epc = "handles" => Received + Len(wire) = i + 1
      /\ epc = "loop" => Received + Len(wire) > buffers
    BY DEF SetupInv, WireInv, WireEndsAtSender
<1>2. /\ buffers \in Nat /\ i \in Nat /\ Received \in Nat
      /\ Len(wire) \in Nat
    BY WireTypes
<1>3. Len(wire) > 0 /\ Len(wire') = Len(wire) - 1
    BY TailOfWire
<1>4. WireContinues'
  <2> SUFFICES ASSUME NEW j \in 1..Len(wire')
               PROVE  IsPacket(wire'[j], Received' + j - 1, buffers,
                               handle_id, share)
      BY SenderWaits DEF WireContinues
  <2>1. wire'[j] = wire[j + 1] /\ j + 1 \in 1..Len(wire)
      BY TailOfWire
  <2>2. IsPacket(wire'[j], Received + (j + 1) - 1, buffers, handle_id, share)
      BY <1>1, <2>1 DEF WireContinues
  <2>3. CASE Received' = Received + 1
    <3>1. Received + (j + 1) - 1 = Received' + j - 1
        BY <1>2, <2>3
    <3> QED
        BY <2>2, <3>1
  <2>4. CASE Received' = Received /\ Received > buffers
    <3> DEFINE n == Received + (j + 1) - 1
               m == Received' + j - 1
    <3>1. n > buffers /\ n # 0 /\ m > buffers /\ m # 0
          /\ n \notin 1..buffers /\ m \notin 1..buffers
        BY <1>2, <2>4
    <3>2. IsPacket(wire'[j], n, buffers, handle_id, share)
        BY <2>2
    <3> HIDE DEF n, m
    <3>3. IsPacket(wire'[j], m, buffers, handle_id, share)
        BY <3>1, <3>2 DEF IsPacket
    <3> QED
        BY <3>3 DEF m
  <2> QED
      BY <2>3, <2>4
<1>5. /\ epc = "handles" /\ Received' = Received + 1
            => Received' + Len(wire') = i + 1
      /\ epc = "loop" => Received' + Len(wire') > buffers
  <2>1. CASE Received' = Received + 1
      BY <1>1, <1>2, <1>3, <2>1
  <2>2. CASE Received' = Received /\ Received > buffers
    <3>1. Received + (Len(wire) - 1) > buffers /\ Received # Received + 1
        BY <1>2, <1>3, <2>2
    <3> QED
        BY <1>3, <2>2, <3>1
  <2> QED
      BY <2>1, <2>2
<1> QED
    BY <1>4, <1>5

LEMMA HelloRead ==
    SetupInv /\ RecvHello /\ UNCHANGED exportVars => WireInv'
<1> SUFFICES ASSUME SetupInv, RecvHello, UNCHANGED exportVars
             PROVE  WireInv'
    OBVIOUS
<1>1. /\ ipc = "hello" /\ wire # <<>> /\ wire' = Tail(wire)
      /\ ipc \notin Stopped
    BY DEF RecvHello, Stopped
<1>2. Received = 0
    BY <1>1 DEF Received, BeforeHandles
<1>3. /\ Head(wire) = [magic |-> "STREAM", buffer_count |-> buffers]
      /\ epc \notin BeforeHello
      /\ buffers > 0 /\ TablesHold(buffers, buffers)
    BY <1>1, <1>2, NextPacket DEF IsPacket
<1>4. WireInv
    BY DEF SetupInv
<1>5. entries = <<>> /\ Len(entries) = 0 /\ DOMAIN entries = {}
    BY <1>1, <1>4 DEF WireInv, HandlesByStage, BeforeHandles
<1>6. /\ buffer_count' = buffers /\ ipc' = "handle" /\ entries' = entries
      /\ refused' = refused
    BY <1>1, <1>3, WireTypes
    DEF RecvHello, NextHandle, importedVars, outcomeVars
<1>7. Received' = Received + 1 /\ ipc' \notin Stopped
    BY <1>2, <1>5, <1>6 DEF Received, BeforeHandles, Stopped
<1>8. WireContinues' /\ WireEndsAtSender'
    BY <1>1, <1>3, <1>7, RestContinues, SenderWaits DEF WireEndsAtSender
<1>9. SentFromFullTables' /\ EntriesAgree'
    BY <1>3, <1>5, <1>6, SenderWaits, WireTypes
    DEF SentFromFullTables, TablesHold, EntriesAgree
<1>10. HandlesByStage'
    BY <1>3, <1>5, <1>6, SenderWaits
    DEF HandlesByStage, BeforeHandles, Stopped
<1>11. NoPacketRefused'
    BY <1>4, <1>6, SenderWaits DEF WireInv, NoPacketRefused
<1> QED
    BY <1>8, <1>9, <1>10, <1>11 DEF WireInv

LEMMA HandleRead ==
    SetupInv /\ RecvHandle /\ UNCHANGED exportVars => WireInv'
<1> SUFFICES ASSUME SetupInv, RecvHandle, UNCHANGED exportVars
             PROVE  WireInv'
    OBVIOUS
<1> DEFINE k == Len(entries)
<1>1. /\ ipc = "handle" /\ wire # <<>> /\ wire' = Tail(wire)
      /\ ipc \notin Stopped /\ entries' = entries
    BY DEF RecvHandle, Refuse, importedVars, Stopped
<1>2. WireInv
    BY DEF SetupInv
<1>3. /\ k \in 0..(buffers - 1) /\ Received = k + 1
      /\ k + 1 \in 1..buffers /\ (k + 1) - 1 = k /\ k + 1 # 0
    BY <1>1, <1>2, WireTypes
    DEF WireInv, HandlesByStage, Received, BeforeHandles
<1>4. /\ Head(wire) = HandlePacket(handle_id, share, k)
      /\ epc \notin BeforeHello
      /\ buffers > 0 /\ TablesHold(buffers, buffers)
    BY <1>1, <1>3, NextPacket DEF IsPacket
<1>5. HandlePacketValid(Head(wire))
  <2>1. ShareValid(share[k])
      BY <1>3, <1>4 DEF SetupInv, ExportInv, MetadataValid, TablesHold
  <2> QED
      BY <1>4, <2>1 DEF HandlePacketValid, HandlePacket, ShareValid
<1>6. CASE Importable(Head(wire))
  <2>1. /\ hp' = Head(wire) /\ ipc' = "import"
        /\ buffer_count' = buffer_count /\ refused' = refused
        /\ ~find_entry(Head(wire).handle_id)
      BY <1>6 DEF RecvHandle, Refuse, Importable, outcomeVars
  <2>2. Received' = Received + 1 /\ ipc' \notin Stopped
      BY <1>1, <1>3, <2>1 DEF Received, BeforeHandles, Stopped
  <2>3. WireContinues' /\ WireEndsAtSender'
      BY <1>1, <1>4, <2>2, RestContinues, SenderWaits DEF WireEndsAtSender
  <2>4. SentFromFullTables' /\ EntriesAgree'
      BY <1>1, <1>2, <1>4, SenderWaits
      DEF WireInv, SentFromFullTables, TablesHold, EntriesAgree
  <2>5. HandlesByStage'
    <3>1. /\ buffer_count' = buffers' /\ Len(entries') < buffers'
          /\ hp' = HandlePacket(handle_id', share', Len(entries'))
        BY <1>1, <1>2, <1>4, <2>1, SenderWaits
        DEF WireInv, HandlesByStage, BeforeHandles
    <3>2. ~find_entry(hp.handle_id)'
        BY <1>1, <2>1 DEF find_entry
    <3> QED
        BY <2>1, <3>1, <3>2 DEF HandlesByStage, BeforeHandles, Stopped
  <2>6. NoPacketRefused'
      BY <1>2, <2>1, SenderWaits DEF WireInv, NoPacketRefused
  <2> QED
      BY <2>3, <2>4, <2>5, <2>6 DEF WireInv
<1>7. CASE ~Importable(Head(wire))
  <2>1. ipc' \in Stopped
      BY <1>7 DEF RecvHandle, Refuse, Stopped
  <2>2. PICK m \in DOMAIN entries :
            entries[m].handle_id = Head(wire).handle_id
      BY <1>5, <1>7 DEF Importable, find_entry
  <2>3. entries[m] = HandlePacket(handle_id, share, m - 1)
      BY <1>2 DEF WireInv, EntriesAgree
  <2>4. handle_id[m - 1] = handle_id[k]
      BY <1>4, <2>2, <2>3 DEF HandlePacket
  <2>5. m - 1 # k /\ m - 1 \in DOMAIN handle_id /\ k \in DOMAIN handle_id
    <3>1. m \in 1..k
        BY WireTypes
    <3> QED
        BY <1>3, <1>4, <3>1, WireTypes DEF TablesHold
  <2> QED
      BY <1>1, <2>1, <2>4, <2>5, ReceiverStops
<1> QED
    BY <1>6, <1>7

LEMMA EntryCounted ==
    SetupInv /\ MapImported /\ UNCHANGED exportVars => WireInv'
<1> SUFFICES ASSUME SetupInv, MapImported, UNCHANGED exportVars
             PROVE  WireInv'
    OBVIOUS
<1> DEFINE k == Len(entries)
<1>1. /\ ipc = "map" /\ wire' = wire /\ entries' = Append(entries, hp)
      /\ ipc' = NextHandle(buffer_count, Len(entries'))
      /\ buffer_count' = buffer_count /\ refused' = refused
      /\ ipc \notin Stopped \cup BeforeHandles
    BY DEF MapImported, outcomeVars, setupLinkVars, Stopped, BeforeHandles
<1>2. WireInv
    BY DEF SetupInv
<1>3. hp \in zc_handle_packet
    BY <1>1 DEF SetupInv, ImportInv, PacketInHand
<1>4. /\ k < buffers /\ k \in Nat /\ buffers \in Nat
      /\ buffer_count = buffers
      /\ hp = HandlePacket(handle_id, share, k)
      /\ \A m \in DOMAIN entries : entries[m].handle_id # hp.handle_id
    BY <1>1, <1>2, WireTypes DEF WireInv, HandlesByStage, find_entry
<1>5. /\ Len(entries') = k + 1 /\ DOMAIN entries' = 1..(k + 1)
      /\ DOMAIN entries = 1..k
      /\ entries'[k + 1] = hp
      /\ \A m \in 1..k : entries'[m] = entries[m]
    BY <1>1, <1>3, WireTypes, AppendProperties
<1>6. \/ ipc' = "handle" /\ k + 1 < buffers
      \/ ipc' \in {"display", "output"} /\ k + 1 = buffers
    BY <1>1, <1>4, <1>5 DEF NextHandle
<1>7. Received' = Received /\ ipc' \notin Stopped \cup BeforeHandles
  <2>1. Received = k + 2
      BY <1>1 DEF Received
  <2>2. Received' = (k + 1) + 1
      BY <1>5, <1>6 DEF Received, BeforeHandles
  <2> QED
      BY <1>4, <1>6, <2>1, <2>2 DEF BeforeHandles, Stopped
<1>8. WireContinues'
    BY <1>1, <1>2, <1>7, SenderWaits DEF WireInv, WireContinues
<1>9. epc \notin BeforeHello
    BY <1>1, <1>2 DEF WireInv, WireEndsAtSender
<1>10. WireEndsAtSender'
    BY <1>1, <1>2, <1>7, <1>9, SenderWaits DEF WireInv, WireEndsAtSender
<1>11. buffers > 0 /\ TablesHold(buffers, buffers)
    BY <1>1, <1>2 DEF WireInv, SentFromFullTables
<1>12. SentFromFullTables'
    BY <1>11, SenderWaits DEF SentFromFullTables, TablesHold
<1>13. EntriesAgree'
  <2>1. ASSUME NEW m \in 1..(k + 1)
        PROVE  entries'[m] = HandlePacket(handle_id, share, m - 1)
    <3>1. CASE m = k + 1
        BY <1>4, <1>5, <3>1
    <3>2. CASE m \in 1..k
        BY <1>2, <1>5, <3>2 DEF WireInv, EntriesAgree
    <3> QED
        BY <1>4, <3>1, <3>2
  <2>2. ASSUME NEW m \in 1..(k + 1), NEW l \in 1..(k + 1),
               entries'[m].handle_id = entries'[l].handle_id
        PROVE  m = l
    <3>1. \A n \in 1..(k + 1) : n = k + 1 \/ n \in 1..k
        BY <1>4
    <3>2. CASE m \in 1..k /\ l \in 1..k
        BY <1>2, <1>5, <2>2, <3>2 DEF WireInv, EntriesAgree
    <3> QED
        BY <1>4, <1>5, <2>2, <3>1, <3>2
  <2>3. Len(entries') <= buffers
      BY <1>4, <1>5
  <2> QED
      BY <1>5, <2>1, <2>2, <2>3, SenderWaits DEF EntriesAgree
<1>14. HandlesByStage'
    BY <1>1, <1>4, <1>5, <1>6, SenderWaits
    DEF HandlesByStage, BeforeHandles, Stopped
<1>15. NoPacketRefused'
    BY <1>1, <1>2, SenderWaits DEF WireInv, NoPacketRefused
<1> QED
    BY <1>8, <1>10, <1>12, <1>13, <1>14, <1>15 DEF WireInv

LEMMA FrameRead ==
    SetupInv /\ RecvFrame /\ UNCHANGED exportVars => WireInv'
<1> SUFFICES ASSUME SetupInv, RecvFrame, UNCHANGED exportVars
             PROVE  WireInv'
    OBVIOUS
<1>1. /\ ipc = "loop" /\ wire # <<>> /\ wire' = Tail(wire)
      /\ ipc \notin Stopped
    BY DEF RecvFrame, Stopped
<1>2. WireInv
    BY DEF SetupInv
<1>3. /\ Len(entries) = buffers /\ Received = buffers + 1
      /\ buffers \in Nat /\ Received > buffers /\ Received # 0
      /\ Received \notin 1..buffers
    BY <1>1, <1>2, WireTypes
    DEF WireInv, HandlesByStage, Received, BeforeHandles
<1>4. PICK k \in 0..(buffers - 1) :
          Head(wire) = [magic |-> "FRAME", handle_id |-> handle_id[k]]
    BY <1>1, <1>3, NextPacket DEF IsPacket
<1>5. epc \notin BeforeHello
    BY <1>1, NextPacket
<1>6. Head(wire).magic = "FRAME" /\ find_entry(Head(wire).handle_id)
  <2>1. k + 1 \in DOMAIN entries /\ (k + 1) - 1 = k
      BY <1>3, WireTypes
  <2>2. entries[k + 1] = HandlePacket(handle_id, share, k)
      BY <1>2, <2>1 DEF WireInv, EntriesAgree
  <2> QED
      BY <1>4, <2>1, <2>2 DEF find_entry, HandlePacket
<1>7. /\ ipc' = ipc /\ entries' = entries /\ refused' = refused
      /\ buffer_count' = buffer_count
    BY <1>6 DEF RecvFrame, announcedVars, importedVars, outcomeVars
<1>8. Received' = Received /\ ipc' \notin Stopped
    BY <1>1, <1>7 DEF Received
<1>9. epc # "handles"
  <2>1. epc = "handles" => Received + Len(wire) = i + 1 /\ i < buffers
      BY <1>1, <1>2 DEF SetupInv, ExportInv, IndexInRange, EachBuffer,
                        WireInv, WireEndsAtSender
  <2> QED
      BY <1>3, <2>1, WireTypes
<1>10. WireContinues' /\ WireEndsAtSender'
    BY <1>1, <1>3, <1>5, <1>8, <1>9, RestContinues, SenderWaits
    DEF WireEndsAtSender
<1>11. SentFromFullTables' /\ EntriesAgree'
    BY <1>1, <1>2, <1>7, SenderWaits
    DEF WireInv, SentFromFullTables, TablesHold, EntriesAgree
<1>12. HandlesByStage' /\ NoPacketRefused'
    BY <1>1, <1>2, <1>7, SenderWaits
    DEF WireInv, HandlesByStage, NoPacketRefused, BeforeHandles, Stopped
<1> QED
    BY <1>10, <1>11, <1>12 DEF WireInv

LEMMA ReceiverKeepsWire ==
    SetupInv /\ ImportNext /\ UNCHANGED exportVars => WireInv'
<1> SUFFICES ASSUME SetupInv, ImportNext, UNCHANGED exportVars
             PROVE  WireInv'
    OBVIOUS
<1>1. refused => \E k \in DOMAIN handle_id : \E l \in DOMAIN handle_id \ {k} :
                    handle_id[k] = handle_id[l]
    BY DEF SetupInv, WireInv, NoPacketRefused
<1>2. CASE OpenDevice \/ Accepted \/ OpenOutput
    BY <1>2, ReceiverMoves
    DEF OpenDevice, Accepted, OpenOutput, ImportGoto, announcedVars,
        importedVars, outcomeVars, setupLinkVars, BeforeHandles
<1>3. CASE InAccept(AcceptStep) \/ InAccept(AcceptFails)
    BY <1>3, ReceiverMoves
    DEF InAccept, announcedVars, importedVars, outcomeVars, BeforeHandles
<1>4. CASE ImportBuffer \/ OpenDisplay
    BY <1>4, ReceiverMoves
    DEF ImportBuffer, OpenDisplay, announcedVars, importedVars,
        outcomeVars, setupLinkVars
<1>5. CASE \/ NotAccepted \/ RecvSetupFails \/ CleanupEntries
           \/ ImportClose \/ OpenFails \/ ImportCallFails \/ MapFails
           \/ ImportLoopEnds \/ ImportLoopFails \/ ImportKilled
  <2>1. /\ ipc' \in Stopped /\ wire' = wire /\ entries' = entries
        /\ refused' = refused
      BY <1>5 DEF NotAccepted, RecvSetupFails, CleanupEntries, ImportClose,
                  OpenFails, ImportCallFails, MapFails, ImportLoopEnds,
                  ImportLoopFails, ImportKilled, ImportGoto, announcedVars,
                  importedVars, outcomeVars, setupLinkVars, Stopped
  <2> QED
      BY <1>1, <2>1, ReceiverStops
<1> QED
    BY <1>2, <1>3, <1>4, <1>5, HelloRead, HandleRead, EntryCounted,
       FrameRead
    DEF ImportNext, ImportStep

-----------------------------------------------------------------------------
(* The theorems                                                            *)

LEMMA SetupStart == Init => SetupInv
<1> SUFFICES ASSUME Init PROVE SetupInv
    OBVIOUS
<1>1. SetupLinkTypeOK
    BY DEF Init, SetupLinkInit, ConnInit, SetupLinkTypeOK, ConnTypeOK
<1> QED
    BY <1>1, ExportStart, ImportStart, WireStart DEF Init, SetupInv

LEMMA SetupStep == SetupInv /\ [Next]_setupVars => SetupInv'
<1> SUFFICES ASSUME SetupInv, [Next]_setupVars PROVE SetupInv'
    OBVIOUS
<1>1. CASE ExportNext /\ UNCHANGED importVars
    BY <1>1, LinkExport, ExportKeeps, ImportUntouched, SenderKeepsWire
    DEF SetupInv
<1>2. CASE ImportNext /\ UNCHANGED exportVars
    BY <1>2, LinkImport, ImportKeeps, ExportUntouched, ReceiverKeepsWire
    DEF SetupInv
<1>3. CASE UNCHANGED setupVars
  <2>1. UNCHANGED exportVars /\ UNCHANGED importVars
        /\ UNCHANGED setupLinkVars
      BY <1>3 DEF setupVars
  <2>2. SetupLinkTypeOK'
      BY <2>1, ConnUnchanged DEF SetupInv, SetupLinkTypeOK, setupLinkVars
  <2>3. WireInv'
    <3>1. wire' = wire
        BY <2>1 DEF setupLinkVars
    <3> QED
        BY <2>1, <3>1, SenderQuiet, SenderWaits
  <2> QED
      BY <2>1, <2>2, <2>3, ExportUntouched, ImportUntouched DEF SetupInv
<1> QED
    BY <1>1, <1>2, <1>3 DEF Next

(* SetupInv is inductive: the tables of the two programs and the packets   *)
(* between them fit together in every state the setup, the frames and the  *)
(* two exit paths can reach, whichever call fails and whoever is killed.   *)
THEOREM SetupInvariant == Spec => []SetupInv
<1>1. Init => SetupInv
    BY SetupStart
<1>2. SetupInv /\ [Next]_setupVars => SetupInv'
    BY SetupStep
<1> QED
    BY <1>1, <1>2, PTL DEF Spec

(* Every variable of sender_zc's setup and of the receiver's import table  *)
(* keeps its type; in particular only packets of the three kinds are on    *)
(* the connection.                                                         *)
THEOREM SetupTypeCorrect == Spec => []TypeOK
<1>1. SetupInv => TypeOK
    BY DEF SetupInv, ExportInv, ImportInv, TypeOK
<1> QED
    BY <1>1, SetupInvariant, PTL

(* The receiver's table is the sender's first handles, in order, with      *)
(* their grants and each of them once; it is complete when both programs   *)
(* are in their frame loops (receiver_zc.c:266-302, sender_zc.c:563-574).  *)
THEOREM TablesAlwaysAgree == Spec => []TablesAgree
<1>1. SetupInv => TablesAgree
  <2> SUFFICES ASSUME SetupInv PROVE TablesAgree
      OBVIOUS
  <2>1. EntriesAgree /\ SentFromFullTables
      BY DEF SetupInv, WireInv
  <2>2. /\ Len(entries) \in Nat /\ buffers \in Nat
        /\ DOMAIN entries = 1..Len(entries)
      BY WireTypes
  <2>3. Len(entries) <= Cardinality(DOMAIN handle_id)
    <3>1. PICK n \in 0..buffers : handle_id \in [0..(n - 1) -> Handles]
        BY DEF SetupInv, ExportInv, ExportTypeOK
    <3>2. IsFiniteSet(0..(n - 1)) /\ Cardinality(0..(n - 1)) = n
        BY <2>2, <3>1, FS_Interval
    <3>3. Cardinality(DOMAIN handle_id) = n
        BY <3>1, <3>2
    <3>4. CASE entries = <<>>
        BY <3>1, <3>3, <3>4
    <3>5. CASE entries # <<>>
      <4>1. DOMAIN handle_id = 0..(buffers - 1)
          BY <2>1, <3>5 DEF SentFromFullTables, TablesHold
      <4>2. Cardinality(0..(buffers - 1)) = buffers
          BY <2>2, FS_Interval
      <4> QED
          BY <2>1, <4>1, <4>2 DEF EntriesAgree
    <3> QED
        BY <3>4, <3>5
  <2>4. ASSUME NEW k \in DOMAIN entries
        PROVE  /\ entries[k].handle_id = handle_id[k - 1]
               /\ entries[k].meta = share[k - 1]
               /\ \A l \in DOMAIN entries \ {k} :
                     entries[l].handle_id # entries[k].handle_id
    <3>1. entries[k] = HandlePacket(handle_id, share, k - 1)
        BY <2>1 DEF EntriesAgree
    <3>2. \A l \in DOMAIN entries :
              entries[l].handle_id = entries[k].handle_id => l = k
        BY <2>1 DEF EntriesAgree
    <3> QED
        BY <3>1, <3>2 DEF HandlePacket
  <2>5. ipc = "loop" => Len(entries) = buffers
      BY DEF SetupInv, WireInv, HandlesByStage
  <2> QED
      BY <2>3, <2>4, <2>5 DEF TablesAgree
<1> QED
    BY <1>1, SetupInvariant, PTL

(* The receiver refuses no packet of sender_zc, unless the backend gave    *)
(* one handle to two buffers (receiver_zc.c:249, 273-288, 341).            *)
THEOREM NoPacketEverRefused == Spec => []NoPacketRefused
<1>1. SetupInv => NoPacketRefused
    BY DEF SetupInv, WireInv
<1> QED
    BY <1>1, SetupInvariant, PTL

(* append_entry always made room for the entry being imported              *)
(* (receiver_zc.c:166, 290-296).                                           *)
THEOREM EntryAlwaysInBounds == Spec => []EntryInBounds
<1>1. SetupInv => EntryInBounds
    BY DEF SetupInv, ImportInv, TableHasRoom
<1> QED
    BY <1>1, SetupInvariant, PTL

(* A handle stays granted while the stream runs, unless STREAMOFF failed;  *)
(* and a sender that ends by itself has given back its socket, its         *)
(* mappings if setup_mmap_capture returned, and every handle whose release *)
(* did not fail (sender_zc.c:107-128, 285, 448, 657-674).                  *)
THEOREM SenderAlwaysGivesBack == Spec => []SenderGivesBack
<1>1. SetupInv => SenderGivesBack
  <2> SUFFICES ASSUME SetupInv PROVE SenderGivesBack
      OBVIOUS
  <2>1. LiveByStage /\ SockByStage
      BY DEF SetupInv, ExportInv
  <2> QED
      BY <2>1 DEF LiveByStage, SockByStage, SenderGivesBack
<1> QED
    BY <1>1, SetupInvariant, PTL

(* A receiver in its frame loop has one socket and its whole window, and   *)
(* one that ends by itself has closed every dmabuf and socket and          *)
(* destroyed a window that was complete (receiver_zc.c:140-143, 184-210;   *)
(* common.c:100-139).                                                      *)
THEOREM ReceiverAlwaysGivesBack == Spec => []ReceiverGivesBack
<1>1. SetupInv => ReceiverGivesBack
  <2> SUFFICES ASSUME SetupInv PROVE ReceiverGivesBack
      OBVIOUS
  <2>1. DmabufsByStage /\ SocksByStage /\ WindowByStage
      BY DEF SetupInv, ImportInv
  <2> QED
      BY <2>1 DEF DmabufsByStage, SocksByStage, SocksOf, WindowByStage,
                  ReceiverGivesBack
<1> QED
    BY <1>1, SetupInvariant, PTL

LEMMA TablesChangeEarly ==
    ASSUME ExportNext, epc \notin BeforeHello
    PROVE  UNCHANGED <<buffers, handle_id, share>>
<1>1. CASE ExportHandle \/ FetchMetadata \/ ReqBufs \/ QueryAndMap
    BY <1>1 DEF ExportHandle, FetchMetadata, ReqBufs, QueryAndMap,
                BeforeHello, NoBuffersYet
<1>2. CASE ~(ExportHandle \/ FetchMetadata \/ ReqBufs \/ QueryAndMap)
    BY <1>2
    DEF ExportNext, ExportStep, ExportGoto, OpenCapture, SetupFormat,
        QueueIndex, StreamOn, InConnect, Connected, ConnectFailed,
        SetRcvTimeo, SendHello, SendHandle, SetupSendFails, ExitStreamOff,
        ReleaseHandles, ExportClose, SetupCallFails, AnnounceFrame, LoopEnds,
        LoopFails, ExportKilled, exportVars, bufferVars, tableVars
<1> QED
    BY <1>1, <1>2

(* From the first packet that is on the wire or was read on, sender_zc     *)
(* exports nothing and fetches no metadata any more: what the packets say  *)
(* and what the receiver has imported stays what the sender's table says,  *)
(* on the way out too (sender_zc.c:489-500, 553-574, 657-674).             *)
THEOREM TablesFinalOnceSent ==
    Spec => [][wire # <<>> \/ entries # <<>>
                  => UNCHANGED <<buffers, handle_id, share>>]_setupVars
<1>1. ASSUME SetupInv, [Next]_setupVars, wire # <<>> \/ entries # <<>>
      PROVE  UNCHANGED <<buffers, handle_id, share>>
  <2>1. epc \notin BeforeHello
      BY <1>1 DEF SetupInv, WireInv, WireEndsAtSender
  <2>2. CASE ExportNext
      BY <2>1, <2>2, TablesChangeEarly
  <2>3. CASE UNCHANGED exportVars
      BY <2>3 DEF exportVars, bufferVars, tableVars
  <2> QED
      BY <1>1, <2>2, <2>3 DEF Next, setupVars
<1>2. SetupInv /\ [Next]_setupVars
          => [wire # <<>> \/ entries # <<>>
                 => UNCHANGED <<buffers, handle_id, share>>]_setupVars
    BY <1>1
<1> QED
    BY <1>2, SetupInvariant, PTL DEF Spec
=============================================================================
