------------------------------- MODULE ZcSetup ------------------------------
(***************************************************************************)
(* sender_zc and a zero-copy receiver from start to exit: whether the two  *)
(* tables of handles agree when frames start, and what is left behind when *)
(* either program stops anywhere.                                          *)
(***************************************************************************)
EXTENDS ZcExport, ZcImport

setupVars == <<exportVars, importVars, setupLinkVars>>

Init == SetupLinkInit /\ ExportInit /\ ImportInit

Next ==
    \/ ExportNext /\ UNCHANGED importVars
    \/ ImportNext /\ UNCHANGED exportVars

(* A program that can go on does: its calls return, the network delivers.  *)
(* Nothing makes a call fail, a stream of frames go on or end, or a signal *)
(* arrive; nothing makes the other kernel answer, but poll() times out.    *)
Fairness ==
    /\ WF_setupVars(ExportStep /\ UNCHANGED importVars)
    /\ WF_setupVars((ImportStep \/ ImportLoopSeesEnd) /\ UNCHANGED exportVars)

Spec == Init /\ [][Next]_setupVars

FairSpec == Spec /\ Fairness

-----------------------------------------------------------------------------
TypeOK == SetupLinkTypeOK /\ ExportTypeOK /\ ImportTypeOK

(* The receiver's table is always the sender's first handles, in order,    *)
(* with their grants and each of them once; and it is complete when both   *)
(* programs are in their frame loops: a frame names its buffer by the      *)
(* handle alone (receiver_zc.c:266-302, 341).                              *)
TablesAgree ==
    /\ Len(entries) <= Cardinality(DOMAIN handle_id)
    /\ \A k \in DOMAIN entries :
          /\ entries[k].handle_id = handle_id[k - 1]
          /\ entries[k].meta = share[k - 1]
          /\ \A l \in DOMAIN entries \ {k} :
                entries[l].handle_id # entries[k].handle_id
    /\ ipc = "loop" /\ epc = "loop" => Len(entries) = buffers

(* Whatever the backend reports and wherever a call fails, the receiver    *)
(* refuses no packet of sender_zc: not the hello, not a handle             *)
(* (receiver_zc.c:273-288), not a frame whose handle it has not imported   *)
(* (341); unless the backend gave one handle to two buffers.               *)
NoPacketRefused ==
    refused => \E k \in DOMAIN handle_id : \E l \in DOMAIN handle_id \ {k} :
                  handle_id[k] = handle_id[l]

(* The entry being imported is inside the memory append_entry allocated,   *)
(* although entry_count is raised only after the import                    *)
(* (receiver_zc.c:166, 290-296).                                           *)
EntryInBounds == ipc \in {"import", "map"} => Len(entries) < entry_capacity

(* Every handle exported stays granted as long as the stream runs: the     *)
(* driver does not fill a buffer whose grants are gone.  Only a STREAMOFF  *)
(* that failed is an exception: sender_zc.c:660 ignores its result, and    *)
(* 664 releases the handles of a stream that runs until the close of the   *)
(* device.  A sender that ends by itself has asked the backend to take     *)
(* back every handle, also when it stops between the export of a buffer    *)
(* and its metadata, so that only a handle whose release failed (448, its  *)
(* result is ignored too) is still granted; it has closed the socket of a  *)
(* connection attempt it gave up; and it has unmapped the buffers, unless  *)
(* setup_mmap_capture itself failed, which leaves those before the failing *)
(* one mapped (107-128, 285, 657-674).                                     *)
SenderGivesBack ==
    /\ streamingOn /\ ~offFailed => Exported \subseteq live
    /\ epc = "done" /\ ~ekilled =>
          /\ live \subseteq unreleased
          /\ ~sock
          /\ bufs => maps = {}

(* In its frame loop a receiver has the connection open and no listening   *)
(* socket, and its window complete.  One that ends by itself has closed    *)
(* every dmabuf, the one whose mmap failed before it was counted included, *)
(* every socket, and destroyed its window, unless display_init failed,     *)
(* which leaves what it made (receiver_zc.c:140-143, 184-210;              *)
(* receiver_zc_sdl.c:411; common.c:100-139).                               *)
ReceiverGivesBack ==
    /\ ipc = "loop" => /\ socks = {"conn_fd"}
                       /\ Display => objects = AllObjects
    /\ ipc = "done" /\ ~ikilled =>
          /\ fds = 0
          /\ socks = {}
          /\ objects = {} \/ ~display_ok

(* Once established, a connection comes to its end or its frames: both     *)
(* programs reach the frame loop or at least one stops, and neither waits  *)
(* for a packet that never comes, even where the sender's poll() gave up   *)
(* on a connection the receiver then accepts (sender_zc.c:107).            *)
SetupResolves ==
    conn = "established" ~>
        \/ epc = "loop" /\ ipc = "loop"
        \/ epc = "done"
        \/ ipc = "done"

(* When one program of a connection is gone the receiver follows, and so   *)
(* does a sender that has not reached its frame loop.                      *)
PeerFollows ==
    /\ conn = "established" /\ epc = "done" ~> ipc = "done"
    /\ conn = "established" /\ ipc = "done" ~> epc \in {"loop", "done"}
=============================================================================
