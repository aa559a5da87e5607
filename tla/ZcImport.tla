------------------------------ MODULE ZcImport ------------------------------
(***************************************************************************)
(* receiver_zc (and receiver_zc_sdl, which opens a window as well) before, *)
(* in and after the frame loop: listen and accept, read the hello packet,  *)
(* read and import every handle it announces, open the output, look up the *)
(* handle of each frame, and undo all of it on exit.                       *)
(***************************************************************************)
EXTENDS SetupLink, ListenAccept, SdlDisplay

CONSTANTS
    Display,        \* the program is receiver_zc_sdl
    FirstCap        \* entries of the first allocation (8 in the code)

ASSUME ImportAssumption == Display \in BOOLEAN /\ FirstCap \in Nat \ {0}

VARIABLES
    ipc,            \* where main() is
    buffer_count,   \* handles the hello packet announced
    hp,             \* the handle packet being imported
    entries,        \* the import table: the first entry_count packets
    entry_capacity, \* entries it has memory for
    fds,            \* imported dmabufs open or mapped
    refused,        \* a packet was not what the receiver expects
    irc,            \* the exit code
    ikilled         \* a signal ended the program

announcedVars == <<buffer_count, hp>>
importedVars == <<entries, entry_capacity, fds>>
outcomeVars == <<refused, irc, ikilled>>
importVars == <<ipc, announcedVars, importedVars, outcomeVars, acceptVars,
                displayVars>>

NoPacket == [handle_id |-> "none"]

ImportTypeOK ==
    /\ ipc \in {"open", "accept", "hello", "handle", "import", "map",
                "display", "output", "loop", "cleanup", "close", "done"}
    /\ buffer_count \in Nat
    /\ hp \in zc_handle_packet \cup {NoPacket}
    /\ entries \in Seq(zc_handle_packet)
    /\ entry_capacity \in Nat
    /\ fds \in Nat
    /\ irc \in {0, 1}
    /\ {refused, ikilled} \subseteq BOOLEAN
    /\ AcceptTypeOK /\ DisplayTypeOK

ImportInit ==
    /\ ipc = "open"
    /\ buffer_count = 0 /\ hp = NoPacket
    /\ entries = <<>> /\ entry_capacity = 0 /\ fds = 0
    /\ refused = FALSE /\ irc = 1 /\ ikilled = FALSE
    /\ AcceptInit /\ DisplayInit

-----------------------------------------------------------------------------
ImportGoto(pc) ==
    /\ ipc' = pc
    /\ UNCHANGED <<announcedVars, importedVars, outcomeVars, acceptVars,
                   displayVars, setupLinkVars>>

OpenDevice == ipc = "open" /\ ImportGoto("accept")

(* main() is inside tcp_listen_and_accept ...                              *)
InAccept(step) ==
    /\ ipc = "accept"
    /\ step
    /\ UNCHANGED <<ipc, announcedVars, importedVars, outcomeVars,
                   displayVars, wire>>

(* ... which has returned a connection.                                    *)
Accepted == ipc = "accept" /\ la = "returned" /\ ImportGoto("hello")

(* The loop over the announced handles, about to start or end.             *)
NextHandle(count, n) ==
    IF n < count THEN "handle" ELSE IF Display THEN "display" ELSE "output"

(* The receiver takes a packet off the connection and does not know it.    *)
Refuse ==
    /\ refused' = TRUE
    /\ ipc' = "cleanup"
    /\ UNCHANGED <<announcedVars, importedVars, irc, ikilled>>

RecvHello ==
    /\ ipc = "hello"
    /\ wire # <<>>
    /\ wire' = Tail(wire)
    /\ \/ /\ Head(wire).magic = "STREAM"
          /\ buffer_count' = Head(wire).buffer_count
          /\ ipc' = NextHandle(buffer_count', 0)
          /\ UNCHANGED <<hp, importedVars, outcomeVars>>
       \/ Head(wire).magic # "STREAM" /\ Refuse
    /\ UNCHANGED <<acceptVars, displayVars, connVars>>

HandlePacketValid(p) ==
    /\ p.magic = "HANDLE"
    /\ p.meta.gref_count # 0 /\ p.meta.gref_count <= MaxGrefs
    /\ p.meta.gref_page_size # 0
    /\ p.meta.len # 0

find_entry(handle) ==
    \E k \in DOMAIN entries : entries[k].handle_id = handle

(* Mutated form: a handle already in the table is added again.             *)
AcceptDuplicate(p) == HandlePacketValid(p)

Importable(p) == HandlePacketValid(p) /\ ~find_entry(p.handle_id)

(* Mutated form: the table grows one entry too late.                       *)
GrowLate ==
    IF Len(entries) = entry_capacity + 1 THEN entry_capacity * 2
    ELSE IF entry_capacity = 0 THEN FirstCap ELSE entry_capacity

(* The capacity after append_entry made room for one more entry.           *)
GrownCapacity ==
    IF Len(entries) # entry_capacity THEN entry_capacity
    ELSE IF entry_capacity = 0 THEN FirstCap ELSE entry_capacity * 2

RecvHandle ==
    /\ ipc = "handle"
    /\ wire # <<>>
    /\ wire' = Tail(wire)
    /\ \/ /\ Importable(Head(wire))
          /\ hp' = Head(wire)
          /\ entry_capacity' = GrownCapacity
          /\ ipc' = "import"
          /\ UNCHANGED <<buffer_count, entries, fds, outcomeVars>>
       \/ ~Importable(Head(wire)) /\ Refuse
    /\ UNCHANGED <<acceptVars, displayVars, connVars>>

(* import_handle_direct: the ioctl returns an open dmabuf ...              *)
ImportBuffer ==
    /\ ipc = "import"
    /\ fds' = fds + 1
    /\ ipc' = "map"
    /\ UNCHANGED <<announcedVars, entries, entry_capacity, outcomeVars,
                   acceptVars, displayVars, setupLinkVars>>

(* ... and main() counts the entry once it is mapped.                      *)
MapImported ==
    /\ ipc = "map"
    /\ entries' = Append(entries, hp)
    /\ hp' = NoPacket
    /\ ipc' = NextHandle(buffer_count, Len(entries'))
    /\ UNCHANGED <<buffer_count, entry_capacity, fds, outcomeVars,
                   acceptVars, displayVars, setupLinkVars>>

(* Mutated form: the dmabuf stays open, in an entry cleanup never sees.    *)
MapFailsNoClose ==
    /\ ipc = "map"
    /\ hp' = NoPacket
    /\ ipc' = "cleanup"
    /\ UNCHANGED <<buffer_count, importedVars, outcomeVars, acceptVars,
                   displayVars, setupLinkVars>>

(* mmap failed: the dmabuf is closed here, the entry is not counted.       *)
MapFails ==
    /\ ipc = "map"
    /\ fds' = fds - 1
    /\ hp' = NoPacket
    /\ ipc' = "cleanup"
    /\ UNCHANGED <<buffer_count, entries, entry_capacity, outcomeVars,
                   acceptVars, displayVars, setupLinkVars>>

(* One call of display_init after the other.                               *)
OpenDisplay ==
    /\ ipc = "display"
    /\ CreateObject
    /\ ipc' = IF display_ok' THEN "output" ELSE "display"
    /\ UNCHANGED <<announcedVars, importedVars, outcomeVars, acceptVars,
                   setupLinkVars>>

OpenOutput == ipc = "output" /\ ImportGoto("loop")

(* The frame loop finds the buffer of a frame by its handle.               *)
RecvFrame ==
    /\ ipc = "loop"
    /\ wire # <<>>
    /\ wire' = Tail(wire)
    /\ LET known == /\ Head(wire).magic = "FRAME"
                    /\ find_entry(Head(wire).handle_id)
       IN  \/ known /\ UNCHANGED <<ipc, announcedVars, importedVars,
                                   outcomeVars>>
           \/ ~known /\ Refuse
    /\ UNCHANGED <<acceptVars, displayVars, connVars>>

-----------------------------------------------------------------------------
(* open fails before there is anything to undo.                            *)
OpenFails ==
    /\ ipc = "open"
    /\ ipc' = "done"
    /\ CloseEnd("receiver")
    /\ UNCHANGED <<announcedVars, importedVars, outcomeVars, acceptVars,
                   displayVars, conn, wire>>

NotAccepted == ipc = "accept" /\ la = "failed" /\ ImportGoto("cleanup")

(* realloc and the import ioctl, display_init and open may fail.           *)
ImportCallFails ==
    /\ ipc \in {"import", "display", "output"}
    /\ hp' = NoPacket
    /\ ipc' = "cleanup"
    /\ UNCHANGED <<buffer_count, importedVars, outcomeVars, acceptVars,
                   displayVars, setupLinkVars>>

(* recv fails when the sender is gone and nothing is left to read.         *)
RecvSetupFails ==
    /\ ipc \in {"hello", "handle"}
    /\ wire = <<>>
    /\ StreamEnded
    /\ ImportGoto("cleanup")

(* The frame loop ends when recv fails, with the frame limit, or with the  *)
(* window; or a frame cannot be shown, written or acknowledged.            *)
ImportLoopEnds ==
    /\ ipc = "loop"
    /\ ipc' = "cleanup"
    /\ irc' = 0
    /\ UNCHANGED <<announcedVars, importedVars, refused, ikilled, acceptVars,
                   displayVars, setupLinkVars>>

ImportLoopFails == ipc = "loop" /\ ImportGoto("cleanup")

(* Mutated form: the entry whose import failed is cleaned up again.        *)
CleanupUncounted ==
    /\ ipc = "cleanup"
    /\ fds' = fds - Len(entries) - 1
    /\ DisplayDestroy
    /\ ipc' = "close"
    /\ UNCHANGED <<announcedVars, entries, entry_capacity, outcomeVars,
                   acceptVars, setupLinkVars>>

(* display_destroy and cleanup_entries: one dmabuf for each counted entry; *)
(* needs_release is never set, so no handle is released here.              *)
CleanupEntries ==
    /\ ipc = "cleanup"
    /\ fds' = fds - Len(entries)
    /\ DisplayDestroy
    /\ ipc' = "close"
    /\ UNCHANGED <<announcedVars, entries, entry_capacity, outcomeVars,
                   acceptVars, setupLinkVars>>

ImportClose ==
    /\ ipc = "close"
    /\ socks' = socks \ {"conn_fd"}
    /\ ReceiverGone
    /\ ipc' = "done"
    /\ UNCHANGED <<announcedVars, importedVars, outcomeVars, la,
                   displayVars, wire>>

(* A signal: the kernel closes and unmaps everything.                      *)
ImportKilled ==
    /\ ipc # "done"
    /\ ReceiverGone
    /\ fds' = 0 /\ socks' = {} /\ objects' = {}
    /\ ipc' = "done" /\ irc' = 1
    /\ ikilled' = TRUE
    /\ UNCHANGED <<announcedVars, entries, entry_capacity, refused, la,
                   display_ok, wire>>

ImportStep ==
    \/ OpenDevice \/ InAccept(AcceptStep) \/ Accepted \/ NotAccepted
    \/ RecvHello \/ RecvHandle \/ ImportBuffer \/ MapImported
    \/ OpenDisplay \/ OpenOutput \/ RecvFrame
    \/ RecvSetupFails
    \/ CleanupEntries \/ ImportClose

(* recv() tells the end of the stream when all frames were read.           *)
ImportLoopSeesEnd == StreamEnded /\ wire = <<>> /\ ImportLoopEnds

ImportNext ==
    \/ ImportStep \/ InAccept(AcceptFails)
    \/ OpenFails \/ ImportCallFails \/ MapFails
    \/ ImportLoopEnds \/ ImportLoopFails \/ ImportKilled
=============================================================================
