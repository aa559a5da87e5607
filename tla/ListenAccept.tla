---------------------------- MODULE ListenAccept ----------------------------
(***************************************************************************)
(* tcp_listen_and_accept, the same in all four receivers: two sockets, and *)
(* on each of its five failure paths those that exist have to be closed.   *)
(***************************************************************************)
EXTENDS Connection

VARIABLES
    la,             \* where the function is
    socks           \* the sockets the receiver has open

acceptVars == <<la, socks>>

AcceptTypeOK ==
    /\ la \in {"socket", "bind", "listen", "accept", "cloexec", "returned",
               "failed"}
    /\ socks \subseteq {"listen_fd", "conn_fd"}

AcceptInit == la = "socket" /\ socks = {}

MakeListener ==
    /\ la = "socket"
    /\ socks' = {"listen_fd"}
    /\ la' = "bind"
    /\ UNCHANGED connVars

(* setsockopt and bind                                                     *)
BindListener == la = "bind" /\ la' = "listen" /\ UNCHANGED <<socks, connVars>>

Listen ==
    /\ la = "listen"
    /\ conn' = "listening"
    /\ la' = "accept"
    /\ UNCHANGED <<socks, closed>>

Accept ==
    /\ la = "accept"
    /\ conn = "established"
    /\ socks' = socks \cup {"conn_fd"}
    /\ la' = "cloexec"
    /\ UNCHANGED connVars

(* Mutated form: the listening socket stays open.                          *)
ReturnBoth ==
    /\ la = "cloexec"
    /\ la' = "returned"
    /\ UNCHANGED <<socks, connVars>>

(* fcntl, then only the connection is kept.                                *)
ReturnConnection ==
    /\ la = "cloexec"
    /\ socks' = socks \ {"listen_fd"}
    /\ la' = "returned"
    /\ UNCHANGED connVars

(* Any of the calls fails; accept() fails only when there is something to  *)
(* accept.                                                                 *)
AcceptFails ==
    /\ \/ la \in {"socket", "bind", "listen", "cloexec"}
       \/ la = "accept" /\ conn = "established"
    /\ socks' = {}
    /\ la' = "failed"
    /\ ReceiverGone

AcceptStep ==
    MakeListener \/ BindListener \/ Listen \/ Accept \/ ReturnConnection
=============================================================================
