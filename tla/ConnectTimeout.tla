--------------------------- MODULE ConnectTimeout ---------------------------
(***************************************************************************)
(* tcp_connect_timeout of sender_zc: connect() on a non-blocking socket,   *)
(* poll() with a timeout, SO_ERROR, and back to blocking mode.             *)
(***************************************************************************)
EXTENDS Connection

VARIABLES
    cpc,            \* where the function is
    sock,           \* the sender's socket is open
    nonblock        \* O_NONBLOCK is set on it

connectVars == <<cpc, sock, nonblock>>

ConnectTypeOK ==
    /\ cpc \in {"socket", "connect", "poll", "restore", "returned", "failed"}
    /\ {sock, nonblock} \subseteq BOOLEAN

ConnectInit == cpc = "socket" /\ sock = FALSE /\ nonblock = FALSE

(* socket, F_GETFL, F_SETFL                                                *)
MakeSocket ==
    /\ cpc = "socket"
    /\ sock' = TRUE /\ nonblock' = TRUE
    /\ cpc' = "connect"
    /\ UNCHANGED connVars

(* connect() returns 0: the result of the second F_SETFL is not looked at, *)
(* the socket may stay non-blocking.                                       *)
ConnectAtOnce ==
    /\ cpc = "connect"
    /\ conn = "listening"
    /\ conn' = "established"
    /\ nonblock' \in BOOLEAN
    /\ cpc' = "returned"
    /\ UNCHANGED <<sock, closed>>

(* EINPROGRESS                                                             *)
ConnectStarts ==
    /\ cpc = "connect"
    /\ cpc' = "poll"
    /\ UNCHANGED <<sock, nonblock, connVars>>

(* The kernels shake hands while the sender polls.                         *)
Handshake ==
    /\ cpc = "poll"
    /\ conn = "listening"
    /\ conn' = "established"
    /\ UNCHANGED <<connectVars, closed>>

(* poll() returns and SO_ERROR is 0.                                       *)
PollReady ==
    /\ cpc = "poll"
    /\ conn = "established"
    /\ cpc' = "restore"
    /\ UNCHANGED <<sock, nonblock, connVars>>

RestoreFlags ==
    /\ cpc = "restore"
    /\ nonblock' = FALSE
    /\ cpc' = "returned"
    /\ UNCHANGED <<sock, connVars>>

(* Mutated form: the descriptor of a failed attempt is not closed.         *)
ConnectGivesUpOpen ==
    /\ cpc' = "failed"
    /\ UNCHANGED <<sock, nonblock, connVars>>

(* The socket is closed, whether or not the other kernel has accepted it.  *)
ConnectGivesUp ==
    /\ sock' = FALSE /\ nonblock' = FALSE
    /\ cpc' = "failed"
    /\ CloseEnd("sender")
    /\ UNCHANGED conn

(* Nothing answered in time, SO_ERROR says why not, or a signal            *)
(* interrupted poll(), which is not retried.                               *)
PollFails == cpc = "poll" /\ ConnectGivesUp

(* socket, fcntl or connect fails.                                         *)
ConnectCallFails == cpc \in {"socket", "connect", "restore"} /\ ConnectGivesUp

ConnectStep ==
    \/ MakeSocket \/ ConnectAtOnce \/ ConnectStarts
    \/ PollReady \/ PollFails \/ RestoreFlags
=============================================================================
