--------------------------- MODULE ServerRegistry ---------------------------
(***************************************************************************)
(* The aggregator's list of chat servers (aggregator::DrogonServerRegistry)*)
(* and the connection by which a chat server registers its host there      *)
(* (server::WsClient, started once per process; it never reconnects).      *)
(*                                                                         *)
(* Each operation of the registry is one step under its mutex.  A process  *)
(* may end long before the aggregator sees its connection closed; that a   *)
(* connection breaks while its process goes on is not modelled.  The       *)
(* notices server_added and server_removed, which no client reads, are     *)
(* left out; handleGetServers is in ServerChoice.                          *)
(***************************************************************************)

CONSTANTS
    Conn,           \* WebSocket connections to the aggregator
    Host,           \* values of SERVER_HOST
    HostOf,         \* HostOf[c]: the host of the chat server that opens c,
                    \* None if c is opened by a chat client
    None

ASSUME RegistryAssumption ==
    /\ None \notin Conn \cup Host
    /\ HostOf \in [Conn -> Host \cup {None}]

VARIABLES
    process,        \* process[c]: "new", "running" or "ended", what opened c
    conns,          \* m_conns
    serverHost,     \* WsData::serverHost
    connOfHost      \* m_host_id_to_conn

vars == <<process, conns, serverHost, connOfHost>>

Init ==
    /\ process = [c \in Conn |-> "new"]
    /\ conns = {}
    /\ serverHost = [c \in Conn |-> None]
    /\ connOfHost = [h \in Host |-> None]

\* A process connects.  One server at a time runs on a host.
handleNewConnection(c) ==
    /\ process[c] = "new"
    /\ HostOf[c] # None =>
          \A d \in Conn : process[d] = "running" => HostOf[d] # HostOf[c]
    /\ process' = [process EXCEPT ![c] = "running"]
    /\ conns' = conns \cup {c}
    /\ UNCHANGED <<serverHost, connOfHost>>

\* handleServerRegister and AddServer, for the one request WsClient sends.
AddServer(c) ==
    /\ c \in conns
    /\ HostOf[c] # None
    /\ serverHost[c] = None
    /\ serverHost' = [serverHost EXCEPT ![c] = HostOf[c]]
    /\ connOfHost' = [connOfHost EXCEPT ![HostOf[c]] = c]
    /\ UNCHANGED <<process, conns>>

\* The process ends; the aggregator has yet to see it.
EndProcess(c) ==
    /\ process[c] = "running"
    /\ process' = [process EXCEPT ![c] = "ended"]
    /\ UNCHANGED <<conns, serverHost, connOfHost>>

\* (mutation: the host is erased for any connection but its own)
RemoveOthers(c) ==
    /\ c \in conns
    /\ process[c] = "ended"
    /\ conns' = conns \ {c}
    /\ connOfHost' = IF serverHost[c] # None /\ connOfHost[serverHost[c]] # c
                     THEN [connOfHost EXCEPT ![serverHost[c]] = None]
                     ELSE connOfHost
    /\ UNCHANGED <<process, serverHost>>

\* (mutation: a connection that closes takes the whole list with it)
RemoveAll(c) ==
    /\ c \in conns
    /\ process[c] = "ended"
    /\ conns' = conns \ {c}
    /\ connOfHost' = [h \in Host |-> None]
    /\ UNCHANGED <<process, serverHost>>

\* The aggregator sees the connection closed.  The entry of its host goes,
\* whichever connection it names by now.
RemoveConnection(c) ==
    /\ c \in conns
    /\ process[c] = "ended"
    /\ conns' = conns \ {c}
    /\ connOfHost' = IF serverHost[c] # None
                     THEN [connOfHost EXCEPT ![serverHost[c]] = None]
                     ELSE connOfHost
    /\ UNCHANGED <<process, serverHost>>

Next ==
    \E c \in Conn :
        \/ handleNewConnection(c) \/ AddServer(c)
        \/ EndProcess(c) \/ RemoveConnection(c)

Spec == Init /\ [][Next]_vars

-----------------------------------------------------------------------------
(***************************************************************************)
(* A host is only offered to clients while a connection that registered it *)
(* is open: the aggregator does not keep servers it knows to be gone, even *)
(* when several connections have claimed one host.                         *)
(***************************************************************************)
ListedAreConnected ==
    \A h \in Host : connOfHost[h] # None =>
        connOfHost[h] \in conns /\ serverHost[connOfHost[h]] = h

(***************************************************************************)
(* A registered server leaves the list only when its own connection, or an *)
(* earlier one from the same host, is closed: what other servers and       *)
(* clients do never takes it off.                                          *)
(***************************************************************************)
OnlyNamesakesUnlist ==
    \A c \in conns : serverHost[c] # None /\ connOfHost[serverHost[c]] = None =>
        \E d \in Conn \ conns : serverHost[d] = serverHost[c]

=============================================================================
