----------------------------- MODULE ServerChoice -----------------------------
(***************************************************************************)
(* A chat client that chooses a server: from the list it keeps, or from    *)
(* the one an aggregator offers.  The user interface posts stop and start  *)
(* to the network's loop; the loop posts what is to be shown back to the   *)
(* user interface; each takes the other's posts in order, but a choice and *)
(* what the former server has just said may cross.                         *)
(***************************************************************************)
EXTENDS ServerRegistry, Naturals, Sequences

CONSTANTS
    Aggregator,     \* its address; those of chat servers are their hosts
    Outdated,       \* servers with another version of the protocol
    MaxChoices      \* bound: choices of the user

ASSUME ChoiceAssumption ==
    /\ Aggregator \notin Host \cup {None}
    /\ Outdated \subseteq Host \cup {Aggregator}

VARIABLES
    page,           \* what the client shows: "initial", "servers", "auth"
    offered,        \* the hosts in the list of the servers panel
    toLoop, toUI,   \* posts not yet run
    link,           \* WebSocketClient: to whom, and the stage of the connection
    inbox,          \* messages on their way to the client
    choices,
    chosen,         \* history: the server the user chose last, or None
    crossed         \* history: did the last choice cross a post

choiceVars == <<page, offered, toLoop, toUI, link, inbox, choices, chosen, crossed>>

NoLink == [to |-> None, stage |-> "none", asked |-> FALSE]
Runs(h) == h = Aggregator \/ \E c \in Conn : process[c] = "running" /\ HostOf[c] = h

ChoiceInit ==
    /\ Init
    /\ page = "initial" /\ offered = {}
    /\ toLoop = <<>> /\ toUI = <<>> /\ link = NoLink /\ inbox = <<>>
    /\ choices = 0 /\ chosen = None /\ crossed = FALSE

-----------------------------------------------------------------------------
\* The user interface.
stop(posts)     == Append(posts, [op |-> "stop", to |-> None])
start(posts, h) == Append(stop(posts), [op |-> "start", to |-> h])

\* (mutation: the connection is left open)
ShowInitialOnly == page' = "initial" /\ UNCHANGED toLoop

ShowInitial == page' = "initial" /\ toLoop' = stop(toLoop)

Choose(h) ==
    /\ choices < MaxChoices /\ choices' = choices + 1
    /\ chosen' = h
    /\ crossed' = (toUI # <<>>)
    /\ UNCHANGED <<offered, toUI, link, inbox>>

OnConnect(h) ==
    /\ page = "initial" \/ (page = "servers" /\ h \in offered)
    /\ toLoop' = start(toLoop, h) /\ UNCHANGED page
    /\ Choose(h)

OnBack == page \in {"servers", "auth"} /\ ShowInitial /\ Choose(None)

SetServers(hosts) == offered' = hosts /\ UNCHANGED <<page, toLoop>>

RunPost ==
    /\ toUI # <<>> /\ toUI' = Tail(toUI)
    /\ LET post == Head(toUI)
       IN  CASE post.op = "initial" -> ShowInitial /\ UNCHANGED offered
             [] post.op = "list"    -> SetServers(post.hosts)
             [] OTHER               -> page' = post.op /\ UNCHANGED <<offered, toLoop>>
    /\ UNCHANGED <<link, inbox, choices, chosen, crossed>>

-----------------------------------------------------------------------------
\* The network's loop.  The former client object goes, with its connection.
RunLoop ==
    /\ toLoop # <<>> /\ toLoop' = Tail(toLoop)
    /\ link' = IF Head(toLoop).op = "start"
               THEN [NoLink EXCEPT !.to = Head(toLoop).to, !.stage = "connecting"] ELSE NoLink
    /\ inbox' = <<>>
    /\ UNCHANGED <<page, offered, toUI, choices, chosen, crossed>>

\* The server greets whoever connects.
Connected ==
    /\ link.stage = "connecting" /\ Runs(link.to)
    /\ link' = [link EXCEPT !.stage = "open"]
    /\ inbox' = <<[op |-> "ServerHello"]>>
    /\ UNCHANGED <<page, offered, toLoop, toUI, choices, chosen, crossed>>

\* The user is not told.
NotConnected ==
    /\ link.stage = "connecting"
    /\ link' = [link EXCEPT !.stage = "none"]
    /\ UNCHANGED <<page, offered, toLoop, toUI, inbox, choices, chosen, crossed>>

\* Nor of this: the closed handler is empty.
Closed ==
    /\ link.stage = "open" /\ ~Runs(link.to)
    /\ link' = [link EXCEPT !.stage = "closed"]
    /\ UNCHANGED <<page, offered, toLoop, toUI, inbox, choices, chosen, crossed>>

GetServers ==
    /\ link.stage = "open" /\ link.asked
    /\ link' = [link EXCEPT !.asked = FALSE]
    /\ inbox' = Append(inbox, [op |-> "GetServers", hosts |-> {h \in Host : connOfHost[h] # None}])
    /\ UNCHANGED <<page, offered, toLoop, toUI, choices, chosen, crossed>>

Post(post) == toUI' = Append(toUI, post) /\ crossed' = (crossed \/ toLoop # <<>>)

handleMessage ==
    /\ inbox # <<>> /\ inbox' = Tail(inbox)
    /\ \/ /\ Head(inbox).op = "ServerHello" /\ link.to \in Outdated
          /\ Post([op |-> "initial"]) /\ UNCHANGED link
       \/ /\ Head(inbox).op = "ServerHello" /\ link.to \in {Aggregator} \ Outdated
          /\ link' = [link EXCEPT !.asked = TRUE]
          /\ Post([op |-> "servers"])
       \/ /\ Head(inbox).op = "ServerHello" /\ link.to \in Host \ Outdated
          /\ Post([op |-> "auth"]) /\ UNCHANGED link
       \/ /\ Head(inbox).op = "GetServers"
          /\ Post([op |-> "list", hosts |-> Head(inbox).hosts]) /\ UNCHANGED link
    /\ UNCHANGED <<page, offered, toLoop, choices, chosen>>

ChoiceNext ==
    \/ Next /\ UNCHANGED choiceVars
    \/ /\ \/ \E h \in Host \cup {Aggregator} : OnConnect(h)
          \/ OnBack \/ RunPost
          \/ RunLoop \/ Connected \/ NotConnected \/ Closed \/ GetServers \/ handleMessage
       /\ UNCHANGED vars

ChoiceSpec == ChoiceInit /\ [][ChoiceNext]_<<vars, choiceVars>>

-----------------------------------------------------------------------------
(***************************************************************************)
(* When all posts have run, the client shows the panel that fits the       *)
(* server the user chose last: an open connection is to that server and is *)
(* never left behind another panel, the log in is never shown for another  *)
(* server, and only hosts that registered are offered; unless the last     *)
(* choice crossed what a server had just said: a late hello of an outdated *)
(* server stops the connection of the choice after it.                     *)
(***************************************************************************)
PanelFitsServer ==
    /\ \A h \in offered : \E c \in Conn : serverHost[c] = h
    /\ toLoop = <<>> /\ toUI = <<>> /\ inbox = <<>> /\ ~crossed =>
          /\ link.stage = "open" =>
                link.to = chosen /\ page = IF chosen = Aggregator THEN "servers" ELSE "auth"
          /\ page = "auth" => link.to = chosen

=============================================================================
