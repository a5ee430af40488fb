------------------------ MODULE ServerRegistryProofs ------------------------
(***************************************************************************)
(* What the aggregator's registry guarantees for any number of hosts and   *)
(* connections, and what a chat client that chooses among its servers      *)
(* shows.                                                                  *)
(***************************************************************************)
EXTENDS ServerChoice, SequenceTheorems, TLAPS

Typed ==
    /\ process \in [Conn -> {"new", "running", "ended"}]
    /\ conns \subseteq Conn
    /\ serverHost \in [Conn -> Host \cup {None}]
    /\ connOfHost \in [Host -> Conn \cup {None}]

\* A connection that has not been opened is unknown and has no host.
NewAreBlank == \A c \in Conn : process[c] = "new" => c \notin conns /\ serverHost[c] = None

(***************************************************************************)
(* The two invariants need NewAreBlank: a connection that opens must not   *)
(* bring a host along, or it would take the place of a namesake that has   *)
(* closed.                                                                 *)
(***************************************************************************)
IInv == Typed /\ NewAreBlank /\ ListedAreConnected /\ OnlyNamesakesUnlist

-----------------------------------------------------------------------------
LEMMA InitInv == Init => IInv
BY RegistryAssumption
   DEF Init, IInv, Typed, NewAreBlank, ListedAreConnected, OnlyNamesakesUnlist

LEMMA TypedStep == Typed /\ [Next]_vars => Typed'
BY RegistryAssumption
   DEF Typed, Next, vars, handleNewConnection, AddServer, EndProcess, RemoveConnection

LEMMA BlankStep == Typed /\ NewAreBlank /\ [Next]_vars => NewAreBlank'
<1> SUFFICES ASSUME Typed, NewAreBlank, [Next]_vars PROVE NewAreBlank'
  OBVIOUS
<1> USE DEF NewAreBlank, Typed
<1>1. CASE UNCHANGED vars
  BY <1>1 DEF vars
<1>2. ASSUME NEW c \in Conn, handleNewConnection(c) PROVE NewAreBlank'
  BY <1>2 DEF handleNewConnection
<1>3. ASSUME NEW c \in Conn, AddServer(c) PROVE NewAreBlank'
  BY <1>3 DEF AddServer
<1>4. ASSUME NEW c \in Conn, EndProcess(c) PROVE NewAreBlank'
  BY <1>4 DEF EndProcess
<1>5. ASSUME NEW c \in Conn, RemoveConnection(c) PROVE NewAreBlank'
  BY <1>5 DEF RemoveConnection
<1> QED
  BY <1>1, <1>2, <1>3, <1>4, <1>5 DEF Next

-----------------------------------------------------------------------------
\* A connection that closes is listed under its own host only, whose entry goes.
LEMMA ListedStep ==
    Typed /\ ListedAreConnected /\ [Next]_vars => ListedAreConnected'
<1> SUFFICES ASSUME Typed, ListedAreConnected, [Next]_vars,
                    NEW h \in Host, connOfHost'[h] # None
             PROVE  connOfHost'[h] \in conns' /\ serverHost'[connOfHost'[h]] = h
  BY DEF ListedAreConnected
<1> DEFINE Kept == connOfHost'[h] \in conns' /\ serverHost'[connOfHost'[h]] = h
<1> USE RegistryAssumption DEF ListedAreConnected, Typed
<1>1. CASE UNCHANGED vars
  BY <1>1 DEF vars
<1>2. ASSUME NEW c \in Conn, handleNewConnection(c) PROVE Kept
  BY <1>2 DEF handleNewConnection
<1>3. ASSUME NEW c \in Conn, AddServer(c) PROVE Kept
  <2>1. HostOf[c] \in Host /\ c \in conns /\ serverHost[c] = None
    BY <1>3 DEF AddServer
  <2>2. CASE h = HostOf[c]
    <3>1. connOfHost'[h] = c /\ serverHost'[c] = h /\ conns' = conns
      BY <1>3, <2>1, <2>2 DEF AddServer
    <3> QED
      BY <2>1, <3>1
  <2>3. CASE h # HostOf[c]
    <3>1. connOfHost'[h] = connOfHost[h] /\ conns' = conns
      BY <1>3, <2>3 DEF AddServer
    <3>2. connOfHost[h] \in conns /\ serverHost[connOfHost[h]] = h
      BY <3>1
    <3>3. connOfHost[h] # c
      BY <2>1, <3>2
    <3>4. serverHost'[connOfHost[h]] = serverHost[connOfHost[h]]
      BY <1>3, <3>2, <3>3 DEF AddServer
    <3> QED
      BY <3>1, <3>2, <3>4
  <2> QED
    BY <2>2, <2>3
<1>4. ASSUME NEW c \in Conn, EndProcess(c) PROVE Kept
  BY <1>4 DEF EndProcess
<1>5. ASSUME NEW c \in Conn, RemoveConnection(c) PROVE Kept
  <2>1. connOfHost'[h] = connOfHost[h] /\ serverHost[c] # h
    <3>1. CASE serverHost[c] = None
      BY <1>5, <3>1 DEF RemoveConnection
    <3>2. CASE serverHost[c] # None
      BY <1>5, <3>2 DEF RemoveConnection
    <3> QED
      BY <3>1, <3>2
  <2>2. connOfHost[h] \in conns \ {c} /\ serverHost[connOfHost[h]] = h
    BY <2>1
  <2> QED
    BY <1>5, <2>1, <2>2 DEF RemoveConnection
<1> QED
  BY <1>1, <1>2, <1>3, <1>4, <1>5 DEF Next

\* An entry goes with the close of a connection of its host, which stays closed.
LEMMA NamesakesStep ==
    Typed /\ NewAreBlank /\ OnlyNamesakesUnlist /\ [Next]_vars => OnlyNamesakesUnlist'
<1> SUFFICES ASSUME Typed, NewAreBlank, OnlyNamesakesUnlist, [Next]_vars,
                    NEW e \in conns', serverHost'[e] # None,
                    connOfHost'[serverHost'[e]] = None
             PROVE  \E d \in Conn \ conns' : serverHost'[d] = serverHost'[e]
  BY DEF OnlyNamesakesUnlist
<1> DEFINE Gone == \E d \in Conn \ conns' : serverHost'[d] = serverHost'[e]
<1> USE RegistryAssumption DEF OnlyNamesakesUnlist, Typed
<1>1. CASE UNCHANGED vars
  BY <1>1 DEF vars
<1>2. ASSUME NEW c \in Conn, handleNewConnection(c) PROVE Gone
  <2>1. conns' = conns \cup {c} /\ UNCHANGED <<serverHost, connOfHost>>
    BY <1>2 DEF handleNewConnection
  <2>2. serverHost[c] = None
    BY <1>2 DEF handleNewConnection, NewAreBlank
  <2>3. e \in conns
    BY <2>1, <2>2
  <2>4. PICK d \in Conn \ conns : serverHost[d] = serverHost[e]
    BY <2>1, <2>3
  <2>5. d # c
    BY <2>1, <2>2, <2>4
  <2> QED
    BY <2>1, <2>4, <2>5
<1>3. ASSUME NEW c \in Conn, AddServer(c) PROVE Gone
  <2>1. c \in conns /\ conns' = conns /\ HostOf[c] \in Host /\ connOfHost'[HostOf[c]] = c
    BY <1>3 DEF AddServer
  <2>2. serverHost'[e] # HostOf[c] /\ e # c
    BY <1>3, <2>1 DEF AddServer
  <2>3. serverHost'[e] = serverHost[e] /\ connOfHost'[serverHost[e]] = connOfHost[serverHost[e]]
    BY <1>3, <2>1, <2>2 DEF AddServer
  <2>4. PICK d \in Conn \ conns : serverHost[d] = serverHost[e]
    BY <2>1, <2>3
  <2>5. serverHost'[d] = serverHost[d]
    BY <1>3, <2>1, <2>4 DEF AddServer
  <2> QED
    BY <2>1, <2>3, <2>4, <2>5
<1>4. ASSUME NEW c \in Conn, EndProcess(c) PROVE Gone
  BY <1>4 DEF EndProcess
<1>5. ASSUME NEW c \in Conn, RemoveConnection(c) PROVE Gone
  <2>1. conns' = conns \ {c} /\ serverHost' = serverHost
    BY <1>5 DEF RemoveConnection
  <2>2. CASE serverHost[c] = serverHost[e]
    BY <2>1, <2>2
  <2>3. CASE serverHost[c] # serverHost[e]
    <3>1. connOfHost'[serverHost[e]] = connOfHost[serverHost[e]]
      BY <1>5, <2>1, <2>3 DEF RemoveConnection
    <3> QED
      BY <2>1, <3>1
  <2> QED
    BY <2>2, <2>3
<1> QED
  BY <1>1, <1>2, <1>3, <1>4, <1>5 DEF Next

-----------------------------------------------------------------------------
\* The strengthened invariant is inductive for any hosts and connections.
THEOREM Inductive == Spec => []IInv
<1>1. Init => IInv
  BY InitInv
<1>2. IInv /\ [Next]_vars => IInv'
  BY TypedStep, BlankStep, ListedStep, NamesakesStep DEF IInv
<1> QED
  BY <1>1, <1>2, PTL DEF Spec

\* The aggregator never offers a host whose connection it knows to be closed.
THEOREM ListedAreConnectedHolds == Spec => []ListedAreConnected
<1>1. IInv => ListedAreConnected
  BY DEF IInv
<1> QED
  BY <1>1, Inductive, PTL

\* A registered server is only ever taken off the list by a namesake's close.
THEOREM OnlyNamesakesUnlistHolds == Spec => []OnlyNamesakesUnlist
<1>1. IInv => OnlyNamesakesUnlist
  BY DEF IInv
<1> QED
  BY <1>1, Inductive, PTL

-----------------------------------------------------------------------------
(***************************************************************************)
(* The choice of a server.  A panel that fits needs the whole conversation *)
(* between the loop and the user interface: what is posted and not yet     *)
(* run, and how far the greeting of the server has come.                   *)
(***************************************************************************)
Address == Host \cup {Aggregator}

LoopPosts == [op : {"stop"}, to : {None}] \cup [op : {"start"}, to : Address]
UIPosts   == [op : {"initial", "servers", "auth"}] \cup [op : {"list"}, hosts : SUBSET Host]
Messages  == [op : {"ServerHello"}] \cup [op : {"GetServers"}, hosts : SUBSET Host]

ChoiceTyped ==
    /\ page \in {"initial", "servers", "auth"}
    /\ offered \subseteq Host
    /\ toLoop \in Seq(LoopPosts) /\ toUI \in Seq(UIPosts) /\ inbox \in Seq(Messages)
    /\ link \in [to : Address \cup {None}, stage : {"none", "connecting", "open", "closed"},
                 asked : BOOLEAN]
    /\ chosen \in Address \cup {None}
    /\ crossed \in BOOLEAN

\* Only over a connection that was made something is asked or said.
LinkSound ==
    /\ link.stage # "none" => link.to \in Address
    /\ link.stage \in {"none", "connecting"} => ~link.asked /\ inbox = <<>>

Registered(h) == \E c \in Conn : serverHost[c] = h

\* What is offered, or on its way to be offered, registered at some time.
OffersAreSound ==
    /\ \A h \in offered : Registered(h)
    /\ \A i \in DOMAIN toUI : toUI[i].op = "list" => \A h \in toUI[i].hosts : Registered(h)
    /\ \A i \in DOMAIN inbox : inbox[i].op = "GetServers" => \A h \in inbox[i].hosts : Registered(h)

\* Where the loop is headed: the user's last choice, or nowhere after a stop.
Aim == IF toLoop = <<>> THEN link.to ELSE toLoop[Len(toLoop)].to
AimIsChosen == Aim \in {chosen, None}

\* How far the conversation with the server has come, once the loop has run all
\* that was posted, when no choice crossed a post.
Greeting  == inbox = <<[op |-> "ServerHello"]>> /\ toUI = <<>> /\ ~link.asked /\ page # "auth"
LogIn     == /\ link.to \in Host \ Outdated /\ ~link.asked /\ inbox = <<>>
             /\ \/ toUI = <<[op |-> "auth"]>> /\ page # "auth"
                \/ toUI = <<>> /\ page = "auth"
Refusal   == /\ link.to \in Outdated /\ ~link.asked /\ inbox = <<>>
             /\ toUI = <<[op |-> "initial"]>> /\ page # "auth"
Listing   == /\ link.to = Aggregator /\ Aggregator \notin Outdated /\ page # "auth"
             /\ \A i \in DOMAIN inbox : inbox[i].op = "GetServers"
             /\ \A i \in DOMAIN toUI : toUI[i].op \in {"servers", "list"}
             /\ page = "servers" \/ (toUI # <<>> /\ Head(toUI).op = "servers")

Unlinked  == link.stage \in {"none", "connecting"} /\ toUI = <<>> /\ page # "auth"
Linked    == link.stage \in {"open", "closed"} /\ (Greeting \/ LogIn \/ Refusal \/ Listing)

InStep ==
    ~crossed => \/ toLoop # <<>> /\ toUI = <<>> /\ page # "auth"
                \/ toLoop = <<>> /\ (Unlinked \/ Linked)

ChoiceInv == ChoiceTyped /\ LinkSound /\ OffersAreSound /\ AimIsChosen /\ InStep

-----------------------------------------------------------------------------
LEMMA Appended ==
    ASSUME NEW S, NEW s \in Seq(S), NEW e \in S
    PROVE  /\ Append(s, e) \in Seq(S) /\ Append(s, e) # <<>>
           /\ Len(Append(s, e)) = Len(s) + 1 /\ Append(s, e)[Len(s) + 1] = e
           /\ \A i \in DOMAIN Append(s, e) : 
                 i = Len(s) + 1 \/ (i \in DOMAIN s /\ Append(s, e)[i] = s[i])
<1>1. /\ Append(s, e) \in Seq(S) /\ Append(s, e) # <<>> /\ Len(Append(s, e)) = Len(s) + 1
      /\ \A i \in 1 .. Len(s) : Append(s, e)[i] = s[i]
      /\ Append(s, e)[Len(s) + 1] = e
  BY AppendProperties
<1>2. DOMAIN Append(s, e) = 1 .. Len(s) + 1 /\ DOMAIN s = 1 .. Len(s) /\ Len(s) \in Nat
  BY <1>1
<1> QED
  BY <1>1, <1>2

LEMMA Popped ==
    ASSUME NEW S, NEW s \in Seq(S), s # <<>>
    PROVE  /\ Head(s) = s[1] /\ Head(s) \in S /\ 1 \in DOMAIN s /\ Tail(s) \in Seq(S)
           /\ \A i \in DOMAIN Tail(s) : i + 1 \in DOMAIN s /\ Tail(s)[i] = s[i + 1]
           /\ Tail(s) = <<>> => s[Len(s)] = s[1]
           /\ Tail(s) # <<>> => Tail(s)[Len(Tail(s))] = s[Len(s)]
OBVIOUS

LEMMA ChoiceInitInv == ChoiceInit => ChoiceInv
<1> SUFFICES ASSUME ChoiceInit PROVE ChoiceInv
  OBVIOUS
<1> USE DEF ChoiceInit, NoLink
<1>1. <<>> \in Seq(LoopPosts) /\ <<>> \in Seq(UIPosts) /\ <<>> \in Seq(Messages)
  OBVIOUS
<1>2. ChoiceTyped
  BY <1>1 DEF ChoiceTyped
<1>3. LinkSound /\ OffersAreSound /\ AimIsChosen /\ InStep
  BY ChoiceAssumption DEF LinkSound, OffersAreSound, AimIsChosen, Aim, InStep, Unlinked
<1> QED
  BY <1>2, <1>3 DEF ChoiceInv

\* A host that registered stays one that did.
LEMMA RegisteredStay ==
    ASSUME Typed, [Next]_vars, NEW h \in Host, Registered(h)
    PROVE  Registered(h)'
<1>1. PICK c \in Conn : serverHost[c] = h
  BY DEF Registered
<1>2. serverHost'[c] = h
  BY <1>1, RegistryAssumption
     DEF Typed, Next, vars, handleNewConnection, AddServer, EndProcess, RemoveConnection
<1> QED
  BY <1>1, <1>2 DEF Registered

\* What the registry does is seen by the client through the offers only.
LEMMA RegistryStep ==
    ASSUME Typed, ChoiceInv, [Next]_vars, UNCHANGED choiceVars
    PROVE  ChoiceInv'
<1>1. ChoiceTyped' /\ LinkSound' /\ AimIsChosen' /\ InStep'
  BY DEF ChoiceInv, choiceVars, ChoiceTyped, LinkSound, AimIsChosen, Aim, InStep, Unlinked,
         Linked, Greeting, LogIn, Refusal, Listing
<1>2. \A h \in Host : Registered(h) => Registered(h)'
  BY RegisteredStay
<1>3. \A h \in offered : h \in Host
  BY DEF ChoiceInv, ChoiceTyped
<1>4. \A i \in DOMAIN toUI : toUI[i].op = "list" => toUI[i].hosts \subseteq Host
  <2> SUFFICES ASSUME NEW i \in DOMAIN toUI, toUI[i].op = "list" PROVE toUI[i].hosts \subseteq Host
    OBVIOUS
  <2>1. toUI[i] \in UIPosts
    BY DEF ChoiceInv, ChoiceTyped
  <2> QED
    BY <2>1 DEF UIPosts
<1>5. \A i \in DOMAIN inbox : inbox[i].op = "GetServers" => inbox[i].hosts \subseteq Host
  <2> SUFFICES ASSUME NEW i \in DOMAIN inbox, inbox[i].op = "GetServers"
               PROVE inbox[i].hosts \subseteq Host
    OBVIOUS
  <2>1. inbox[i] \in Messages
    BY DEF ChoiceInv, ChoiceTyped
  <2> QED
    BY <2>1 DEF Messages
<1>6. OffersAreSound'
  BY <1>2, <1>3, <1>4, <1>5 DEF OffersAreSound, ChoiceInv, choiceVars
<1> QED
  BY <1>1, <1>6 DEF ChoiceInv

-----------------------------------------------------------------------------
\* What is posted to the loop is headed where the last post goes.
LEMMA Stopped ==
    ASSUME ChoiceTyped, toLoop' = stop(toLoop)
    PROVE  toLoop' \in Seq(LoopPosts) /\ toLoop' # <<>> /\ Aim' = None
<1> DEFINE p == [op |-> "stop", to |-> None]
<1>1. p \in LoopPosts /\ toLoop \in Seq(LoopPosts) /\ toLoop' = Append(toLoop, p)
  BY DEF LoopPosts, ChoiceTyped, stop
<1>2. p.to = None
  OBVIOUS
<1> HIDE DEF p
<1>3. /\ toLoop' \in Seq(LoopPosts) /\ toLoop' # <<>>
      /\ toLoop'[Len(toLoop')] = p
  BY <1>1, Appended
<1> QED
  BY <1>2, <1>3 DEF Aim

LEMMA Started ==
    ASSUME ChoiceTyped, NEW h \in Address, toLoop' = start(toLoop, h)
    PROVE  toLoop' \in Seq(LoopPosts) /\ toLoop' # <<>> /\ Aim' = h
<1> DEFINE p == [op |-> "stop", to |-> None]
           q == [op |-> "start", to |-> h]
<1>1. p \in LoopPosts /\ q \in LoopPosts /\ toLoop \in Seq(LoopPosts)
  BY DEF LoopPosts, ChoiceTyped
<1>2. toLoop' = Append(Append(toLoop, p), q) /\ q.to = h
  BY DEF start, stop
<1> HIDE DEF p, q
<1>3. Append(toLoop, p) \in Seq(LoopPosts)
  BY <1>1, Appended
<1>4. /\ toLoop' \in Seq(LoopPosts) /\ toLoop' # <<>>
      /\ toLoop'[Len(toLoop')] = q
  BY <1>1, <1>2, <1>3, Appended
<1> QED
  BY <1>2, <1>4 DEF Aim

\* A choice of the user: what is posted to the loop goes where the user wants.
LEMMA ConnectStep ==
    ASSUME ChoiceInv, NEW h \in Address, OnConnect(h), UNCHANGED vars
    PROVE  ChoiceInv'
<1>1. /\ page \in {"initial", "servers"} /\ page' = page /\ toLoop' = start(toLoop, h)
      /\ chosen' = h /\ crossed' = (toUI # <<>>)
      /\ UNCHANGED <<offered, toUI, link, inbox>>
  BY DEF OnConnect, Choose
<1>2. toLoop' \in Seq(LoopPosts) /\ toLoop' # <<>> /\ Aim' = h
  BY <1>1, Started DEF ChoiceInv
<1>3. ChoiceTyped'
  BY <1>1, <1>2 DEF ChoiceInv, ChoiceTyped
<1>4. LinkSound' /\ OffersAreSound'
  BY <1>1 DEF ChoiceInv, LinkSound, OffersAreSound, Registered, vars
<1>5. AimIsChosen' /\ InStep'
  BY <1>1, <1>2 DEF AimIsChosen, InStep
<1> QED
  BY <1>3, <1>4, <1>5 DEF ChoiceInv

LEMMA BackStep ==
    ASSUME ChoiceInv, OnBack, UNCHANGED vars
    PROVE  ChoiceInv'
<1>1. /\ page' = "initial" /\ toLoop' = stop(toLoop)
      /\ chosen' = None /\ crossed' = (toUI # <<>>)
      /\ UNCHANGED <<offered, toUI, link, inbox>>
  BY DEF OnBack, ShowInitial, Choose
<1>2. toLoop' \in Seq(LoopPosts) /\ toLoop' # <<>> /\ Aim' = None
  BY <1>1, Stopped DEF ChoiceInv
<1>3. ChoiceTyped'
  BY <1>1, <1>2 DEF ChoiceInv, ChoiceTyped
<1>4. LinkSound' /\ OffersAreSound'
  BY <1>1 DEF ChoiceInv, LinkSound, OffersAreSound, Registered, vars
<1>5. AimIsChosen' /\ InStep'
  BY <1>1, <1>2 DEF AimIsChosen, InStep
<1> QED
  BY <1>3, <1>4, <1>5 DEF ChoiceInv

\* A post to the user interface is run: the panel that was due is shown.
LEMMA RunPostStep ==
    ASSUME ChoiceInv, RunPost, UNCHANGED vars
    PROVE  ChoiceInv'
<1> DEFINE p == Head(toUI)
<1>1. /\ toUI # <<>> /\ toUI' = Tail(toUI)
      /\ p.op = "initial" => page' = "initial" /\ toLoop' = stop(toLoop) /\ offered' = offered
      /\ p.op = "list" => offered' = p.hosts /\ page' = page /\ toLoop' = toLoop
      /\ p.op \notin {"initial", "list"} => page' = p.op /\ offered' = offered /\ toLoop' = toLoop
      /\ UNCHANGED <<link, inbox, choices, chosen, crossed>>
  BY DEF RunPost, ShowInitial, SetServers
<1>2. /\ p = toUI[1] /\ p \in UIPosts /\ 1 \in DOMAIN toUI /\ toUI' \in Seq(UIPosts)
      /\ \A i \in DOMAIN toUI' : i + 1 \in DOMAIN toUI /\ toUI'[i] = toUI[i + 1]
  BY <1>1, Popped DEF ChoiceInv, ChoiceTyped
<1>3. /\ p.op \in {"initial", "servers", "auth", "list"}
      /\ p.op = "list" => p.hosts \subseteq Host
  BY <1>2 DEF UIPosts
<1> HIDE DEF p
<1>4. /\ p.op = "initial" => toLoop' \in Seq(LoopPosts) /\ toLoop' # <<>> /\ Aim' = None
      /\ p.op # "initial" => Aim' = Aim
  BY <1>1, Stopped DEF ChoiceInv, Aim
<1>5. ChoiceTyped'
  BY <1>1, <1>2, <1>3, <1>4 DEF ChoiceInv, ChoiceTyped
<1>6. LinkSound' /\ AimIsChosen'
  BY <1>1, <1>3, <1>4 DEF ChoiceInv, LinkSound, AimIsChosen
<1>7. OffersAreSound'
  BY <1>1, <1>2, <1>3 DEF ChoiceInv, OffersAreSound, Registered, vars
<1>8. InStep'
  <2> SUFFICES ASSUME ~crossed PROVE InStep'
    BY <1>1 DEF InStep
  <2>1. toLoop = <<>> /\ Linked /\ ~Greeting
    BY <1>1 DEF ChoiceInv, InStep, Unlinked, Linked, Greeting
  <2>2. CASE LogIn
    <3>1. toUI = <<[op |-> "auth"]>>
      BY <1>1, <2>2 DEF LogIn
    <3>2. p.op = "auth" /\ toUI' = <<>>
      BY <1>1, <1>2, <3>1
    <3> QED
      BY <1>1, <2>1, <2>2, <3>2 DEF InStep, Linked, LogIn
  <2>3. CASE Refusal
    <3>1. toUI = <<[op |-> "initial"]>>
      BY <2>3 DEF Refusal
    <3>2. p.op = "initial" /\ toUI' = <<>>
      BY <1>1, <1>2, <3>1
    <3> QED
      BY <1>1, <1>4, <3>2 DEF InStep
  <2>4. CASE Listing
    <3>1. p.op \in {"servers", "list"} /\ page' = "servers"
      BY <1>1, <1>2, <2>4 DEF Listing, p
    <3>2. \A i \in DOMAIN toUI' : toUI'[i].op \in {"servers", "list"}
      BY <1>2, <2>4 DEF Listing
    <3>3. Listing'
      BY <1>1, <2>4, <3>1, <3>2 DEF Listing
    <3> QED
      BY <1>1, <2>1, <3>1, <3>3 DEF InStep, Linked
  <2> QED
    BY <2>1, <2>2, <2>3, <2>4 DEF Linked
<1> QED
  BY <1>5, <1>6, <1>7, <1>8 DEF ChoiceInv

-----------------------------------------------------------------------------
\* The loop runs a post: the former connection is gone with what it had sent.
LEMMA RunLoopStep ==
    ASSUME ChoiceInv, RunLoop, UNCHANGED vars
    PROVE  ChoiceInv'
<1> DEFINE p == Head(toLoop)
<1>1. /\ toLoop # <<>> /\ toLoop' = Tail(toLoop) /\ inbox' = <<>>
      /\ link' = IF p.op = "start" THEN [NoLink EXCEPT !.to = p.to, !.stage = "connecting"]
                 ELSE NoLink
      /\ UNCHANGED <<page, offered, toUI, choices, chosen, crossed>>
  BY DEF RunLoop
<1>2. /\ p = toLoop[1] /\ p \in LoopPosts /\ 1 \in DOMAIN toLoop /\ toLoop' \in Seq(LoopPosts)
      /\ toLoop' = <<>> => toLoop[Len(toLoop)] = toLoop[1]
      /\ toLoop' # <<>> => toLoop'[Len(toLoop')] = toLoop[Len(toLoop)]
  BY <1>1, Popped DEF ChoiceInv, ChoiceTyped
<1>3. \/ p.op = "stop" /\ p.to = None
      \/ p.op = "start" /\ p.to \in Address
  BY <1>2 DEF LoopPosts
<1> HIDE DEF p
<1>4. /\ link'.to = p.to /\ link'.stage \in {"none", "connecting"} /\ ~link'.asked
      /\ link'.stage # "none" => p.to \in Address
      /\ link' \in [to : Address \cup {None}, stage : {"none", "connecting", "open", "closed"},
                    asked : BOOLEAN]
  <2>1. CASE p.op = "start"
    <3>1. link' = [NoLink EXCEPT !.to = p.to, !.stage = "connecting"]
      BY <1>1, <2>1
    <3> QED
      BY <1>3, <2>1, <3>1 DEF NoLink
  <2>2. CASE p.op = "stop"
    BY <1>1, <1>3, <2>2 DEF NoLink
  <2> QED
    BY <1>3, <2>1, <2>2
<1>5. <<>> \in Seq(Messages)
  OBVIOUS
<1>6. ChoiceTyped'
  BY <1>1, <1>2, <1>4, <1>5 DEF ChoiceInv, ChoiceTyped
<1>7. LinkSound'
  BY <1>1, <1>4 DEF LinkSound
<1>8. OffersAreSound'
  BY <1>1 DEF ChoiceInv, OffersAreSound, Registered, vars
<1>9. AimIsChosen'
  BY <1>1, <1>2, <1>4 DEF ChoiceInv, AimIsChosen, Aim
<1>10. InStep'
  BY <1>1, <1>4 DEF ChoiceInv, InStep, Unlinked
<1> QED
  BY <1>6, <1>7, <1>8, <1>9, <1>10 DEF ChoiceInv

\* The connection goes through its stages.
LEMMA ConnectedStep ==
    ASSUME ChoiceInv, Connected, UNCHANGED vars
    PROVE  ChoiceInv'
<1> DEFINE hello == [op |-> "ServerHello"]
<1>1. /\ link.stage = "connecting" /\ link' = [link EXCEPT !.stage = "open"]
      /\ inbox' = <<hello>>
      /\ UNCHANGED <<page, offered, toLoop, toUI, choices, chosen, crossed>>
  BY DEF Connected
<1>2. hello \in Messages /\ hello.op = "ServerHello"
  BY DEF Messages
<1> HIDE DEF hello
<1>3. inbox' \in Seq(Messages) /\ DOMAIN inbox' = {1} /\ inbox'[1] = hello
  BY <1>1, <1>2
<1>4. /\ link'.to = link.to /\ link'.stage = "open" /\ link'.asked = link.asked
      /\ link' \in [to : Address \cup {None}, stage : {"none", "connecting", "open", "closed"},
                    asked : BOOLEAN]
  BY <1>1 DEF ChoiceInv, ChoiceTyped
<1>5. ChoiceTyped'
  BY <1>1, <1>3, <1>4 DEF ChoiceInv, ChoiceTyped
<1>6. LinkSound' /\ AimIsChosen'
  BY <1>1, <1>4 DEF ChoiceInv, LinkSound, AimIsChosen, Aim
<1>7. OffersAreSound'
  BY <1>1, <1>2, <1>3 DEF ChoiceInv, OffersAreSound, Registered, vars
<1>8. InStep'
  <2> SUFFICES ASSUME ~crossed, toLoop = <<>> PROVE InStep'
    BY <1>1 DEF ChoiceInv, InStep
  <2>1. Unlinked /\ ~link.asked
    BY <1>1 DEF ChoiceInv, InStep, Linked, LinkSound
  <2>2. Greeting'
    BY <1>1, <1>4, <2>1 DEF Unlinked, Greeting, hello
  <2> QED
    BY <1>1, <1>4, <2>2 DEF InStep, Linked
<1> QED
  BY <1>5, <1>6, <1>7, <1>8 DEF ChoiceInv

LEMMA NotConnectedStep ==
    ASSUME ChoiceInv, NotConnected, UNCHANGED vars
    PROVE  ChoiceInv'
<1>1. /\ link.stage = "connecting" /\ link' = [link EXCEPT !.stage = "none"]
      /\ UNCHANGED <<page, offered, toLoop, toUI, inbox, choices, chosen, crossed>>
  BY DEF NotConnected
<1>2. /\ link'.to = link.to /\ link'.stage = "none" /\ link'.asked = link.asked
      /\ link' \in [to : Address \cup {None}, stage : {"none", "connecting", "open", "closed"},
                    asked : BOOLEAN]
  BY <1>1 DEF ChoiceInv, ChoiceTyped
<1>3. ChoiceTyped'
  BY <1>1, <1>2 DEF ChoiceInv, ChoiceTyped
<1>4. LinkSound' /\ AimIsChosen'
  BY <1>1, <1>2 DEF ChoiceInv, LinkSound, AimIsChosen, Aim
<1>5. OffersAreSound'
  BY <1>1 DEF ChoiceInv, OffersAreSound, Registered, vars
<1>6. InStep'
  BY <1>1, <1>2 DEF ChoiceInv, InStep, Unlinked, Linked
<1> QED
  BY <1>3, <1>4, <1>5, <1>6 DEF ChoiceInv

LEMMA ClosedStep ==
    ASSUME ChoiceInv, Closed, UNCHANGED vars
    PROVE  ChoiceInv'
<1>1. /\ link.stage = "open" /\ link' = [link EXCEPT !.stage = "closed"]
      /\ UNCHANGED <<page, offered, toLoop, toUI, inbox, choices, chosen, crossed>>
  BY DEF Closed
<1>2. /\ link'.to = link.to /\ link'.stage = "closed" /\ link'.asked = link.asked
      /\ link' \in [to : Address \cup {None}, stage : {"none", "connecting", "open", "closed"},
                    asked : BOOLEAN]
  BY <1>1 DEF ChoiceInv, ChoiceTyped
<1>3. ChoiceTyped'
  BY <1>1, <1>2 DEF ChoiceInv, ChoiceTyped
<1>4. LinkSound' /\ AimIsChosen'
  BY <1>1, <1>2 DEF ChoiceInv, LinkSound, AimIsChosen, Aim
<1>5. OffersAreSound'
  BY <1>1 DEF ChoiceInv, OffersAreSound, Registered, vars
<1>6. Linked => Linked'
  BY <1>1, <1>2 DEF Linked, Greeting, LogIn, Refusal, Listing
<1>7. InStep'
  BY <1>1, <1>6 DEF ChoiceInv, InStep, Unlinked
<1> QED
  BY <1>3, <1>4, <1>5, <1>7 DEF ChoiceInv

-----------------------------------------------------------------------------
\* The aggregator answers with the hosts on its list, which registered.
LEMMA GetServersStep ==
    ASSUME IInv, ChoiceInv, GetServers, UNCHANGED vars
    PROVE  ChoiceInv'
<1> DEFINE hosts == {h \in Host : connOfHost[h] # None}
           e == [op |-> "GetServers", hosts |-> hosts]
<1>1. /\ link.stage = "open" /\ link.asked /\ link' = [link EXCEPT !.asked = FALSE]
      /\ inbox' = Append(inbox, e)
      /\ UNCHANGED <<page, offered, toLoop, toUI, choices, chosen, crossed>>
  BY DEF GetServers
<1>2. e \in Messages /\ e.op = "GetServers"
  BY DEF Messages
<1>3. \A h \in e.hosts : Registered(h)
  BY DEF IInv, Typed, ListedAreConnected, Registered
<1> HIDE DEF e, hosts
<1>4. /\ inbox' \in Seq(Messages)
      /\ \A i \in DOMAIN inbox' : inbox'[i] = e \/ (i \in DOMAIN inbox /\ inbox'[i] = inbox[i])
  BY <1>1, <1>2, Appended DEF ChoiceInv, ChoiceTyped
<1>5. /\ link'.to = link.to /\ link'.stage = "open" /\ ~link'.asked
      /\ link' \in [to : Address \cup {None}, stage : {"none", "connecting", "open", "closed"},
                    asked : BOOLEAN]
  BY <1>1 DEF ChoiceInv, ChoiceTyped
<1>6. ChoiceTyped'
  BY <1>1, <1>4, <1>5 DEF ChoiceInv, ChoiceTyped
<1>7. LinkSound' /\ AimIsChosen'
  BY <1>1, <1>5 DEF ChoiceInv, LinkSound, AimIsChosen, Aim
<1>8. OffersAreSound'
  BY <1>1, <1>3, <1>4 DEF ChoiceInv, OffersAreSound, Registered, vars
<1>9. Linked => Linked'
  <2> SUFFICES ASSUME Linked PROVE Linked'
    OBVIOUS
  <2>1. Listing
    BY <1>1 DEF Linked, Greeting, LogIn, Refusal
  <2>2. \A i \in DOMAIN inbox' : inbox'[i].op = "GetServers"
    BY <1>2, <1>4, <2>1 DEF Listing
  <2> QED
    BY <1>1, <1>5, <2>1, <2>2 DEF Listing, Linked
<1>10. InStep'
  BY <1>1, <1>9 DEF ChoiceInv, InStep, Unlinked
<1> QED
  BY <1>6, <1>7, <1>8, <1>10 DEF ChoiceInv

\* A post to the user interface, in step with the loop or counted as crossed.
LEMMA Posted ==
    ASSUME ChoiceTyped, NEW p \in UIPosts, Post(p)
    PROVE  /\ toUI' \in Seq(UIPosts) /\ toUI' # <<>>
           /\ \A i \in DOMAIN toUI' : toUI'[i] = p \/ (i \in DOMAIN toUI /\ toUI'[i] = toUI[i])
           /\ toUI = <<>> => toUI' = <<p>>
           /\ toUI # <<>> => Head(toUI') = Head(toUI)
           /\ ~crossed' => ~crossed /\ toLoop = <<>>
           /\ crossed' \in BOOLEAN
<1>1. toUI \in Seq(UIPosts) /\ toUI' = Append(toUI, p)
  BY DEF Post, ChoiceTyped
<1>2. /\ toUI' \in Seq(UIPosts) /\ toUI' # <<>> /\ Len(toUI') = Len(toUI) + 1
      /\ \A i \in 1 .. Len(toUI) : toUI'[i] = toUI[i]
      /\ toUI'[Len(toUI) + 1] = p
  BY <1>1, AppendProperties
<1>3. toUI # <<>> => Head(toUI') = Head(toUI)
  BY <1>1, <1>2
<1>4. toUI = <<>> => toUI' = <<p>>
  BY <1>1
<1>5. \A i \in DOMAIN toUI' : toUI'[i] = p \/ (i \in DOMAIN toUI /\ toUI'[i] = toUI[i])
  BY <1>1, Appended
<1> QED
  BY <1>2, <1>3, <1>4, <1>5 DEF Post, ChoiceTyped

\* What the server said is read: the greeting, then what fits the server.
LEMMA MessageStep ==
    ASSUME ChoiceInv, handleMessage, UNCHANGED vars
    PROVE  ChoiceInv'
<1> DEFINE e == Head(inbox)
<1>1. /\ inbox # <<>> /\ inbox' = Tail(inbox)
      /\ UNCHANGED <<page, offered, toLoop, choices, chosen>>
  BY DEF handleMessage
<1>2. /\ e = inbox[1] /\ e \in Messages /\ 1 \in DOMAIN inbox /\ inbox' \in Seq(Messages)
      /\ \A i \in DOMAIN inbox' : i + 1 \in DOMAIN inbox /\ inbox'[i] = inbox[i + 1]
  BY <1>1, Popped DEF ChoiceInv, ChoiceTyped
<1> DEFINE Reply(p) ==
        \/ /\ e.op = "ServerHello" /\ link.to \in Outdated /\ link' = link
           /\ p = [op |-> "initial"]
        \/ /\ e.op = "ServerHello" /\ link.to = Aggregator /\ Aggregator \notin Outdated
           /\ link' = [link EXCEPT !.asked = TRUE] /\ p = [op |-> "servers"]
        \/ /\ e.op = "ServerHello" /\ link.to \in Host \ Outdated /\ link' = link
           /\ p = [op |-> "auth"]
        \/ e.op = "GetServers" /\ link' = link /\ p = [op |-> "list", hosts |-> e.hosts]
<1>3. PICK p : Post(p) /\ Reply(p)
  BY DEF handleMessage
<1>4. p \in UIPosts /\ (p.op = "list" => \A h \in p.hosts : Registered(h))
  <2>1. e.op = "GetServers" => e.hosts \subseteq Host /\ \A h \in e.hosts : Registered(h)
    BY <1>2 DEF ChoiceInv, OffersAreSound, Messages
  <2> HIDE DEF e
  <2> QED
    BY <1>3, <2>1 DEF UIPosts
<1> HIDE DEF e
<1>5. /\ link'.to = link.to /\ link'.stage = link.stage /\ link.stage \in {"open", "closed"}
      /\ p.op # "servers" => link'.asked = link.asked
      /\ link' \in [to : Address \cup {None}, stage : {"none", "connecting", "open", "closed"},
                    asked : BOOLEAN]
  <2>1. link' = link \/ (link' = [link EXCEPT !.asked = TRUE] /\ p.op = "servers")
    BY <1>3
  <2>2. link.stage \in {"open", "closed"}
    BY <1>1 DEF ChoiceInv, ChoiceTyped, LinkSound
  <2>3. link \in [to : Address \cup {None}, stage : {"none", "connecting", "open", "closed"},
                 asked : BOOLEAN]
    BY DEF ChoiceInv, ChoiceTyped
  <2> HIDE DEF Reply
  <2> QED
    BY <2>1, <2>2, <2>3
<1>6. /\ toUI' \in Seq(UIPosts) /\ toUI' # <<>>
      /\ \A i \in DOMAIN toUI' : toUI'[i] = p \/ (i \in DOMAIN toUI /\ toUI'[i] = toUI[i])
      /\ toUI = <<>> => toUI' = <<p>>
      /\ toUI # <<>> => Head(toUI') = Head(toUI)
      /\ ~crossed' => ~crossed /\ toLoop = <<>>
      /\ crossed' \in BOOLEAN
  BY <1>3, <1>4, Posted DEF ChoiceInv
<1>7. ChoiceTyped'
  BY <1>1, <1>2, <1>5, <1>6 DEF ChoiceInv, ChoiceTyped
<1>8. LinkSound' /\ AimIsChosen'
  BY <1>1, <1>5 DEF ChoiceInv, LinkSound, AimIsChosen, Aim
<1>9. OffersAreSound'
  BY <1>1, <1>2, <1>4, <1>6 DEF ChoiceInv, OffersAreSound, Registered, vars
<1>10. InStep'
  <2> SUFFICES ASSUME ~crossed' PROVE InStep'
    BY DEF InStep
  <2>1. toLoop = <<>> /\ toLoop' = <<>> /\ Linked
    BY <1>1, <1>5, <1>6 DEF ChoiceInv, InStep, Unlinked
  <2>2. CASE Greeting
    <3>1. e.op = "ServerHello" /\ inbox' = <<>> /\ toUI' = <<p>> /\ page # "auth" /\ ~link.asked
      BY <1>1, <1>2, <1>6, <2>2 DEF Greeting
    <3>2. CASE p = [op |-> "initial"]
      <4>1. Refusal'
        BY <1>1, <1>3, <1>5, <3>1, <3>2 DEF Refusal
      <4> QED
        BY <1>5, <2>1, <4>1 DEF InStep, Linked
    <3>3. CASE p = [op |-> "auth"]
      <4>1. LogIn'
        BY <1>1, <1>3, <1>5, <3>1, <3>3 DEF LogIn
      <4> QED
        BY <1>5, <2>1, <4>1 DEF InStep, Linked
    <3>4. CASE p = [op |-> "servers"]
      <4>1. link.to = Aggregator /\ Aggregator \notin Outdated /\ p.op = "servers"
        BY <1>3, <3>1, <3>4
      <4>2. Head(toUI') = p /\ DOMAIN toUI' = {1} /\ toUI'[1] = p /\ DOMAIN inbox' = {}
        BY <3>1
      <4>3. Listing'
        BY <1>1, <1>5, <1>6, <3>1, <4>1, <4>2 DEF Listing
      <4> QED
        BY <1>5, <2>1, <4>3 DEF InStep, Linked
    <3> QED
      BY <1>3, <3>1, <3>2, <3>3, <3>4
  <2>3. CASE Listing
    <3>1. e.op = "GetServers" /\ p.op = "list"
      BY <1>2, <1>3, <2>3 DEF Listing
    <3>2. /\ \A i \in DOMAIN inbox' : inbox'[i].op = "GetServers"
          /\ \A i \in DOMAIN toUI' : toUI'[i].op \in {"servers", "list"}
          /\ toUI # <<>> /\ Head(toUI).op = "servers" => Head(toUI').op = "servers"
      BY <1>2, <1>6, <2>3, <3>1 DEF Listing
    <3>3. Listing'
      BY <1>1, <1>5, <1>6, <2>3, <3>2 DEF Listing
    <3> QED
      BY <1>5, <2>1, <3>3 DEF InStep, Linked
  <2> QED
    BY <1>1, <2>1, <2>2, <2>3 DEF Linked, LogIn, Refusal
<1> QED
  BY <1>7, <1>8, <1>9, <1>10 DEF ChoiceInv

-----------------------------------------------------------------------------
\* The registry and the client keep their invariants together.
LEMMA ChoiceStep ==
    IInv /\ ChoiceInv /\ [ChoiceNext]_<<vars, choiceVars>> => ChoiceInv'
<1> SUFFICES ASSUME IInv, ChoiceInv, [ChoiceNext]_<<vars, choiceVars>> PROVE ChoiceInv'
  OBVIOUS
<1>1. CASE [Next]_vars /\ UNCHANGED choiceVars
  BY <1>1, RegistryStep DEF IInv
<1>2. ASSUME NEW h \in Host \cup {Aggregator}, OnConnect(h), UNCHANGED vars PROVE ChoiceInv'
  BY <1>2, ConnectStep DEF Address
<1>3. ASSUME OnBack, UNCHANGED vars PROVE ChoiceInv'
  BY <1>3, BackStep
<1>4. ASSUME RunPost, UNCHANGED vars PROVE ChoiceInv'
  BY <1>4, RunPostStep
<1>5. ASSUME RunLoop, UNCHANGED vars PROVE ChoiceInv'
  BY <1>5, RunLoopStep
<1>6. ASSUME Connected, UNCHANGED vars PROVE ChoiceInv'
  BY <1>6, ConnectedStep
<1>7. ASSUME NotConnected, UNCHANGED vars PROVE ChoiceInv'
  BY <1>7, NotConnectedStep
<1>8. ASSUME Closed, UNCHANGED vars PROVE ChoiceInv'
  BY <1>8, ClosedStep
<1>9. ASSUME GetServers, UNCHANGED vars PROVE ChoiceInv'
  BY <1>9, GetServersStep
<1>10. ASSUME handleMessage, UNCHANGED vars PROVE ChoiceInv'
  BY <1>10, MessageStep
<1> QED
  BY <1>1, <1>2, <1>3, <1>4, <1>5, <1>6, <1>7, <1>8, <1>9, <1>10 DEF ChoiceNext

LEMMA ChoiceInvFits == ChoiceInv => PanelFitsServer
<1> SUFFICES ASSUME ChoiceInv PROVE PanelFitsServer
  OBVIOUS
<1>1. \A h \in offered : \E c \in Conn : serverHost[c] = h
  BY DEF ChoiceInv, OffersAreSound, Registered
<1>2. ASSUME toLoop = <<>>, toUI = <<>>, inbox = <<>>, ~crossed
      PROVE  /\ link.stage = "open" =>
                   link.to = chosen /\ page = IF chosen = Aggregator THEN "servers" ELSE "auth"
             /\ page = "auth" => link.to = chosen
  <2>1. link.to \in {chosen, None} /\ (Unlinked \/ Linked)
    BY <1>2 DEF ChoiceInv, AimIsChosen, Aim, InStep
  <2>2. CASE Unlinked
    BY <2>2 DEF Unlinked
  <2>3. CASE Linked
    <3>1. LogIn \/ Listing
      BY <1>2, <2>3 DEF Linked, Greeting, Refusal
    <3>2. link.to = chosen
      BY <2>1, <3>1, ChoiceAssumption, RegistryAssumption DEF LogIn, Listing
    <3> QED
      BY <1>2, <3>1, <3>2, ChoiceAssumption DEF LogIn, Listing
  <2> QED
    BY <2>1, <2>2, <2>3
<1> QED
  BY <1>1, <1>2 DEF PanelFitsServer

\* For any servers, and whatever the user chooses, the panel shown when all
\* posts have run fits the server that was chosen last.
THEOREM PanelFitsServerHolds == ChoiceSpec => []PanelFitsServer
<1>1. ChoiceInit => IInv /\ ChoiceInv
  BY InitInv, ChoiceInitInv DEF ChoiceInit
<1>2. IInv /\ ChoiceInv /\ [ChoiceNext]_<<vars, choiceVars>> => IInv' /\ ChoiceInv'
  <2> SUFFICES ASSUME IInv, ChoiceInv, [ChoiceNext]_<<vars, choiceVars>>
               PROVE  IInv' /\ ChoiceInv'
    OBVIOUS
  <2>1. [Next]_vars
    BY DEF ChoiceNext
  <2>2. IInv'
    BY <2>1, TypedStep, BlankStep, ListedStep, NamesakesStep DEF IInv
  <2> QED
    BY <2>2, ChoiceStep
<1> QED
  BY <1>1, <1>2, ChoiceInvFits, PTL DEF ChoiceSpec

=============================================================================
