----------------------------- MODULE MessageView ----------------------------
(***************************************************************************)
(* The reader's client: its message view, which pages through a room's     *)
(* history while live messages come in, and the panels that fill it.  One  *)
(* step handles one envelope, or one action of the user, on the thread of  *)
(* the user interface (wxTheApp->CallAfter keeps the order).               *)
(***************************************************************************)
EXTENDS MessageStore

CONSTANTS
    MaxShown,       \* MAX_MESSAGES
    MaxAsked        \* bound: requests of the user that wait for an answer

ASSUME ViewAssumption == MaxShown \in Nat \ {0}

VARIABLES
    view,           \* m_messageWidgets: the rows shown, from top to bottom
    loadingOlder, loadingNewer,
    shown,          \* the chat panel is shown
    joined,         \* the room of the last join that was answered
    flaws           \* history: what may keep the view from being the end of
                    \* the room's history in order, since it was last started

loading == <<loadingOlder, loadingNewer>>
client  == <<view, loading, shown, joined, flaws>>

Latest == 1000      \* 32517734834000000, later than any message

\* Requests and answers that are under way.
Asked(ops) ==
    \/ \E i \in DOMAIN toServer : toServer[i].op \in ops
    \/ \E f \in Frame : frame[f].stage # "free" /\ frame[f].ask.op \in ops
Answered(kinds) == \E i \in DOMAIN toClient : toClient[i].kind \in kinds
PageOutstanding == Asked({"GetMessages"}) \/ Answered({"Page", "NoPage"})
Moving == Asked({"JoinRoom"}) \/ Answered({"Joined", "Refused"})

Unanswered ==
    Len(toServer) + Cardinality({f \in Frame : frame[f].stage # "free"})
      + Len(SelectSeq(toClient, LAMBDA e : e.kind \notin {"RoomMessage", "MessageDeleted", "RoomDeleted"}))

Ask(request) == toServer' = Append(toServer, request)

\* Clear and LoadOlderMessages
Start ==
    /\ view' = <<>>
    /\ loadingOlder' = TRUE /\ loadingNewer' = FALSE
    /\ Ask(GetMessages(FALSE, Latest))
    /\ flaws' = IF PageOutstanding THEN {"stale"} ELSE {}

\* A message that comes when a later one of the room is there.
IsLate(message) == \E row \in table : row.room = joined /\ row.at > message.at

\* A live message that breaks the order of the view, or comes below a cut.
Disorders(message) ==
    \/ loadingOlder \/ loadingNewer
    \/ "cut" \in flaws
    \/ \E i \in DOMAIN view : view[i] = message \/ view[i].at > message.at
    \/ view = <<>> /\ IsLate(message)

FlawsOf(batch, isHistory) ==
    LET late  == IF ~isHistory /\ IsLate(batch[1]) THEN {"late"} ELSE {}
        order == IF ~isHistory /\ Disorders(batch[1]) THEN {"order"} ELSE {}
        isCut == /\ Len(view) + Len(batch) > MaxShown
                 /\ loadingOlder \/ "order" \in flaws \cup order
    IN  late \cup order \cup IF isCut THEN {"cut"} ELSE {}

\* UpdateLayoutAndScroll and TrimWidgets
Fill(batch) ==
    IF loadingOlder THEN LET all == Reverse(batch) \o view
                         IN  SubSeq(all, 1, IF Len(all) < MaxShown THEN Len(all) ELSE MaxShown)
                    ELSE LET all == view \o batch
                         IN  SubSeq(all, IF Len(all) < MaxShown THEN 1 ELSE Len(all) - MaxShown + 1,
                                    Len(all))

OnMessagesReceived(batch, isHistory) ==
    /\ view' = IF batch = <<>> THEN view ELSE Fill(batch)
    /\ flaws' = IF batch = <<>> THEN flaws ELSE flaws \cup FlawsOf(batch, isHistory)
    /\ loadingOlder' = FALSE /\ loadingNewer' = FALSE
    /\ UNCHANGED <<toServer, shown, joined>>

\* (mutation: the handler of the response returns after the error)
OnNoMessagesOnly ==
    /\ flaws' = flaws \cup {"refused"}
    /\ UNCHANGED <<toServer, view, loading, shown, joined>>

\* The request for a page was refused: an error is shown, and no message.
OnNoMessages ==
    /\ flaws' = flaws \cup {"refused"}
    /\ loadingOlder' = FALSE /\ loadingNewer' = FALSE
    /\ UNCHANGED <<toServer, view, shown, joined>>

\* (mutation: the notice is ignored while a page is awaited)
DeleteUnlessLoading(row) ==
    /\ view' = IF loadingOlder \/ loadingNewer THEN view ELSE RemoveFirst(view, row)
    /\ UNCHANGED <<toServer, loading, shown, joined, flaws>>

\* The first widget of that id goes: a message that is shown twice stays.
DeleteMessageById(row) ==
    /\ view' = RemoveFirst(view, row)
    /\ flaws' = flaws \cup (IF view' = <<>> /\ view # <<>> THEN {"emptied"} ELSE {})
                     \cup (IF row \in ToSet(view') THEN {"twice"} ELSE {})
    /\ UNCHANGED <<toServer, loading, shown, joined>>

\* MainWidget::ShowChat
ShowChat(r) == shown' = TRUE /\ joined' = r /\ Start

\* MainWidget::ShowRooms
ShowRooms == shown' = FALSE /\ UNCHANGED <<toServer, view, loading, joined, flaws>>

-----------------------------------------------------------------------------
\* What WebSocketClient::handleMessage does with each kind of envelope.
showRoomMessage(e) == OnMessagesReceived(e.rows, FALSE)

kGetMessagesResponse(e) ==
    IF e.kind = "Page" THEN OnMessagesReceived(e.rows, TRUE) ELSE OnNoMessages

\* The view is left alone while the chat is not shown.
removeMessageFromView(e) ==
    IF shown THEN DeleteMessageById(e.rows[1]) ELSE UNCHANGED <<toServer, client>>

kRoomDeleted(e) ==
    IF shown /\ joined = e.room THEN ShowRooms ELSE UNCHANGED <<toServer, client>>

handleMessage ==
    /\ toClient # <<>>
    /\ toClient' = Tail(toClient)
    /\ LET e == Head(toClient) IN
       \/ e.kind = "RoomMessage" /\ showRoomMessage(e)
       \/ e.kind \in {"Page", "NoPage"} /\ kGetMessagesResponse(e)
       \/ e.kind = "MessageDeleted" /\ removeMessageFromView(e)
       \/ e.kind = "Joined" /\ ShowChat(e.room)
       \/ e.kind = "RoomDeleted" /\ kRoomDeleted(e)
       \/ e.kind = "Refused" /\ UNCHANGED <<toServer, client>>
    /\ UNCHANGED server

\* The user may do something that asks the server.
MayAsk == Unanswered < MaxAsked /\ UNCHANGED <<server, toClient>>

\* OnScrolled, near the top or near the bottom of what is shown
ScrollUp ==
    /\ MayAsk /\ shown /\ view # <<>> /\ ~loadingOlder /\ ~loadingNewer
    /\ loadingOlder' = TRUE
    /\ Ask(GetMessages(FALSE, Head(view).at))
    /\ UNCHANGED <<view, loadingNewer, shown, joined, flaws>>
ScrollDown ==
    /\ MayAsk /\ shown /\ view # <<>> /\ ~loadingOlder /\ ~loadingNewer
    /\ loadingNewer' = TRUE
    /\ Ask(GetMessages(TRUE, Last(view).at))
    /\ UNCHANGED <<view, loadingOlder, shown, joined, flaws>>

\* The button is there when the view is scrolled away from its end.
JumpToPresent ==
    /\ MayAsk /\ shown /\ view # <<>>
    /\ Start
    /\ UNCHANGED <<shown, joined>>

\* RoomsPanel::OnMyRoomSelected, OnJoin
OnJoin(r) ==
    /\ MayAsk
    /\ Ask(JoinRoom(r))
    /\ UNCHANGED client

ClientStep ==
    handleMessage \/ ScrollUp \/ ScrollDown \/ JumpToPresent
    \/ \E r \in Room : OnJoin(r)

=============================================================================
