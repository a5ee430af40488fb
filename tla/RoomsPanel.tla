------------------------------ MODULE RoomsPanel ------------------------------
(***************************************************************************)
(* The client's two lists of rooms, of which one is in front, the room     *)
(* selected in each (its index, or 0), and the header over the chat.       *)
(***************************************************************************)
EXTENDS Integers, Sequences, SequencesExt

Item(id, name) == [id |-> id, name |-> name]

NewLobby(me) == [page |-> "auth", me |-> me, list |-> [mine |-> <<>>, public |-> <<>>],
                 tab |-> "mine", selected |-> [mine |-> 0, public |-> 0], header |-> Item(0, "")]

-----------------------------------------------------------------------------
UpdateRoomList(panel, mine, public) ==
    [panel EXCEPT !.list = [mine |-> mine, public |-> public], !.selected = [mine |-> 0, public |-> 0]]

AddRoom(panel, item, isMember) ==
    IF isMember
    THEN [panel EXCEPT !.list.mine = Append(@, item), !.tab = "mine",
                       !.selected.mine = Len(panel.list.mine) + 1]
    ELSE [panel EXCEPT !.list.public = Append(@, item)]

Indices(panel, tab, id) == {i \in DOMAIN panel.list[tab] : panel.list[tab][i].id = id}
First(indices) == CHOOSE i \in indices : \A j \in indices : i <= j

\* The selection stays with its item, and is lost with it.
Delete(panel, tab, i) ==
    [panel EXCEPT !.list[tab] = RemoveAt(@, i),
                  !.selected[tab] = IF @ = i THEN 0 ELSE IF @ > i THEN @ - 1 ELSE @]

\* (mutation: only the rooms one is not a member of are looked through)
RemovePublicRoom(panel, id) ==
    IF Indices(panel, "public", id) # {} THEN Delete(panel, "public", First(Indices(panel, "public", id))) ELSE panel

RemoveRoom(panel, id) ==
    IF Indices(panel, "mine", id) # {} THEN Delete(panel, "mine", First(Indices(panel, "mine", id)))
    ELSE IF Indices(panel, "public", id) # {} THEN Delete(panel, "public", First(Indices(panel, "public", id)))
    ELSE panel

\* The first of each list.
RenameRoom(panel, id, name) ==
    [panel EXCEPT !.list = [tab \in DOMAIN @ |->
        LET found == Indices(panel, tab, id)
        IN  IF found = {} THEN @[tab] ELSE [@[tab] EXCEPT ![First(found)].name = name]]]

HasSelected(panel) == panel.selected[panel.tab] # 0
GetSelectedRoom(panel) == panel.list[panel.tab][panel.selected[panel.tab]]

\* Asks to become a member of the selected room, unless it is one of those.
OnJoinRoom(panel) == HasSelected(panel) /\ panel.tab = "public"

\* Whatever is selected by now, if it is listed as public.
OnBecameMember(panel) ==
    IF ~HasSelected(panel) THEN panel
    ELSE LET item == GetSelectedRoom(panel)
             found == Indices(panel, "public", item.id)
         IN  IF found = {} THEN panel ELSE AddRoom(Delete(panel, "public", First(found)), item, TRUE)

Select(panel, tab, i) == [panel EXCEPT !.tab = tab, !.selected[tab] = i]

-----------------------------------------------------------------------------
ShowRooms(panel) == [panel EXCEPT !.page = "rooms"]

\* Without a selected room the program ends with an exception.
ShowChat(panel) ==
    IF HasSelected(panel) THEN [panel EXCEPT !.page = "chat", !.header = GetSelectedRoom(panel)]
    ELSE [panel EXCEPT !.page = "ended"]

SetRoomName(panel, id, name) ==
    IF panel.page = "chat" /\ panel.header.id = id THEN [panel EXCEPT !.header.name = name] ELSE panel

=============================================================================
