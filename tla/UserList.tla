------------------------------- MODULE UserList ------------------------------
(***************************************************************************)
(* What a client's chat panel shows of the people in its room: the list of *)
(* users, in order, and who is typing.  An entry counts the connections    *)
(* its user has in the room; with none the user is offline.  Identifiers,  *)
(* roles and names are numbers, names in the order CmpNoCase gives them.   *)
(***************************************************************************)
EXTENDS Integers, Sequences, SequencesExt

REGULAR   == 0
MODERATOR == 1
OWNER     == 2

Entry(id, name, role) == [id |-> id, name |-> name, role |-> role, count |-> 0]

\* A panel as it was constructed.
NewPanel(me) == [shown |-> FALSE, users |-> <<>>, me |-> me, typing |-> FALSE, typists |-> {}]

-----------------------------------------------------------------------------
\* User::operator<
Less(u, v) ==
    \/ u.count = 0 /\ v.count # 0
    \/ (u.count = 0) = (v.count = 0) /\ u.role < v.role
    \/ (u.count = 0) = (v.count = 0) /\ u.role = v.role /\ u.name > v.name
    \/ (u.count = 0) = (v.count = 0) /\ u.role = v.role /\ u.name = v.name /\ u.id < v.id

\* The greatest come first; the entry of the current user becomes the current user.
SetUserList(panel, users) ==
    LET sorted == SortSeq(users, LAMBDA u, v : ~Less(u, v))
        mine   == SelectSeq(sorted, LAMBDA u : u.id = panel.me.id)
    IN  [panel EXCEPT !.users = sorted, !.me = IF mine = <<>> THEN @ ELSE Last(mine)]

With(panel, id, fields) ==
    SetUserList(panel, [i \in DOMAIN panel.users |->
        IF panel.users[i].id = id THEN fields @@ panel.users[i] ELSE panel.users[i]])

Listed(panel, id) == {i \in DOMAIN panel.users : panel.users[i].id = id}
CountOf(panel, id) == panel.users[CHOOSE i \in Listed(panel, id) : TRUE].count

AddUser(panel, user) ==
    IF Listed(panel, user.id) = {}
    THEN SetUserList(panel, Append(panel.users, user))
    ELSE With(panel, user.id, [count |-> CountOf(panel, user.id) + 1])

RemoveUser(panel, id) ==
    IF Listed(panel, id) # {} /\ CountOf(panel, id) > 0
    THEN With(panel, id, [count |-> CountOf(panel, id) - 1])
    ELSE SetUserList(panel, SelectSeq(panel.users, LAMBDA u : u.id # id))

UpdateUserRole(panel, id, role) == With(panel, id, [role |-> role])

ListUsername(panel, id, name) == With(panel, id, [name |-> name])

\* What the menu of an entry offers: the roles the user may be given.
OnUserRightClick(panel, target) ==
    IF target.role >= OWNER \/ target.id = panel.me.id \/ panel.me.role <= target.role
    THEN {}
    ELSE {role \in {MODERATOR, REGULAR} : panel.me.role > MODERATOR /\ role # target.role}
            \cup {role \in {OWNER} : panel.me.role >= OWNER}

-----------------------------------------------------------------------------
\* TypingIndicatorPanel, keyed by name, and ChatPanel's use of it.
AddTypingUser(panel, name)    == [panel EXCEPT !.typists = @ \cup {name}]
RemoveTypingUser(panel, name) == [panel EXCEPT !.typists = @ \ {name}]

UserStartedTyping(panel, id, name) ==
    IF panel.shown /\ panel.me.id # id THEN AddTypingUser(panel, name) ELSE panel

UserStoppedTyping(panel, id, name) ==
    IF panel.me.id # id THEN RemoveTypingUser(panel, name) ELSE panel

\* (mutation: who leaves goes on typing)
UserLeftOnly(panel, id, name) == RemoveUser(panel, id)

UserLeft(panel, id, name) == UserStoppedTyping(RemoveUser(panel, id), id, name)

\* WebSocketClient::updateUsername
UpdateUsername(panel, id, name) ==
    LET known == IF panel.me.id = id THEN [panel EXCEPT !.me.name = name] ELSE panel
    IN  IF panel.shown THEN ListUsername(known, id, name) ELSE known

\* The timer is stopped, and nobody is told.
ResetState(panel) == SetUserList([panel EXCEPT !.typing = FALSE, !.typists = {}], <<>>)

\* A JoinRoomResponse: the chat is shown with all members, then those in the
\* room are counted.
ShowChat(panel, all, active) ==
    FoldLeft(AddUser, SetUserList([ResetState(panel) EXCEPT !.shown = TRUE], all), active)

\* A LogoutResponse
ShowAuth(panel) == [(IF panel.shown THEN ResetState(panel) ELSE panel) EXCEPT !.shown = FALSE]

=============================================================================
