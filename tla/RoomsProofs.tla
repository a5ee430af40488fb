------------------------------ MODULE RoomsProofs ------------------------------
(***************************************************************************)
(* For any number of visitors, rooms and requests: a client that has heard *)
(* everything lists the rooms as the tables have them.                     *)
(*                                                                         *)
(* RoomsAreTrue says what holds once nothing is on its way.  The invariant *)
(* says what holds before: ListsInv, what the lists of a client (those it  *)
(* has, or that its log in will bring, Bases) and the notices behind them  *)
(* say of a room together, at each stage of the room's life.  A room that  *)
(* is yet to be announced is not heard of; one that is there is listed or  *)
(* will be; one that is gone is listed only with its removal behind it;    *)
(* and the last name to be heard is the row's (Heard).  What a handler is  *)
(* about to announce is what it wrote (AnnouncementsInv), and a client     *)
(* hears nothing of the rooms between the reading of its list and its      *)
(* registration but what puzzles it (ListsFirst, PhaseInv).                *)
(*                                                                         *)
(* JoinInv adds that a client whose user did not hurry has one join under  *)
(* way at most, of the room it has selected: so the room that the session  *)
(* enters is the one shown, and the one moved to the user's own is a room  *)
(* the user has joined.  Joined rows are never taken back (RowsMove), so   *)
(* what a handler read of a membership still holds when it writes.         *)
(***************************************************************************)
EXTENDS TablesProofs

-----------------------------------------------------------------------------
Belongs(v, id) == id \in puzzled \/ (id \in 0 .. db.serial /\ (id \notin DOMAIN db.rooms \/ IsMember(visit[v].user, id)))

SelectedIs(p, id) == HasSelected(p) => GetSelectedRoom(p).id = id
SelectedBelongs(v) == HasSelected(lobby[v]) => Belongs(v, GetSelectedRoom(lobby[v]).id)

\* What a handler of a join has read.
JoinSound(v, chore) ==
    /\ chore.op = "JoinRoom" => chore.stage \in {"new", "write", "enter"}
    /\ chore.op = "BecomeMember" => chore.stage \in {"new", "write"}
    /\ chore.stage = "write" /\ chore.op \in Joins => chore.id \in 1 .. db.serial
    /\ chore.stage = "write" /\ chore.op \in Joins /\ chore.id \notin puzzled /\ chore.id \in DOMAIN db.rooms =>
          IF chore.known THEN <<visit[v].user, chore.id>> \in DOMAIN db.membership
          ELSE <<visit[v].user, chore.id>> \in DOMAIN db.membership => IsMember(visit[v].user, chore.id)
    /\ chore.stage = "enter" /\ chore.op \in Joins => Belongs(v, chore.id)

JoiningOf(v) ==
    /\ \A i, j \in DOMAIN chores[v] : chores[v][i].op \in Joins /\ chores[v][j].op \in Joins => i = j
    /\ \A i, j \in DOMAIN notices[v] : notices[v][i].op \in Joins /\ notices[v][j].op \in Joins => i = j
    /\ \A i \in DOMAIN chores[v], j \in DOMAIN notices[v] : ~(chores[v][i].op \in Joins /\ notices[v][j].op \in Joins)
    /\ \/ \E i \in DOMAIN chores[v] : chores[v][i].op = "JoinRoom"
       \/ \E j \in DOMAIN notices[v] : notices[v][j].op = "JoinRoom"
       \/ lobby[v].page = "chat" => lobby[v].header.id = visit[v].room
    /\ \A i \in DOMAIN chores[v] :
          /\ chores[v][i].op \in Joins => SelectedIs(lobby[v], chores[v][i].id)
          /\ chores[v][i].op = "BecomeMember" => SelectedBelongs(v)
    /\ \A j \in DOMAIN notices[v] :
          /\ notices[v][j].op = "JoinRoom" =>
                notices[v][j].ok /\ SelectedIs(lobby[v], visit[v].room) /\ Belongs(v, visit[v].room)
          /\ notices[v][j].op = "BecomeMember" => SelectedBelongs(v)
MineBelong(v, items) == \A i \in DOMAIN items :
    Belongs(v, items[i].id) \/ \E j \in DOMAIN chores[v] : chores[v][j].op = "JoinRoom" /\ chores[v][j].id = items[i].id
JoinInv == /\ \A v \in Visitor : \A i \in DOMAIN chores[v] : JoinSound(v, chores[v][i])
           /\ \A v \in Visitor \ hasty : JoiningOf(v) /\ \A lists \in Bases(v) : MineBelong(v, lists.mine)

-----------------------------------------------------------------------------
(***************************************************************************)
(* Handlers: the types, and the phases of a log in.                        *)
(***************************************************************************)

\* One visitor's requests turn, and it is told at most the end of one.
QuietBoxes(v, i, a) ==
    /\ ChoresTurned(v, i, a)
    /\ a \in DOMAIN chores'[v] => ChoreTyped(chores'[v][a]) /\ chores'[v][a].op # "Auth"
    /\ i \in DOMAIN chores[v] => chores[v][i].op # "Auth"
    /\ BoxesAre /\ (\A w \in Visitor : w # v => notices'[w] = notices[w])
    /\ notices'[v] = notices[v] \/ \E e : e.op \in Errands \ {"Auth"} /\ NoticeTyped(e) /\ Grew(notices[v], notices'[v], e)

\* ... and which rooms the old and the new request announce.
Announcements == {"CreateRoom", "RenameRoom", "DeleteRoom"}
TellsOf(chore, sid) == \A op \in Announcements : \A id : Tells(chore, op, id) => id = sid

NewRequest(v, a, sid) ==
    a \in DOMAIN chores'[v] =>
        \/ NotTelling(chores'[v][a]) /\ RoomsStay /\ chores'[v][a].op \notin {"CreateRoom", "DeleteRoom"}
        \/ Tells(chores'[v][a], "CreateRoom", sid) /\ Created(sid, chores'[v][a].name)
        \/ Tells(chores'[v][a], "RenameRoom", sid) /\ NamedAs(sid, chores'[v][a].name) /\ (~Quiet(sid) => sid \in puzzled')
        \/ Tells(chores'[v][a], "DeleteRoom", sid) /\ Dropped(sid) /\ sid \in DOMAIN db.rooms

SameRoomAsked(v, i, a) ==
    a \in DOMAIN chores'[v] =>
        /\ i \in DOMAIN chores[v] /\ chores'[v][a].op = chores[v][i].op
        /\ chores'[v][a].op # "CreateRoom" => chores'[v][a].id = chores[v][i].id

LEMMA HandledTurns ==
    ASSUME RoomsBase, NEW v \in Visitor, NEW i \in DOMAIN chores[v], NEW sid, Handled(v, i, sid)
    PROVE  \E a : /\ QuietBoxes(v, i, a) /\ NewRequest(v, a, sid) /\ SameRoomAsked(v, i, a)
                  /\ a \in DOMAIN chores'[v] \/ RoomsStay \/ sid \in puzzled'
<1>0. ChoreTyped(chores[v][i]) /\ chores[v][i].op # "Auth"
  BY ChoreShaped DEF Handled
<1>1. ASSUME EndsQuietly(v, i, sid)
      PROVE  /\ QuietBoxes(v, i, 0) /\ NewRequest(v, 0, sid) /\ SameRoomAsked(v, i, 0)
             /\ RoomsStay \/ sid \in puzzled'
  <2>1. PICK ok : RepliedTo(v, i, [op |-> chores[v][i].op, ok |-> ok])
    BY <1>1 DEF EndsQuietly
  <2>2. PICK e : e = [op |-> chores[v][i].op, ok |-> ok]
    OBVIOUS
  <2>3. e.op \in Errands \ {"Auth"} /\ NoticeTyped(e)
    BY <1>0, <2>2, ReplyTyped DEF ChoreTyped
  <2>4. QuietBoxes(v, i, 0)
    BY <1>0, <2>1, <2>2, <2>3 DEF QuietBoxes, RepliedTo
  <2>5. 0 \notin DOMAIN chores'[v]
    BY <2>1 DEF RepliedTo
  <2> QED
    BY <1>1, <2>4, <2>5 DEF NewRequest, SameRoomAsked, EndsQuietly
<1>2. ASSUME NEW new, RequestGoesOn(v, i, new) PROVE QuietBoxes(v, i, i) /\ i \in DOMAIN chores'[v] /\ chores'[v][i] = new /\ new.op = chores[v][i].op
  <2>1. BoxesAre
    BY <1>2, BaseSeqs DEF BoxesAre, Seqs, RequestGoesOn, Passed
  <2> QED
    BY <1>0, <1>2, <2>1 DEF QuietBoxes, RequestGoesOn, Passed
<1>3. CASE GoesOnQuietly(v, i)
  <2>1. PICK new : /\ RequestGoesOn(v, i, new) /\ new.id = chores[v][i].id /\ NotTelling(new) /\ RoomsStay
                   /\ new.op \notin {"CreateRoom", "DeleteRoom"}
    BY <1>3 DEF GoesOnQuietly
  <2> QED
    BY <1>2, <2>1 DEF NewRequest, SameRoomAsked
<1>4. CASE GoesOnCreated(v, i, sid)
  <2>1. PICK new : RequestGoesOn(v, i, new) /\ Tells(new, "CreateRoom", sid) /\ Created(sid, new.name)
    BY <1>4 DEF GoesOnCreated
  <2> QED
    BY <1>2, <2>1 DEF NewRequest, SameRoomAsked, Tells
<1>5. CASE GoesOnNamed(v, i, sid)
  <2>1. PICK new : /\ RequestGoesOn(v, i, new) /\ Tells(new, "RenameRoom", sid) /\ NamedAs(sid, new.name)
                   /\ chores[v][i].id = sid
                   /\ (~Quiet(sid) => sid \in puzzled')
    BY <1>5 DEF GoesOnNamed
  <2> QED
    BY <1>2, <2>1 DEF NewRequest, SameRoomAsked, Tells
<1>6. CASE GoesOnDropped(v, i, sid)
  <2>1. PICK new : /\ RequestGoesOn(v, i, new) /\ Tells(new, "DeleteRoom", sid) /\ Dropped(sid)
                   /\ chores[v][i].id = sid /\ sid \in DOMAIN db.rooms
    BY <1>6 DEF GoesOnDropped
  <2> QED
    BY <1>2, <2>1 DEF NewRequest, SameRoomAsked, Tells
<1> QED
  BY <1>1, <1>3, <1>4, <1>5, <1>6 DEF Handled

LEMMA QuietTyped ==
    ASSUME TypesInv, NEW v \in Visitor, NEW i, NEW a, QuietBoxes(v, i, a), UsersStay, RowsTyped', PanelsTyped'
    PROVE  TypesInv'
<1>1. ChoresTyped'
  BY ChoresTypedStill, BoxesParts DEF QuietBoxes, TypesInv
<1>2. ASSUME NEW w \in Visitor PROVE AllTyped(notices'[w])
  <2>1. AllTyped(notices[w])
    BY BoxesParts DEF TypesInv, NoticesTyped, AllTyped
  <2> QED
    BY <2>1, GrewTyped DEF QuietBoxes
<1>3. NoticesTyped'
  BY <1>2 DEF NoticesTyped, AllTyped, QuietBoxes, BoxesAre
<1>4. BoxesTyped'
  BY <1>1, <1>3 DEF BoxesTyped, ChoresTyped, NoticesTyped
<1> QED
  BY <1>4 DEF TypesInv, UsersStay

\* Nothing about a log in changes.
ListedStays == \A w \in Visitor : visit'[w].listed = visit[w].listed
PagesStay == \A w \in Visitor : (lobby'[w].page = "auth" <=> lobby[w].page = "auth") /\ lobby'[w].me = lobby[w].me

LEMMA QuietPhase ==
    ASSUME PhaseInv, NEW v \in Visitor, NEW i, NEW a, QuietBoxes(v, i, a), lobby[v].page # "auth",
           UsersStay, ListedStays, PagesStay
    PROVE  PhaseInv'
<1>0. \A w \in Visitor : visit'[w].listed = visit[w].listed /\ visit'[w].user = visit[w].user
                         /\ (lobby'[w].page = "auth" <=> lobby[w].page = "auth") /\ lobby'[w].me = lobby[w].me
  BY DEF UsersStay, ListedStays, PagesStay
<1>1. ASSUME NEW w \in Visitor, w # v PROVE PhaseOf(w)'
  <2>1. chores'[w] = chores[w] /\ notices'[w] = notices[w]
    BY <1>1 DEF QuietBoxes, ChoresTurned
  <2>2. PhaseOf(w)
    BY DEF PhaseInv
  <2> QED
    BY <1>0, <2>1, <2>2 DEF PhaseOf
<1>2. PhaseOf(v)'
  <2>0. PhaseOf(v)
    BY DEF PhaseInv
  <2>1. visit[v].listed /\ lobby[v].me = visit[v].user /\ (\A j \in DOMAIN chores[v] : chores[v][j].op # "Auth")
        /\ \A k \in DOMAIN notices[v] : notices[v][k].op # "Auth"
    BY <2>0 DEF PhaseOf
  <2>2. \A j \in DOMAIN chores'[v] : chores'[v][j].op # "Auth"
    <3> SUFFICES ASSUME NEW j \in DOMAIN chores'[v] PROVE chores'[v][j].op # "Auth"
      OBVIOUS
    <3>1. CASE j = a
      BY <3>1 DEF QuietBoxes
    <3>2. CASE j # a
      <4>1. PICK k \in DOMAIN chores[v] : chores'[v][j] = chores[v][k]
        BY <3>2, OthersWereThere DEF QuietBoxes
      <4> QED
        BY <2>1, <4>1
    <3> QED
      BY <3>1, <3>2
  <2>3. \A k \in DOMAIN notices'[v] : notices'[v][k].op # "Auth"
    <3>1. CASE notices'[v] = notices[v]
      BY <2>1, <3>1
    <3>2. ASSUME NEW e, e.op \in Errands \ {"Auth"}, Grew(notices[v], notices'[v], e)
          PROVE  \A k \in DOMAIN notices'[v] : notices'[v][k].op # "Auth"
      <4>1. \A k \in DOMAIN notices'[v] : notices'[v][k] = e \/ (k \in DOMAIN notices[v] /\ notices'[v][k] = notices[v][k])
        BY <3>2 DEF Grew
      <4> QED
        BY <2>1, <3>2, <4>1
    <3> QED
      BY <3>1, <3>2 DEF QuietBoxes
  <2> QED
    BY <1>0, <2>1, <2>2, <2>3 DEF PhaseOf
<1> QED
  BY <1>1, <1>2 DEF PhaseInv

LEMMA HasLoggedIn ==
    ASSUME PhaseInv, NEW v \in Visitor, NEW i \in DOMAIN chores[v], chores[v][i].op # "Auth"
    PROVE  lobby[v].page # "auth" /\ visit[v].listed
BY DEF PhaseInv, PhaseOf

-----------------------------------------------------------------------------
(***************************************************************************)
(* The stages of a room.                                                   *)
(***************************************************************************)
StageStays(id) ==
    /\ Stage(id)' = Stage(id) /\ NameNow(id)' = NameNow(id)
    /\ Quiet(id)' => Quiet(id)

LEMMA StageStaysUnnoticed ==
    ASSUME NEW id, StageStays(id)
    PROVE  Unnoticed(Stage(id), NameNow(id), Quiet(id), Stage(id)', NameNow(id)', Quiet(id)')
BY DEF StageStays, Unnoticed

\* No announcement of the room begins or ends.
Silent(v, i, a, id) ==
    /\ i \in DOMAIN chores[v] => \A op \in Announcements : ~Tells(chores[v][i], op, id)
    /\ a \in DOMAIN chores'[v] => \A op \in Announcements : ~Tells(chores'[v][a], op, id)

LEMMA SilentStays ==
    ASSUME NEW v \in Visitor, NEW i, NEW a, ChoresTurned(v, i, a), NEW id, Silent(v, i, a, id),
           NEW op \in Announcements
    PROVE  Announcing(op, id)' <=> Announcing(op, id)
<1>1. Announcing(op, id)' => Announcing(op, id)
  BY AnnouncedBefore DEF Silent
<1>2. Announcing(op, id) => Announcing(op, id)'
  BY AnnouncedStill DEF Silent
<1> QED
  BY <1>1, <1>2

LEMMA SilentStage ==
    ASSUME NEW v \in Visitor, NEW i, NEW a, ChoresTurned(v, i, a), NEW id, Silent(v, i, a, id),
           id \in DOMAIN db'.rooms <=> id \in DOMAIN db.rooms, id \in 1 .. db'.serial <=> id \in 1 .. db.serial,
           id \in DOMAIN db.rooms => db'.rooms[id].room_name = db.rooms[id].room_name
    PROVE  StageStays(id) /\ (Unborn(id)' <=> Unborn(id))
<1>1. /\ Announcing("CreateRoom", id)' <=> Announcing("CreateRoom", id)
      /\ Announcing("DeleteRoom", id)' <=> Announcing("DeleteRoom", id)
      /\ Announcing("RenameRoom", id)' <=> Announcing("RenameRoom", id)
  BY SilentStays DEF Announcements
<1>2. Unborn(id)' <=> Unborn(id)
  BY <1>1 DEF Unborn
<1>3. Stage(id)' = Stage(id)
  BY <1>1, <1>2 DEF Stage
<1>4. NameNow(id)' = NameNow(id)
  BY Zenon DEF NameNow
<1>5. Quiet(id)' => Quiet(id)
  BY <1>1 DEF Quiet
<1> QED
  BY <1>2, <1>3, <1>4, <1>5 DEF StageStays

\* Of other rooms nothing is announced.
LEMMA OtherRoomStays ==
    ASSUME NEW v \in Visitor, NEW i, NEW a, ChoresTurned(v, i, a), NEW sid, RowsMove(sid),
           i \in DOMAIN chores[v] => TellsOf(chores[v][i], sid), a \in DOMAIN chores'[v] => TellsOf(chores'[v][a], sid),
           NEW id, id # sid
    PROVE  StageStays(id) /\ (Unborn(id)' <=> Unborn(id))
<1>1. Silent(v, i, a, id)
  BY DEF Silent, TellsOf
<1>2. /\ id \in DOMAIN db'.rooms <=> id \in DOMAIN db.rooms
      /\ id \in 1 .. db'.serial <=> id \in 1 .. db.serial
      /\ id \in DOMAIN db.rooms => db'.rooms[id].room_name = db.rooms[id].room_name
  BY DEF RowsMove
<1> QED
  BY <1>1, <1>2, SilentStage

LEMMA NotTellingIsSilent ==
    ASSUME NEW chore, NotTelling(chore), NEW id
    PROVE  /\ \A op \in Announcements : ~Tells(chore, op, id)
           /\ TellsOf(chore, id)
BY DEF NotTelling, Tells, TellsOf, Announcements

LEMMA TellsItself ==
    ASSUME NEW chore, NEW op, NEW sid, Tells(chore, op, sid)
    PROVE  TellsOf(chore, sid)
BY DEF Tells, TellsOf

\* What a request that is not announced yet does to the stages.
LEMMA HandledStages ==
    ASSUME RoomsBase, AnnouncementsInv, NEW v \in Visitor, NEW i \in DOMAIN chores[v], NEW sid, Handled(v, i, sid),
           NEW a, QuietBoxes(v, i, a), NewRequest(v, a, sid), SameRoomAsked(v, i, a),
           a \in DOMAIN chores'[v] \/ RoomsStay \/ sid \in puzzled', NEW id, id \notin puzzled'
    PROVE  /\ Unnoticed(Stage(id), NameNow(id), Quiet(id), Stage(id)', NameNow(id)', Quiet(id)')
           /\ ~Unborn(id) => ~Unborn(id)'
<1>0. /\ ChoresTurned(v, i, a) /\ NotTelling(chores[v][i]) /\ RowsMove(sid) /\ id \notin puzzled
  BY DEF QuietBoxes, Handled, OthersStay
<1>1. TellsOf(chores[v][i], sid) /\ \A op \in Announcements : ~Tells(chores[v][i], op, id)
  BY <1>0, NotTellingIsSilent
<1>2. a \in DOMAIN chores'[v] => TellsOf(chores'[v][a], sid)
  BY NotTellingIsSilent, TellsItself DEF NewRequest
<1>3. CASE id # sid
  BY <1>0, <1>1, <1>2, <1>3, OtherRoomStays, StageStaysUnnoticed
<1>4. ASSUME RoomsStay, a \in DOMAIN chores'[v] => NotTelling(chores'[v][a])
      PROVE  /\ Unnoticed(Stage(id), NameNow(id), Quiet(id), Stage(id)', NameNow(id)', Quiet(id)')
             /\ ~Unborn(id) => ~Unborn(id)'
  <2>1. Silent(v, i, a, id)
    BY <1>1, <1>4, NotTellingIsSilent DEF Silent
  <2> QED
    BY <1>0, <1>4, <2>1, SilentStage, StageStaysUnnoticed DEF RoomsStay
<1>5. ASSUME id = sid, a \in DOMAIN chores'[v], Tells(chores'[v][a], "CreateRoom", sid), Created(sid, chores'[v][a].name)
      PROVE  /\ Unnoticed(Stage(id), NameNow(id), Quiet(id), Stage(id)', NameNow(id)', Quiet(id)')
             /\ ~Unborn(id) => ~Unborn(id)'
  <2>1. Unborn(id)
    BY <1>5 DEF Unborn, Created, RoomsBase, LobbyInv, TablesInv
  <2>2. Unborn(id)'
    BY <1>5, AnnouncedNow DEF Unborn
  <2>3. Stage(id) = "unborn" /\ Stage(id)' = "unborn"
    BY <2>1, <2>2 DEF Stage
  <2> QED
    BY <2>1, <2>3 DEF Unnoticed
<1>6. ASSUME id = sid, a \in DOMAIN chores'[v], Tells(chores'[v][a], "RenameRoom", sid), NamedAs(sid, chores'[v][a].name)
      PROVE  /\ Unnoticed(Stage(id), NameNow(id), Quiet(id), Stage(id)', NameNow(id)', Quiet(id)')
             /\ ~Unborn(id) => ~Unborn(id)'
  <2>1. ~Tells(chores'[v][a], "CreateRoom", id) /\ ~Tells(chores'[v][a], "DeleteRoom", id)
    BY <1>6 DEF Tells
  <2>2. /\ Announcing("CreateRoom", id)' <=> Announcing("CreateRoom", id)
        /\ Announcing("DeleteRoom", id)' <=> Announcing("DeleteRoom", id)
    BY <1>0, <1>1, <2>1, AnnouncedBefore, AnnouncedStill DEF Announcements
  <2>3. Unborn(id)' <=> Unborn(id)
    BY <1>6, <2>2 DEF Unborn, NamedAs
  <2>4. Stage(id)' = Stage(id)
    BY <1>6, <2>2, <2>3 DEF Stage, NamedAs
  <2>5. ~Quiet(id)'
    BY <1>6, AnnouncedNow DEF Quiet
  <2> QED
    BY <2>3, <2>4, <2>5 DEF Unnoticed
<1>7. ASSUME id = sid, a \in DOMAIN chores'[v], Tells(chores'[v][a], "DeleteRoom", sid), Dropped(sid), sid \in DOMAIN db.rooms
      PROVE  /\ Unnoticed(Stage(id), NameNow(id), Quiet(id), Stage(id)', NameNow(id)', Quiet(id)')
             /\ ~Unborn(id) => ~Unborn(id)'
  <2>1. ~Tells(chores'[v][a], "CreateRoom", id)
    BY <1>7 DEF Tells
  <2>2. Announcing("CreateRoom", id)' <=> Announcing("CreateRoom", id)
    BY <1>0, <1>1, <2>1, AnnouncedBefore, AnnouncedStill DEF Announcements
  <2>3. Unborn(id)' <=> Unborn(id)
    BY <1>7, <2>2 DEF Unborn, Dropped
  <2>4. chores[v][i].op = "DeleteRoom" /\ chores[v][i].id = id
    BY <1>7 DEF SameRoomAsked, Tells
  <2>5. ~Unborn(id)
    BY <1>0, <2>4 DEF AnnouncementsInv, ChoresTrue
  <2>6. Announcing("DeleteRoom", id)'
    BY <1>7, AnnouncedNow
  <2>7. Stage(id)' = "going"
    BY <1>7, <2>3, <2>5, <2>6 DEF Stage, Dropped
  <2> QED
    BY <2>3, <2>7 DEF Unnoticed
<1>8. CASE id = sid /\ a \in DOMAIN chores'[v]
  BY <1>4, <1>5, <1>6, <1>7, <1>8 DEF NewRequest
<1>9. CASE id = sid /\ a \notin DOMAIN chores'[v]
  BY <1>4, <1>9
<1> QED
  BY <1>3, <1>8, <1>9

-----------------------------------------------------------------------------
(***************************************************************************)
(* What is about to be announced is true.                                  *)
(***************************************************************************)

RowHolds(id) ==
    /\ id \in DOMAIN db'.rooms <=> id \in DOMAIN db.rooms
    /\ id \in DOMAIN db.rooms => db'.rooms[id].room_name = db.rooms[id].room_name

\* What a request under way relies on.
Reliable(id) ==
    /\ id \notin puzzled' /\ ~Unborn(id) => ~Unborn(id)'
    /\ id \in 1 .. db.serial => id \in 1 .. db'.serial /\ (id \notin DOMAIN db.rooms => id \notin DOMAIN db'.rooms)
    /\ id \notin puzzled' /\ Announcing("CreateRoom", id) => RowHolds(id)
    /\ id \notin puzzled' /\ Announcing("RenameRoom", id) /\ id \in DOMAIN db'.rooms => RowHolds(id)

LEMMA ChoreStaysTrue ==
    ASSUME NEW chore, ChoresTrue(chore), puzzled \subseteq puzzled', Reliable(chore.id),
           chore.stage = "tell" => Announcing(chore.op, chore.id)
    PROVE  ChoresTrue(chore)'
<1>1. PICK id : id = chore.id
  OBVIOUS
<1>2. Reliable(id) /\ id \in puzzled => id \in puzzled'
  BY <1>1
<1>3. chore.op \in {"RenameRoom", "DeleteRoom"} /\ id \notin puzzled' => ~Unborn(id)'
  BY <1>1, <1>2 DEF ChoresTrue, Reliable
<1>4. ASSUME chore.op = "CreateRoom", chore.stage = "tell"
      PROVE  /\ id \in 1 .. db'.serial
             /\ id \notin puzzled' => id \in DOMAIN db'.rooms /\ chore.name = db'.rooms[id].room_name
  BY <1>1, <1>2, <1>4 DEF ChoresTrue, Reliable, RowHolds
<1>5. ASSUME chore.op = "DeleteRoom", chore.stage = "tell"
      PROVE  id \in 1 .. db'.serial /\ id \notin DOMAIN db'.rooms
  BY <1>1, <1>2, <1>5 DEF ChoresTrue, Reliable
<1>6. ASSUME chore.op = "RenameRoom", chore.stage = "tell", id \notin puzzled', id \in DOMAIN db'.rooms
      PROVE  chore.name = db'.rooms[id].room_name
  BY <1>1, <1>2, <1>6 DEF ChoresTrue, Reliable, RowHolds
<1>7. chore.op \in {"CreateRoom", "DeleteRoom"} => chore.stage \in {"new", "tell"}
  BY DEF ChoresTrue
<1> QED
  BY <1>1, <1>3, <1>4, <1>5, <1>6, <1>7 DEF ChoresTrue

\* No room is announced as new by two requests.
CreatesOnce ==
    \A w, u \in Visitor : \A i \in DOMAIN chores[w], j \in DOMAIN chores[u] :
        Creates(w, i) /\ Creates(u, j) /\ chores[w][i].id = chores[u][j].id => w = u /\ i = j

LEMMA CreatesOnceStill ==
    ASSUME CreatesOnce, NEW v \in Visitor, NEW i, NEW a, ChoresTurned(v, i, a),
           a \in DOMAIN chores'[v] => \A id : Tells(chores'[v][a], "CreateRoom", id) => ~Announcing("CreateRoom", id)
    PROVE  CreatesOnce'
<1>0. \A w : \A j : Creates(w, j) <=> Tells(chores[w][j], "CreateRoom", chores[w][j].id)
  BY DEF Creates, Tells
<1>1. \A w : \A j : Creates(w, j)' <=> Tells(chores'[w][j], "CreateRoom", chores'[w][j].id)
  BY DEF Creates, Tells
<1>2. ASSUME NEW w \in Visitor, NEW j \in DOMAIN chores'[w], Creates(w, j)', ~(w = v /\ j = a)
      PROVE  \E k \in DOMAIN chores[w] : Creates(w, k) /\ chores[w][k] = chores'[w][j]
  <2>1. PICK k \in DOMAIN chores[w] : chores'[w][j] = chores[w][k]
    BY <1>2, OthersWereThere
  <2> QED
    BY <1>0, <1>1, <1>2, <2>1
<1>3. ASSUME NEW w \in Visitor, NEW j \in DOMAIN chores'[w], Creates(w, j)', ~(w = v /\ j = a),
             a \in DOMAIN chores'[v], Creates(v, a)', chores'[w][j].id = chores'[v][a].id
      PROVE  FALSE
  <2>1. PICK k \in DOMAIN chores[w] : Creates(w, k) /\ chores[w][k] = chores'[w][j]
    BY <1>2, <1>3
  <2>2. PICK id : id = chores'[v][a].id
    OBVIOUS
  <2>3. Tells(chores[w][k], "CreateRoom", id) /\ Tells(chores'[v][a], "CreateRoom", id)
    BY <1>0, <1>1, <1>3, <2>1, <2>2
  <2>4. Announcing("CreateRoom", id)
    BY <2>3 DEF Announcing, Tells
  <2> QED
    BY <1>3, <2>3, <2>4
<1>4. ASSUME NEW w \in Visitor, NEW u \in Visitor, NEW j \in DOMAIN chores'[w], NEW l \in DOMAIN chores'[u],
             Creates(w, j)', Creates(u, l)', chores'[w][j].id = chores'[u][l].id
      PROVE  w = u /\ j = l
  <2>1. CASE w = v /\ j = a
    BY <1>3, <1>4, <2>1
  <2>2. CASE u = v /\ l = a
    BY <1>3, <1>4, <2>2
  <2>3. CASE ~(w = v /\ j = a) /\ ~(u = v /\ l = a)
    <3>1. w = u
      <4>1. PICK k \in DOMAIN chores[w] : Creates(w, k) /\ chores[w][k] = chores'[w][j]
        BY <1>2, <1>4, <2>3
      <4>2. PICK n \in DOMAIN chores[u] : Creates(u, n) /\ chores[u][n] = chores'[u][l]
        BY <1>2, <1>4, <2>3
      <4> QED
        BY <1>4, <4>1, <4>2 DEF CreatesOnce
    <3>2. ASSUME j # l PROVE FALSE
      <4>1. \E k, n \in DOMAIN chores[w] : k # n /\ chores'[w][j] = chores[w][k] /\ chores'[w][l] = chores[w][n]
        <5>1. CASE w = v
          <6>1. j \in DOMAIN chores'[v] \ {a} /\ l \in DOMAIN chores'[v] \ {a}
            BY <2>3, <3>1, <5>1
          <6>2. \E k, n \in DOMAIN chores[v] \ {i} : k # n /\ chores'[v][j] = chores[v][k] /\ chores'[v][l] = chores[v][n]
            BY <3>2, <6>1, StillOne
          <6> QED
            BY <5>1, <6>2
        <5>2. CASE w # v
          <6>1. chores'[w] = chores[w]
            BY <5>2 DEF ChoresTurned
          <6> QED
            BY <3>1, <3>2, <6>1
        <5> QED
          BY <5>1, <5>2
      <4>2. PICK k \in DOMAIN chores[w], n \in DOMAIN chores[w] : k # n /\ chores'[w][j] = chores[w][k] /\ chores'[w][l] = chores[w][n]
        BY <4>1
      <4>3. Creates(w, k) /\ Creates(w, n) /\ chores[w][k].id = chores[w][n].id
        BY <1>0, <1>1, <1>4, <3>1, <4>2
      <4> QED
        BY <4>2, <4>3 DEF CreatesOnce
    <3> QED
      BY <3>1, <3>2
  <2> QED
    BY <2>1, <2>2, <2>3
<1> QED
  BY <1>4 DEF CreatesOnce

LEMMA ChoresParts ==
    AnnouncementsInv <=> (\A w \in Visitor : \A i \in DOMAIN chores[w] : ChoresTrue(chores[w][i])) /\ CreatesOnce
BY DEF AnnouncementsInv, CreatesOnce

\* A request is in order after the step.
NowTrue(chore) == ChoresTrue(chore)'

LEMMA ChoresKept ==
    ASSUME AnnouncementsInv, NEW v \in Visitor, NEW i, NEW a, ChoresTurned(v, i, a), puzzled \subseteq puzzled',
           \A id : Reliable(id),
           NEW new, a \in DOMAIN chores'[v] =>
                        /\ chores'[v][a] = new /\ NowTrue(new)
                        /\ \A id : Tells(new, "CreateRoom", id) => ~Announcing("CreateRoom", id)
    PROVE  AnnouncementsInv'
<1>1. ASSUME NEW w \in Visitor, NEW j \in DOMAIN chores'[w], NEW chore, chore = chores'[w][j] PROVE NowTrue(chore)
  <2>1. CASE w = v /\ j = a
    BY <1>1, <2>1
  <2>2. CASE ~(w = v /\ j = a)
    <3>1. PICK k \in DOMAIN chores[w] : chores'[w][j] = chores[w][k]
      BY <2>2, OthersWereThere
    <3>2. chore = chores[w][k]
      BY <1>1, <3>1
    <3>3. ChoresTrue(chore)
      BY <3>2 DEF AnnouncementsInv
    <3>4. chore.stage = "tell" => Announcing(chore.op, chore.id)
      BY <3>2 DEF Announcing
    <3>5. Reliable(chore.id)
      OBVIOUS
    <3> QED
      BY <3>3, <3>4, <3>5, ChoreStaysTrue DEF NowTrue
  <2> QED
    BY <2>1, <2>2
<1>2. (\A w \in Visitor : \A j \in DOMAIN chores[w] : ChoresTrue(chores[w][j]))'
  <2> SUFFICES ASSUME NEW w \in Visitor, NEW j \in DOMAIN chores'[w] PROVE (ChoresTrue(chores[w][j]))'
    OBVIOUS
  <2>1. PICK chore : chore = chores'[w][j]
    OBVIOUS
  <2>2. NowTrue(chore)
    BY <1>1, <2>1
  <2> QED
    BY <2>1, <2>2 DEF NowTrue, ChoresTrue
<1>3. CreatesOnce'
  BY CreatesOnceStill, ChoresParts
<1> QED
  BY <1>2, <1>3 DEF AnnouncementsInv, CreatesOnce

\* An announced request, by its room.
LEMMA AnnouncedTrue ==
    ASSUME AnnouncementsInv, NEW id
    PROVE  /\ Announcing("CreateRoom", id) => id \in 1 .. db.serial
           /\ Announcing("RenameRoom", id) /\ id \notin puzzled => ~Unborn(id)
BY DEF AnnouncementsInv, ChoresTrue, Announcing

LEMMA HandledReliable ==
    ASSUME RoomsBase, TablesInv', AnnouncementsInv, NEW v \in Visitor, NEW i \in DOMAIN chores[v], NEW sid, Handled(v, i, sid),
           NEW a, QuietBoxes(v, i, a), NewRequest(v, a, sid), SameRoomAsked(v, i, a),
           a \in DOMAIN chores'[v] \/ RoomsStay \/ sid \in puzzled', NEW id
    PROVE  Reliable(id)
<1>1. id \notin puzzled' /\ ~Unborn(id) => ~Unborn(id)'
  BY HandledStages
<1>2. RowsMove(sid) /\ TablesInv /\ puzzled \subseteq puzzled'
  BY DEF Handled, OthersStay, RoomsBase, LobbyInv
<1>3. ASSUME id \in 1 .. db.serial
      PROVE  id \in 1 .. db'.serial /\ (id \notin DOMAIN db.rooms => id \notin DOMAIN db'.rooms)
  <2>0. db.serial <= db'.serial
    BY <1>2 DEF RowsMove
  <2>1. id \in 1 .. db'.serial /\ id \in 0 .. db.serial
    BY <1>2, <1>3, <2>0 DEF TablesInv
  <2> QED
    BY <1>2, <2>1 DEF RowsMove
<1>4. id # sid => RowHolds(id)
  BY <1>2 DEF RowsMove, RowHolds
<1>5. RoomsStay => RowHolds(id)
  BY DEF RoomsStay, RowHolds
<1>6. ASSUME id = sid, id \notin puzzled', ~RoomsStay
      PROVE  /\ a \in DOMAIN chores'[v]
             /\ \/ Tells(chores'[v][a], "CreateRoom", id) /\ Created(id, chores'[v][a].name)
                \/ Tells(chores'[v][a], "RenameRoom", id) /\ NamedAs(id, chores'[v][a].name) /\ (~Quiet(id) => id \in puzzled')
                \/ Tells(chores'[v][a], "DeleteRoom", id) /\ Dropped(id) /\ id \in DOMAIN db.rooms
  BY <1>6 DEF NewRequest
<1>7. ASSUME id \notin puzzled', Announcing("CreateRoom", id) PROVE RowHolds(id)
  <2>1. id \in 1 .. db.serial /\ Unborn(id)
    BY <1>7, AnnouncedTrue DEF Unborn
  <2>2. ~Created(id, chores'[v][a].name)
    BY <1>2, <2>1 DEF Created, TablesInv
  <2>3. ASSUME id = sid, a \in DOMAIN chores'[v],
               Tells(chores'[v][a], "RenameRoom", id) \/ Tells(chores'[v][a], "DeleteRoom", id)
        PROVE  FALSE
    <3>1. chores[v][i].op \in {"RenameRoom", "DeleteRoom"} /\ chores[v][i].id = id
      BY <2>3 DEF SameRoomAsked, Tells
    <3>2. ~Unborn(id)
      BY <1>2, <1>7, <3>1 DEF AnnouncementsInv, ChoresTrue
    <3> QED
      BY <2>1, <3>2
  <2> QED
    BY <1>4, <1>5, <1>6, <1>7, <2>2, <2>3
<1>8. ASSUME id \notin puzzled', Announcing("RenameRoom", id), id \in DOMAIN db'.rooms PROVE RowHolds(id)
  <2>1. ~Unborn(id)
    BY <1>2, <1>8, AnnouncedTrue
  <2>2. ~Created(id, chores'[v][a].name)
    BY <1>2, <2>1 DEF Created, TablesInv, Unborn
  <2>3. ~Quiet(id)
    BY <1>8 DEF Quiet
  <2>4. ~Dropped(id)
    BY <1>8 DEF Dropped
  <2> QED
    BY <1>4, <1>5, <1>6, <1>8, <2>2, <2>3, <2>4
<1> QED
  BY <1>1, <1>3, <1>7, <1>8 DEF Reliable

LEMMA HandledNew ==
    ASSUME RoomsBase, TablesInv', AnnouncementsInv, NEW v \in Visitor, NEW i \in DOMAIN chores[v], NEW sid, Handled(v, i, sid),
           NEW a \in DOMAIN chores'[v], QuietBoxes(v, i, a), NewRequest(v, a, sid), SameRoomAsked(v, i, a),
           NEW new, new = chores'[v][a]
    PROVE  NowTrue(new) /\ \A id : Tells(new, "CreateRoom", id) => ~Announcing("CreateRoom", id)
<1>1. PICK id : id = new.id
  OBVIOUS
<1>2. Reliable(id)
  BY HandledReliable
<1>3. TablesInv /\ puzzled \subseteq puzzled'
  BY DEF Handled, OthersStay, RoomsBase, LobbyInv
<1>4. /\ new.op = chores[v][i].op
      /\ new.op # "CreateRoom" => id = chores[v][i].id
  BY <1>1 DEF SameRoomAsked
<1>5. ASSUME new.op \in {"RenameRoom", "DeleteRoom"}, id \notin puzzled' PROVE ~Unborn(id)'
  <2>1. ~Unborn(id)
    BY <1>3, <1>4, <1>5 DEF AnnouncementsInv, ChoresTrue
  <2> QED
    BY <1>2, <1>5, <2>1 DEF Reliable
<1>6. /\ new.op \in {"CreateRoom", "DeleteRoom"} => new.stage = "tell"
      /\ new.op = "CreateRoom" => Created(id, new.name)
      /\ new.op = "DeleteRoom" => Dropped(id) /\ id \in DOMAIN db.rooms
      /\ new.op = "RenameRoom" /\ new.stage = "tell" => NamedAs(id, new.name)
  BY <1>1 DEF NewRequest, NotTelling, Tells
<1>7. ASSUME new.op = "CreateRoom"
      PROVE  /\ id \in 1 .. db'.serial /\ id \in DOMAIN db'.rooms /\ new.name = db'.rooms[id].room_name
             /\ ~Announcing("CreateRoom", id)
  <2>1. id = db.serial + 1 /\ db'.serial = id /\ db.serial \in Nat /\ Created(id, new.name)
    BY <1>3, <1>6, <1>7 DEF Created, TablesInv
  <2>2. id \notin 1 .. db.serial /\ id \in 1 .. db'.serial
    BY <2>1
  <2> QED
    BY <2>1, <2>2, AnnouncedTrue DEF Created
<1>8. ASSUME new.op = "DeleteRoom" PROVE id \in 1 .. db'.serial /\ id \notin DOMAIN db'.rooms
  BY <1>3, <1>6, <1>8 DEF Dropped, TablesInv
<1>9. ASSUME new.op = "RenameRoom", new.stage = "tell", id \in DOMAIN db'.rooms PROVE new.name = db'.rooms[id].room_name
  BY <1>6, <1>9 DEF NamedAs
<1>10. NowTrue(new)
  BY <1>1, <1>5, <1>6, <1>7, <1>8, <1>9 DEF NowTrue, ChoresTrue
<1> QED
  BY <1>1, <1>7, <1>10 DEF Tells

LEMMA HandledChores ==
    ASSUME RoomsBase, TablesInv', AnnouncementsInv, NEW v \in Visitor, NEW i \in DOMAIN chores[v], NEW sid, Handled(v, i, sid),
           NEW a, QuietBoxes(v, i, a), NewRequest(v, a, sid), SameRoomAsked(v, i, a),
           a \in DOMAIN chores'[v] \/ RoomsStay \/ sid \in puzzled'
    PROVE  AnnouncementsInv'
<1>1. PICK new : new = chores'[v][a]
  OBVIOUS
<1>2. a \in DOMAIN chores'[v] =>
          /\ chores'[v][a] = new /\ NowTrue(new)
          /\ \A id : Tells(new, "CreateRoom", id) => ~Announcing("CreateRoom", id)
  BY <1>1, HandledNew
<1>3. \A id : Reliable(id)
  BY HandledReliable
<1>4. ChoresTurned(v, i, a) /\ puzzled \subseteq puzzled'
  BY DEF QuietBoxes, Handled, OthersStay
<1> QED
  BY <1>2, <1>3, <1>4, ChoresKept

-----------------------------------------------------------------------------
(***************************************************************************)
(* Steps of which no client hears.                                         *)
(***************************************************************************)

\* The clients look the same, up to what is selected.
LooksSame == \A w \in Visitor :
    /\ lobby'[w].page = lobby[w].page /\ lobby'[w].list = lobby[w].list
    /\ lobby'[w].header = lobby[w].header /\ lobby'[w].me = lobby[w].me

DoneLists(w) == {Pair(chores[w][j]) : j \in AuthsDone(w)}
ToldLists(w) == {Pair(notices[w][k]) : k \in AuthsTold(w)}
OwnLists(w)  == IF lobby[w].page = "auth" THEN {} ELSE {lobby[w].list}
LEMMA BasesParts == \A w : Bases(w) = OwnLists(w) \cup DoneLists(w) \cup ToldLists(w)
BY DEF Bases, DoneLists, ToldLists, OwnLists

\* At most something that is no list and about no room is heard.
AtMost(q, r) == r = q \/ \E e : e.op \notin Tidings \cup {"Auth"} /\ Grew(q, r, e)

LEMMA AtMostKeeps ==
    ASSUME NEW q, NEW r, AtMost(q, r), NEW id
    PROVE  /\ \A k \in DOMAIN q : k \in DOMAIN r /\ r[k] = q[k]
           /\ \A k \in DOMAIN r : r[k].op \in Tidings \cup {"Auth"} => k \in DOMAIN q /\ r[k] = q[k]
           /\ \A lists, stage, name, quiet : Heard(lists, q, id, stage, name, quiet) => Heard(lists, r, id, stage, name, quiet)
<1>1. CASE r = q
  BY <1>1
<1>2. ASSUME NEW e, e.op \notin Tidings \cup {"Auth"}, Grew(q, r, e)
      PROVE  /\ \A k \in DOMAIN q : k \in DOMAIN r /\ r[k] = q[k]
             /\ \A k \in DOMAIN r : r[k].op \in Tidings \cup {"Auth"} => k \in DOMAIN q /\ r[k] = q[k]
             /\ \A lists, stage, name, quiet : Heard(lists, q, id, stage, name, quiet) => Heard(lists, r, id, stage, name, quiet)
  <2>1. ~About(e, id)
    BY <1>2 DEF About
  <2>2. \A lists, stage, name, quiet : Heard(lists, q, id, stage, name, quiet) => Heard(lists, r, id, stage, name, quiet)
    BY <1>2, <2>1, OthersHeard
  <2>3. /\ \A k \in DOMAIN q : k \in DOMAIN r /\ r[k] = q[k]
        /\ \A k \in DOMAIN r : (k \in DOMAIN q /\ r[k] = q[k]) \/ r[k] = e
    BY <1>2 DEF Grew
  <2> QED
    BY <1>2, <2>2, <2>3
<1> QED
  BY <1>1, <1>2 DEF AtMost

\* No log in is among the requests that turn.
NoAuth(v, i, a) ==
    /\ ChoresTurned(v, i, a)
    /\ i \in DOMAIN chores[v] => chores[v][i].op # "Auth"
    /\ a \in DOMAIN chores'[v] => chores'[v][a].op # "Auth"

LEMMA DoneListsStay ==
    ASSUME NEW v \in Visitor, NEW i, NEW a, NoAuth(v, i, a), NEW w \in Visitor
    PROVE  /\ DoneLists(w)' = DoneLists(w)
           /\ AuthsDone(w)' = {} <=> AuthsDone(w) = {}
<1>1. ASSUME NEW j \in AuthsDone(w) PROVE \E k \in AuthsDone(w)' : chores'[w][k] = chores[w][j]
  <2>1. \E k \in DOMAIN chores'[w] : chores'[w][k] = chores[w][j]
    BY <1>1, OthersWereThere DEF NoAuth, AuthsDone
  <2> QED
    BY <1>1, <2>1 DEF AuthsDone
<1>2. ASSUME NEW j \in AuthsDone(w)' PROVE \E k \in AuthsDone(w) : chores[w][k] = chores'[w][j]
  <2>1. j \in DOMAIN chores'[w] /\ chores'[w][j].op = "Auth"
    BY <1>2 DEF AuthsDone
  <2>2. \E k \in DOMAIN chores[w] : chores'[w][j] = chores[w][k]
    BY <2>1, OthersWereThere DEF NoAuth
  <2> QED
    BY <1>2, <2>2 DEF AuthsDone
<1> QED
  BY <1>1, <1>2 DEF DoneLists, Pair

LEMMA ToldListsStay ==
    ASSUME NEW w \in Visitor, AtMost(notices[w], notices'[w])
    PROVE  AuthsTold(w)' = AuthsTold(w) /\ ToldLists(w)' = ToldLists(w)
<1>1. /\ \A k \in DOMAIN notices[w] : k \in DOMAIN notices'[w] /\ notices'[w][k] = notices[w][k]
      /\ \A k \in DOMAIN notices'[w] : notices'[w][k].op = "Auth" =>
            k \in DOMAIN notices[w] /\ notices'[w][k] = notices[w][k]
  BY AtMostKeeps
<1>2. AuthsTold(w)' = AuthsTold(w) /\ \A k \in AuthsTold(w) : notices'[w][k] = notices[w][k]
  BY <1>1 DEF AuthsTold
<1> QED
  BY <1>2 DEF ToldLists, Pair

LEMMA CalmHeard ==
    ASSUME HeardInv, NEW v \in Visitor, NEW i, NEW a, NoAuth(v, i, a), LooksSame, puzzled \subseteq puzzled',
           \A w \in Visitor : AtMost(notices[w], notices'[w]),
           \A id \in Nat \ puzzled' : Unnoticed(Stage(id), NameNow(id), Quiet(id), Stage(id)', NameNow(id)', Quiet(id)')
    PROVE  HeardInv'
<1> SUFFICES ASSUME NEW w \in Visitor, NEW id \in Nat \ puzzled'
             PROVE  HeardOf(w, id)' /\ ListsFirst(w, id)' /\ HeaderOf(w, id)'
  BY DEF HeardInv
<1>0. HeardOf(w, id) /\ ListsFirst(w, id) /\ HeaderOf(w, id)
  BY DEF HeardInv
<1>1. Bases(w)' = Bases(w)
  <2>1. OwnLists(w)' = OwnLists(w)
    BY DEF OwnLists, LooksSame
  <2>2. DoneLists(w)' = DoneLists(w) /\ ToldLists(w)' = ToldLists(w)
    BY DoneListsStay, ToldListsStay
  <2> QED
    BY <2>1, <2>2 DEF Bases, OwnLists, DoneLists, ToldLists
<1>2. ASSUME NEW lists \in Bases(w)
      PROVE  Heard(lists, notices'[w], id, Stage(id)', NameNow(id)', Quiet(id)')
  <2>1. Heard(lists, notices[w], id, Stage(id), NameNow(id), Quiet(id))
    BY <1>0 DEF HeardOf
  <2>2. Heard(lists, notices'[w], id, Stage(id), NameNow(id), Quiet(id))
    BY <2>1, AtMostKeeps
  <2> QED
    BY <2>2, NothingHeard
<1>3. HeardOf(w, id)'
  BY <1>1, <1>2 DEF HeardOf
<1>4. /\ AuthsDone(w)' = {} <=> AuthsDone(w) = {}
      /\ AuthsTold(w)' = AuthsTold(w)
      /\ \A k \in DOMAIN notices'[w] : notices'[w][k].op \in Tidings => k \in DOMAIN notices[w] /\ notices'[w][k] = notices[w][k]
  BY DoneListsStay, ToldListsStay, AtMostKeeps
<1>5. ListsFirst(w, id)'
  BY <1>0, <1>4 DEF ListsFirst, About
<1>6. HeaderOf(w, id)'
  BY <1>0 DEF HeaderOf, LooksSame
<1> QED
  BY <1>3, <1>5, <1>6

(***************************************************************************)
(* Steps that announce a request.                                          *)
(***************************************************************************)

\* What was to be heard still is, in its place, and no list is new; what is
\* new is in fresh.
Longer(q, r, fresh) ==
    /\ \A k \in DOMAIN q : k \in DOMAIN r /\ r[k] = q[k]
    /\ \A k \in DOMAIN r : (k \in DOMAIN q /\ r[k] = q[k]) \/ r[k] \in fresh
    /\ \A k \in DOMAIN q, l \in DOMAIN r : l < k => l \in DOMAIN q

LEMMA GrewLonger ==
    ASSUME NEW q, NEW r, NEW e, Grew(q, r, e)
    PROVE  Longer(q, r, {e})
<1>1. PICK n \in Nat : /\ DOMAIN q = 1 .. n /\ DOMAIN r = 1 .. n + 1
                       /\ \A k \in 1 .. n : r[k] = q[k]
                       /\ r[n + 1] = e
  BY DEF Grew
<1>2. \A k \in 1 .. n : k \in 1 .. n + 1
  BY <1>1
<1>3. \A k \in 1 .. n + 1 : k \in 1 .. n \/ k = n + 1
  BY <1>1
<1>4. \A k \in 1 .. n, l \in 1 .. n + 1 : l < k => l \in 1 .. n
  BY <1>1
<1> QED
  BY <1>1, <1>2, <1>3, <1>4 DEF Longer

LEMMA LongerStill ==
    ASSUME NEW q, NEW r, NEW t, NEW e, NEW f, Longer(q, r, e), Longer(r, t, f)
    PROVE  Longer(q, t, e \cup f)
<1>1. \A k \in DOMAIN q : k \in DOMAIN t /\ t[k] = q[k]
  BY DEF Longer
<1>2. \A k \in DOMAIN t : (k \in DOMAIN q /\ t[k] = q[k]) \/ t[k] \in e \cup f
  BY DEF Longer
<1>3. \A k \in DOMAIN q, l \in DOMAIN t : l < k => l \in DOMAIN q
  BY DEF Longer
<1> QED
  BY <1>1, <1>2, <1>3 DEF Longer

LEMMA SameIsLonger ==
    ASSUME NEW q, NEW fresh, NEW more, NEW r, Longer(q, r, fresh), fresh \subseteq more
    PROVE  Longer(q, q, more) /\ Longer(q, r, more)
BY DEF Longer

LEMMA PostedLonger ==
    ASSUME NEW w \in Visitor, NEW v \in Visitor, NEW notice, NEW reply, Posted(w, v, notice, reply)
    PROVE  /\ Longer(notices[w], notices'[w], {notice, reply})
           /\ w # v => Longer(notices[w], notices'[w], {notice})
           /\ ~visit[w].listed /\ w # v => notices'[w] = notices[w]
<1>1. PICK q : /\ IF visit[w].listed THEN Grew(notices[w], q, notice) ELSE q = notices[w]
               /\ IF w = v THEN Grew(q, notices'[w], reply) ELSE notices'[w] = q
  BY DEF Posted
<1>2. Longer(notices[w], q, {notice})
  BY <1>1, GrewLonger DEF Longer
<1>3. w = v => Longer(q, notices'[w], {reply})
  BY <1>1, GrewLonger
<1>4. CASE w = v
  <2>1. Longer(notices[w], notices'[w], {notice} \cup {reply})
    BY <1>2, <1>3, <1>4, LongerStill
  <2>2. {notice} \cup {reply} = {notice, reply}
    OBVIOUS
  <2> QED
    BY <1>4, <2>1, <2>2
<1>5. CASE w # v
  <2>1. notices'[w] = q
    BY <1>1, <1>5
  <2>2. Longer(notices[w], notices'[w], {notice, reply})
    BY <1>2, <2>1, SameIsLonger
  <2> QED
    BY <1>1, <1>2, <1>5, <2>1, <2>2
<1> QED
  BY <1>4, <1>5

LEMMA LongerToldStays ==
    ASSUME NEW w \in Visitor, NEW fresh, Longer(notices[w], notices'[w], fresh), \A e \in fresh : e.op # "Auth"
    PROVE  AuthsTold(w)' = AuthsTold(w) /\ ToldLists(w)' = ToldLists(w)
<1>2. AuthsTold(w)' = AuthsTold(w) /\ \A k \in AuthsTold(w) : notices'[w][k] = notices[w][k]
  BY DEF AuthsTold, Longer
<1> QED
  BY <1>2 DEF ToldLists, Pair

\* A client that is not told, of a room that nobody is puzzled about.
LEMMA NoListsYet ==
    ASSUME PhaseInv, NEW w \in Visitor, ~visit[w].listed, AuthsDone(w) = {}
    PROVE  Bases(w) = {}
<1>1. lobby[w].page = "auth" /\ notices[w] = <<>>
  BY DEF PhaseInv, PhaseOf
<1>2. AuthsTold(w) = {}
  <2>1. \A k \in DOMAIN notices[w] : FALSE
    BY <1>1
  <2> QED
    BY <2>1 DEF AuthsTold
<1> QED
  BY <1>1, <1>2 DEF Bases

AnnouncingStep(v, i, notice, reply) ==
    /\ Announced(v, i, notice, reply) /\ NoAuth(v, i, 0)
    /\ notice.op \in Tidings /\ reply.op \notin Tidings \cup {"Auth"}
    /\ visit[v].listed

LEMMA AnnouncedHeard ==
    ASSUME HeardInv, PhaseInv, NEW v \in Visitor, NEW i, NEW notice, NEW reply, AnnouncingStep(v, i, notice, reply), LooksSame,
           NEW sid, About(notice, sid),
           \A id \in Nat \ puzzled' : id # sid => StageStays(id),
           sid \notin puzzled' => \A lists, q, r :
               Grew(q, r, notice) /\ Heard(lists, q, sid, Stage(sid), NameNow(sid), Quiet(sid))
                   => Heard(lists, r, sid, Stage(sid)', NameNow(sid)', Quiet(sid)')
    PROVE  HeardInv'
<1> SUFFICES ASSUME NEW w \in Visitor, NEW id \in Nat \ puzzled'
             PROVE  HeardOf(w, id)' /\ ListsFirst(w, id)' /\ HeaderOf(w, id)'
  BY DEF HeardInv
<1>0. /\ Announced(v, i, notice, reply) /\ NoAuth(v, i, 0) /\ Posted(w, v, notice, reply)
      /\ notice.op \in Tidings /\ reply.op \notin Tidings \cup {"Auth"} /\ puzzled \subseteq puzzled' /\ notice.id = sid
  BY DEF AnnouncingStep, Announced, About
<1>1. HeardOf(w, id) /\ ListsFirst(w, id) /\ HeaderOf(w, id)
  BY <1>0 DEF HeardInv
<1>2. Longer(notices[w], notices'[w], {notice, reply}) /\ notice.op # "Auth" /\ reply.op # "Auth"
  <2>1. Longer(notices[w], notices'[w], {notice, reply})
    BY <1>0, PostedLonger
  <2> QED
    BY <1>0, <2>1 DEF Tidings
<1>3. Bases(w)' = Bases(w) /\ AuthsTold(w)' = AuthsTold(w) /\ (AuthsDone(w)' = {} <=> AuthsDone(w) = {})
  <2>1. OwnLists(w)' = OwnLists(w)
    BY DEF OwnLists, LooksSame
  <2>2. DoneLists(w)' = DoneLists(w) /\ (AuthsDone(w)' = {} <=> AuthsDone(w) = {})
    BY <1>0, DoneListsStay
  <2>3. AuthsTold(w)' = AuthsTold(w) /\ ToldLists(w)' = ToldLists(w)
    BY <1>2, LongerToldStays
  <2> QED
    BY <2>1, <2>2, <2>3 DEF Bases, OwnLists, DoneLists, ToldLists
<1>4. id = sid => AuthsDone(w) = {}
  <2>1. id = sid => \A j \in DOMAIN chores[w] : chores[w][j].op = "Auth" => chores[w][j].stage = "new"
    BY <1>0 DEF Announced
  <2> QED
    BY <2>1 DEF AuthsDone
<1>5. ASSUME NEW lists \in Bases(w)
      PROVE  Heard(lists, notices'[w], id, Stage(id)', NameNow(id)', Quiet(id)')
  <2>0. Heard(lists, notices[w], id, Stage(id), NameNow(id), Quiet(id))
    BY <1>1, <1>5 DEF HeardOf
  <2>1. PICK q : /\ IF visit[w].listed THEN Grew(notices[w], q, notice) ELSE q = notices[w]
                 /\ IF w = v THEN Grew(q, notices'[w], reply) ELSE notices'[w] = q
    BY <1>0 DEF Posted
  <2>2. Heard(lists, q, id, Stage(id)', NameNow(id)', Quiet(id)')
    <3>1. CASE id # sid
      <4>1. Unnoticed(Stage(id), NameNow(id), Quiet(id), Stage(id)', NameNow(id)', Quiet(id)')
        BY <3>1, StageStaysUnnoticed
      <4>2. Heard(lists, notices[w], id, Stage(id)', NameNow(id)', Quiet(id)')
        BY <2>0, <4>1, NothingHeard
      <4>3. ~About(notice, id)
        BY <1>0, <3>1 DEF About
      <4> QED
        BY <2>1, <4>2, <4>3, OthersHeard
    <3>2. CASE id = sid
      <4>1. visit[w].listed
        BY <1>4, <1>5, <3>2, NoListsYet
      <4> QED
        BY <2>0, <2>1, <3>2, <4>1
    <3> QED
      BY <3>1, <3>2
  <2>3. ~About(reply, id)
    BY <1>0 DEF About
  <2> QED
    BY <2>1, <2>2, <2>3, OthersHeard
<1>6. HeardOf(w, id)'
  BY <1>3, <1>5 DEF HeardOf
<1>7. ListsFirst(w, id)'
  <2>1. \A l \in DOMAIN notices'[w] : About(notices'[w][l], id) => id = sid \/ (l \in DOMAIN notices[w] /\ notices'[w][l] = notices[w][l])
    BY <1>0, <1>2 DEF Longer, About
  <2>2. AuthsDone(w) # {} => \A l \in DOMAIN notices'[w] : ~About(notices'[w][l], id)
    BY <1>1, <1>4, <2>1 DEF ListsFirst
  <2>3. ASSUME NEW k \in AuthsTold(w), NEW l \in DOMAIN notices'[w], l < k PROVE ~About(notices'[w][l], id)
    <3>1. l \in DOMAIN notices[w] /\ notices'[w][l] = notices[w][l]
      BY <1>2, <2>3 DEF Longer, AuthsTold
    <3> QED
      BY <1>1, <2>3, <3>1 DEF ListsFirst
  <2> QED
    BY <1>3, <2>2, <2>3 DEF ListsFirst
<1>8. HeaderOf(w, id)'
  BY <1>1 DEF HeaderOf, LooksSame
<1> QED
  BY <1>6, <1>7, <1>8

ListsInv == RoomsBase /\ PhaseInv /\ HeardInv /\ AnnouncementsInv

LEMMA AnnouncedPhase ==
    ASSUME PhaseInv, NEW v \in Visitor, NEW i, NEW notice, NEW reply, AnnouncingStep(v, i, notice, reply),
           lobby[v].page # "auth", UNCHANGED <<visit, lobby>>
    PROVE  PhaseInv'
<1>0. /\ Announced(v, i, notice, reply) /\ NoAuth(v, i, 0) /\ 0 \notin DOMAIN chores'[v]
      /\ notice.op \in Tidings /\ notice.op # "Auth" /\ reply.op # "Auth" /\ visit[v].listed
  BY DEF AnnouncingStep, Announced, Tidings
<1> SUFFICES ASSUME NEW w \in Visitor PROVE PhaseOf(w)'
  BY DEF PhaseInv
<1>1. PhaseOf(w) /\ Posted(w, v, notice, reply)
  BY <1>0 DEF PhaseInv, Announced
<1>2. /\ Longer(notices[w], notices'[w], {notice, reply})
      /\ w # v => Longer(notices[w], notices'[w], {notice})
      /\ ~visit[w].listed => notices'[w] = notices[w]
  BY <1>0, <1>1, PostedLonger
<1>3. \A k \in DOMAIN notices'[w] :
         /\ notices'[w][k].op = "Auth" => k \in DOMAIN notices[w] /\ notices'[w][k] = notices[w][k]
         /\ w # v => notices'[w][k].op \in Tidings \/ (k \in DOMAIN notices[w] /\ notices'[w][k] = notices[w][k])
  BY <1>0, <1>2 DEF Longer
<1>4. /\ w # v => chores'[w] = chores[w]
      /\ \A j \in DOMAIN chores'[w] : \E k \in DOMAIN chores[w] : chores'[w][j] = chores[w][k]
  <2>1. ChoresTurned(v, i, 0)
    BY <1>0 DEF NoAuth
  <2>2. \A j \in DOMAIN chores'[w] : \E k \in DOMAIN chores[w] : chores'[w][j] = chores[w][k]
    BY <1>0, <2>1, OthersWereThere
  <2> QED
    BY <2>1, <2>2 DEF ChoresTurned
<1>5. visit'[w] = visit[w] /\ lobby'[w] = lobby[w]
  OBVIOUS
<1>6. CASE w # v
  <2>1. \A k \in DOMAIN notices[w] : k \in DOMAIN notices'[w] /\ notices'[w][k] = notices[w][k]
    BY <1>2 DEF Longer
  <2> QED
    BY <1>1, <1>2, <1>3, <1>4, <1>5, <1>6, <2>1 DEF PhaseOf
<1>7. CASE w = v
  <2>1. (\A j \in DOMAIN chores[w] : chores[w][j].op # "Auth") /\ (\A k \in DOMAIN notices[w] : notices[w][k].op # "Auth")
    BY <1>1, <1>7 DEF PhaseOf
  <2>2. (\A j \in DOMAIN chores'[w] : chores'[w][j].op # "Auth") /\ (\A k \in DOMAIN notices'[w] : notices'[w][k].op # "Auth")
    BY <1>3, <1>4, <2>1
  <2> QED
    BY <1>0, <1>1, <1>5, <1>7, <2>2 DEF PhaseOf
<1> QED
  BY <1>6, <1>7

LEMMA AnnouncedTypes ==
    ASSUME TypesInv, NEW v \in Visitor, NEW i, NEW notice, NEW reply, Announced(v, i, notice, reply),
           NoticeTyped(notice), NoticeTyped(reply), UNCHANGED <<db, visit, lobby>>
    PROVE  TypesInv'
<1>1. ChoresTyped'
  BY ChoresTypedStill, BoxesParts DEF Announced, TypesInv
<1>2. NoticesTyped'
  BY AnnouncedTyped, BoxesParts DEF TypesInv
<1>3. BoxesTyped'
  BY <1>1, <1>2 DEF BoxesTyped, ChoresTyped, NoticesTyped
<1> QED
  BY <1>3 DEF TypesInv, VisitTyped, RowsTyped, PanelsTyped

LEMMA AnnouncedChores ==
    ASSUME RoomsBase, AnnouncementsInv, NEW v \in Visitor, NEW i, ChoresTurned(v, i, 0), 0 \notin DOMAIN chores'[v],
           puzzled \subseteq puzzled', UNCHANGED db
    PROVE  AnnouncementsInv'
<1>1. ASSUME NEW id PROVE Reliable(id)
  <2>1. Unborn(id)' => Unborn(id)
    BY AnnouncedBefore DEF Unborn
  <2>2. RowHolds(id)
    BY DEF RowHolds
  <2> QED
    BY <2>1, <2>2 DEF Reliable
<1> QED
  BY <1>1, ChoresKept

LEMMA OthersStages ==
    ASSUME RoomsBase, NEW v \in Visitor, NEW i \in DOMAIN chores[v], ChoresTurned(v, i, 0), 0 \notin DOMAIN chores'[v],
           UNCHANGED db, NEW op, NEW sid, Tells(chores[v][i], op, sid), NEW id, id # sid
    PROVE  StageStays(id)
<1>1. RowsMove(sid)
  BY SameTablesMove DEF RoomsBase, LobbyInv
<1>2. TellsOf(chores[v][i], sid)
  BY TellsItself
<1> QED
  BY <1>1, <1>2, OtherRoomStays

LEMMA TwoNotices ==
    ASSUME RoomsBase, NEW v \in Visitor, NEW i \in DOMAIN chores[v], NEW op, op = chores[v][i].op, op \in Announcements
    PROVE  /\ NoticeTyped([op |-> op, ok |-> TRUE])
           /\ [op |-> op, ok |-> TRUE].op \notin Tidings \cup {"Auth"}
<1>1. op \in Errands \ {"Auth"}
  BY DEF Announcements, Errands
<1>2. NoticeTyped([op |-> op, ok |-> TRUE])
  BY <1>1, ReplyTyped
<1>3. op \notin Tidings
  BY <1>1 DEF Errands, Tidings
<1> QED
  BY <1>1, <1>2, <1>3

\* What every announcement has in common.
LEMMA AnAnnouncement ==
    ASSUME ListsInv, NEW v \in Visitor, NEW i \in DOMAIN chores[v], NEW op \in Announcements, NEW sid,
           Tells(chores[v][i], op, sid), NEW notice, About(notice, sid), NoticeTyped(notice), sendToAll(v, i, notice),
           UNCHANGED <<db, visit, lobby>>
    PROVE  /\ TypesInv' /\ PhaseInv' /\ AnnouncementsInv' /\ LooksSame
           /\ \E reply : AnnouncingStep(v, i, notice, reply)
           /\ \A id : id # sid => StageStays(id)
           /\ ChoresTurned(v, i, 0) /\ 0 \notin DOMAIN chores'[v] /\ puzzled \subseteq puzzled'
<1>0. RoomsBase /\ PhaseInv /\ AnnouncementsInv /\ TypesInv /\ Seqs
  BY BaseSeqs DEF ListsInv, RoomsBase
<1>1. chores[v][i].op = op /\ op # "Auth"
  BY DEF Tells, Announcements
<1>2. PICK reply : reply = [op |-> chores[v][i].op, ok |-> TRUE]
  OBVIOUS
<1>3. NoticeTyped(reply) /\ reply.op \notin Tidings \cup {"Auth"}
  BY <1>0, <1>1, <1>2, TwoNotices
<1>4. Announced(v, i, notice, reply)
  BY <1>0, <1>2, SendAnnounces
<1>5. ChoresTurned(v, i, 0) /\ 0 \notin DOMAIN chores'[v] /\ puzzled \subseteq puzzled'
  BY <1>4 DEF Announced
<1>6. lobby[v].page # "auth" /\ visit[v].listed
  BY <1>0, <1>1, HasLoggedIn
<1>7. AnnouncingStep(v, i, notice, reply)
  BY <1>1, <1>3, <1>4, <1>5, <1>6 DEF AnnouncingStep, NoAuth, About
<1>8. TypesInv'
  BY <1>0, <1>3, <1>4, AnnouncedTypes
<1>9. PhaseInv'
  BY <1>0, <1>6, <1>7, AnnouncedPhase
<1>10. AnnouncementsInv'
  BY <1>0, <1>5, AnnouncedChores
<1>11. \A id : id # sid => StageStays(id)
  BY <1>0, <1>5, OthersStages
<1> QED
  BY <1>5, <1>7, <1>8, <1>9, <1>10, <1>11 DEF LooksSame

-----------------------------------------------------------------------------
LEMMA CreationTold ==
    ASSUME ListsInv, NEW v \in Visitor, NEW i \in DOMAIN chores[v], CreateTell(v, i), UNCHANGED lobby, LobbyInv'
    PROVE  ListsInv'
<1>0. RoomsBase /\ HeardInv /\ PhaseInv /\ AnnouncementsInv
  BY DEF ListsInv
<1>1. PICK sid : sid = chores[v][i].id
  OBVIOUS
<1>2. PICK notice : notice = [op |-> "NewRoomCreated", id |-> chores[v][i].id, name |-> chores[v][i].name, owner |-> visit[v].user]
  OBVIOUS
<1>3. Tells(chores[v][i], "CreateRoom", sid) /\ sendToAll(v, i, notice) /\ UNCHANGED <<db, visit, lobby>>
  BY <1>1, <1>2 DEF CreateTell, At, Tells
<1>4. ChoreTyped(chores[v][i]) /\ visit[v].user # 0
  BY <1>0, ChoreShaped DEF RoomsBase, TypesInv, VisitTyped
<1>5. /\ notice.op = "NewRoomCreated" /\ notice.id = sid /\ notice.name = chores[v][i].name
      /\ NoticeTyped(notice) /\ About(notice, sid)
  BY <1>1, <1>2, <1>4 DEF NoticeTyped, About, ChoreTyped, Tidings, Errands
<1>6. /\ TypesInv' /\ PhaseInv' /\ AnnouncementsInv' /\ LooksSame
      /\ \E reply : AnnouncingStep(v, i, notice, reply)
      /\ \A id : id # sid => StageStays(id)
      /\ ChoresTurned(v, i, 0) /\ 0 \notin DOMAIN chores'[v] /\ puzzled \subseteq puzzled'
  BY <1>3, <1>5, AnAnnouncement DEF Announcements
<1>7. Announcing("CreateRoom", sid)
  BY <1>3 DEF Announcing, Tells
<1>8. ~Announcing("CreateRoom", sid)'
  <2> SUFFICES ASSUME Announcing("CreateRoom", sid)' PROVE FALSE
    OBVIOUS
  <2>1. PICK w \in Visitor : \E j \in DOMAIN chores'[w] : Tells(chores'[w][j], "CreateRoom", sid)
    BY DEF Announcing, Tells
  <2>2. PICK j \in DOMAIN chores'[w] : Tells(chores'[w][j], "CreateRoom", sid)
    BY <2>1
  <2>3. PICK k \in DOMAIN chores[w] : ~(w = v /\ k = i) /\ chores'[w][j] = chores[w][k]
    BY <1>6, OthersWereThere
  <2>4. Creates(w, k) /\ Creates(v, i) /\ chores[w][k].id = chores[v][i].id
    BY <1>3, <2>2, <2>3 DEF Tells, Creates
  <2> QED
    BY <1>0, <2>3, <2>4 DEF AnnouncementsInv
<1>9. ASSUME sid \notin puzzled'
      PROVE  /\ Stage(sid) = "unborn" /\ Stage(sid)' = "known" /\ NameNow(sid)' = notice.name
  <2>1. sid \in 1 .. db.serial /\ sid \in DOMAIN db.rooms /\ db.rooms[sid].room_name = notice.name
    BY <1>0, <1>1, <1>3, <1>5, <1>6, <1>9 DEF AnnouncementsInv, ChoresTrue, Tells
  <2>2. Unborn(sid) /\ ~Unborn(sid)'
    BY <1>3, <1>7, <1>8, <2>1 DEF Unborn
  <2> QED
    BY <1>3, <2>1, <2>2 DEF Stage, NameNow
<1>10. sid \notin puzzled' => \A lists, q, r :
            Grew(q, r, notice) /\ Heard(lists, q, sid, Stage(sid), NameNow(sid), Quiet(sid))
                => Heard(lists, r, sid, Stage(sid)', NameNow(sid)', Quiet(sid)')
  <2>1. Says(notice, "NewRoomCreated", sid)
    BY <1>5 DEF Says
  <2> QED
    BY <1>9, <2>1, CreationHeard
<1>11. HeardInv'
  BY <1>0, <1>5, <1>6, <1>10, AnnouncedHeard
<1> QED
  BY <1>6, <1>11 DEF ListsInv, RoomsBase

LEMMA RenamingTold ==
    ASSUME ListsInv, NEW v \in Visitor, NEW i \in DOMAIN chores[v], RenameTell(v, i), UNCHANGED lobby, LobbyInv'
    PROVE  ListsInv'
<1>0. RoomsBase /\ HeardInv /\ PhaseInv /\ AnnouncementsInv
  BY DEF ListsInv
<1>1. PICK sid : sid = chores[v][i].id
  OBVIOUS
<1>2. PICK notice : notice = [op |-> "NewRoomName", id |-> chores[v][i].id, name |-> chores[v][i].name]
  OBVIOUS
<1>3. Tells(chores[v][i], "RenameRoom", sid) /\ sendToAll(v, i, notice) /\ UNCHANGED <<db, visit, lobby>>
  BY <1>1, <1>2 DEF RenameTell, At, Tells
<1>4. ChoreTyped(chores[v][i])
  BY <1>0, ChoreShaped
<1>5. /\ notice.op = "NewRoomName" /\ notice.id = sid /\ notice.name = chores[v][i].name
      /\ NoticeTyped(notice) /\ About(notice, sid)
  BY <1>1, <1>2, <1>4 DEF NoticeTyped, About, ChoreTyped, Tidings, Errands
<1>6. /\ TypesInv' /\ PhaseInv' /\ AnnouncementsInv' /\ LooksSame
      /\ \E reply : AnnouncingStep(v, i, notice, reply)
      /\ \A id : id # sid => StageStays(id)
      /\ ChoresTurned(v, i, 0) /\ 0 \notin DOMAIN chores'[v] /\ puzzled \subseteq puzzled'
  BY <1>3, <1>5, AnAnnouncement DEF Announcements
<1>7. ~Tells(chores[v][i], "CreateRoom", sid) /\ ~Tells(chores[v][i], "DeleteRoom", sid)
  BY <1>3 DEF Tells
<1>8. /\ Announcing("CreateRoom", sid)' <=> Announcing("CreateRoom", sid)
      /\ Announcing("DeleteRoom", sid)' <=> Announcing("DeleteRoom", sid)
  BY <1>6, <1>7, AnnouncedBefore, AnnouncedStill
<1>9. Stage(sid)' = Stage(sid) /\ NameNow(sid)' = NameNow(sid)
  BY <1>3, <1>8 DEF Stage, Unborn, NameNow
<1>10. ASSUME sid \notin puzzled'
      PROVE  Stage(sid) # "unborn" /\ (Stage(sid) = "known" => NameNow(sid) = notice.name)
  <2>1. ~Unborn(sid) /\ (sid \in DOMAIN db.rooms => db.rooms[sid].room_name = notice.name)
    BY <1>0, <1>1, <1>3, <1>5, <1>6, <1>10 DEF AnnouncementsInv, ChoresTrue, Tells
  <2> QED
    BY <2>1, Zenon DEF Stage, NameNow
<1>11. sid \notin puzzled' => \A lists, q, r :
            Grew(q, r, notice) /\ Heard(lists, q, sid, Stage(sid), NameNow(sid), Quiet(sid))
                => Heard(lists, r, sid, Stage(sid)', NameNow(sid)', Quiet(sid)')
  <2>1. Says(notice, "NewRoomName", sid)
    BY <1>5 DEF Says
  <2> QED
    BY <1>9, <1>10, <2>1, RenameHeard
<1>12. HeardInv'
  BY <1>0, <1>5, <1>6, <1>11, AnnouncedHeard
<1> QED
  BY <1>6, <1>12 DEF ListsInv, RoomsBase

LEMMA DeletionTold ==
    ASSUME ListsInv, NEW v \in Visitor, NEW i \in DOMAIN chores[v], DeleteTell(v, i), UNCHANGED lobby, LobbyInv'
    PROVE  ListsInv'
<1>0. RoomsBase /\ HeardInv /\ PhaseInv /\ AnnouncementsInv
  BY DEF ListsInv
<1>1. PICK sid : sid = chores[v][i].id
  OBVIOUS
<1>2. PICK notice : notice = [op |-> "RoomDeleted", id |-> chores[v][i].id]
  OBVIOUS
<1>3. Tells(chores[v][i], "DeleteRoom", sid) /\ sendToAll(v, i, notice) /\ UNCHANGED <<db, visit, lobby>>
  BY <1>1, <1>2 DEF DeleteTell, At, Tells
<1>4. ChoreTyped(chores[v][i])
  BY <1>0, ChoreShaped
<1>5. /\ notice.op = "RoomDeleted" /\ notice.id = sid
      /\ NoticeTyped(notice) /\ About(notice, sid)
  BY <1>1, <1>2, <1>4 DEF NoticeTyped, About, ChoreTyped, Tidings, Errands
<1>6. /\ TypesInv' /\ PhaseInv' /\ AnnouncementsInv' /\ LooksSame
      /\ \E reply : AnnouncingStep(v, i, notice, reply)
      /\ \A id : id # sid => StageStays(id)
      /\ ChoresTurned(v, i, 0) /\ 0 \notin DOMAIN chores'[v] /\ puzzled \subseteq puzzled'
  BY <1>3, <1>5, AnAnnouncement DEF Announcements
<1>7. Announcing("CreateRoom", sid)' => Announcing("CreateRoom", sid)
  BY <1>6, AnnouncedBefore
<1>8. NameNow(sid)' = NameNow(sid)
  BY <1>3 DEF NameNow
<1>9. ASSUME sid \notin puzzled' PROVE Stage(sid)' \in {"going", "gone"}
  <2>1. ~Unborn(sid) /\ sid \notin DOMAIN db.rooms
    BY <1>0, <1>1, <1>3, <1>6, <1>9 DEF AnnouncementsInv, ChoresTrue, Tells
  <2>2. ~Unborn(sid)'
    BY <1>3, <1>7, <2>1 DEF Unborn
  <2> QED
    BY <1>3, <2>1, <2>2 DEF Stage
<1>10. sid \notin puzzled' => \A lists, q, r :
            Grew(q, r, notice) /\ Heard(lists, q, sid, Stage(sid), NameNow(sid), Quiet(sid))
                => Heard(lists, r, sid, Stage(sid)', NameNow(sid)', Quiet(sid)')
  <2>1. Says(notice, "RoomDeleted", sid)
    BY <1>5 DEF Says
  <2> QED
    BY <1>8, <1>9, <2>1, DeletionHeard
<1>11. HeardInv'
  BY <1>0, <1>5, <1>6, <1>10, AnnouncedHeard
<1> QED
  BY <1>6, <1>11 DEF ListsInv, RoomsBase

LEMMA QuietHears ==
    ASSUME NEW v \in Visitor, NEW i, NEW a, QuietBoxes(v, i, a)
    PROVE  NoAuth(v, i, a) /\ \A w \in Visitor : AtMost(notices[w], notices'[w])
<1>1. NoAuth(v, i, a)
  BY DEF QuietBoxes, NoAuth
<1>2. \A e : e.op \in Errands \ {"Auth"} => e.op \notin Tidings \cup {"Auth"}
  BY DEF Errands, Tidings
<1>3. AtMost(notices[v], notices'[v])
  BY <1>2 DEF QuietBoxes, AtMost
<1>4. \A w \in Visitor : w # v => AtMost(notices[w], notices'[w])
  BY DEF QuietBoxes, AtMost
<1> QED
  BY <1>1, <1>3, <1>4

LEMMA HandledLists ==
    ASSUME ListsInv, NEW v \in Visitor, NEW i \in DOMAIN chores[v], NEW sid, Handled(v, i, sid), LobbyInv'
    PROVE  ListsInv'
<1>0. RoomsBase /\ HeardInv /\ PhaseInv /\ AnnouncementsInv /\ TypesInv /\ TablesInv'
  BY DEF ListsInv, RoomsBase, LobbyInv
<1>1. PICK a : /\ QuietBoxes(v, i, a) /\ NewRequest(v, a, sid) /\ SameRoomAsked(v, i, a)
               /\ a \in DOMAIN chores'[v] \/ RoomsStay \/ sid \in puzzled'
  BY <1>0, HandledTurns
<1>2. /\ RowsTyped' /\ UsersStay /\ ListedStays /\ puzzled \subseteq puzzled' /\ UNCHANGED lobby
      /\ chores[v][i].op # "Auth"
  BY DEF Handled, OthersStay, ListedStays
<1>3. PanelsTyped' /\ PagesStay /\ LooksSame
  BY <1>0, <1>2 DEF TypesInv, PanelsTyped, PagesStay, LooksSame
<1>4. TypesInv'
  BY <1>0, <1>1, <1>2, <1>3, QuietTyped
<1>5. PhaseInv'
  BY <1>0, <1>1, <1>2, <1>3, HasLoggedIn, QuietPhase
<1>6. AnnouncementsInv'
  BY <1>0, <1>1, HandledChores
<1>7. \A id \in Nat \ puzzled' : Unnoticed(Stage(id), NameNow(id), Quiet(id), Stage(id)', NameNow(id)', Quiet(id)')
  BY <1>0, <1>1, HandledStages
<1>8. HeardInv'
  BY <1>0, <1>1, <1>2, <1>3, <1>7, QuietHears, CalmHeard
<1> QED
  BY <1>4, <1>5, <1>6, <1>8 DEF ListsInv, RoomsBase

-----------------------------------------------------------------------------
(***************************************************************************)
(* What the users do.                                                      *)
(***************************************************************************)

LEMMA SameTurns ==
    ASSUME NEW s, IsSeq(s)
    PROVE  Turned(s, s, 0, 0) /\ 0 \notin DOMAIN s
<1>1. 0 \notin DOMAIN s
  BY DEF IsSeq
<1>2. Through(s, s, 0, 0, [j \in DOMAIN s |-> j])
  BY <1>1 DEF Through
<1> QED
  BY <1>1, <1>2 DEF Turned

\* A request that a client may send.
Sendable(request) ==
    /\ ChoreTyped(request) /\ request.op # "Auth" /\ request.stage = "new"
    /\ request.op \in {"RenameRoom", "DeleteRoom"} /\ request.id \notin puzzled => ~Unborn(request.id)

Asks(v) == chores' = chores \/ \E request : Sendable(request) /\ Ask(v, request)

LEMMA AsksTurn ==
    ASSUME RoomsBase, NEW v \in Visitor, Asks(v)
    PROVE  \E a : ChoresTurned(v, 0, a) /\ 0 \notin DOMAIN chores[v] /\ (a \in DOMAIN chores'[v] => Sendable(chores'[v][a]))
<1>0. Seqs /\ 0 \notin DOMAIN chores[v]
  BY BaseSeqs, SameTurns DEF Seqs
<1>1. CASE chores' = chores
  <2>1. ChoresTurned(v, 0, 0)
    BY <1>0, <1>1, SameTurns DEF ChoresTurned, Seqs
  <2> QED
    BY <1>0, <1>1, <2>1
<1>2. ASSUME NEW request, Sendable(request), Ask(v, request)
      PROVE  \E a : ChoresTurned(v, 0, a) /\ 0 \notin DOMAIN chores[v] /\ (a \in DOMAIN chores'[v] => Sendable(chores'[v][a]))
  <2>1. PICK a \in DOMAIN chores'[v] : ChoresTurned(v, 0, a) /\ chores'[v][a] = request
    BY <1>0, <1>2, AskTurns
  <2> QED
    BY <1>0, <1>2, <2>1
<1> QED
  BY <1>1, <1>2 DEF Asks

LEMMA VisitKeepsLists ==
    ASSUME ListsInv, NEW v \in Visitor, lobby[v].page # "auth", Asks(v), LooksSame, PanelsTyped',
           UNCHANGED <<db, visit, notices, puzzled>>, LobbyInv'
    PROVE  ListsInv'
<1>0. RoomsBase /\ HeardInv /\ PhaseInv /\ AnnouncementsInv /\ TypesInv /\ TablesInv'
  BY DEF ListsInv, RoomsBase, LobbyInv
<1>1. PICK a : ChoresTurned(v, 0, a) /\ 0 \notin DOMAIN chores[v] /\ (a \in DOMAIN chores'[v] => Sendable(chores'[v][a]))
  BY <1>0, AsksTurn
<1>2. /\ a \in DOMAIN chores'[v] => ChoreTyped(chores'[v][a]) /\ chores'[v][a].op # "Auth" /\ chores'[v][a].stage = "new"
      /\ a \in DOMAIN chores'[v] /\ chores'[v][a].op \in {"RenameRoom", "DeleteRoom"} /\ chores'[v][a].id \notin puzzled =>
            ~Unborn(chores'[v][a].id)
  BY <1>1 DEF Sendable
<1>3. BoxesAre
  BY <1>0, BaseSeqs DEF BoxesAre, Seqs
<1>4. QuietBoxes(v, 0, a)
  BY <1>1, <1>2, <1>3 DEF QuietBoxes
<1>5. /\ UsersStay /\ RowsTyped' /\ ListedStays /\ PagesStay
  BY <1>0, VisitMoves, Zenon DEF TypesInv, RowsTyped, ListedStays, PagesStay, LooksSame
<1>6. TypesInv'
  BY <1>0, <1>4, <1>5, QuietTyped
<1>7. PhaseInv'
  BY <1>0, <1>4, <1>5, QuietPhase
<1>8. ASSUME NEW id PROVE StageStays(id) /\ (Unborn(id)' <=> Unborn(id))
  <2>1. Silent(v, 0, a, id)
    BY <1>1, <1>2 DEF Silent, Tells
  <2> QED
    BY <1>1, <2>1, SilentStage
<1>9. HeardInv'
  <2>1. \A id \in Nat \ puzzled' : Unnoticed(Stage(id), NameNow(id), Quiet(id), Stage(id)', NameNow(id)', Quiet(id)')
    BY <1>8, StageStaysUnnoticed
  <2> QED
    BY <1>0, <1>4, <2>1, QuietHears, CalmHeard
<1>10. \A id : Reliable(id)
  BY <1>8 DEF Reliable, RowHolds
<1>11. PICK new : new = chores'[v][a]
  OBVIOUS
<1>12. a \in DOMAIN chores'[v] => NowTrue(new) /\ \A id : ~Tells(new, "CreateRoom", id)
  <2> SUFFICES ASSUME a \in DOMAIN chores'[v] PROVE NowTrue(new) /\ \A id : ~Tells(new, "CreateRoom", id)
    OBVIOUS
  <2>1. new.stage = "new" /\ (new.op \in {"RenameRoom", "DeleteRoom"} /\ new.id \notin puzzled => ~Unborn(new.id))
    BY <1>2, <1>11
  <2>2. PICK id : id = new.id
    OBVIOUS
  <2>3. new.op \in {"RenameRoom", "DeleteRoom"} /\ id \notin puzzled' => ~Unborn(id)'
    BY <1>8, <2>1, <2>2
  <2> QED
    BY <2>1, <2>2, <2>3 DEF NowTrue, ChoresTrue, Tells
<1>13. AnnouncementsInv'
  BY <1>0, <1>1, <1>10, <1>11, <1>12, ChoresKept
<1> QED
  BY <1>6, <1>7, <1>9, <1>13 DEF ListsInv, RoomsBase

\* A request of that kind, about that room, with that name.
RequestOf(request, op, id, name) ==
    /\ request.op = op /\ request.id = id /\ request.name = name /\ request.stage = "new"
    /\ request.mine = <<>> /\ request.public = <<>> /\ request.object = BlankMembership

LEMMA RequestShaped ==
    ASSUME NEW op \in Errands \ {"Auth"}, NEW id \in Nat, NEW name \in RoomText, NEW request,
           RequestOf(request, op, id, name), op \in {"RenameRoom", "DeleteRoom"} /\ id \notin puzzled => ~Unborn(id)
    PROVE  Sendable(request)
<1>1. DOMAIN request.object.values = {"membership_status"}
  BY DEF BlankMembership, Read, RequestOf
<1>2. <<>> \in Seq(RoomItem)
  OBVIOUS
<1>3. ChoreTyped(request)
  BY <1>1, <1>2 DEF ChoreTyped, RequestOf
<1> QED
  BY <1>3 DEF Sendable, RequestOf

LEMMA PlainRequest ==
    ASSUME NEW op, NEW id, NEW request, request = [Chore(op) EXCEPT !.id = id]
    PROVE  RequestOf(request, op, id, "")
BY Zenon DEF Chore, RequestOf

LEMMA NamedRequest ==
    ASSUME NEW op, NEW name, NEW request, request = [Chore(op) EXCEPT !.name = name]
    PROVE  RequestOf(request, op, 0, name)
BY Zenon DEF Chore, RequestOf

LEMMA NamingRequest ==
    ASSUME NEW op, NEW id, NEW name, NEW request, request = [[Chore(op) EXCEPT !.name = name] EXCEPT !.id = id]
    PROVE  RequestOf(request, op, id, name)
BY DEF Chore, RequestOf

LEMMA GivingRequest ==
    ASSUME NEW op, NEW id, NEW user, NEW request, request = [[Chore(op) EXCEPT !.user = user] EXCEPT !.id = id]
    PROVE  RequestOf(request, op, id, "")
BY DEF Chore, RequestOf

\* The room that is shown was announced.
LEMMA ShownIsBorn ==
    ASSUME ListsInv, NEW v \in Visitor, lobby[v].page = "chat", NEW id, id = lobby[v].header.id
    PROVE  id \in Nat /\ (id \notin puzzled => ~Unborn(id))
<1>1. id \in Nat
  BY PanelParts DEF ListsInv, RoomsBase, TypesInv, PanelsTyped, RoomItem
<1>2. ASSUME id \notin puzzled, Unborn(id) PROVE FALSE
  <2>1. HeardOf(v, id) /\ HeaderOf(v, id)
    BY <1>1, <1>2 DEF ListsInv, HeardInv
  <2>2. lobby[v].list \in Bases(v)
    BY DEF Bases
  <2>3. Calls(lobby[v].list, id) # {}
    BY <2>1 DEF HeaderOf
  <2>4. Stage(id) = "unborn"
    BY <1>2 DEF Stage
  <2> QED
    BY <2>1, <2>2, <2>3, <2>4 DEF HeardOf, Heard, Unheard
<1> QED
  BY <1>1, <1>2

LEMMA PanelPut ==
    ASSUME PanelsTyped, NEW v \in Visitor, NEW p, PanelSound(p), Put(v, p)
    PROVE  PanelsTyped' /\ lobby'[v] = p /\ \A w \in Visitor : w # v => lobby'[w] = lobby[w]
<1>1. lobby' = [w \in Visitor |-> lobby'[w]] /\ lobby'[v] = p /\ \A w \in Visitor : w # v => lobby'[w] = lobby[w]
  BY DEF Put, PanelsTyped
<1>2. ASSUME NEW w \in Visitor PROVE PanelSound(lobby'[w])
  BY <1>1 DEF PanelsTyped
<1>3. PanelsTyped'
  <2>1. (\A w \in Visitor : PanelSound(lobby[w]))'
    BY <1>2
  <2> QED
    BY <1>1, <2>1 DEF PanelsTyped
<1> QED
  BY <1>1, <1>3

\* A client that turns, and looks the same.
LEMMA TurnedClient ==
    ASSUME ListsInv, NEW v \in Visitor, NEW p, PanelSound(p), SameView(lobby[v], p), p.list = lobby[v].list, Put(v, p)
    PROVE  PanelsTyped' /\ LooksSame
<1>1. PanelsTyped' /\ lobby'[v] = p /\ \A w \in Visitor : w # v => lobby'[w] = lobby[w]
  BY PanelPut DEF ListsInv, RoomsBase, TypesInv
<1> QED
  BY <1>1 DEF LooksSame, SameView

LEMMA SameClients ==
    ASSUME ListsInv, UNCHANGED lobby
    PROVE  PanelsTyped' /\ LooksSame
BY DEF ListsInv, RoomsBase, TypesInv, PanelsTyped, LooksSame

LEMMA LookedAt ==
    ASSUME ListsInv, NEW v \in Visitor, NEW p, Looking(v, p), PanelSound(p), SameView(lobby[v], p),
           p.list = lobby[v].list, LobbyInv'
    PROVE  ListsInv'
<1>1. PanelsTyped' /\ LooksSame
  BY TurnedClient DEF Looking
<1>2. lobby[v].page # "auth" /\ Asks(v) /\ UNCHANGED <<db, visit, notices, puzzled>>
  BY DEF Looking, Inside, Asks
<1> QED
  BY <1>1, <1>2, VisitKeepsLists

LEMMA ErrandSent ==
    ASSUME ListsInv, NEW v \in Visitor, NEW request, Sendable(request), Errand(v, request), lobby[v].page # "auth",
           PanelsTyped', LooksSame, LobbyInv'
    PROVE  ListsInv'
<1>1. Asks(v) /\ UNCHANGED <<db, visit, notices, puzzled>>
  BY DEF Asks, Errand
<1> QED
  BY <1>1, VisitKeepsLists

LEMMA AskedInChat ==
    ASSUME ListsInv, NEW v \in Visitor, NEW op \in {"RenameRoom", "DeleteRoom", "AssignRole"}, NEW request,
           NEW name \in RoomText, \A id : RequestOf([request EXCEPT !.id = id], op, id, name),
           InChat(v, request), LobbyInv'
    PROVE  ListsInv'
<1>1. PICK id : id = lobby[v].header.id
  OBVIOUS
<1>2. PICK sent : sent = [request EXCEPT !.id = id]
  OBVIOUS
<1>3. lobby[v].page = "chat" /\ Errand(v, sent) /\ UNCHANGED lobby
  BY <1>1, <1>2 DEF InChat
<1>4. id \in Nat /\ (id \notin puzzled => ~Unborn(id))
  BY <1>1, <1>3, ShownIsBorn
<1>5. RequestOf(sent, op, id, name)
  BY <1>2
<1>6. op \in Errands \ {"Auth"}
  BY DEF Errands
<1>7. Sendable(sent)
  BY <1>4, <1>5, <1>6, RequestShaped
<1>8. lobby[v].page # "auth"
  BY <1>3
<1> QED
  BY <1>3, <1>7, <1>8, SameClients, ErrandSent

LEMMA JoinIsSendable ==
    ASSUME NEW op, op \in {"JoinRoom", "BecomeMember"}, NEW id \in Nat, NEW request, request = [Chore(op) EXCEPT !.id = id]
    PROVE  Sendable(request)
<1>1. op \in Errands \ {"Auth"} /\ "" \in RoomText /\ op \notin {"RenameRoom", "DeleteRoom"}
  BY DEF Errands, RoomText
<1>2. RequestOf(request, op, id, "")
  BY PlainRequest, Zenon
<1> QED
  BY <1>1, <1>2, RequestShaped, Zenon

LEMMA CreationAsked ==
    ASSUME ListsInv, NEW v \in Visitor, NEW name \in RoomName, OnCreate(v, name), LobbyInv'
    PROVE  ListsInv'
<1>0. PICK op : op = "CreateRoom"
  OBVIOUS
<1>1. PICK request : request = [Chore(op) EXCEPT !.name = name]
  OBVIOUS
<1>2. RequestOf(request, op, 0, name)
  BY <1>1, NamedRequest
<1>3. name \in RoomText /\ op \in Errands \ {"Auth"} /\ op \notin {"RenameRoom", "DeleteRoom"}
  BY <1>0, Zenon DEF RoomText, Errands
<1>4. Sendable(request)
  BY <1>2, <1>3, RequestShaped
<1>5. Errand(v, request) /\ lobby[v].page # "auth" /\ UNCHANGED lobby
  BY <1>0, <1>1 DEF OnCreate, Inside
<1> QED
  BY <1>4, <1>5, SameClients, ErrandSent

LEMMA VisitLists ==
    ASSUME ListsInv, NEW v \in Visitor, Visit(v), LobbyInv'
    PROVE  ListsInv'
<1>0. PanelSound(lobby[v])
  BY DEF ListsInv, RoomsBase, TypesInv, PanelsTyped
<1>1. ASSUME NEW tab \in {"mine", "public"}, OnPageChanged(v, tab) PROVE ListsInv'
  <2>1. PICK p : p = [lobby[v] EXCEPT !.tab = tab]
    OBVIOUS
  <2>2. Looking(v, p)
    BY <1>1, <2>1 DEF OnPageChanged
  <2> QED
    BY <1>0, <2>1, <2>2, TabTurned, LookedAt DEF Tabs
<1>2. ASSUME NEW i \in DOMAIN lobby[v].list.public, OnPublicRoomSelected(v, i) PROVE ListsInv'
  <2>1. PICK p : p = Select(lobby[v], "public", i)
    OBVIOUS
  <2>2. Looking(v, p)
    BY <1>2, <2>1 DEF OnPublicRoomSelected
  <2>3. i \in DOMAIN lobby[v].list["public"]
    OBVIOUS
  <2> QED
    BY <1>0, <2>1, <2>2, <2>3, PanelSelected, LookedAt DEF Tabs
<1>3. ASSUME NEW i \in DOMAIN lobby[v].list.mine, OnMyRoomSelected(v, i) PROVE ListsInv'
  <2>1. PICK p : p = Select(lobby[v], "mine", i)
    OBVIOUS
  <2>2. PICK id : id = lobby[v].list.mine[i].id
    OBVIOUS
  <2>3. id \in Nat
    <3>1. lobby[v].list.mine \in Seq(RoomItem)
      BY <1>0, PanelParts
    <3>2. lobby[v].list.mine[i] \in RoomItem
      BY <3>1
    <3> QED
      BY <2>2, <3>2 DEF RoomItem
  <2>4. PICK request : request = [Chore("JoinRoom") EXCEPT !.id = id]
    OBVIOUS
  <2>5. Errand(v, request) /\ Put(v, p) /\ lobby[v].page # "auth"
    BY <1>3, <2>1, <2>2, <2>4 DEF OnMyRoomSelected, Inside
  <2>6. Sendable(request)
    BY <2>3, <2>4, JoinIsSendable
  <2>7. PanelSound(p) /\ SameView(lobby[v], p) /\ p.list = lobby[v].list
    BY <1>0, <1>3, <2>1, PanelSelected DEF Tabs
  <2>8. PanelsTyped' /\ LooksSame
    BY <2>5, <2>7, TurnedClient
  <2> QED
    BY <2>5, <2>6, <2>8, ErrandSent
<1>4. CASE OnJoin(v)
  <2>1. PICK id : id = GetSelectedRoom(lobby[v]).id
    OBVIOUS
  <2>2. id \in Nat
    BY <1>0, <1>4, <2>1, SelectedIsListed DEF OnJoin, RoomItem
  <2>3. PICK request : request = [Chore("JoinRoom") EXCEPT !.id = id]
    OBVIOUS
  <2>4. Errand(v, request) /\ lobby[v].page # "auth" /\ UNCHANGED lobby
    BY <1>4, <2>1, <2>3 DEF OnJoin, Inside
  <2>5. Sendable(request)
    BY <2>2, <2>3, JoinIsSendable
  <2> QED
    BY <2>4, <2>5, SameClients, ErrandSent
<1>5. CASE OnDelete(v)
  <2>1. PICK op : op = "DeleteRoom"
    OBVIOUS
  <2>2. "" \in RoomText /\ op \in {"RenameRoom", "DeleteRoom", "AssignRole"}
    BY <2>1 DEF RoomText
  <2>3. PICK request : request = Chore(op)
    OBVIOUS
  <2>4. \A id : RequestOf([request EXCEPT !.id = id], op, id, "")
    BY <2>3, PlainRequest, Zenon
  <2>5. InChat(v, request)
    BY <1>5, <2>1, <2>3 DEF OnDelete
  <2> QED
    BY <2>2, <2>4, <2>5, AskedInChat, Zenon
<1>6. ASSUME NEW name \in RoomName, OnRename(v, name) PROVE ListsInv'
  <2>1. PICK op : op = "RenameRoom"
    OBVIOUS
  <2>2. name \in RoomText /\ op \in {"RenameRoom", "DeleteRoom", "AssignRole"}
    BY <2>1, Zenon DEF RoomText
  <2>3. PICK request : request = [Chore(op) EXCEPT !.name = name]
    OBVIOUS
  <2>4. \A id : RequestOf([request EXCEPT !.id = id], op, id, name)
    BY <2>3, NamingRequest, Zenon
  <2>5. InChat(v, request)
    BY <1>6, <2>1, <2>3 DEF OnRename
  <2> QED
    BY <2>2, <2>4, <2>5, AskedInChat
<1>7. ASSUME NEW user, OnTransferOwnership(v, user) PROVE ListsInv'
  <2>1. PICK op : op = "AssignRole"
    OBVIOUS
  <2>2. "" \in RoomText /\ op \in {"RenameRoom", "DeleteRoom", "AssignRole"}
    BY <2>1 DEF RoomText
  <2>3. PICK request : request = [Chore(op) EXCEPT !.user = user]
    OBVIOUS
  <2>4. \A id : RequestOf([request EXCEPT !.id = id], op, id, "")
    BY <2>3, GivingRequest, Zenon
  <2>5. InChat(v, request)
    BY <1>7, <2>1, <2>3 DEF OnTransferOwnership
  <2> QED
    BY <2>2, <2>4, <2>5, AskedInChat, Zenon
<1> QED
  BY <1>1, <1>2, <1>3, <1>4, <1>5, <1>6, <1>7, CreationAsked DEF Visit

(***************************************************************************)
(* The lists that come with a log in.                                      *)
(***************************************************************************)

\* The list has every room of ids once, by its name, and no other.
ListOf(s, ids) ==
    /\ s \in Seq(RoomItem)
    /\ \A id : AtMostOnce(s, id) /\ NamesIn(s, id) = (IF id \in ids THEN {db.rooms[id].room_name} ELSE {})
    /\ \A i \in DOMAIN s : s[i].id \in ids /\ s[i].name = db.rooms[s[i].id].room_name

LEMMA Enumerated ==
    ASSUME NEW S, IsFiniteSet(S), NEW s, s = SetToSeq(S)
    PROVE  s \in Seq(S) /\ IsInjective(s) /\ ToSet(s) = S
<1>1. PICK n \in Nat : n = Cardinality(S)
  BY FS_CardinalityType
<1>2. ExistsBijection(1 .. n, S)
  BY <1>1, FS_CardinalityType
<1>3. \E f \in [1 .. n -> S] : IsInjective(f)
  BY <1>2 DEF ExistsBijection, Bijection, Injection
<1>4. s \in [1 .. n -> S] /\ IsInjective(s)
  <2>1. s = CHOOSE f \in [1 .. n -> S] : IsInjective(f)
    BY <1>1 DEF SetToSeq
  <2> QED
    BY <1>3, <2>1
<1>5. s \in Surjection(1 .. n, S)
  <2>1. s \in Injection(1 .. n, S)
    BY <1>4 DEF Injection
  <2>2. IsFiniteSet(1 .. n) /\ Cardinality(1 .. n) = n
    BY FS_Interval
  <2> QED
    BY <1>1, <2>1, <2>2, FS_Injection
<1>6. ToSet(s) = S
  BY <1>4, <1>5 DEF Surjection, ToSet
<1>7. s \in Seq(S)
  BY <1>4
<1> QED
  BY <1>4, <1>6, <1>7

LEMMA ListedOnce ==
    ASSUME NEW ids, NEW S, S = {Item(id, db.rooms[id].room_name) : id \in ids},
           \A id \in ids : id \in Nat /\ db.rooms[id].room_name \in RoomText,
           NEW s \in Seq(S), IsInjective(s), ToSet(s) = S
    PROVE  ListOf(s, ids)
<1>1. S \subseteq RoomItem
  BY DEF Item, RoomItem
<1>2. s \in Seq(RoomItem)
  BY <1>1
<1>3. \A i \in DOMAIN s : s[i] \in S
  OBVIOUS
<1>4. \A i \in DOMAIN s : s[i].id \in ids /\ s[i].name = db.rooms[s[i].id].room_name /\ s[i] = Item(s[i].id, s[i].name)
  BY <1>3 DEF Item
<1>5. \A id \in ids : \E i \in DOMAIN s : s[i].id = id
  <2> SUFFICES ASSUME NEW id \in ids PROVE \E i \in DOMAIN s : s[i].id = id
    OBVIOUS
  <2>1. Item(id, db.rooms[id].room_name) \in ToSet(s)
    OBVIOUS
  <2> QED
    BY <2>1 DEF ToSet, Item
<1>6. ASSUME NEW id PROVE AtMostOnce(s, id)
  <2> SUFFICES ASSUME NEW i \in DOMAIN s, NEW j \in DOMAIN s, s[i].id = s[j].id PROVE i = j
    BY DEF AtMostOnce, Places
  <2>1. s[i] = s[j]
    BY <1>4
  <2> QED
    BY <2>1 DEF IsInjective
<1>7. ASSUME NEW id PROVE NamesIn(s, id) = (IF id \in ids THEN {db.rooms[id].room_name} ELSE {})
  BY <1>4, <1>5 DEF NamesIn, Places
<1> QED
  BY <1>2, <1>4, <1>6, <1>7 DEF ListOf

LEMMA RoomsAreFinite ==
    ASSUME TablesInv, NEW ids \in SUBSET DOMAIN db.rooms
    PROVE  IsFiniteSet({Item(id, db.rooms[id].room_name) : id \in ids})
<1>1. IsFiniteSet(1 .. db.serial) /\ ids \in SUBSET (1 .. db.serial)
  BY FS_Interval DEF TablesInv
<1>2. IsFiniteSet(ids)
  BY <1>1, FS_Subset
<1>3. PICK S : S = {Item(id, db.rooms[id].room_name) : id \in ids}
  OBVIOUS
<1>4. PICK f : f = [id \in ids |-> Item(id, db.rooms[id].room_name)]
  OBVIOUS
<1>5. f \in Surjection(ids, S)
  BY <1>3, <1>4 DEF Surjection
<1>6. IsFiniteSet(S)
  BY <1>2, <1>5, FS_Surjection
<1> QED
  BY <1>3, <1>6

\* Two lists that share the rooms.
LEMMA SharedLists ==
    ASSUME NEW all, NEW ids \in SUBSET all, NEW lists, ListOf(lists.mine, ids), ListOf(lists.public, all \ ids), NEW id
    PROVE  /\ Single(lists, id)
           /\ Calls(lists, id) = (IF id \in all THEN {db.rooms[id].room_name} ELSE {})
<1>1. /\ NamesIn(lists.mine, id) = (IF id \in ids THEN {db.rooms[id].room_name} ELSE {})
      /\ NamesIn(lists.public, id) = (IF id \in all \ ids THEN {db.rooms[id].room_name} ELSE {})
      /\ AtMostOnce(lists.mine, id) /\ AtMostOnce(lists.public, id)
  BY DEF ListOf
<1> QED
  BY <1>1 DEF Single, Calls

\* They say of every room what the table says.
LEMMA FreshLists ==
    ASSUME TablesInv, NEW ids \in SUBSET DOMAIN db.rooms, NEW lists, ListOf(lists.mine, ids),
           ListOf(lists.public, DOMAIN db.rooms \ ids), NEW id, ~Announcing("CreateRoom", id), NEW quiet
    PROVE  Heard(lists, <<>>, id, Stage(id), NameNow(id), quiet)
<1>1. /\ Single(lists, id)
      /\ Calls(lists, id) = (IF id \in DOMAIN db.rooms THEN {db.rooms[id].room_name} ELSE {})
  BY SharedLists
<1>2. Stage(id) = "known" <=> id \in DOMAIN db.rooms
  BY DEF Stage, Unborn, TablesInv
<1>3. Calls(lists, id) = (IF Stage(id) = "known" THEN {NameNow(id)} ELSE {})
  BY <1>1, <1>2, Zenon DEF NameNow
<1> QED
  BY <1>1, <1>3, FreshHeard

\* What does not concern a client, it does not hear.
Untouched(w) == chores'[w] = chores[w] /\ notices'[w] = notices[w] /\ lobby'[w] = lobby[w]

LEMMA UntouchedHears ==
    ASSUME HeardInv, NEW w \in Visitor, Untouched(w), NEW id \in Nat \ puzzled', puzzled \subseteq puzzled', StageStays(id)
    PROVE  HeardOf(w, id)' /\ ListsFirst(w, id)' /\ HeaderOf(w, id)'
<1>1. HeardOf(w, id) /\ ListsFirst(w, id) /\ HeaderOf(w, id)
  BY DEF HeardInv
<1>2. AuthsDone(w)' = AuthsDone(w) /\ AuthsTold(w)' = AuthsTold(w) /\ Bases(w)' = Bases(w)
  BY DEF Untouched, AuthsDone, AuthsTold, Bases
<1>3. ASSUME NEW lists \in Bases(w) PROVE Heard(lists, notices'[w], id, Stage(id)', NameNow(id)', Quiet(id)')
  <2>1. Heard(lists, notices[w], id, Stage(id), NameNow(id), Quiet(id))
    BY <1>1 DEF HeardOf
  <2>2. Heard(lists, notices[w], id, Stage(id)', NameNow(id)', Quiet(id)')
    BY <2>1, StageStaysUnnoticed, NothingHeard
  <2> QED
    BY <2>2 DEF Untouched
<1>4. HeardOf(w, id)'
  BY <1>2, <1>3 DEF HeardOf
<1>5. ListsFirst(w, id)' /\ HeaderOf(w, id)'
  BY <1>1, <1>2 DEF Untouched, ListsFirst, HeaderOf
<1> QED
  BY <1>4, <1>5

\* A log in turns, and nothing else.
AuthTurns(v, i, a) ==
    /\ i \in DOMAIN chores[v] /\ chores[v][i].op = "Auth"
    /\ ChoresTurned(v, i, a) /\ (a \in DOMAIN chores'[v] => a = i /\ chores'[v][a].op = "Auth")
    /\ \A w \in Visitor : w # v => notices'[w] = notices[w] /\ visit'[w] = visit[w]
    /\ puzzled \subseteq puzzled' /\ UNCHANGED <<db, lobby>>

\* It is the visitor's only request, and the client waits for it.
LEMMA AuthAlone ==
    ASSUME PhaseInv, NEW v \in Visitor, NEW i \in DOMAIN chores[v], chores[v][i].op = "Auth"
    PROVE  /\ lobby[v].page = "auth" /\ lobby[v].me = 0 /\ DOMAIN chores[v] = {i}
           /\ chores[v][i].stage \in {"new", "register", "answer"}
           /\ visit[v].listed <=> chores[v][i].stage = "answer"
           /\ ~visit[v].listed => notices[v] = <<>>
           /\ AuthsTold(v) = {}
           /\ AuthsDone(v) = (IF chores[v][i].stage = "new" THEN {} ELSE {i})
           /\ \A k \in DOMAIN notices[v] : notices[v][k].op \in Tidings
<1>1. PhaseOf(v)
  BY DEF PhaseInv
<1> QED
  BY <1>1 DEF PhaseOf, AuthsTold, AuthsDone

LEMMA AuthTurnsAlone ==
    ASSUME PhaseInv, NEW v \in Visitor, NEW i, NEW a, AuthTurns(v, i, a)
    PROVE  DOMAIN chores'[v] \subseteq {i} /\ (a \in DOMAIN chores'[v] => a = i)
<1>1. DOMAIN chores[v] = {i}
  BY AuthAlone DEF AuthTurns
<1>2. \A j \in DOMAIN chores'[v] : j = a
  <2> SUFFICES ASSUME NEW j \in DOMAIN chores'[v], j # a PROVE FALSE
    OBVIOUS
  <2>1. \E k \in DOMAIN chores[v] : ~(v = v /\ k = i) /\ chores'[v][j] = chores[v][k]
    BY OthersWereThere DEF AuthTurns
  <2> QED
    BY <1>1, <2>1
<1> QED
  BY <1>2 DEF AuthTurns

LEMMA AuthStages ==
    ASSUME RoomsBase, NEW v \in Visitor, NEW i, NEW a, AuthTurns(v, i, a), NEW id
    PROVE  StageStays(id) /\ (Unborn(id)' <=> Unborn(id))
<1>1. Silent(v, i, a, id) /\ ChoresTurned(v, i, a)
  BY DEF Silent, AuthTurns, Tells, Announcements
<1> QED
  BY <1>1, SilentStage DEF AuthTurns

LEMMA AuthChores ==
    ASSUME RoomsBase, AnnouncementsInv, NEW v \in Visitor, NEW i, NEW a, AuthTurns(v, i, a)
    PROVE  AnnouncementsInv'
<1>1. ASSUME NEW id PROVE Reliable(id)
  <2>1. RowHolds(id) /\ db' = db
    BY DEF RowHolds, AuthTurns
  <2> QED
    BY <2>1, AuthStages DEF Reliable
<1>2. PICK new : new = chores'[v][a]
  OBVIOUS
<1>3. a \in DOMAIN chores'[v] => NowTrue(new) /\ \A id : ~Tells(new, "CreateRoom", id)
  BY <1>2 DEF AuthTurns, NowTrue, ChoresTrue, Tells
<1>4. ChoresTurned(v, i, a) /\ puzzled \subseteq puzzled'
  BY DEF AuthTurns
<1> QED
  BY <1>1, <1>2, <1>3, <1>4, ChoresKept

\* For the other clients nothing happens.
LEMMA AuthOthers ==
    ASSUME ListsInv, NEW v \in Visitor, NEW i, NEW a, AuthTurns(v, i, a), PhaseOf(v)',
           \A id \in Nat \ puzzled' : HeardOf(v, id)' /\ ListsFirst(v, id)'
    PROVE  PhaseInv' /\ HeardInv' /\ AnnouncementsInv'
<1>0. RoomsBase /\ PhaseInv /\ HeardInv /\ AnnouncementsInv
  BY DEF ListsInv
<1>1. \A w \in Visitor : w # v => Untouched(w) /\ visit'[w] = visit[w]
  BY DEF AuthTurns, ChoresTurned, Untouched
<1>2. ASSUME NEW w \in Visitor, w # v PROVE PhaseOf(w)'
  <2>1. PhaseOf(w)
    BY <1>0 DEF PhaseInv
  <2> QED
    BY <1>1, <1>2, <2>1 DEF PhaseOf, Untouched
<1>3. PhaseInv'
  BY <1>2 DEF PhaseInv
<1>4. ASSUME NEW w \in Visitor, NEW id \in Nat \ puzzled'
      PROVE  HeardOf(w, id)' /\ ListsFirst(w, id)' /\ HeaderOf(w, id)'
  <2>1. StageStays(id) /\ puzzled \subseteq puzzled'
    BY <1>0, AuthStages DEF AuthTurns
  <2>2. CASE w # v
    BY <1>0, <1>1, <2>1, <2>2, UntouchedHears
  <2>3. CASE w = v
    <3>1. lobby'[v].page = "auth"
      BY <1>0, AuthAlone DEF AuthTurns
    <3> QED
      BY <2>3, <3>1 DEF HeaderOf
  <2> QED
    BY <2>2, <2>3
<1>5. HeardInv'
  BY <1>4 DEF HeardInv
<1> QED
  BY <1>0, <1>3, <1>5, AuthChores

LEMMA AuthTypes ==
    ASSUME TypesInv, NEW v \in Visitor, NEW i, NEW a, AuthTurns(v, i, a), UsersStay,
           a \in DOMAIN chores'[v] => ChoreTyped(chores'[v][a]), BoxesAre, AllTyped(notices'[v])
    PROVE  TypesInv'
<1>1. ChoresTyped'
  BY ChoresTypedStill, BoxesParts DEF AuthTurns, TypesInv
<1>2. ASSUME NEW w \in Visitor PROVE AllTyped(notices'[w])
  <2>1. AllTyped(notices[w])
    BY BoxesParts DEF TypesInv, NoticesTyped, AllTyped
  <2> QED
    BY <2>1 DEF AuthTurns
<1>3. NoticesTyped'
  BY <1>2 DEF NoticesTyped, AllTyped, BoxesAre
<1>4. BoxesTyped'
  BY <1>1, <1>3 DEF BoxesTyped, ChoresTyped, NoticesTyped
<1> QED
  BY <1>4 DEF TypesInv, UsersStay, AuthTurns, RowsTyped, PanelsTyped

\* The client waits for the lists.
LEMMA WaitsForLists ==
    ASSUME NEW v, NEW i, DOMAIN chores'[v] = {i}, chores'[v][i].op = "Auth", lobby'[v].page = "auth", lobby'[v].me = 0,
           chores'[v][i].stage \in {"new", "register", "answer"}, visit'[v].listed \in BOOLEAN,
           visit'[v].listed <=> chores'[v][i].stage = "answer", ~visit'[v].listed => notices'[v] = <<>>,
           \A k \in DOMAIN notices'[v] : notices'[v][k].op \in Tidings
    PROVE  PhaseOf(v)'
<1>1. visit'[v].listed = (chores'[v][i].stage = "answer")
  OBVIOUS
<1>2. \A k \in DOMAIN notices'[v] : notices'[v][k].op # "Auth" /\ notices'[v][k].op \in Tidings \cup {"Auth"}
  BY DEF Tidings
<1>3. /\ ~visit'[v].listed => lobby'[v].page = "auth" /\ notices'[v] = <<>>
      /\ \A j \in DOMAIN chores'[v] : j = i
  OBVIOUS
<1> QED
  BY <1>1, <1>2, <1>3 DEF PhaseOf

LEMMA AllOldTyped ==
    ASSUME TypesInv, NEW v \in Visitor
    PROVE  AllTyped(notices[v])
BY BoxesParts DEF TypesInv, NoticesTyped, AllTyped

\* The rooms a user has joined are rooms.
LEMMA FreshAreLists ==
    ASSUME TablesInv, RowsTyped, NEW ids \in SUBSET DOMAIN db.rooms, NEW s,
           s = SetToSeq({Item(id, db.rooms[id].room_name) : id \in ids})
    PROVE  ListOf(s, ids)
<1>1. PICK S : S = {Item(id, db.rooms[id].room_name) : id \in ids}
  OBVIOUS
<1>2. IsFiniteSet(S)
  BY <1>1, RoomsAreFinite
<1>3. s \in Seq(S) /\ IsInjective(s) /\ ToSet(s) = S
  BY <1>1, <1>2, Enumerated
<1>4. \A id \in ids : id \in Nat /\ db.rooms[id].room_name \in RoomText
  BY DEF TablesInv, RowsTyped
<1> QED
  BY <1>1, <1>3, <1>4, ListedOnce

LEMMA ListingKeeps ==
    ASSUME ListsInv, NEW v \in Visitor, NEW i \in DOMAIN chores[v], AuthList(v, i), UNCHANGED lobby, LobbyInv'
    PROVE  ListsInv'
<1>0. RoomsBase /\ PhaseInv /\ HeardInv /\ AnnouncementsInv /\ TypesInv /\ TablesInv /\ Seqs /\ RowsTyped
  BY BaseSeqs DEF ListsInv, RoomsBase, LobbyInv, TypesInv
<1>1. chores[v][i].op = "Auth" /\ chores[v][i].stage = "new" /\ UNCHANGED <<db, visit, notices>> /\ puzzled \subseteq puzzled'
  BY DEF AuthList, At, Step
<1>2. PICK joined : joined = Joined(visit[v].user)
  OBVIOUS
<1>3. joined \in SUBSET DOMAIN db.rooms
  BY <1>2 DEF Joined
<1>4. PICK mine : mine = SetToSeq({Item(id, db.rooms[id].room_name) : id \in joined})
  OBVIOUS
<1>5. PICK public : public = SetToSeq({Item(id, db.rooms[id].room_name) : id \in DOMAIN db.rooms \ joined})
  OBVIOUS
<1>6. ListOf(mine, joined) /\ ListOf(public, DOMAIN db.rooms \ joined)
  <2>1. ListOf(mine, joined)
    BY <1>0, <1>3, <1>4, FreshAreLists
  <2>2. (DOMAIN db.rooms \ joined) \in SUBSET DOMAIN db.rooms
    OBVIOUS
  <2>3. ListOf(public, DOMAIN db.rooms \ joined)
    BY <1>0, <1>5, <2>2, FreshAreLists
  <2> QED
    BY <2>1, <2>3
<1>7. PICK asked : asked = [chores[v][i] EXCEPT !.mine = mine, !.public = public]
  OBVIOUS
<1>8. Step(v, i, "register", asked)
  BY <1>2, <1>4, <1>5, <1>7 DEF AuthList
<1>9. PICK new : new = [asked EXCEPT !.stage = "register"]
  OBVIOUS
<1>10. Passed(v, i, new)
  BY <1>0, <1>8, <1>9, StepPasses
<1>11. ChoreTyped(new) /\ new.op = "Auth" /\ new.stage = "register" /\ new.mine = mine /\ new.public = public
  <2>1. DOMAIN chores[v][i] = ChoreFields /\ ChoreTyped(chores[v][i])
    BY <1>0, ChoreShaped
  <2>2. mine \in Seq(RoomItem) /\ public \in Seq(RoomItem)
    BY <1>6 DEF ListOf
  <2>3. PICK chore : chore = chores[v][i]
    OBVIOUS
  <2>4. new = [[chore EXCEPT !.mine = mine, !.public = public] EXCEPT !.stage = "register"]
    BY <1>7, <1>9, <2>3
  <2>5. DOMAIN chore = ChoreFields /\ ChoreTyped(chore) /\ chore.op = "Auth"
    BY <1>1, <2>1, <2>3
  <2>6. /\ new.op = chore.op /\ new.stage = "register" /\ new.mine = mine /\ new.public = public
        /\ new.id = chore.id /\ new.name = chore.name /\ new.object = chore.object
    BY <2>4, <2>5 DEF ChoreFields
  <2> QED
    BY <2>2, <2>5, <2>6 DEF ChoreTyped
<1>12. AuthTurns(v, i, i) /\ i \in DOMAIN chores'[v] /\ chores'[v][i] = new
  BY <1>1, <1>10, <1>11 DEF AuthTurns, Passed
<1>13. TypesInv'
  <2>1. UsersStay /\ BoxesAre /\ AllTyped(notices'[v])
    BY <1>0, <1>1, VisitMoves, AllOldTyped, Zenon DEF TypesInv, BoxesAre, Seqs
  <2> QED
    BY <1>0, <1>11, <1>12, <2>1, AuthTypes
<1>14. /\ DOMAIN chores'[v] = {i} /\ lobby'[v].page = "auth" /\ lobby'[v].me = 0
       /\ ~visit'[v].listed /\ notices'[v] = <<>> /\ \A k \in DOMAIN notices'[v] : FALSE
  <2>1. DOMAIN chores'[v] = {i}
    BY <1>0, <1>12, AuthTurnsAlone
  <2>2. lobby[v].page = "auth" /\ lobby[v].me = 0 /\ ~visit[v].listed /\ notices[v] = <<>>
    BY <1>0, <1>1, AuthAlone
  <2>3. \A k \in DOMAIN notices[v] : FALSE
    BY <2>2
  <2> QED
    BY <1>1, <2>1, <2>2, <2>3
<1>15. PhaseOf(v)'
  <2>1. visit'[v].listed \in BOOLEAN
    BY <1>0, <1>1 DEF TypesInv, VisitTyped
  <2> QED
    BY <1>11, <1>12, <1>14, <2>1, WaitsForLists
<1>16. ASSUME NEW id \in Nat \ puzzled' PROVE HeardOf(v, id)' /\ ListsFirst(v, id)'
  <2>1. ~Announcing("CreateRoom", id)
    <3> SUFFICES ASSUME NEW w \in Visitor, NEW j \in DOMAIN chores[w], Tells(chores[w][j], "CreateRoom", id) PROVE FALSE
      BY DEF Announcing, Tells
    <3>1. j \in Started(w) /\ chores[w][j].op = "CreateRoom" /\ chores[w][j].id = id
      BY DEF Tells, Started
    <3>2. id \in UNION {{chores[u][k].id : k \in {n \in Started(u) : chores[u][n].op = "CreateRoom"}} : u \in Visitor}
      BY <3>1
    <3>3. id \in puzzled'
      BY <3>2 DEF AuthList
    <3> QED
      BY <3>3
  <2>2. PICK lists : lists = [mine |-> mine, public |-> public]
    OBVIOUS
  <2>3. Heard(lists, <<>>, id, Stage(id), NameNow(id), Quiet(id)')
    BY <1>0, <1>3, <1>6, <2>1, <2>2, FreshLists
  <2>4. Stage(id)' = Stage(id) /\ NameNow(id)' = NameNow(id)
    BY <1>0, <1>12, AuthStages DEF StageStays
  <2>5. AuthsDone(v)' = {i} /\ AuthsTold(v)' = {}
    BY <1>11, <1>12, <1>14 DEF AuthsDone, AuthsTold
  <2>6. Bases(v)' = {lists}
    BY <1>11, <1>12, <1>14, <2>2, <2>5 DEF Bases, Pair
  <2>7. HeardOf(v, id)'
    BY <1>14, <2>3, <2>4, <2>6 DEF HeardOf
  <2>8. ListsFirst(v, id)'
    BY <1>14, <2>5 DEF ListsFirst
  <2> QED
    BY <2>7, <2>8
<1>17. PhaseInv' /\ HeardInv' /\ AnnouncementsInv'
  BY <1>12, <1>15, <1>16, AuthOthers
<1> QED
  BY <1>13, <1>17 DEF ListsInv, RoomsBase

LEMMA RegisteringKeeps ==
    ASSUME ListsInv, NEW v \in Visitor, NEW i \in DOMAIN chores[v], AuthRegister(v, i), UNCHANGED lobby, LobbyInv'
    PROVE  ListsInv'
<1>0. RoomsBase /\ PhaseInv /\ HeardInv /\ AnnouncementsInv /\ TypesInv /\ Seqs /\ VisitTyped
  BY BaseSeqs DEF ListsInv, RoomsBase, TypesInv
<1>1. chores[v][i].op = "Auth" /\ chores[v][i].stage = "register" /\ UNCHANGED <<db, notices, puzzled>>
  BY DEF AuthRegister, At, Go, Step
<1>2. PICK chore : chore = chores[v][i]
  OBVIOUS
<1>3. PICK new : new = [chore EXCEPT !.stage = "answer"]
  OBVIOUS
<1>4. Passed(v, i, new)
  <2>1. Step(v, i, "answer", chore)
    BY <1>2 DEF AuthRegister, Go
  <2> QED
    BY <1>0, <1>3, <2>1, StepPasses
<1>5. ChoreTyped(new) /\ new.op = "Auth" /\ new.stage = "answer" /\ new.mine = chore.mine /\ new.public = chore.public
  <2>1. DOMAIN chore = ChoreFields /\ ChoreTyped(chore)
    BY <1>0, <1>2, ChoreShaped
  <2>2. SameErrand(chore, new, "answer")
    BY <1>3, <2>1, ErrandStepped, Zenon
  <2> QED
    BY <1>1, <1>2, <2>1, <2>2, SameErrandTyped DEF SameErrand
<1>6. /\ \A w \in Visitor : w # v => visit'[w] = visit[w]
      /\ visit'[v].listed = TRUE /\ UsersStay
  <2>1. visit' = [visit EXCEPT ![v].listed = TRUE]
    BY DEF AuthRegister
  <2>2. TRUE \in BOOLEAN
    OBVIOUS
  <2>3. UsersStay
    BY <1>0, <2>1, <2>2, VisitMoves, Zenon
  <2>4. "listed" \in DOMAIN visit[v] /\ v \in DOMAIN visit
    BY <1>0 DEF VisitTyped
  <2> QED
    BY <2>1, <2>3, <2>4
<1>7. AuthTurns(v, i, i) /\ i \in DOMAIN chores'[v] /\ chores'[v][i] = new
  BY <1>1, <1>4, <1>5, <1>6 DEF AuthTurns, Passed
<1>8. TypesInv'
  <2>1. BoxesAre /\ AllTyped(notices'[v])
    BY <1>0, <1>1, AllOldTyped DEF BoxesAre, Seqs
  <2> QED
    BY <1>0, <1>5, <1>6, <1>7, <2>1, AuthTypes
<1>9. /\ DOMAIN chores'[v] = {i} /\ DOMAIN chores[v] = {i} /\ lobby'[v].page = "auth" /\ lobby'[v].me = 0
      /\ (\A k \in DOMAIN notices'[v] : notices'[v][k].op \in Tidings) /\ AuthsTold(v) = {} /\ AuthsDone(v) = {i}
  <2>1. DOMAIN chores'[v] = {i}
    BY <1>0, <1>7, AuthTurnsAlone
  <2>2. /\ lobby[v].page = "auth" /\ lobby[v].me = 0 /\ AuthsTold(v) = {} /\ AuthsDone(v) = {i} /\ DOMAIN chores[v] = {i}
        /\ \A k \in DOMAIN notices[v] : notices[v][k].op \in Tidings
    BY <1>0, <1>1, AuthAlone
  <2> QED
    BY <1>1, <2>1, <2>2
<1>10. PhaseOf(v)'
  BY <1>5, <1>6, <1>7, <1>9, WaitsForLists
<1>11. Bases(v)' = Bases(v) /\ AuthsDone(v)' = AuthsDone(v) /\ AuthsTold(v)' = AuthsTold(v)
  <2>1. AuthsTold(v)' = AuthsTold(v)
    BY <1>1 DEF AuthsTold
  <2>2. AuthsDone(v)' = {i}
    BY <1>5, <1>7, <1>9 DEF AuthsDone
  <2>3. Bases(v)' = {Pair(new)} /\ Bases(v) = {Pair(chore)}
    BY <1>2, <1>7, <1>9, <2>1, <2>2 DEF Bases, Pair
  <2> QED
    BY <1>5, <1>9, <2>1, <2>2, <2>3 DEF Pair
<1>12. ASSUME NEW id \in Nat \ puzzled' PROVE HeardOf(v, id)' /\ ListsFirst(v, id)'
  <2>1. HeardOf(v, id) /\ ListsFirst(v, id)
    BY <1>0, <1>1 DEF HeardInv
  <2>2. Unnoticed(Stage(id), NameNow(id), Quiet(id), Stage(id)', NameNow(id)', Quiet(id)')
    BY <1>0, <1>7, AuthStages, StageStaysUnnoticed
  <2>3. ASSUME NEW lists \in Bases(v) PROVE Heard(lists, notices'[v], id, Stage(id)', NameNow(id)', Quiet(id)')
    BY <1>1, <2>1, <2>2, NothingHeard DEF HeardOf
  <2>4. HeardOf(v, id)'
    BY <1>11, <2>3 DEF HeardOf
  <2>5. ListsFirst(v, id)'
    BY <1>1, <1>11, <2>1 DEF ListsFirst
  <2> QED
    BY <2>4, <2>5
<1>13. PhaseInv' /\ HeardInv' /\ AnnouncementsInv'
  BY <1>7, <1>10, <1>12, AuthOthers
<1> QED
  BY <1>8, <1>13 DEF ListsInv, RoomsBase

\* The client is told its lists.
LEMMA AnswerWaits ==
    ASSUME NEW v, NEW k, DOMAIN chores'[v] = {}, lobby'[v].page = "auth", lobby'[v].me = 0, visit'[v].listed,
           k \in DOMAIN notices'[v], notices'[v][k].op = "Auth", notices'[v][k].user = visit'[v].user,
           \A l \in DOMAIN notices'[v] : l = k \/ notices'[v][l].op \in Tidings
    PROVE  PhaseOf(v)'
<1>1. \A l \in DOMAIN notices'[v] : (notices'[v][l].op = "Auth" => l = k) /\ notices'[v][l].op \in Tidings \cup {"Auth"}
  BY DEF Tidings
<1>2. \A j \in DOMAIN chores'[v] : FALSE
  OBVIOUS
<1> QED
  BY <1>1, <1>2 DEF PhaseOf

LEMMA AnsweringKeeps ==
    ASSUME ListsInv, NEW v \in Visitor, NEW i \in DOMAIN chores[v], AuthReply(v, i), UNCHANGED lobby, LobbyInv'
    PROVE  ListsInv'
<1>0. RoomsBase /\ PhaseInv /\ HeardInv /\ AnnouncementsInv /\ TypesInv /\ Seqs /\ VisitTyped
  BY BaseSeqs DEF ListsInv, RoomsBase, TypesInv
<1>1. chores[v][i].op = "Auth" /\ chores[v][i].stage = "answer" /\ UNCHANGED <<db, visit, puzzled>>
  BY DEF AuthReply, At
<1>2. PICK chore : chore = chores[v][i]
  OBVIOUS
<1>3. PICK e : e = [op |-> "Auth", ok |-> TRUE, mine |-> chore.mine, public |-> chore.public, user |-> visit[v].user]
  OBVIOUS
<1>4. /\ e.op = "Auth" /\ e.mine = chore.mine /\ e.public = chore.public /\ e.user = visit[v].user
      /\ NoticeTyped(e)
  <2>1. ChoreTyped(chore) /\ visit[v].user \in Nat
    BY <1>0, <1>2, ChoreShaped DEF VisitTyped
  <2>2. e.op = "Auth" /\ e.mine = chore.mine /\ e.public = chore.public /\ e.user = visit[v].user
    BY <1>3
  <2>3. "Auth" \in Errands \cup Tidings /\ "Auth" \notin Tidings
    BY DEF Errands, Tidings
  <2> QED
    BY <2>1, <2>2, <2>3 DEF NoticeTyped, ChoreTyped
<1>5. RepliedTo(v, i, e)
  <2>1. Reply(v, i, e)
    BY <1>2, <1>3 DEF AuthReply
  <2> QED
    BY <1>0, <2>1, ReplyAnswers
<1>6. AuthTurns(v, i, 0) /\ 0 \notin DOMAIN chores'[v] /\ BoxesAre /\ Grew(notices[v], notices'[v], e)
  BY <1>1, <1>5 DEF AuthTurns, RepliedTo
<1>7. TypesInv'
  <2>1. UsersStay
    BY <1>0, <1>1, VisitMoves, Zenon
  <2>2. AllTyped(notices'[v])
    BY <1>0, <1>4, <1>6, AllOldTyped, GrewTyped
  <2> QED
    BY <1>0, <1>6, <2>1, <2>2, AuthTypes
<1>8. /\ lobby[v].page = "auth" /\ lobby[v].me = 0 /\ visit[v].listed /\ DOMAIN chores[v] = {i}
      /\ AuthsDone(v) = {i} /\ AuthsTold(v) = {}
      /\ \A k \in DOMAIN notices[v] : notices[v][k].op \in Tidings
  BY <1>0, <1>1, AuthAlone
<1>9. DOMAIN chores'[v] = {}
  <2>1. ASSUME NEW j \in DOMAIN chores'[v] PROVE FALSE
    <3>1. \E k \in DOMAIN chores[v] : ~(v = v /\ k = i) /\ chores'[v][j] = chores[v][k]
      BY <1>6, OthersWereThere DEF AuthTurns
    <3> QED
      BY <1>8, <3>1
  <2> QED
    BY <2>1
<1>10. PICK k \in DOMAIN notices'[v] :
          /\ notices'[v][k] = e
          /\ \A l \in DOMAIN notices'[v] : l = k \/ (l \in DOMAIN notices[v] /\ notices'[v][l] = notices[v][l])
  <2>1. PICK n \in Nat : /\ DOMAIN notices[v] = 1 .. n /\ DOMAIN notices'[v] = 1 .. n + 1
                         /\ \A l \in 1 .. n : notices'[v][l] = notices[v][l]
                         /\ notices'[v][n + 1] = e
    BY <1>6 DEF Grew
  <2>2. n + 1 \in 1 .. n + 1 /\ \A l \in 1 .. n + 1 : l = n + 1 \/ l \in 1 .. n
    BY <2>1
  <2> QED
    BY <2>1, <2>2
<1>11. PhaseOf(v)'
  <2>1. notices'[v][k].op = "Auth" /\ notices'[v][k].user = visit'[v].user
    BY <1>1, <1>4, <1>10
  <2>2. \A l \in DOMAIN notices'[v] : l = k \/ notices'[v][l].op \in Tidings
    BY <1>8, <1>10
  <2>3. lobby'[v].page = "auth" /\ lobby'[v].me = 0 /\ visit'[v].listed
    BY <1>1, <1>8
  <2> QED
    BY <1>9, <2>1, <2>2, <2>3, AnswerWaits
<1>12. AuthsDone(v)' = {} /\ AuthsTold(v)' = {k}
  <2>1. \A l \in DOMAIN notices'[v] : l # k => notices'[v][l].op # "Auth"
    BY <1>8, <1>10 DEF Tidings
  <2> QED
    BY <1>4, <1>9, <1>10, <2>1 DEF AuthsDone, AuthsTold
<1>13. Bases(v)' = {Pair(e)} /\ Bases(v) = {Pair(chore)} /\ Pair(e) = Pair(chore)
  <2>1. Bases(v)' = {Pair(e)}
    BY <1>8, <1>10, <1>12 DEF Bases, Pair
  <2>2. Bases(v) = {Pair(chore)}
    BY <1>2, <1>8 DEF Bases, Pair
  <2> QED
    BY <1>4, <2>1, <2>2 DEF Pair
<1>14. ASSUME NEW id \in Nat \ puzzled' PROVE HeardOf(v, id)' /\ ListsFirst(v, id)'
  <2>1. HeardOf(v, id) /\ ListsFirst(v, id)
    BY <1>0, <1>1 DEF HeardInv
  <2>2. Unnoticed(Stage(id), NameNow(id), Quiet(id), Stage(id)', NameNow(id)', Quiet(id)')
    BY <1>0, <1>6, AuthStages, StageStaysUnnoticed
  <2>3. ~About(e, id)
    BY <1>4 DEF About, Tidings
  <2>4. ASSUME NEW lists \in Bases(v) PROVE Heard(lists, notices'[v], id, Stage(id)', NameNow(id)', Quiet(id)')
    <3>1. Heard(lists, notices[v], id, Stage(id)', NameNow(id)', Quiet(id)')
      BY <2>1, <2>2, NothingHeard DEF HeardOf
    <3> QED
      BY <1>6, <2>3, <3>1, OthersHeard
  <2>5. HeardOf(v, id)'
    BY <1>13, <2>4 DEF HeardOf
  <2>6. \A l \in DOMAIN notices[v] : ~About(notices[v][l], id)
    BY <1>8, <2>1 DEF ListsFirst
  <2>7. \A l \in DOMAIN notices'[v] : ~About(notices'[v][l], id)
    BY <1>10, <2>3, <2>6
  <2>8. ListsFirst(v, id)'
    BY <1>12, <2>7 DEF ListsFirst
  <2> QED
    BY <2>5, <2>8
<1>15. PhaseInv' /\ HeardInv' /\ AnnouncementsInv'
  BY <1>6, <1>11, <1>14, AuthOthers
<1> QED
  BY <1>7, <1>15 DEF ListsInv, RoomsBase

\* Every step of a handler.
LEMMA HandlersKeepLists ==
    ASSUME ListsInv, NEW v \in Visitor, HandleRooms(v), LobbyInv'
    PROVE  ListsInv'
<1>1. PICK i \in DOMAIN chores[v] :
          \/ CreateRoom(v, i) \/ CreateTell(v, i)
          \/ RenameRead(v, i) \/ RenameWrite(v, i) \/ RenameTell(v, i)
          \/ DeleteRoom(v, i) \/ DeleteTell(v, i)
          \/ BecomeMemberRead(v, i) \/ BecomeMemberWrite(v, i)
          \/ JoinRead(v, i) \/ JoinWrite(v, i) \/ JoinEnter(v, i)
          \/ TransferCheck(v, i) \/ TransferRead(v, i) \/ TransferWrite(v, i) \/ TransferTell(v, i)
          \/ AuthList(v, i) \/ AuthRegister(v, i) \/ AuthReply(v, i)
  BY DEF HandleRooms
<1>2. UNCHANGED lobby /\ RoomsBase
  BY DEF HandleRooms, ListsInv
<1>3. CASE CreateTell(v, i)
  BY <1>2, <1>3, CreationTold
<1>4. CASE RenameTell(v, i)
  BY <1>2, <1>4, RenamingTold
<1>5. CASE DeleteTell(v, i)
  BY <1>2, <1>5, DeletionTold
<1>6. CASE AuthList(v, i)
  BY <1>2, <1>6, ListingKeeps
<1>7. CASE AuthRegister(v, i)
  BY <1>2, <1>7, RegisteringKeeps
<1>8. CASE AuthReply(v, i)
  BY <1>2, <1>8, AnsweringKeeps
<1>9. CASE \/ CreateRoom(v, i) \/ RenameRead(v, i) \/ RenameWrite(v, i) \/ DeleteRoom(v, i)
           \/ BecomeMemberRead(v, i) \/ BecomeMemberWrite(v, i) \/ JoinRead(v, i) \/ JoinWrite(v, i) \/ JoinEnter(v, i)
           \/ TransferCheck(v, i) \/ TransferRead(v, i) \/ TransferWrite(v, i) \/ TransferTell(v, i)
  <2>1. \E sid : Handled(v, i, sid)
    BY <1>2, <1>9, AllHandled
  <2> QED
    BY <2>1, HandledLists
<1> QED
  BY <1>1, <1>3, <1>4, <1>5, <1>6, <1>7, <1>8, <1>9

(***************************************************************************)
(* What the clients hear.                                                  *)
(***************************************************************************)

\* The lists turn as the notice says of the room.
ListsTurn(lists, new, e, id) ==
    /\ Says(e, "NewRoomCreated", id) /\ Calls(lists, id) = {} => Single(new, id) /\ Calls(new, id) = {e.name}
    /\ Says(e, "NewRoomName", id) /\ Single(lists, id) =>
          Single(new, id) /\ Calls(new, id) = (IF Calls(lists, id) = {} THEN {} ELSE {e.name})
    /\ Says(e, "RoomDeleted", id) /\ Single(lists, id) => Single(new, id) /\ Calls(new, id) = {}
    /\ ~About(e, id) /\ Single(lists, id) => Single(new, id) /\ Calls(new, id) = Calls(lists, id)

LEMMA HeadTurns ==
    ASSUME NEW q, NEW r, Shrank(q, r), NEW e, e = q[1], NEW lists, NEW new, NEW id, ListsTurn(lists, new, e, id),
           NEW stage, NEW name, NEW quiet, Heard(lists, q, id, stage, name, quiet)
    PROVE  Heard(new, r, id, stage, name, quiet)
<1>1. Single(lists, id) /\ 1 \in DOMAIN q
  BY LaterStill DEF Heard
<1>2. CASE Says(e, "NewRoomCreated", id)
  <2>1. Calls(lists, id) = {}
    BY <1>1, <1>2 DEF Heard, CameOnce
  <2> QED
    BY <1>2, <2>1, HeadCreated DEF ListsTurn
<1>3. CASE Says(e, "NewRoomName", id)
  BY <1>1, <1>3, HeadNamed DEF ListsTurn
<1>4. CASE Says(e, "RoomDeleted", id)
  BY <1>1, <1>4, HeadDeleted DEF ListsTurn
<1>5. CASE ~About(e, id)
  BY <1>1, <1>5, HeadOther DEF ListsTurn, SameRoom
<1> QED
  BY <1>2, <1>3, <1>4, <1>5 DEF About, Says, Tidings

\* What is asked for while a notice is heard.
LEMMA AskedStages ==
    ASSUME RoomsBase, AnnouncementsInv, NEW v \in Visitor, Asks(v), UNCHANGED <<db, puzzled>>
    PROVE  /\ ChoresTyped' /\ AnnouncementsInv' /\ (\A id : StageStays(id))
           /\ \E a : NoAuth(v, 0, a)
<1>0. TypesInv /\ ChoresTyped
  BY BoxesParts DEF RoomsBase, TypesInv
<1>1. PICK a : ChoresTurned(v, 0, a) /\ 0 \notin DOMAIN chores[v] /\ (a \in DOMAIN chores'[v] => Sendable(chores'[v][a]))
  BY <1>0, AsksTurn
<1>2. /\ a \in DOMAIN chores'[v] => ChoreTyped(chores'[v][a]) /\ chores'[v][a].op # "Auth" /\ chores'[v][a].stage = "new"
      /\ a \in DOMAIN chores'[v] /\ chores'[v][a].op \in {"RenameRoom", "DeleteRoom"} /\ chores'[v][a].id \notin puzzled =>
            ~Unborn(chores'[v][a].id)
  BY <1>1 DEF Sendable
<1>3. NoAuth(v, 0, a)
  BY <1>1, <1>2 DEF NoAuth
<1>4. ChoresTyped'
  BY <1>0, <1>1, <1>2, ChoresTypedStill
<1>5. ASSUME NEW id PROVE StageStays(id) /\ (Unborn(id)' <=> Unborn(id))
  <2>1. Silent(v, 0, a, id)
    BY <1>1, <1>2 DEF Silent, Tells
  <2> QED
    BY <1>1, <2>1, SilentStage
<1>6. \A id : Reliable(id)
  BY <1>5 DEF Reliable, RowHolds
<1>7. PICK new : new = chores'[v][a]
  OBVIOUS
<1>8. a \in DOMAIN chores'[v] => NowTrue(new) /\ \A id : ~Tells(new, "CreateRoom", id)
  <2> SUFFICES ASSUME a \in DOMAIN chores'[v] PROVE NowTrue(new) /\ \A id : ~Tells(new, "CreateRoom", id)
    OBVIOUS
  <2>1. new.stage = "new" /\ (new.op \in {"RenameRoom", "DeleteRoom"} /\ new.id \notin puzzled => ~Unborn(new.id))
    BY <1>2, <1>7
  <2>2. PICK id : id = new.id
    OBVIOUS
  <2>3. new.op \in {"RenameRoom", "DeleteRoom"} /\ id \notin puzzled' => ~Unborn(id)'
    BY <1>5, <2>1, <2>2
  <2> QED
    BY <2>1, <2>2, <2>3 DEF NowTrue, ChoresTrue, Tells
<1>9. AnnouncementsInv'
  BY <1>1, <1>6, <1>7, <1>8, ChoresKept
<1> QED
  BY <1>3, <1>4, <1>5, <1>9

\* The client becomes p as it hears e.
HearsTo(v, e, p) ==
    /\ NoticeTaken(v) /\ e = notices[v][1]
    /\ PanelSound(p) /\ Put(v, p) /\ Asks(v)
    /\ UNCHANGED <<db, visit, puzzled>>

LEMMA HearingKeeps ==
    ASSUME ListsInv, NEW v \in Visitor, NEW e, NEW p, HearsTo(v, e, p), LobbyInv', PhaseOf(v)',
           \A id \in Nat \ puzzled' : HeardOf(v, id)' /\ ListsFirst(v, id)' /\ HeaderOf(v, id)'
    PROVE  ListsInv'
<1>0. RoomsBase /\ PhaseInv /\ HeardInv /\ AnnouncementsInv /\ TypesInv
  BY DEF ListsInv, RoomsBase
<1>1. ChoresTyped' /\ AnnouncementsInv' /\ (\A id : StageStays(id)) /\ \E a : NoAuth(v, 0, a)
  BY <1>0, AskedStages DEF HearsTo
<1>2. PanelsTyped' /\ lobby'[v] = p /\ \A w \in Visitor : w # v => lobby'[w] = lobby[w]
  BY <1>0, PanelPut DEF HearsTo, TypesInv
<1>3. TypesInv'
  <2>1. NoticesTyped'
    BY <1>0, TakenTyped, BoxesParts DEF HearsTo, TypesInv
  <2>2. BoxesTyped'
    BY <1>1, <2>1 DEF BoxesTyped, ChoresTyped, NoticesTyped
  <2> QED
    BY <1>0, <1>2, <2>2 DEF HearsTo, TypesInv, VisitTyped, RowsTyped
<1>4. \A w \in Visitor : w # v => Untouched(w)
  BY <1>1, <1>2 DEF HearsTo, NoticeTaken, NoAuth, ChoresTurned, Untouched
<1>5. PhaseInv'
  <2>1. ASSUME NEW w \in Visitor, w # v PROVE PhaseOf(w)'
    <3>1. PhaseOf(w) /\ Untouched(w) /\ visit'[w] = visit[w]
      BY <1>0, <1>4, <2>1 DEF PhaseInv, HearsTo
    <3> QED
      BY <3>1 DEF PhaseOf, Untouched
  <2> QED
    BY <2>1 DEF PhaseInv
<1>6. HeardInv'
  <2>1. ASSUME NEW w \in Visitor, w # v, NEW id \in Nat \ puzzled'
        PROVE  HeardOf(w, id)' /\ ListsFirst(w, id)' /\ HeaderOf(w, id)'
    <3>1. puzzled \subseteq puzzled' /\ StageStays(id) /\ Untouched(w)
      BY <1>1, <1>4, <2>1 DEF HearsTo
    <3> QED
      BY <1>0, <3>1, UntouchedHears
  <2> QED
    BY <2>1 DEF HeardInv
<1> QED
  BY <1>1, <1>3, <1>5, <1>6 DEF ListsInv, RoomsBase

-----------------------------------------------------------------------------
HeaderTrue(p, id) == p.page = "chat" /\ p.header.id = id => Calls(p.list, id) = {p.header.name}

\* Of a client that has its lists.
LEMMA ListsAreOne ==
    ASSUME PhaseInv, NEW v \in Visitor, lobby[v].page # "auth"
    PROVE  /\ AuthsDone(v) = {} /\ AuthsTold(v) = {} /\ Bases(v) = {lobby[v].list}
           /\ \A j \in DOMAIN chores[v] : chores[v][j].op # "Auth"
           /\ \A k \in DOMAIN notices[v] : notices[v][k].op # "Auth"
           /\ visit[v].listed /\ lobby[v].me = visit[v].user
<1>1. PhaseOf(v)
  BY DEF PhaseInv
<1>2. /\ \A j \in DOMAIN chores[v] : chores[v][j].op # "Auth"
      /\ \A k \in DOMAIN notices[v] : notices[v][k].op # "Auth"
      /\ visit[v].listed /\ lobby[v].me = visit[v].user
  BY <1>1 DEF PhaseOf
<1>3. AuthsDone(v) = {} /\ AuthsTold(v) = {}
  BY <1>2 DEF AuthsDone, AuthsTold
<1> QED
  BY <1>2, <1>3 DEF Bases

LEMMA ShrankFrom ==
    ASSUME NEW q, NEW r, Shrank(q, r)
    PROVE  /\ \A k \in DOMAIN r : k + 1 \in DOMAIN q /\ r[k] = q[k + 1]
           /\ \A k \in DOMAIN q : k = 1 \/ (k - 1 \in DOMAIN r /\ r[k - 1] = q[k])
           /\ 1 \in DOMAIN q /\ DOMAIN q \subseteq Nat /\ DOMAIN r \subseteq Nat
           /\ \A k, l \in DOMAIN r : l < k => l + 1 < k + 1
           /\ \A k \in DOMAIN q : k # 1 => 1 < k
<1>1. PICK n \in Nat : /\ DOMAIN q = 1 .. n + 1 /\ DOMAIN r = 1 .. n
                       /\ \A k \in 1 .. n : r[k] = q[k + 1]
  BY DEF Shrank
<1>2. /\ \A k \in 1 .. n : k + 1 \in 1 .. n + 1
      /\ \A k \in 1 .. n + 1 : k = 1 \/ (k - 1 \in 1 .. n /\ (k - 1) + 1 = k)
      /\ 1 \in 1 .. n + 1 /\ 1 .. n + 1 \subseteq Nat /\ 1 .. n \subseteq Nat
      /\ \A k, l \in 1 .. n : l < k => l + 1 < k + 1
      /\ \A k \in 1 .. n + 1 : k # 1 => 1 < k
  BY <1>1
<1> QED
  BY <1>1, <1>2

\* No log in is asked for, and none is told, where there was none.
LEMMA StillInside ==
    ASSUME RoomsBase, PhaseInv, AnnouncementsInv, NEW v \in Visitor, lobby[v].page # "auth", NEW e, NEW p, HearsTo(v, e, p)
    PROVE  /\ \A j \in DOMAIN chores'[v] : chores'[v][j].op # "Auth"
           /\ \A k \in DOMAIN notices'[v] : notices'[v][k].op # "Auth"
           /\ AuthsDone(v)' = {} /\ AuthsTold(v)' = {}
<1>1. PICK a : NoAuth(v, 0, a)
  BY AskedStages DEF HearsTo
<1>2. ASSUME NEW j \in DOMAIN chores'[v] PROVE chores'[v][j].op # "Auth"
  <2>1. CASE j = a
    BY <1>1, <2>1 DEF NoAuth
  <2>2. CASE j # a
    <3>1. PICK k \in DOMAIN chores[v] : chores'[v][j] = chores[v][k]
      BY <1>1, <2>2, OthersWereThere DEF NoAuth
    <3> QED
      BY <3>1, ListsAreOne
  <2> QED
    BY <2>1, <2>2
<1>3. ASSUME NEW k \in DOMAIN notices'[v] PROVE notices'[v][k].op # "Auth"
  <2>1. k + 1 \in DOMAIN notices[v] /\ notices'[v][k] = notices[v][k + 1]
    BY ShrankFrom DEF HearsTo, NoticeTaken
  <2> QED
    BY <2>1, ListsAreOne
<1> QED
  BY <1>2, <1>3 DEF AuthsDone, AuthsTold

LEMMA InsideHears ==
    ASSUME ListsInv, NEW v \in Visitor, NEW e, NEW p, HearsTo(v, e, p), LobbyInv', lobby[v].page # "auth",
           p.page # "auth", p.me = lobby[v].me,
           \A id \in Nat \ puzzled : ListsTurn(lobby[v].list, p.list, e, id) /\ HeaderTrue(p, id)
    PROVE  ListsInv'
<1>0. RoomsBase /\ PhaseInv /\ HeardInv /\ AnnouncementsInv /\ TypesInv
  BY DEF ListsInv, RoomsBase
<1>1. lobby'[v] = p /\ visit' = visit /\ puzzled' = puzzled /\ Shrank(notices[v], notices'[v]) /\ e = notices[v][1]
  BY <1>0, PanelPut DEF HearsTo, TypesInv, NoticeTaken
<1>2. /\ \A j \in DOMAIN chores'[v] : chores'[v][j].op # "Auth"
      /\ \A k \in DOMAIN notices'[v] : notices'[v][k].op # "Auth"
      /\ AuthsDone(v)' = {} /\ AuthsTold(v)' = {}
  BY <1>0, StillInside
<1>3. visit[v].listed /\ lobby[v].me = visit[v].user /\ Bases(v) = {lobby[v].list}
  BY <1>0, ListsAreOne
<1>4. PhaseOf(v)'
  BY <1>1, <1>2, <1>3 DEF PhaseOf
<1>5. Bases(v)' = {p.list}
  BY <1>1, <1>2 DEF Bases
<1>6. ASSUME NEW id \in Nat \ puzzled' PROVE HeardOf(v, id)' /\ ListsFirst(v, id)' /\ HeaderOf(v, id)'
  <2>1. Heard(lobby[v].list, notices[v], id, Stage(id), NameNow(id), Quiet(id))
    BY <1>0, <1>1, <1>3 DEF HeardInv, HeardOf
  <2>2. Heard(p.list, notices'[v], id, Stage(id), NameNow(id), Quiet(id))
    BY <1>1, <2>1, HeadTurns
  <2>3. Unnoticed(Stage(id), NameNow(id), Quiet(id), Stage(id)', NameNow(id)', Quiet(id)')
    BY <1>0, AskedStages, StageStaysUnnoticed DEF HearsTo
  <2>4. Heard(p.list, notices'[v], id, Stage(id)', NameNow(id)', Quiet(id)')
    BY <2>2, <2>3, NothingHeard
  <2>5. HeardOf(v, id)'
    BY <1>5, <2>4 DEF HeardOf
  <2>6. ListsFirst(v, id)'
    BY <1>2 DEF ListsFirst
  <2>7. HeaderOf(v, id)'
    BY <1>1 DEF HeaderOf, HeaderTrue
  <2> QED
    BY <2>5, <2>6, <2>7
<1> QED
  BY <1>4, <1>6, HearingKeeps

\* A client that waits for its lists hears of the rooms, in vain.
LEMMA WaitingHears ==
    ASSUME ListsInv, NEW v \in Visitor, NEW e, NEW p, HearsTo(v, e, p), LobbyInv', lobby[v].page = "auth", e.op # "Auth",
           p.page = "auth", p.me = 0, chores' = chores
    PROVE  ListsInv'
<1>0. RoomsBase /\ PhaseInv /\ HeardInv /\ AnnouncementsInv /\ TypesInv
  BY DEF ListsInv, RoomsBase
<1>1. lobby'[v] = p /\ visit' = visit /\ puzzled' = puzzled /\ Shrank(notices[v], notices'[v]) /\ e = notices[v][1]
  BY <1>0, PanelPut DEF HearsTo, TypesInv, NoticeTaken
<1>2. /\ \A k \in DOMAIN notices'[v] : k + 1 \in DOMAIN notices[v] /\ notices'[v][k] = notices[v][k + 1]
      /\ \A k \in DOMAIN notices[v] : k = 1 \/ (k - 1 \in DOMAIN notices'[v] /\ notices'[v][k - 1] = notices[v][k])
      /\ 1 \in DOMAIN notices[v] /\ DOMAIN notices[v] \subseteq Nat /\ DOMAIN notices'[v] \subseteq Nat
      /\ \A k, l \in DOMAIN notices'[v] : l < k => l + 1 < k + 1
      /\ \A k \in DOMAIN notices[v] : k # 1 => 1 < k
  BY <1>1, ShrankFrom
<1>3. PhaseOf(v)
  BY <1>0 DEF PhaseInv
<1>4. PhaseOf(v)'
  <2>1. notices[v] # <<>>
    BY <1>2
  <2>2. visit[v].listed
    BY <1>3, <2>1 DEF PhaseOf
  <2>3. \A k \in DOMAIN notices'[v] : \E l \in DOMAIN notices[v] : l = k + 1 /\ notices'[v][k] = notices[v][l]
    BY <1>2
  <2>4. \A k, l \in DOMAIN notices'[v] : k + 1 = l + 1 => k = l
    BY <1>2
  <2>5. \A k \in DOMAIN notices'[v] : notices'[v][k].op = "Auth" =>
           /\ DOMAIN chores[v] = {} /\ notices'[v][k].user = visit[v].user
           /\ \A l \in DOMAIN notices'[v] : notices'[v][l].op = "Auth" => k = l
    BY <1>3, <2>3, <2>4 DEF PhaseOf
  <2>6. \A j \in DOMAIN chores[v] : chores[v][j].op = "Auth" => \A k \in DOMAIN notices'[v] : notices'[v][k].op # "Auth"
    BY <1>3, <2>3 DEF PhaseOf
  <2>7. \A k \in DOMAIN notices'[v] : notices'[v][k].op \in Tidings \cup {"Auth"}
    BY <1>3, <2>3 DEF PhaseOf
  <2> QED
    BY <1>1, <1>3, <2>2, <2>5, <2>6, <2>7 DEF PhaseOf
<1>5. AuthsDone(v)' = AuthsDone(v)
  BY DEF AuthsDone
<1>6. /\ \A k \in AuthsTold(v)' : k + 1 \in AuthsTold(v) /\ notices'[v][k] = notices[v][k + 1]
      /\ \A k \in AuthsTold(v) : k - 1 \in AuthsTold(v)' /\ notices'[v][k - 1] = notices[v][k] /\ 1 < k
  <2>1. \A k \in AuthsTold(v) : k # 1
    BY <1>1 DEF AuthsTold
  <2> QED
    BY <1>2, <2>1 DEF AuthsTold
<1>7. Bases(v)' = Bases(v)
  <2>1. ToldLists(v)' = ToldLists(v)
    BY <1>6 DEF ToldLists, Pair
  <2>2. DoneLists(v)' = DoneLists(v)
    BY <1>5 DEF DoneLists, Pair
  <2>3. OwnLists(v)' = OwnLists(v)
    BY <1>1 DEF OwnLists
  <2> QED
    BY <2>1, <2>2, <2>3 DEF Bases, OwnLists, DoneLists, ToldLists
<1>8. ASSUME NEW id \in Nat \ puzzled' PROVE HeardOf(v, id)' /\ ListsFirst(v, id)' /\ HeaderOf(v, id)'
  <2>1. HeardOf(v, id) /\ ListsFirst(v, id)
    BY <1>0, <1>1 DEF HeardInv
  <2>2. StageStays(id)
    BY <1>0, AskedStages DEF HearsTo
  <2>3. ASSUME NEW lists \in Bases(v) PROVE Heard(lists, notices'[v], id, Stage(id)', NameNow(id)', Quiet(id)')
    <3>1. ~About(e, id)
      <4>1. AuthsDone(v) # {} \/ AuthsTold(v) # {}
        BY <2>3 DEF Bases
      <4> QED
        BY <1>1, <1>2, <1>6, <2>1, <4>1 DEF ListsFirst, AuthsTold
    <3>2. Heard(lists, notices[v], id, Stage(id), NameNow(id), Quiet(id))
      BY <2>1, <2>3 DEF HeardOf
    <3>3. Heard(lists, notices'[v], id, Stage(id), NameNow(id), Quiet(id))
      BY <1>1, <3>1, <3>2, HeadOther DEF SameRoom
    <3> QED
      BY <2>2, <3>3, StageStaysUnnoticed, NothingHeard
  <2>4. HeardOf(v, id)'
    BY <1>7, <2>3 DEF HeardOf
  <2>5. ListsFirst(v, id)'
    <3>1. AuthsDone(v)' # {} => \A k \in DOMAIN notices'[v] : ~About(notices'[v][k], id)
      BY <1>2, <1>5, <2>1 DEF ListsFirst
    <3>2. ASSUME NEW k \in AuthsTold(v)', NEW l \in DOMAIN notices'[v], l < k PROVE ~About(notices'[v][l], id)
      <4>1. k + 1 \in AuthsTold(v) /\ l + 1 \in DOMAIN notices[v] /\ l + 1 < k + 1 /\ notices'[v][l] = notices[v][l + 1]
        BY <1>2, <1>6, <3>2 DEF AuthsTold
      <4> QED
        BY <2>1, <4>1 DEF ListsFirst
    <3> QED
      BY <3>1, <3>2 DEF ListsFirst
  <2>6. HeaderOf(v, id)'
    BY <1>1 DEF HeaderOf
  <2> QED
    BY <2>4, <2>5, <2>6
<1> QED
  BY <1>4, <1>8, HearingKeeps

\* The lists have come.
LEMMA ListsCome ==
    ASSUME ListsInv, NEW v \in Visitor, NEW e, NEW p, HearsTo(v, e, p), LobbyInv', e.op = "Auth",
           p.page = "rooms", p.me = e.user, p.list = Pair(e), chores' = chores
    PROVE  ListsInv'
<1>0. RoomsBase /\ PhaseInv /\ HeardInv /\ AnnouncementsInv /\ TypesInv
  BY DEF ListsInv, RoomsBase
<1>1. lobby'[v] = p /\ visit' = visit /\ puzzled' = puzzled /\ Shrank(notices[v], notices'[v]) /\ e = notices[v][1]
  BY <1>0, PanelPut DEF HearsTo, TypesInv, NoticeTaken
<1>2. /\ \A k \in DOMAIN notices'[v] : k + 1 \in DOMAIN notices[v] /\ notices'[v][k] = notices[v][k + 1] /\ k + 1 # 1
      /\ 1 \in DOMAIN notices[v]
  <2>1. /\ \A k \in DOMAIN notices'[v] : k + 1 \in DOMAIN notices[v] /\ notices'[v][k] = notices[v][k + 1]
        /\ 1 \in DOMAIN notices[v] /\ DOMAIN notices'[v] = DOMAIN notices'[v]
    BY <1>1, ShrankFrom
  <2>2. \A k \in DOMAIN notices'[v] : k + 1 # 1
    <3>1. PICK n \in Nat : DOMAIN notices'[v] = 1 .. n
      BY <1>1 DEF Shrank
    <3> QED
      BY <3>1
  <2> QED
    BY <2>1, <2>2
<1>3. PhaseOf(v)
  BY <1>0 DEF PhaseInv
<1>4. /\ lobby[v].page = "auth" /\ DOMAIN chores[v] = {} /\ e.user = visit[v].user
      /\ \A l \in DOMAIN notices[v] : notices[v][l].op = "Auth" => l = 1
  BY <1>1, <1>2, <1>3 DEF PhaseOf
<1>5. \A k \in DOMAIN notices'[v] : notices'[v][k].op # "Auth"
  BY <1>2, <1>4
<1>6. PhaseOf(v)'
  <2>1. notices[v] # <<>>
    BY <1>2
  <2>2. visit[v].listed
    BY <1>3, <2>1 DEF PhaseOf
  <2> QED
    BY <1>1, <1>4, <1>5, <2>2 DEF PhaseOf
<1>7. /\ AuthsDone(v)' = {} /\ AuthsTold(v)' = {} /\ AuthsTold(v) = {1}
  BY <1>1, <1>2, <1>4, <1>5 DEF AuthsDone, AuthsTold
<1>8. Bases(v)' = {Pair(e)} /\ Pair(e) \in Bases(v)
  BY <1>1, <1>7 DEF Bases
<1>9. ASSUME NEW id \in Nat \ puzzled' PROVE HeardOf(v, id)' /\ ListsFirst(v, id)' /\ HeaderOf(v, id)'
  <2>1. HeardOf(v, id)
    BY <1>0, <1>1 DEF HeardInv
  <2>2. StageStays(id)
    BY <1>0, AskedStages DEF HearsTo
  <2>3. ~About(e, id)
    BY DEF About, Tidings
  <2>4. Heard(Pair(e), notices[v], id, Stage(id), NameNow(id), Quiet(id))
    BY <1>8, <2>1 DEF HeardOf
  <2>5. Heard(Pair(e), notices'[v], id, Stage(id), NameNow(id), Quiet(id))
    <3>1. SameRoom(Pair(e), Pair(e), id)
      BY DEF SameRoom
    <3> QED
      BY <1>1, <2>3, <2>4, <3>1, HeadOther
  <2>6. Heard(Pair(e), notices'[v], id, Stage(id)', NameNow(id)', Quiet(id)')
    BY <2>2, <2>5, StageStaysUnnoticed, NothingHeard
  <2>7. HeardOf(v, id)'
    BY <1>8, <2>6 DEF HeardOf
  <2>8. ListsFirst(v, id)' /\ HeaderOf(v, id)'
    BY <1>1, <1>7 DEF ListsFirst, HeaderOf
  <2> QED
    BY <2>7, <2>8
<1> QED
  BY <1>6, <1>9, HearingKeeps

\* What a client that has its lists knows of a room.
LEMMA InsideKnown ==
    ASSUME ListsInv, NEW v \in Visitor, lobby[v].page # "auth", NEW id \in Nat \ puzzled
    PROVE  /\ Single(lobby[v].list, id) /\ HeaderTrue(lobby[v], id)
           /\ 1 \in DOMAIN notices[v] /\ Says(notices[v][1], "NewRoomCreated", id) => Calls(lobby[v].list, id) = {}
<1>0. PhaseInv /\ HeardInv
  BY DEF ListsInv
<1>1. Heard(lobby[v].list, notices[v], id, Stage(id), NameNow(id), Quiet(id)) /\ HeaderOf(v, id)
  BY <1>0, ListsAreOne DEF HeardInv, HeardOf
<1> QED
  BY <1>1 DEF Heard, CameOnce, HeaderOf, HeaderTrue

\* Of a panel that is the same but for what a notice about no room does to it.
LEMMA SameListsTurn ==
    ASSUME NEW p, NEW r, r.list = p.list, NEW e, NEW id, ~About(e, id)
    PROVE  ListsTurn(p.list, r.list, e, id)
BY DEF ListsTurn, About, Says, Tidings

LEMMA TidingsDiffer ==
    ASSUME NEW e, NEW id
    PROVE  /\ e.op = "NewRoomCreated" => (Says(e, "NewRoomCreated", id) <=> e.id = id) /\ (About(e, id) <=> e.id = id)
                                          /\ ~Says(e, "NewRoomName", id) /\ ~Says(e, "RoomDeleted", id)
           /\ e.op = "NewRoomName" => (Says(e, "NewRoomName", id) <=> e.id = id) /\ (About(e, id) <=> e.id = id)
                                          /\ ~Says(e, "NewRoomCreated", id) /\ ~Says(e, "RoomDeleted", id)
           /\ e.op = "RoomDeleted" => (Says(e, "RoomDeleted", id) <=> e.id = id) /\ (About(e, id) <=> e.id = id)
                                          /\ ~Says(e, "NewRoomCreated", id) /\ ~Says(e, "NewRoomName", id)
BY DEF Says, About, Tidings

LEMMA CreationTurns ==
    ASSUME NEW p, NEW r, NEW e, e.op = "NewRoomCreated", NEW item, item = Item(e.id, e.name), NEW id, RoomCame(p, r, item, id),
           Single(p.list, id), HeaderTrue(p, id), e.id = id => Calls(p.list, id) = {}
    PROVE  ListsTurn(p.list, r.list, e, id) /\ HeaderTrue(r, id)
<1>1. item.id = e.id /\ item.name = e.name
  BY DEF Item
<1>2. ListsTurn(p.list, r.list, e, id)
  BY <1>1, TidingsDiffer DEF ListsTurn, RoomCame, SameRoom
<1>3. HeaderTrue(r, id)
  BY <1>1 DEF HeaderTrue, RoomCame, SameRoom, SameView
<1> QED
  BY <1>2, <1>3

LEMMA NameTurns ==
    ASSUME NEW p, PanelSound(p), NEW r, NEW e, e.op = "NewRoomName", NEW name, name = e.name, name \in RoomText, NEW rid, rid = e.id,
           r = RenameRoom(SetRoomName(p, rid, name), rid, name)
    PROVE  /\ PanelSound(r) /\ r.page = p.page /\ r.me = p.me
           /\ \A id : Single(p.list, id) /\ HeaderTrue(p, id) => ListsTurn(p.list, r.list, e, id) /\ HeaderTrue(r, id)
<1>1. PICK s : s = SetRoomName(p, rid, name)
  OBVIOUS
<1>2. PanelSound(s) /\ s.list = p.list /\ s.page = p.page /\ s.header = HeaderFor(p, rid, name) /\ s.me = p.me
  BY <1>1, HeaderNamed DEF TurnedTo, SameLists
<1>3. r = RenameRoom(s, rid, name)
  BY <1>1
<1>4. PanelSound(r) /\ r.page = p.page /\ r.me = p.me /\ r.header = HeaderFor(p, rid, name)
  <2>1. PICK id : id = rid
    OBVIOUS
  <2>2. RoomNamed(s, r, rid, name, id)
    BY <1>2, <1>3, RoomRenamedInLists
  <2> QED
    BY <1>2, <2>2 DEF RoomNamed
<1>5. ASSUME NEW id, Single(p.list, id), HeaderTrue(p, id)
      PROVE  ListsTurn(p.list, r.list, e, id) /\ HeaderTrue(r, id)
  <2>1. /\ id # rid => SameRoom(p.list, r.list, id)
        /\ id = rid => Single(r.list, id) /\ Calls(r.list, id) = (IF Calls(p.list, id) = {} THEN {} ELSE {name})
    <3>1. Single(s.list, id)
      BY <1>2, <1>5
    <3>2. RoomNamed(s, r, rid, name, id)
      BY <1>2, <1>3, RoomRenamedInLists
    <3> QED
      BY <1>2, <3>1, <3>2 DEF RoomNamed
  <2>2. ListsTurn(p.list, r.list, e, id)
    BY <1>5, <2>1, TidingsDiffer DEF ListsTurn, SameRoom
  <2>3. HeaderFor(p, rid, name).id = p.header.id
    BY DEF HeaderFor, Item
  <2>4. p.page = "chat" /\ p.header.id = rid => HeaderFor(p, rid, name).name = name
    BY DEF HeaderFor, Item
  <2>5. p.header.id # rid => HeaderFor(p, rid, name) = p.header
    BY DEF HeaderFor
  <2>6. HeaderTrue(r, id)
    BY <1>4, <1>5, <2>1, <2>3, <2>4, <2>5 DEF HeaderTrue, SameRoom
  <2> QED
    BY <2>2, <2>6
<1> QED
  BY <1>4, <1>5

LEMMA DeletionTurns ==
    ASSUME NEW p, PanelSound(p), NEW s, NEW r, NEW e, e.op = "RoomDeleted", NEW rid, rid = e.id,
           s = (IF p.page = "chat" /\ p.header.id = rid THEN ShowRooms(p) ELSE p), r = RemoveRoom(s, rid)
    PROVE  /\ PanelSound(r) /\ (r.page = p.page \/ (p.page = "chat" /\ r.page = "rooms")) /\ r.me = p.me
           /\ \A id : Single(p.list, id) /\ HeaderTrue(p, id) => ListsTurn(p.list, r.list, e, id) /\ HeaderTrue(r, id)
<1>1. /\ PanelSound(s) /\ s.list = p.list /\ s.me = p.me /\ s.header = p.header
      /\ IF p.page = "chat" /\ p.header.id = rid THEN s.page = "rooms" ELSE s.page = p.page
  BY RoomsShown DEF TurnedTo, SameLists
<1>2. PanelSound(r) /\ SameView(s, r)
  BY <1>1, RoomRemovedFromLists DEF RoomGone
<1>3. ASSUME NEW id, Single(p.list, id), HeaderTrue(p, id)
      PROVE  ListsTurn(p.list, r.list, e, id) /\ HeaderTrue(r, id)
  <2>1. /\ id # rid => SameRoom(p.list, r.list, id)
        /\ id = rid => Single(r.list, id) /\ Calls(r.list, id) = {}
    <3>1. RoomGone(s, r, rid, id)
      BY <1>1, RoomRemovedFromLists
    <3>2. Single(s.list, id)
      BY <1>1, <1>3
    <3> QED
      BY <1>1, <3>1, <3>2 DEF RoomGone
  <2>2. ListsTurn(p.list, r.list, e, id)
    BY <1>3, <2>1, TidingsDiffer DEF ListsTurn, SameRoom
  <2>3. HeaderTrue(r, id)
    BY <1>1, <1>2, <1>3, <2>1 DEF HeaderTrue, SameRoom, SameView
  <2> QED
    BY <2>2, <2>3
<1> QED
  BY <1>1, <1>2, <1>3 DEF SameView

LEMMA ShownTurns ==
    ASSUME NEW p, PanelSound(p), NEW r, r \in {ShowChat(p), ShowRooms(p), p}, p.page # "auth"
    PROVE  /\ PanelSound(r) /\ r.page # "auth" /\ r.me = p.me /\ r.list = p.list
           /\ \A id : Single(p.list, id) /\ HeaderTrue(p, id) => HeaderTrue(r, id)
<1>1. CASE r = ShowRooms(p)
  BY <1>1, RoomsShown DEF TurnedTo, SameLists, HeaderTrue
<1>2. CASE r = p
  BY <1>2
<1>3. CASE r = ShowChat(p) /\ ~HasSelected(p)
  BY <1>3, ChatShown DEF TurnedTo, SameLists, HeaderTrue
<1>4. CASE r = ShowChat(p) /\ HasSelected(p)
  <2>1. PICK item : item = GetSelectedRoom(p)
    OBVIOUS
  <2>2. PanelSound(r) /\ r.list = p.list /\ r.page = "chat" /\ r.header = item /\ r.me = p.me
    BY <1>4, <2>1, ChatShown DEF TurnedTo, SameLists
  <2>3. item.name \in Calls(p.list, item.id)
    BY <1>4, <2>1, SelectedIsListed
  <2>4. \A id : Single(p.list, id) => HeaderTrue(r, id)
    BY <2>2, <2>3, OneName DEF HeaderTrue
  <2> QED
    BY <2>2, <2>4
<1> QED
  BY <1>1, <1>2, <1>3, <1>4

LEMMA MemberTurns ==
    ASSUME NEW p, PanelSound(p), NEW r, r = OnBecameMember(p), NEW e, \A id : ~About(e, id)
    PROVE  /\ PanelSound(r) /\ r.page = p.page /\ r.me = p.me
           /\ \A id : Single(p.list, id) /\ HeaderTrue(p, id) => ListsTurn(p.list, r.list, e, id) /\ HeaderTrue(r, id)
<1>1. PanelSound(r) /\ SameView(p, r)
  BY MemberMoves
<1>2. ASSUME NEW id, Single(p.list, id), HeaderTrue(p, id)
      PROVE  ListsTurn(p.list, r.list, e, id) /\ HeaderTrue(r, id)
  <2>1. Single(r.list, id) /\ Calls(r.list, id) = Calls(p.list, id)
    BY <1>2, MemberMoves
  <2>2. ~Says(e, "NewRoomCreated", id) /\ ~Says(e, "NewRoomName", id) /\ ~Says(e, "RoomDeleted", id)
    BY DEF About, Says, Tidings
  <2> QED
    BY <1>1, <1>2, <2>1, <2>2 DEF ListsTurn, HeaderTrue, SameView
<1> QED
  BY <1>1, <1>2 DEF SameView

\* The client takes the notice e.
TakesNotice(v, e) ==
    /\ NoticeTaken(v) /\ e = notices[v][1] /\ NoticeTyped(e)
    /\ UNCHANGED <<db, visit, puzzled>>

LEMMA NoticeHeard ==
    ASSUME ListsInv, NEW v \in Visitor, Hear(v), NEW e, e = Head(notices[v])
    PROVE  TakesNotice(v, e)
<1>1. /\ notices[v] # <<>> /\ notices' = [notices EXCEPT ![v] = Tail(@)]
      /\ UNCHANGED <<db, visit, puzzled>>
  BY DEF Hear
<1>2. /\ notices = [w \in Visitor |-> notices[w]]
      /\ \A w \in Visitor : IsSeq(notices[w]) /\ \A k \in DOMAIN notices[w] : NoticeTyped(notices[w][k])
  BY DEF ListsInv, RoomsBase, TypesInv, BoxesTyped
<1>3. PICK q : q = notices[v]
  OBVIOUS
<1>4. Shrank(q, Tail(q)) /\ IsSeq(Tail(q)) /\ Head(q) = q[1] /\ 1 \in DOMAIN q
  BY <1>1, <1>2, <1>3, TailShrinks
<1>5. /\ notices'[v] = Tail(q) /\ notices' = [w \in Visitor |-> notices'[w]]
      /\ \A w \in Visitor : w # v => notices'[w] = notices[w]
  BY <1>1, <1>2, <1>3
<1>6. NoticeTaken(v)
  BY <1>2, <1>3, <1>4, <1>5 DEF NoticeTaken, BoxesAre
<1> QED
  BY <1>1, <1>2, <1>3, <1>4, <1>6 DEF TakesNotice

LEMMA LooksAsks ==
    ASSUME NEW v, NEW p, Look(v, p)
    PROVE  Put(v, p) /\ Asks(v) /\ chores' = chores
BY DEF Look, Asks

\* A client that has its lists, and one that waits for them.
LEMMA InsideCreation ==
    ASSUME ListsInv, NEW v \in Visitor, NEW e, TakesNotice(v, e), e.op = "NewRoomCreated", NewRoomCreated(v, e),
           lobby[v].page # "auth", LobbyInv'
    PROVE  ListsInv'
<1>1. PICK own : own = (e.owner = lobby[v].me)
  OBVIOUS
<1>2. PICK item : item = Item(e.id, e.name)
  OBVIOUS
<1>3. PICK p : p = AddRoom(lobby[v], item, own)
  OBVIOUS
<1>4. item \in RoomItem /\ e.id \in Nat
  BY <1>2 DEF TakesNotice, NoticeTyped, Item, RoomItem, Tidings
<1>5. PanelSound(lobby[v])
  BY DEF ListsInv, RoomsBase, TypesInv, PanelsTyped
<1>6. own = TRUE \/ own = FALSE
  BY <1>1
<1>7. \A id : RoomCame(lobby[v], p, item, id)
  BY <1>3, <1>4, <1>5, <1>6, RoomAddedToMine, RoomAddedToPublic
<1>8. Put(v, p)
  BY <1>1, <1>2, <1>3 DEF NewRoomCreated
<1>9. Asks(v)
  <2>1. PICK request : request = [Chore("JoinRoom") EXCEPT !.id = e.id]
    OBVIOUS
  <2>2. Sendable(request)
    BY <1>4, <2>1, JoinIsSendable
  <2>3. chores' = chores \/ Ask(v, request)
    BY <2>1 DEF NewRoomCreated
  <2> QED
    BY <2>2, <2>3 DEF Asks
<1>10. PanelSound(p) /\ SameView(lobby[v], p)
  BY <1>7 DEF RoomCame
<1>11. HearsTo(v, e, p)
  BY <1>8, <1>9, <1>10 DEF TakesNotice, HearsTo
<1>12. ASSUME NEW id \in Nat \ puzzled
       PROVE  ListsTurn(lobby[v].list, p.list, e, id) /\ HeaderTrue(p, id)
  <2>1. 1 \in DOMAIN notices[v] /\ e = notices[v][1]
    BY ShrankFrom DEF TakesNotice, NoticeTaken
  <2>2. /\ Single(lobby[v].list, id) /\ HeaderTrue(lobby[v], id)
        /\ e.id = id => Calls(lobby[v].list, id) = {}
    BY <2>1, InsideKnown DEF Says
  <2>3. RoomCame(lobby[v], p, item, id)
    BY <1>7
  <2>4. PICK panel : panel = lobby[v]
    OBVIOUS
  <2>5. /\ RoomCame(panel, p, item, id) /\ Single(panel.list, id) /\ HeaderTrue(panel, id)
        /\ e.id = id => Calls(panel.list, id) = {}
    BY <2>2, <2>3, <2>4
  <2>6. ListsTurn(panel.list, p.list, e, id) /\ HeaderTrue(p, id)
    BY <1>2, <2>5, CreationTurns
  <2> QED
    BY <2>4, <2>6
<1> QED
  BY <1>10, <1>11, <1>12, InsideHears DEF SameView

LEMMA InsideName ==
    ASSUME ListsInv, NEW v \in Visitor, NEW e, TakesNotice(v, e), e.op = "NewRoomName", NewRoomName(v, e),
           lobby[v].page # "auth", LobbyInv'
    PROVE  ListsInv'
<1>1. PICK p : p = RenameRoom(SetRoomName(lobby[v], e.id, e.name), e.id, e.name)
  OBVIOUS
<1>2. Put(v, p) /\ Asks(v)
  BY <1>1, LooksAsks DEF NewRoomName
<1>3. e.name \in RoomText
  BY DEF TakesNotice, NoticeTyped
<1>4. PanelSound(lobby[v])
  BY DEF ListsInv, RoomsBase, TypesInv, PanelsTyped
<1>5. /\ PanelSound(p) /\ p.page = lobby[v].page /\ p.me = lobby[v].me
      /\ \A id : Single(lobby[v].list, id) /\ HeaderTrue(lobby[v], id) =>
                    ListsTurn(lobby[v].list, p.list, e, id) /\ HeaderTrue(p, id)
  BY <1>1, <1>3, <1>4, NameTurns
<1>6. HearsTo(v, e, p)
  BY <1>2, <1>5 DEF TakesNotice, HearsTo
<1>7. \A id \in Nat \ puzzled : Single(lobby[v].list, id) /\ HeaderTrue(lobby[v], id)
  BY InsideKnown
<1> QED
  BY <1>5, <1>6, <1>7, InsideHears

LEMMA InsideDeletion ==
    ASSUME ListsInv, NEW v \in Visitor, NEW e, TakesNotice(v, e), e.op = "RoomDeleted", RoomDeleted(v, e),
           lobby[v].page # "auth", LobbyInv'
    PROVE  ListsInv'
<1>1. PICK s : s = (IF lobby[v].page = "chat" /\ lobby[v].header.id = e.id THEN ShowRooms(lobby[v]) ELSE lobby[v])
  OBVIOUS
<1>2. PICK p : p = RemoveRoom(s, e.id)
  OBVIOUS
<1>3. Put(v, p) /\ Asks(v)
  BY <1>1, <1>2, LooksAsks DEF RoomDeleted
<1>4. PanelSound(lobby[v])
  BY DEF ListsInv, RoomsBase, TypesInv, PanelsTyped
<1>5. /\ PanelSound(p) /\ (p.page = lobby[v].page \/ (lobby[v].page = "chat" /\ p.page = "rooms")) /\ p.me = lobby[v].me
      /\ \A id : Single(lobby[v].list, id) /\ HeaderTrue(lobby[v], id) =>
                    ListsTurn(lobby[v].list, p.list, e, id) /\ HeaderTrue(p, id)
  BY <1>1, <1>2, <1>4, DeletionTurns
<1>6. HearsTo(v, e, p)
  BY <1>3, <1>5 DEF TakesNotice, HearsTo
<1>7. \A id \in Nat \ puzzled : Single(lobby[v].list, id) /\ HeaderTrue(lobby[v], id)
  BY InsideKnown
<1>8. p.page # "auth"
  BY <1>5
<1> QED
  BY <1>5, <1>6, <1>7, <1>8, InsideHears

\* The end of a request says nothing of a room.
LEMMA InsideMember ==
    ASSUME ListsInv, NEW v \in Visitor, NEW e, TakesNotice(v, e), e.op \notin Tidings, Look(v, OnBecameMember(lobby[v])),
           lobby[v].page # "auth", LobbyInv'
    PROVE  ListsInv'
<1>1. PICK p : p = OnBecameMember(lobby[v])
  OBVIOUS
<1>2. Put(v, p) /\ Asks(v)
  BY <1>1, LooksAsks
<1>3. PanelSound(lobby[v])
  BY DEF ListsInv, RoomsBase, TypesInv, PanelsTyped
<1>4. \A id : ~About(e, id)
  BY DEF About
<1>5. /\ PanelSound(p) /\ p.page = lobby[v].page /\ p.me = lobby[v].me
      /\ \A id : Single(lobby[v].list, id) /\ HeaderTrue(lobby[v], id) =>
                    ListsTurn(lobby[v].list, p.list, e, id) /\ HeaderTrue(p, id)
  BY <1>1, <1>3, <1>4, MemberTurns
<1>6. HearsTo(v, e, p)
  BY <1>2, <1>5 DEF TakesNotice, HearsTo
<1>7. \A id \in Nat \ puzzled : Single(lobby[v].list, id) /\ HeaderTrue(lobby[v], id)
  BY InsideKnown
<1> QED
  BY <1>5, <1>6, <1>7, InsideHears

LEMMA InsideShown ==
    ASSUME ListsInv, NEW v \in Visitor, NEW e, TakesNotice(v, e), e.op \notin Tidings, NEW p,
           p \in {ShowChat(lobby[v]), ShowRooms(lobby[v]), lobby[v]}, Put(v, p), Asks(v),
           lobby[v].page # "auth", LobbyInv'
    PROVE  ListsInv'
<1>1. PanelSound(lobby[v])
  BY DEF ListsInv, RoomsBase, TypesInv, PanelsTyped
<1>2. \A id : ~About(e, id)
  BY DEF About
<1>3. /\ PanelSound(p) /\ p.page # "auth" /\ p.me = lobby[v].me /\ p.list = lobby[v].list
      /\ \A id : Single(lobby[v].list, id) /\ HeaderTrue(lobby[v], id) => HeaderTrue(p, id)
  BY <1>1, ShownTurns
<1>4. HearsTo(v, e, p)
  BY <1>3 DEF TakesNotice, HearsTo
<1>5. \A id \in Nat \ puzzled : ListsTurn(lobby[v].list, p.list, e, id) /\ HeaderTrue(p, id)
  BY <1>2, <1>3, InsideKnown, SameListsTurn
<1> QED
  BY <1>3, <1>4, <1>5, InsideHears

LEMMA JoinAnswered ==
    ASSUME ListsInv, NEW v \in Visitor, NEW e, TakesNotice(v, e), e.op \notin Tidings, JoinRoomResponse(v),
           lobby[v].page # "auth", LobbyInv'
    PROVE  ListsInv'
<1>1. PICK p : p = ShowChat(lobby[v])
  OBVIOUS
<1>2. PanelSound(lobby[v])
  BY DEF ListsInv, RoomsBase, TypesInv, PanelsTyped
<1>3. Asks(v)
  <2>1. CASE chores' = chores
    BY <2>1 DEF Asks
  <2>2. CASE chores' # chores
    <3>1. OnJoinRoom(lobby[v]) /\ Ask(v, [Chore("BecomeMember") EXCEPT !.id = GetSelectedRoom(lobby[v]).id])
      BY <2>2 DEF JoinRoomResponse
    <3>2. HasSelected(lobby[v])
      BY <3>1 DEF OnJoinRoom
    <3>3. PICK item : item = GetSelectedRoom(lobby[v])
      OBVIOUS
    <3>4. item.id \in Nat
      BY <1>2, <3>2, <3>3, SelectedIsListed DEF RoomItem
    <3>5. PICK request : request = [Chore("BecomeMember") EXCEPT !.id = item.id]
      OBVIOUS
    <3>6. Sendable(request)
      BY <3>4, <3>5, JoinIsSendable
    <3> QED
      BY <3>1, <3>3, <3>5, <3>6 DEF Asks
  <2> QED
    BY <2>1, <2>2
<1>4. Put(v, p)
  BY <1>1 DEF JoinRoomResponse
<1> QED
  BY <1>1, <1>3, <1>4, InsideShown

\* A client that waits for its lists.
LEMMA WaitingIs ==
    ASSUME ListsInv, NEW v \in Visitor, lobby[v].page = "auth", NEW e, TakesNotice(v, e)
    PROVE  lobby[v].me = 0 /\ e.op \in Tidings \cup {"Auth"} /\ PanelSound(lobby[v])
<1>1. PhaseOf(v) /\ PanelSound(lobby[v])
  BY DEF ListsInv, PhaseInv, RoomsBase, TypesInv, PanelsTyped
<1>2. 1 \in DOMAIN notices[v] /\ e = notices[v][1]
  BY ShrankFrom DEF TakesNotice, NoticeTaken
<1> QED
  BY <1>1, <1>2 DEF PhaseOf

LEMMA WaitingCreation ==
    ASSUME ListsInv, NEW v \in Visitor, NEW e, TakesNotice(v, e), e.op = "NewRoomCreated", NewRoomCreated(v, e),
           lobby[v].page = "auth", LobbyInv'
    PROVE  ListsInv'
<1>1. PICK own : own = FALSE
  OBVIOUS
<1>2. PICK item : item = Item(e.id, e.name)
  OBVIOUS
<1>3. PICK p : p = AddRoom(lobby[v], item, own)
  OBVIOUS
<1>4. item \in RoomItem /\ e.owner # 0
  BY <1>2 DEF TakesNotice, NoticeTyped, Item, RoomItem, Tidings
<1>5. lobby[v].me = 0 /\ PanelSound(lobby[v])
  BY WaitingIs
<1>6. (e.owner = lobby[v].me) = own
  BY <1>1, <1>4, <1>5
<1>7. Put(v, AddRoom(lobby[v], item, own)) /\ UNCHANGED chores
  BY <1>2, <1>4, <1>5, <1>6 DEF NewRoomCreated
<1>8. RoomCame(lobby[v], p, item, e.id)
  BY <1>1, <1>3, <1>4, <1>5, RoomAddedToPublic
<1>9. PanelSound(p) /\ p.page = "auth" /\ p.me = 0
  BY <1>5, <1>8 DEF RoomCame, SameView
<1>10. HearsTo(v, e, p)
  BY <1>3, <1>7, <1>9 DEF TakesNotice, HearsTo, Asks
<1> QED
  BY <1>7, <1>9, <1>10, WaitingHears

LEMMA WaitingName ==
    ASSUME ListsInv, NEW v \in Visitor, NEW e, TakesNotice(v, e), e.op = "NewRoomName", NewRoomName(v, e),
           lobby[v].page = "auth", LobbyInv'
    PROVE  ListsInv'
<1>1. PICK p : p = RenameRoom(SetRoomName(lobby[v], e.id, e.name), e.id, e.name)
  OBVIOUS
<1>2. Put(v, p) /\ Asks(v) /\ chores' = chores
  BY <1>1, LooksAsks DEF NewRoomName
<1>3. e.name \in RoomText
  BY DEF TakesNotice, NoticeTyped
<1>4. lobby[v].me = 0 /\ PanelSound(lobby[v])
  BY WaitingIs
<1>5. PanelSound(p) /\ p.page = lobby[v].page /\ p.me = lobby[v].me
  BY <1>1, <1>3, <1>4, NameTurns
<1>6. HearsTo(v, e, p)
  BY <1>2, <1>5 DEF TakesNotice, HearsTo
<1> QED
  BY <1>2, <1>4, <1>5, <1>6, WaitingHears

LEMMA WaitingDeletion ==
    ASSUME ListsInv, NEW v \in Visitor, NEW e, TakesNotice(v, e), e.op = "RoomDeleted", RoomDeleted(v, e),
           lobby[v].page = "auth", LobbyInv'
    PROVE  ListsInv'
<1>1. PICK s : s = (IF lobby[v].page = "chat" /\ lobby[v].header.id = e.id THEN ShowRooms(lobby[v]) ELSE lobby[v])
  OBVIOUS
<1>2. PICK p : p = RemoveRoom(s, e.id)
  OBVIOUS
<1>3. Put(v, p) /\ Asks(v) /\ chores' = chores
  BY <1>1, <1>2, LooksAsks DEF RoomDeleted
<1>4. lobby[v].me = 0 /\ PanelSound(lobby[v])
  BY WaitingIs
<1>5. PanelSound(p) /\ (p.page = lobby[v].page \/ (lobby[v].page = "chat" /\ p.page = "rooms")) /\ p.me = lobby[v].me
  BY <1>1, <1>2, <1>4, DeletionTurns
<1>6. HearsTo(v, e, p)
  BY <1>3, <1>5 DEF TakesNotice, HearsTo
<1> QED
  BY <1>3, <1>4, <1>5, <1>6, WaitingHears

LEMMA ListsHeard ==
    ASSUME ListsInv, NEW v \in Visitor, NEW e, TakesNotice(v, e), e.op = "Auth", AuthResponse(v, e), LobbyInv'
    PROVE  ListsInv'
<1>1. PICK p : p = ShowRooms(UpdateRoomList([lobby[v] EXCEPT !.me = e.user], e.mine, e.public))
  OBVIOUS
<1>2. Put(v, p) /\ Asks(v) /\ chores' = chores
  BY <1>1, LooksAsks DEF AuthResponse
<1>3. e.mine \in Seq(RoomItem) /\ e.public \in Seq(RoomItem) /\ e.user \in Nat
  BY DEF TakesNotice, NoticeTyped
<1>4. PanelSound(lobby[v])
  BY DEF ListsInv, RoomsBase, TypesInv, PanelsTyped
<1>5. PanelSound(p) /\ p.page = "rooms" /\ p.me = e.user /\ p.list = [mine |-> e.mine, public |-> e.public]
  BY <1>1, <1>3, <1>4, ListsTaken
<1>6. p.list = Pair(e)
  BY <1>5 DEF Pair
<1>7. HearsTo(v, e, p)
  BY <1>2, <1>5 DEF TakesNotice, HearsTo
<1> QED
  BY <1>2, <1>5, <1>6, <1>7, ListsCome

\* A log in is only told to a client that waits.
LEMMA InsideHearsNoLists ==
    ASSUME ListsInv, NEW v \in Visitor, NEW e, TakesNotice(v, e), lobby[v].page # "auth"
    PROVE  e.op # "Auth"
<1>1. 1 \in DOMAIN notices[v] /\ e = notices[v][1]
  BY ShrankFrom DEF TakesNotice, NoticeTaken
<1> QED
  BY <1>1, ListsAreOne DEF ListsInv

LEMMA HearLists ==
    ASSUME ListsInv, NEW v \in Visitor, Hear(v), LobbyInv'
    PROVE  ListsInv'
<1>1. PICK e : e = Head(notices[v])
  OBVIOUS
<1>2. TakesNotice(v, e)
  BY <1>1, NoticeHeard
<1>3. CASE e.op = "NewRoomCreated"
  <2>1. NewRoomCreated(v, e)
    BY <1>1, <1>3 DEF Hear
  <2> QED
    BY <1>2, <1>3, <2>1, InsideCreation, WaitingCreation
<1>4. CASE e.op = "NewRoomName"
  <2>1. NewRoomName(v, e)
    BY <1>1, <1>4 DEF Hear
  <2> QED
    BY <1>2, <1>4, <2>1, InsideName, WaitingName
<1>5. CASE e.op = "RoomDeleted"
  <2>1. RoomDeleted(v, e)
    BY <1>1, <1>5 DEF Hear
  <2> QED
    BY <1>2, <1>5, <2>1, InsideDeletion, WaitingDeletion
<1>6. CASE e.op = "Auth"
  <2>1. AuthResponse(v, e)
    BY <1>1, <1>6 DEF Hear
  <2> QED
    BY <1>2, <1>6, <2>1, ListsHeard
<1>7. CASE e.op \notin Tidings \cup {"Auth"}
  <2>1. e.op \notin Tidings /\ lobby[v].page # "auth"
    BY <1>2, <1>7, WaitingIs
  <2>2. \/ JoinRoomResponse(v)
        \/ Look(v, OnBecameMember(lobby[v]))
        \/ Look(v, ShowRooms(lobby[v]))
        \/ Look(v, lobby[v])
    BY <1>1, <1>7 DEF Hear, Tidings
  <2>3. ASSUME NEW p \in {ShowRooms(lobby[v]), lobby[v]}, Look(v, p) PROVE ListsInv'
    <3>1. Put(v, p) /\ Asks(v)
      BY <2>3, LooksAsks
    <3> QED
      BY <1>2, <2>1, <3>1, InsideShown
  <2> QED
    BY <1>2, <2>1, <2>2, <2>3, JoinAnswered, InsideMember
<1> QED
  BY <1>3, <1>4, <1>5, <1>6, <1>7 DEF Tidings

-----------------------------------------------------------------------------
LEMMA ListsStep ==
    ASSUME ListsInv, LobbyInv', [NextLobby]_lobbyVars
    PROVE  ListsInv'
<1>1. CASE UNCHANGED lobbyVars
  <2>0. UNCHANGED <<db, visit, chores, notices, lobby, puzzled>>
    BY <1>1 DEF lobbyVars
  <2>1. TypesInv' /\ PhaseInv'
    BY <2>0 DEF ListsInv, RoomsBase, TypesInv, VisitTyped, RowsTyped, BoxesTyped, PanelsTyped, PhaseInv, PhaseOf
  <2>2. ASSUME NEW op, NEW id PROVE Announcing(op, id)' = Announcing(op, id)
    BY <2>0 DEF Announcing
  <2>3. ASSUME NEW id PROVE StageStays(id) /\ (Unborn(id)' <=> Unborn(id))
    BY <2>0, <2>2 DEF StageStays, Stage, NameNow, Quiet, Unborn
  <2>4. HeardInv'
    BY <2>0, <2>3, UntouchedHears DEF ListsInv, HeardInv, Untouched
  <2>5. AnnouncementsInv'
    BY <2>0, <2>3 DEF ListsInv, AnnouncementsInv, ChoresTrue, Creates
  <2> QED
    BY <2>1, <2>4, <2>5 DEF ListsInv, RoomsBase
<1>2. CASE NextLobby
  BY <1>2, HandlersKeepLists, VisitLists, HearLists DEF NextLobby
<1> QED
  BY <1>1, <1>2

-----------------------------------------------------------------------------
(***************************************************************************)
(* The start.                                                              *)
(***************************************************************************)

LEMMA LogInTyped ==
    ASSUME NEW auth, auth = Chore("Auth")
    PROVE  ChoreTyped(auth) /\ auth.op = "Auth" /\ auth.stage = "new" /\ auth.id = 0
<1>1. DOMAIN auth.object.values = {"membership_status"}
  BY Zenon DEF Chore, BlankMembership, Read
<1>2. <<>> \in Seq(RoomItem)
  OBVIOUS
<1>3. auth.op = "Auth" /\ auth.stage = "new" /\ auth.id = 0 /\ auth.name = "" /\ auth.mine = <<>> /\ auth.public = <<>>
  BY Zenon DEF Chore
<1>4. auth.op \in Errands /\ auth.id \in Nat /\ auth.name \in RoomText
  <2>1. "Auth" \in Errands /\ "" \in RoomText /\ 0 \in Nat
    BY DEF RoomText, Errands
  <2> QED
    BY <1>3, <2>1, Zenon
<1>5. auth.mine \in Seq(RoomItem) /\ auth.public \in Seq(RoomItem)
  BY <1>2, <1>3, Zenon
<1> QED
  BY <1>1, <1>3, <1>4, <1>5, Zenon DEF ChoreTyped

\* At first at most a log in is asked for.
StartsQuietly ==
    /\ \A v \in Visitor : \A j \in DOMAIN chores[v] : chores[v][j] = Chore("Auth") /\ j = 1 /\ DOMAIN chores[v] = {1}
    /\ notices = [v \in Visitor |-> <<>>] /\ puzzled = {} /\ hasty = {}

LEMMA QuietStart == InitLobby => StartsQuietly
<1> SUFFICES ASSUME InitLobby PROVE StartsQuietly
  OBVIOUS
<1>1. ASSUME NEW v \in Visitor, NEW j \in DOMAIN chores[v]
      PROVE  chores[v][j] = Chore("Auth") /\ j = 1 /\ DOMAIN chores[v] = {1}
  <2>1. chores[v] \in {<<>>, <<Chore("Auth")>>}
    BY Zenon DEF InitLobby, Arrived, Outside
  <2>2. PICK auth : auth = Chore("Auth")
    OBVIOUS
  <2>3. chores[v] = <<>> \/ chores[v] = <<auth>>
    BY <2>1, <2>2
  <2>4. chores[v] # <<>>
    OBVIOUS
  <2>5. DOMAIN <<auth>> = {1} /\ <<auth>>[1] = auth
    OBVIOUS
  <2> QED
    BY <2>2, <2>3, <2>4, <2>5
<1> QED
  BY <1>1 DEF StartsQuietly, InitLobby

\* A client that has its lists: they are those of the tables.
LEMMA ArrivedLists ==
    ASSUME InitLobby, NEW v \in Visitor, Arrived(v)
    PROVE  /\ PanelSound(lobby[v])
           /\ Joined(visit[v].user) \in SUBSET DOMAIN db.rooms
           /\ ListOf(lobby[v].list.mine, Joined(visit[v].user))
           /\ ListOf(lobby[v].list.public, DOMAIN db.rooms \ Joined(visit[v].user))
<1>1. PICK mine, public, ids, all :
          mine = lobby[v].list.mine /\ public = lobby[v].list.public
          /\ ids = Joined(visit[v].user) /\ all = DOMAIN db.rooms
  OBVIOUS
<1>2. ids \in SUBSET all /\ (all \ ids) \in SUBSET all
  BY <1>1 DEF Joined
<1>3. \A id \in all : id \in Nat /\ db.rooms[id].room_name \in RoomText
  <2>1. db.serial \in Nat /\ all \subseteq 1 .. db.serial /\ \A id \in all : db.rooms[id] \in RoomRow
    BY <1>1 DEF InitLobby, InitTables
  <2>2. ASSUME NEW id \in all PROVE id \in Nat /\ db.rooms[id].room_name \in RoomText
    <3>1. id \in 1 .. db.serial
      BY <2>1
    <3>2. id \in Nat
      BY <2>1, <3>1
    <3>3. db.rooms[id] \in RoomRow
      BY <2>1
    <3>4. db.rooms[id].room_name \in RoomName
      BY <3>3 DEF RoomRow
    <3> QED
      BY <3>2, <3>4, Zenon DEF RoomText
  <2> QED
    BY <2>2
<1>4. Lists(mine, ids) /\ Lists(public, all \ ids)
  BY <1>1, Zenon DEF Arrived
<1>5. ASSUME NEW s, NEW some \in SUBSET all, Lists(s, some) PROVE ListOf(s, some)
  <2>1. PICK S : S = {Item(id, db.rooms[id].room_name) : id \in some}
    OBVIOUS
  <2>2. s \in Seq(S) /\ IsInjective(s) /\ ToSet(s) = S
    BY <1>5, <2>1 DEF Lists
  <2> QED
    BY <1>3, <2>1, <2>2, ListedOnce
<1>6. ListOf(mine, ids) /\ ListOf(public, all \ ids)
  BY <1>2, <1>4, <1>5
<1>7. PanelSound(lobby[v])
  <2>1. mine \in Seq(RoomItem) /\ public \in Seq(RoomItem)
    BY <1>6 DEF ListOf
  <2>2. PICK page, me, tab, header, i, j :
            /\ page = lobby[v].page /\ me = visit[v].user /\ tab = lobby[v].tab /\ header = lobby[v].header
            /\ i = lobby[v].selected.mine /\ j = lobby[v].selected.public
    OBVIOUS
  <2>3. /\ page \in {"auth", "rooms", "chat", "ended"} /\ me \in Nat /\ tab \in Tabs /\ header \in RoomItem
        /\ i \in 0 .. Len(mine) /\ j \in 0 .. Len(public)
    BY <1>1, <2>2, Zenon DEF Arrived, InitLobby, Tabs, RoomItem, RoomText
  <2>4. lobby[v] = PanelOf(page, me, tab, header, mine, public, i, j)
    BY <1>1, <2>2, Zenon DEF Arrived, PanelOf
  <2> QED
    BY <2>1, <2>3, <2>4, PanelMade
<1> QED
  BY <1>1, <1>2, <1>6, <1>7

LEMMA TypesStart == InitLobby => TypesInv
<1> SUFFICES ASSUME InitLobby PROVE TypesInv
  OBVIOUS
<1>1. VisitTyped
  BY DEF VisitTyped, InitLobby
<1>2. RowsTyped
  BY Zenon DEF RowsTyped, InitLobby, InitTables, RoomRow, RoomText
<1>3. BoxesTyped
  <2>1. PICK auth : auth = Chore("Auth")
    OBVIOUS
  <2>2. ChoreTyped(auth)
    BY <2>1, LogInTyped
  <2>3. \A v \in Visitor : \A j \in DOMAIN chores[v] : chores[v][j] = auth
    BY <2>1, QuietStart DEF StartsQuietly
  <2>4. \A v \in Visitor : notices[v] = <<>> /\ IsSeq(notices[v])
    BY QuietStart, EmptyIsSeq DEF StartsQuietly
  <2>5. notices = [v \in Visitor |-> notices[v]]
    BY QuietStart DEF StartsQuietly
  <2> QED
    BY <2>2, <2>3, <2>4, <2>5 DEF BoxesTyped
<1>4. PanelsTyped
  <2>1. ASSUME NEW v \in Visitor PROVE PanelSound(lobby[v])
    <3>1. CASE Arrived(v)
      BY <3>1, ArrivedLists
    <3>2. CASE Outside(v)
      <4>1. PICK p : p = NewLobby(0)
        OBVIOUS
      <4> QED
        BY <3>2, <4>1, NewLobbyIsSound DEF Outside
    <3> QED
      BY <3>1, <3>2 DEF InitLobby
  <2> QED
    BY <2>1 DEF PanelsTyped, InitLobby
<1> QED
  BY <1>1, <1>2, <1>3, <1>4 DEF TypesInv

LEMMA PhaseStart == InitLobby => PhaseInv
<1> SUFFICES ASSUME InitLobby, NEW v \in Visitor PROVE PhaseOf(v)
  BY DEF PhaseInv
<1>1. notices[v] = <<>> /\ DOMAIN notices[v] = {}
  BY QuietStart DEF StartsQuietly
<1>2. PICK auth : auth = Chore("Auth")
  OBVIOUS
<1>3. auth.op = "Auth" /\ auth.stage = "new"
  BY <1>2, LogInTyped
<1>4. \A j \in DOMAIN chores[v] : chores[v][j] = auth /\ DOMAIN chores[v] = {j}
  BY <1>2, QuietStart DEF StartsQuietly
<1>5. CASE Arrived(v)
  <2>1. visit[v].listed /\ chores[v] = <<>> /\ lobby[v].page \in {"rooms", "chat"}
    BY <1>5, Zenon DEF Arrived
  <2>2. lobby[v].me = visit[v].user
    <3>1. PICK p : p = lobby[v]
      OBVIOUS
    <3>2. p = [page |-> p.page, me |-> visit[v].user, tab |-> p.tab, header |-> p.header,
               list |-> [mine |-> p.list.mine, public |-> p.list.public],
               selected |-> [mine |-> p.selected.mine, public |-> p.selected.public]]
      BY <1>5, <3>1, Zenon DEF Arrived
    <3> QED
      BY <3>1, <3>2
  <2> QED
    BY <1>1, <2>1, <2>2 DEF PhaseOf
<1>6. CASE Outside(v)
  <2>1. PICK p : p = NewLobby(0)
    OBVIOUS
  <2>2. ~visit[v].listed /\ lobby[v].page = "auth" /\ lobby[v].me = 0
    BY <1>6, <2>1, NewLobbyIsSound DEF Outside
  <2>3. visit[v].listed \in BOOLEAN
    BY TypesStart DEF TypesInv, VisitTyped
  <2> QED
    BY <1>1, <1>3, <1>4, <2>2, <2>3 DEF PhaseOf
<1> QED
  BY <1>5, <1>6 DEF InitLobby

LEMMA NobodyAnnounces ==
    ASSUME StartsQuietly, NEW op, NEW id
    PROVE  ~Announcing(op, id)
<1>1. PICK auth : auth = Chore("Auth")
  OBVIOUS
<1>2. auth.stage = "new"
  BY <1>1, LogInTyped
<1>3. \A v \in Visitor : \A j \in DOMAIN chores[v] : chores[v][j] = auth
  BY <1>1 DEF StartsQuietly
<1> QED
  BY <1>2, <1>3 DEF Announcing

LEMMA HeardStart == InitLobby => HeardInv
<1> SUFFICES ASSUME InitLobby, NEW v \in Visitor, NEW id \in Nat \ puzzled
             PROVE  HeardOf(v, id) /\ ListsFirst(v, id) /\ HeaderOf(v, id)
  BY DEF HeardInv
<1>0. StartsQuietly /\ PhaseOf(v) /\ TablesInv
  BY QuietStart, PhaseStart, LobbyStart DEF PhaseInv, LobbyInv
<1>1. PICK auth : auth = Chore("Auth")
  OBVIOUS
<1>2. auth.op = "Auth" /\ auth.stage = "new"
  BY <1>1, LogInTyped
<1>3. AuthsDone(v) = {} /\ AuthsTold(v) = {} /\ notices[v] = <<>>
  <2>1. \A j \in DOMAIN chores[v] : chores[v][j] = auth
    BY <1>0, <1>1 DEF StartsQuietly
  <2>2. notices[v] = <<>> /\ DOMAIN notices[v] = {}
    BY <1>0 DEF StartsQuietly
  <2> QED
    BY <1>2, <2>1, <2>2 DEF AuthsDone, AuthsTold
<1>4. ListsFirst(v, id)
  BY <1>3 DEF ListsFirst
<1>5. CASE Outside(v)
  <2>1. PICK p : p = NewLobby(0)
    OBVIOUS
  <2>2. lobby[v].page = "auth"
    BY <1>5, <2>1, NewLobbyIsSound DEF Outside
  <2>3. Bases(v) = {}
    BY <1>3, <2>2 DEF Bases
  <2> QED
    BY <1>4, <2>2, <2>3 DEF HeardOf, HeaderOf
<1>6. CASE Arrived(v)
  <2>1. PICK lists, ids : lists = lobby[v].list /\ ids = Joined(visit[v].user)
    OBVIOUS
  <2>2. ids \in SUBSET DOMAIN db.rooms /\ ListOf(lists.mine, ids) /\ ListOf(lists.public, DOMAIN db.rooms \ ids)
    BY <1>6, <2>1, ArrivedLists
  <2>3. PICK quiet : quiet = Quiet(id)
    OBVIOUS
  <2>4. ~Announcing("CreateRoom", id)
    BY <1>0, NobodyAnnounces
  <2>5. Heard(lists, <<>>, id, Stage(id), NameNow(id), quiet)
    BY <1>0, <2>2, <2>4, FreshLists
  <2>6. lobby[v].page # "auth"
    BY <1>6, Zenon DEF Arrived
  <2>7. Bases(v) = {lists}
    BY <1>3, <2>1, <2>6 DEF Bases
  <2>8. HeardOf(v, id)
    BY <1>3, <2>3, <2>5, <2>7 DEF HeardOf
  <2>9. ASSUME lobby[v].page = "chat", lobby[v].header.id = id
        PROVE  Calls(lobby[v].list, id) = {lobby[v].header.name}
    <3>1. lobby[v].header \in ToSet(lists.mine)
      BY <1>6, <2>1, <2>9, Zenon DEF Arrived
    <3>2. PICK k \in DOMAIN lists.mine : lists.mine[k] = lobby[v].header
      BY <3>1 DEF ToSet
    <3>3. lobby[v].header.name \in Calls(lists, id)
      BY <2>9, <3>2 DEF Calls, NamesIn, Places
    <3>4. Single(lists, id)
      BY <2>5 DEF Heard
    <3> QED
      BY <2>1, <3>3, <3>4, OneName
  <2> QED
    BY <1>4, <2>8, <2>9 DEF HeaderOf
<1> QED
  BY <1>5, <1>6 DEF InitLobby

LEMMA ListsStart == InitLobby => ListsInv
<1> SUFFICES ASSUME InitLobby PROVE ListsInv
  OBVIOUS
<1>1. PICK auth : auth = Chore("Auth")
  OBVIOUS
<1>2. auth.op = "Auth" /\ auth.stage = "new"
  BY <1>1, LogInTyped
<1>3. \A w \in Visitor : \A j \in DOMAIN chores[w] : chores[w][j] = auth
  BY <1>1, QuietStart DEF StartsQuietly
<1>4. AnnouncementsInv
  BY <1>2, <1>3 DEF AnnouncementsInv, ChoresTrue, Creates
<1> QED
  BY <1>4, LobbyStart, TypesStart, PhaseStart, HeardStart DEF ListsInv, RoomsBase

-----------------------------------------------------------------------------
(***************************************************************************)
(* Joins.                                                                  *)
(***************************************************************************)

\* Of two sequences: they have the same joins in them, and not more.
JoinsKept(s, t) ==
    /\ \A j \in DOMAIN t : t[j].op \in Joins => \E k \in DOMAIN s : s[k] = t[j]
    /\ \A k \in DOMAIN s : s[k].op \in Joins => \E j \in DOMAIN t : t[j] = s[k]
    /\ \A j, l \in DOMAIN t : j # l /\ t[j].op \in Joins /\ t[l].op \in Joins =>
          \E k, n \in DOMAIN s : k # n /\ s[k].op \in Joins /\ s[n].op \in Joins

LEMMA SameKeepsJoins == ASSUME NEW s PROVE JoinsKept(s, s)
BY DEF JoinsKept

LEMMA TurnedKeepsJoins ==
    ASSUME NEW s, NEW t, NEW i, NEW a, Turned(s, t, i, a),
           i \in DOMAIN s => s[i].op \notin Joins, a \in DOMAIN t => t[a].op \notin Joins
    PROVE  JoinsKept(s, t)
<1>1. PICK m : Through(s, t, i, a, m)
  BY DEF Turned
<1>2. \A j \in DOMAIN t : t[j].op \in Joins => j \in DOMAIN t \ {a} /\ m[j] \in DOMAIN s /\ s[m[j]] = t[j]
  BY <1>1 DEF Through
<1>3. \A k \in DOMAIN s : s[k].op \in Joins => \E j \in DOMAIN t : t[j] = s[k]
  <2> SUFFICES ASSUME NEW k \in DOMAIN s, s[k].op \in Joins PROVE \E j \in DOMAIN t : t[j] = s[k]
    OBVIOUS
  <2>1. PICK j \in DOMAIN t \ {a} : m[j] = k
    BY <1>1 DEF Through
  <2> QED
    BY <1>1, <2>1 DEF Through
<1>4. ASSUME NEW j \in DOMAIN t, NEW l \in DOMAIN t, j # l, t[j].op \in Joins, t[l].op \in Joins
      PROVE  \E k, n \in DOMAIN s : k # n /\ s[k].op \in Joins /\ s[n].op \in Joins
  <2>1. m[j] # m[l]
    BY <1>1, <1>2, <1>4 DEF Through
  <2> QED
    BY <1>2, <1>4, <2>1
<1> QED
  BY <1>2, <1>3, <1>4 DEF JoinsKept

LEMMA LongerKeepsJoins ==
    ASSUME NEW q, NEW r, NEW fresh, Longer(q, r, fresh), \A e \in fresh : e.op \notin Joins
    PROVE  JoinsKept(q, r)
BY DEF Longer, JoinsKept

LEMMA ShrankKeepsJoins ==
    ASSUME NEW q, NEW r, Shrank(q, r), q[1].op \notin Joins
    PROVE  JoinsKept(q, r)
<1>1. /\ \A k \in DOMAIN r : k + 1 \in DOMAIN q /\ r[k] = q[k + 1]
      /\ \A k \in DOMAIN q : k = 1 \/ (k - 1 \in DOMAIN r /\ r[k - 1] = q[k])
      /\ DOMAIN r \subseteq Nat
  BY ShrankFrom
<1>2. \A j, l \in DOMAIN r : j # l => j + 1 # l + 1
  BY <1>1
<1> QED
  BY <1>1, <1>2 DEF JoinsKept

-----------------------------------------------------------------------------
\* What a user has joined, it stays in.
BelongsStay(w) == \A id : Belongs(w, id) => Belongs(w, id)'
NowSound(w, chore) == JoinSound(w, chore)'

LEMMA StillBelongs ==
    ASSUME TablesInv, TablesInv', NEW sid, RowsMove(sid), UsersStay, puzzled \subseteq puzzled', NEW w \in Visitor
    PROVE  BelongsStay(w)
<1>1. db.serial \in Nat /\ db'.serial \in Nat /\ db.serial <= db'.serial
  BY DEF TablesInv, RowsMove
<1>2. visit'[w].user = visit[w].user
  BY DEF UsersStay
<1>3. ASSUME NEW id, Belongs(w, id) PROVE Belongs(w, id)'
  <2>1. CASE id \in puzzled
    BY <2>1 DEF Belongs
  <2>2. CASE id \in 0 .. db.serial /\ (id \notin DOMAIN db.rooms \/ IsMember(visit[w].user, id))
    <3>1. id \in 0 .. db'.serial
      BY <1>1, <2>2
    <3>2. PICK user : user = visit[w].user
      OBVIOUS
    <3>3. id \in DOMAIN db'.rooms => id \in DOMAIN db.rooms /\ (IsMember(user, id) => IsMember(user, id)')
      BY <2>2 DEF RowsMove
    <3>4. id \notin DOMAIN db'.rooms \/ IsMember(user, id)'
      BY <2>2, <3>2, <3>3
    <3>5. IsMember(user, id)' => IsMember(visit[w].user, id)'
      BY <1>2, <3>2 DEF IsMember
    <3> QED
      BY <3>1, <3>4, <3>5 DEF Belongs
  <2> QED
    BY <1>3, <2>1, <2>2 DEF Belongs
<1> QED
  BY <1>3 DEF BelongsStay

LEMMA StillSound ==
    ASSUME TablesInv, TablesInv', NEW sid, RowsMove(sid), UsersStay, puzzled \subseteq puzzled', NEW w \in Visitor,
           NEW chore, JoinSound(w, chore)
    PROVE  NowSound(w, chore)
<1>1. db.serial \in Nat /\ db'.serial \in Nat /\ db.serial <= db'.serial
  BY DEF TablesInv, RowsMove
<1>2. PICK user, id : user = visit[w].user /\ id = chore.id
  OBVIOUS
<1>3. visit'[w].user = user
  BY <1>2 DEF UsersStay
<1>4. /\ chore.op = "JoinRoom" => chore.stage \in {"new", "write", "enter"}
      /\ chore.op = "BecomeMember" => chore.stage \in {"new", "write"}
  BY DEF JoinSound
<1>5. chore.stage = "enter" /\ chore.op \in Joins => Belongs(w, chore.id)'
  BY StillBelongs DEF JoinSound, BelongsStay
<1>6. ASSUME chore.stage = "write", chore.op \in Joins
      PROVE  /\ id \in 1 .. db'.serial
             /\ id \notin puzzled' /\ id \in DOMAIN db'.rooms =>
                   IF chore.known THEN <<user, id>> \in DOMAIN db'.membership
                   ELSE <<user, id>> \in DOMAIN db'.membership => IsMember(user, id)'
  <2>1. id \in 1 .. db.serial
    BY <1>2, <1>6 DEF JoinSound
  <2>2. id \in 1 .. db'.serial /\ id \in 0 .. db.serial
    BY <1>1, <2>1
  <2>3. id \notin puzzled' /\ id \in DOMAIN db.rooms =>
                   IF chore.known THEN <<user, id>> \in DOMAIN db.membership
                   ELSE <<user, id>> \in DOMAIN db.membership => IsMember(user, id)
    BY <1>2, <1>6 DEF JoinSound
  <2>4. id \in DOMAIN db'.rooms =>
          /\ id \in DOMAIN db.rooms
          /\ <<user, id>> \in DOMAIN db.membership => <<user, id>> \in DOMAIN db'.membership
          /\ IsMember(user, id) => IsMember(user, id)'
          /\ <<user, id>> \in DOMAIN db'.membership => <<user, id>> \in DOMAIN db.membership \/ IsMember(user, id)'
    BY <2>2 DEF RowsMove
  <2> QED
    BY <2>2, <2>3, <2>4
<1>7. IsMember(user, id)' => IsMember(visit[w].user, chore.id)'
  BY <1>2, <1>3 DEF IsMember
<1> QED
  BY <1>2, <1>3, <1>4, <1>5, <1>6, <1>7 DEF NowSound, JoinSound

SoundRequests == \A v \in Visitor : \A i \in DOMAIN chores[v] : JoinSound(v, chores[v][i])

LEMMA RequestsStaySound ==
    ASSUME TablesInv, TablesInv', NEW sid, RowsMove(sid), UsersStay, puzzled \subseteq puzzled', SoundRequests,
           NEW v \in Visitor, NEW i, NEW a, ChoresTurned(v, i, a),
           NEW new, a \in DOMAIN chores'[v] => chores'[v][a] = new /\ NowSound(v, new)
    PROVE  SoundRequests'
<1> SUFFICES ASSUME NEW w \in Visitor, NEW j \in DOMAIN chores'[w] PROVE JoinSound(w, chores[w][j])'
  BY DEF SoundRequests
<1>1. PICK chore : chore = chores'[w][j]
  OBVIOUS
<1>2. NowSound(w, chore)
  <2>1. CASE w = v /\ j = a
    BY <1>1, <2>1
  <2>2. CASE ~(w = v /\ j = a)
    <3>1. PICK k \in DOMAIN chores[w] : chores'[w][j] = chores[w][k]
      BY <2>2, OthersWereThere
    <3>2. JoinSound(w, chore)
      BY <1>1, <3>1 DEF SoundRequests
    <3> QED
      BY <3>2, StillSound
  <2> QED
    BY <2>1, <2>2
<1> QED
  BY <1>1, <1>2 DEF NowSound, JoinSound

LEMMA NoJoinIsSound ==
    ASSUME NEW w, NEW chore, chore.op \notin Joins \/ (chore.op \in Joins /\ chore.stage = "new")
    PROVE  NowSound(w, chore)
BY DEF NowSound, JoinSound, Joins

JoinedWell(w) == JoiningOf(w) /\ \A lists \in Bases(w) : MineBelong(w, lists.mine)

LEMMA JoinParts == JoinInv <=> SoundRequests /\ \A v \in Visitor \ hasty : JoinedWell(v)
BY DEF JoinInv, SoundRequests, JoinedWell

\* Nothing happens to the joins of a client, and it keeps showing and selecting
\* what it did, if anything.
ShowsSame(p, r)   == r.page = "chat" => p.page = "chat" /\ r.header.id = p.header.id
CalmFor(w) ==
    /\ JoinsKept(chores[w], chores'[w]) /\ JoinsKept(notices[w], notices'[w])
    /\ visit'[w].room = visit[w].room /\ BelongsStay(w)
    /\ ShowsSame(lobby[w], lobby'[w]) /\ SelectionKept(lobby[w], lobby'[w])

LEMMA CalmMine ==
    ASSUME NEW w, JoinsKept(chores[w], chores'[w]), BelongsStay(w), NEW items, MineBelong(w, items)
    PROVE  MineBelong(w, items)'
<1> SUFFICES ASSUME NEW i \in DOMAIN items
             PROVE  Belongs(w, items[i].id)' \/ \E j \in DOMAIN chores'[w] : chores'[w][j].op = "JoinRoom" /\ chores'[w][j].id = items[i].id
  BY DEF MineBelong
<1>1. PICK id : id = items[i].id
  OBVIOUS
<1>2. Belongs(w, id) \/ \E j \in DOMAIN chores[w] : chores[w][j].op = "JoinRoom" /\ chores[w][j].id = id
  BY <1>1 DEF MineBelong
<1>3. CASE Belongs(w, id)
  BY <1>1, <1>3 DEF BelongsStay
<1>4. ASSUME NEW k \in DOMAIN chores[w], chores[w][k].op = "JoinRoom", chores[w][k].id = id
      PROVE  \E j \in DOMAIN chores'[w] : chores'[w][j].op = "JoinRoom" /\ chores'[w][j].id = id
  BY <1>4 DEF JoinsKept, Joins
<1> QED
  BY <1>1, <1>2, <1>3, <1>4

LEMMA SelectionStays ==
    ASSUME NEW w, SelectionKept(lobby[w], lobby'[w]), BelongsStay(w)
    PROVE  /\ \A id : SelectedIs(lobby[w], id) => SelectedIs(lobby'[w], id)
           /\ SelectedBelongs(w) => SelectedBelongs(w)'
<1>1. SelectedBelongs(w) => SelectedBelongs(w)'
  <2> SUFFICES ASSUME SelectedBelongs(w), HasSelected(lobby'[w]) PROVE Belongs(w, GetSelectedRoom(lobby[w]).id)'
    BY DEF SelectedBelongs
  <2>1. PICK id : id = GetSelectedRoom(lobby[w]).id
    OBVIOUS
  <2>2. Belongs(w, id)' /\ GetSelectedRoom(lobby'[w]).id = id
    BY <2>1 DEF SelectionKept, SelectedBelongs, BelongsStay
  <2> QED
    BY <2>2
<1> QED
  BY <1>1 DEF SelectionKept, SelectedIs

LEMMA CalmJoining ==
    ASSUME NEW w, JoiningOf(w), CalmFor(w)
    PROVE  JoiningOf(w)'
<1>1. /\ \A j \in DOMAIN chores'[w] : chores'[w][j].op \in Joins => \E k \in DOMAIN chores[w] : chores[w][k] = chores'[w][j]
      /\ \A j \in DOMAIN notices'[w] : notices'[w][j].op \in Joins => \E k \in DOMAIN notices[w] : notices[w][k] = notices'[w][j]
  BY DEF CalmFor, JoinsKept
<1>2. /\ \A i, j \in DOMAIN chores'[w] : chores'[w][i].op \in Joins /\ chores'[w][j].op \in Joins => i = j
      /\ \A i, j \in DOMAIN notices'[w] : notices'[w][i].op \in Joins /\ notices'[w][j].op \in Joins => i = j
  BY DEF CalmFor, JoinsKept, JoiningOf
<1>3. \A i \in DOMAIN chores'[w], j \in DOMAIN notices'[w] : ~(chores'[w][i].op \in Joins /\ notices'[w][j].op \in Joins)
  BY <1>1 DEF JoiningOf
<1>4. "JoinRoom" \in Joins /\ "BecomeMember" \in Joins
  BY DEF Joins
<1>5. \/ \E i \in DOMAIN chores'[w] : chores'[w][i].op = "JoinRoom"
      \/ \E j \in DOMAIN notices'[w] : notices'[w][j].op = "JoinRoom"
      \/ lobby'[w].page = "chat" => lobby'[w].header.id = visit'[w].room
  <2>1. CASE \E i \in DOMAIN chores[w] : chores[w][i].op = "JoinRoom"
    BY <1>4, <2>1 DEF CalmFor, JoinsKept
  <2>2. CASE \E j \in DOMAIN notices[w] : notices[w][j].op = "JoinRoom"
    BY <1>4, <2>2 DEF CalmFor, JoinsKept
  <2>3. CASE lobby[w].page = "chat" => lobby[w].header.id = visit[w].room
    BY <2>3 DEF CalmFor, ShowsSame
  <2> QED
    BY <2>1, <2>2, <2>3 DEF JoiningOf
<1>6. /\ \A id : SelectedIs(lobby[w], id) => SelectedIs(lobby'[w], id)
      /\ SelectedBelongs(w) => SelectedBelongs(w)'
  BY SelectionStays DEF CalmFor
<1>7. ASSUME NEW i \in DOMAIN chores'[w]
      PROVE  /\ chores'[w][i].op \in Joins => SelectedIs(lobby'[w], chores'[w][i].id)
             /\ chores'[w][i].op = "BecomeMember" => SelectedBelongs(w)'
  BY <1>1, <1>4, <1>6 DEF JoiningOf
<1>8. ASSUME NEW j \in DOMAIN notices'[w]
      PROVE  /\ notices'[w][j].op = "JoinRoom" =>
                   notices'[w][j].ok /\ SelectedIs(lobby'[w], visit'[w].room) /\ Belongs(w, visit[w].room)'
             /\ notices'[w][j].op = "BecomeMember" => SelectedBelongs(w)'
  <2>1. visit'[w].room = visit[w].room
    BY DEF CalmFor
  <2>2. PICK room : room = visit[w].room
    OBVIOUS
  <2>3. ASSUME notices'[w][j].op = "JoinRoom"
        PROVE  notices'[w][j].ok /\ SelectedIs(lobby'[w], visit'[w].room) /\ Belongs(w, visit[w].room)'
    <3>1. PICK k \in DOMAIN notices[w] : notices[w][k] = notices'[w][j]
      BY <1>1, <1>4, <2>3
    <3>2. notices[w][k].ok /\ SelectedIs(lobby[w], room) /\ Belongs(w, room)
      BY <2>2, <2>3, <3>1 DEF JoiningOf
    <3>3. SelectedIs(lobby'[w], room) /\ Belongs(w, room)'
      BY <1>6, <3>2 DEF CalmFor, BelongsStay
    <3> QED
      BY <2>1, <2>2, <3>1, <3>2, <3>3
  <2>4. notices'[w][j].op = "BecomeMember" => SelectedBelongs(w)'
    BY <1>1, <1>4, <1>6 DEF JoiningOf
  <2> QED
    BY <2>3, <2>4
<1> QED
  BY <1>2, <1>3, <1>5, <1>7, <1>8 DEF JoiningOf

-----------------------------------------------------------------------------
\* No join of the client is under way.
NoJoins(w) ==
    /\ \A i \in DOMAIN chores[w] : chores[w][i].op \notin Joins
    /\ \A j \in DOMAIN notices[w] : notices[w][j].op \notin Joins

LEMMA NoneJoins ==
    ASSUME NEW w, NoJoins(w)', lobby'[w].page = "chat" => lobby'[w].header.id = visit'[w].room
    PROVE  JoiningOf(w)'
<1>1. "JoinRoom" \in Joins /\ "BecomeMember" \in Joins
  BY DEF Joins
<1> QED
  BY <1>1 DEF NoJoins, JoiningOf

\* One request of the client is a join.
LEMMA OneIsAsked ==
    ASSUME NEW w, NEW a \in DOMAIN chores'[w], chores'[w][a].op \in Joins,
           \A j \in DOMAIN chores'[w] : j = a \/ chores'[w][j].op \notin Joins,
           \A j \in DOMAIN notices'[w] : notices'[w][j].op \notin Joins,
           SelectedIs(lobby'[w], chores'[w][a].id),
           \/ chores'[w][a].op = "JoinRoom"
           \/ (lobby'[w].page = "chat" => lobby'[w].header.id = visit'[w].room) /\ SelectedBelongs(w)'
    PROVE  JoiningOf(w)'
<1>1. "JoinRoom" \in Joins /\ "BecomeMember" \in Joins
  BY DEF Joins
<1>2. \A i, j \in DOMAIN chores'[w] : chores'[w][i].op \in Joins /\ chores'[w][j].op \in Joins => i = j
  OBVIOUS
<1>3. ASSUME NEW i \in DOMAIN chores'[w]
      PROVE  /\ chores'[w][i].op \in Joins => SelectedIs(lobby'[w], chores'[w][i].id)
             /\ chores'[w][i].op = "BecomeMember" => SelectedBelongs(w)'
  BY <1>1
<1> QED
  BY <1>1, <1>2, <1>3 DEF JoiningOf

\* One answer to a join is on its way.
LEMMA OneIsTold ==
    ASSUME NEW w, \A j \in DOMAIN chores'[w] : chores'[w][j].op \notin Joins,
           NEW k \in DOMAIN notices'[w], notices'[w][k].op \in Joins,
           \A j \in DOMAIN notices'[w] : j = k \/ notices'[w][j].op \notin Joins,
           notices'[w][k].op = "JoinRoom" =>
               notices'[w][k].ok /\ SelectedIs(lobby'[w], visit'[w].room) /\ Belongs(w, visit[w].room)',
           notices'[w][k].op = "BecomeMember" =>
               (lobby'[w].page = "chat" => lobby'[w].header.id = visit'[w].room) /\ SelectedBelongs(w)'
    PROVE  JoiningOf(w)'
<1>1. "JoinRoom" \in Joins /\ "BecomeMember" \in Joins
  BY DEF Joins
<1>2. \/ \E j \in DOMAIN notices'[w] : notices'[w][j].op = "JoinRoom"
      \/ lobby'[w].page = "chat" => lobby'[w].header.id = visit'[w].room
  BY DEF Joins
<1>3. ASSUME NEW j \in DOMAIN notices'[w]
      PROVE  /\ notices'[w][j].op = "JoinRoom" =>
                   notices'[w][j].ok /\ SelectedIs(lobby'[w], visit'[w].room) /\ Belongs(w, visit[w].room)'
             /\ notices'[w][j].op = "BecomeMember" => SelectedBelongs(w)'
  BY <1>1
<1>4. /\ \A i \in DOMAIN chores'[w] : chores'[w][i].op \notin Joins
      /\ \A i \in DOMAIN chores'[w] : chores'[w][i].op # "BecomeMember"
  BY <1>1
<1> QED
  BY <1>1, <1>2, <1>3, <1>4 DEF JoiningOf

\* A step that leaves the joins of every client as they are.
CalmStep(v, i, a) ==
    /\ NoAuth(v, i, a)
    /\ i \in DOMAIN chores[v] => chores[v][i].op \notin Joins
    /\ a \in DOMAIN chores'[v] => chores'[v][a].op \notin Joins
    /\ \A w \in Visitor : \E fresh : /\ Longer(notices[w], notices'[w], fresh)
                                     /\ \A e \in fresh : e.op \notin Joins \cup {"Auth"}
    /\ UNCHANGED lobby
    /\ \A w \in Visitor : visit'[w].room = visit[w].room /\ BelongsStay(w)

LEMMA ListsStay ==
    ASSUME NEW v \in Visitor, NEW i, NEW a, CalmStep(v, i, a), NEW w \in Visitor
    PROVE  Bases(w)' = Bases(w)
<1>1. PICK fresh : Longer(notices[w], notices'[w], fresh) /\ \A e \in fresh : e.op \notin Joins \cup {"Auth"}
  BY DEF CalmStep
<1>2. ToldLists(w)' = ToldLists(w)
  BY <1>1, LongerToldStays
<1>3. DoneLists(w)' = DoneLists(w)
  BY DoneListsStay DEF CalmStep
<1>4. OwnLists(w)' = OwnLists(w)
  BY DEF CalmStep, OwnLists
<1>5. /\ Bases(w) = OwnLists(w) \cup DoneLists(w) \cup ToldLists(w)
      /\ Bases(w)' = OwnLists(w)' \cup DoneLists(w)' \cup ToldLists(w)'
  BY DEF Bases, OwnLists, DoneLists, ToldLists
<1> QED
  BY <1>2, <1>3, <1>4, <1>5

LEMMA ChoresKeepJoins ==
    ASSUME NEW v \in Visitor, NEW i, NEW a, ChoresTurned(v, i, a), i \in DOMAIN chores[v] => chores[v][i].op \notin Joins,
           a \in DOMAIN chores'[v] => chores'[v][a].op \notin Joins, NEW w \in Visitor
    PROVE  JoinsKept(chores[w], chores'[w])
<1>1. CASE w = v
  BY <1>1, TurnedKeepsJoins DEF ChoresTurned
<1>2. CASE w # v
  BY <1>2, SameKeepsJoins DEF ChoresTurned
<1> QED
  BY <1>1, <1>2

LEMMA CalmStepJoins ==
    ASSUME NEW v \in Visitor, NEW i, NEW a, CalmStep(v, i, a), NEW w \in Visitor, JoinedWell(w)
    PROVE  JoinedWell(w)'
<1>1. JoinsKept(chores[w], chores'[w])
  BY ChoresKeepJoins DEF CalmStep, NoAuth
<1>2. JoinsKept(notices[w], notices'[w])
  <2>1. PICK fresh : Longer(notices[w], notices'[w], fresh) /\ \A e \in fresh : e.op \notin Joins \cup {"Auth"}
    BY DEF CalmStep
  <2> QED
    BY <2>1, LongerKeepsJoins
<1>3. CalmFor(w)
  BY <1>1, <1>2 DEF CalmStep, CalmFor, ShowsSame, SelectionKept
<1>4. JoiningOf(w)'
  BY <1>3, CalmJoining DEF JoinedWell
<1>5. Bases(w)' = Bases(w)
  BY ListsStay
<1>6. ASSUME NEW lists \in Bases(w) PROVE MineBelong(w, lists.mine)'
  <2>1. PICK items : items = lists.mine
    OBVIOUS
  <2>2. MineBelong(w, items)'
    BY <1>3, <2>1, CalmMine DEF JoinedWell, CalmFor
  <2> QED
    BY <2>1, <2>2 DEF MineBelong
<1> QED
  BY <1>4, <1>5, <1>6 DEF JoinedWell

\* Nothing happens to the client but in the tables.
LEMMA UntouchedJoins ==
    ASSUME NEW w, Untouched(w), visit'[w].room = visit[w].room, BelongsStay(w), JoinedWell(w)
    PROVE  JoinedWell(w)'
<1>1. CalmFor(w)
  BY SameKeepsJoins DEF Untouched, CalmFor, ShowsSame, SelectionKept
<1>2. JoiningOf(w)'
  BY <1>1, CalmJoining DEF JoinedWell
<1>3. Bases(w)' = Bases(w)
  BY DEF Untouched, Bases, AuthsDone, AuthsTold
<1>4. ASSUME NEW lists \in Bases(w) PROVE MineBelong(w, lists.mine)'
  <2>1. PICK items : items = lists.mine
    OBVIOUS
  <2>2. MineBelong(w, items)'
    BY <1>1, <2>1, CalmMine DEF JoinedWell, CalmFor
  <2> QED
    BY <2>1, <2>2 DEF MineBelong
<1> QED
  BY <1>2, <1>3, <1>4 DEF JoinedWell

\* What the steps have in common: the tables move on, joins may be hurried.
Moves(v, i, a, sid) ==
    /\ RowsMove(sid) /\ UsersStay /\ puzzled \subseteq puzzled' /\ hasty \subseteq hasty'
    /\ ChoresTurned(v, i, a)

LEMMA CalmStepKeeps ==
    ASSUME TablesInv, TablesInv', JoinInv, NEW v \in Visitor, NEW i, NEW a, NEW sid, Moves(v, i, a, sid), CalmStep(v, i, a)
    PROVE  JoinInv'
<1>1. SoundRequests'
  <2>1. PICK new : new = chores'[v][a]
    OBVIOUS
  <2>2. a \in DOMAIN chores'[v] => NowSound(v, new)
    BY <2>1, NoJoinIsSound DEF CalmStep
  <2> QED
    BY <2>1, <2>2, JoinParts, RequestsStaySound DEF Moves
<1>2. \A w \in Visitor \ hasty' : JoinedWell(w)'
  BY JoinParts, CalmStepJoins DEF Moves
<1> QED
  BY <1>1, <1>2 DEF JoinInv, SoundRequests, JoinedWell

-----------------------------------------------------------------------------
\* The quiet steps of handlers that are not those of joins.
RoomsOfVisitorsStay == \A w \in Visitor : visit'[w].room = visit[w].room

LEMMA HandledTold ==
    ASSUME NEW v \in Visitor, NEW i \in DOMAIN chores[v], NEW sid, Handled(v, i, sid), NEW w \in Visitor
    PROVE  \/ notices'[w] = notices[w]
           \/ w = v /\ \E e : e.op = chores[v][i].op /\ Grew(notices[v], notices'[v], e)
<1>1. CASE EndsQuietly(v, i, sid)
  <2>1. PICK ok : RepliedTo(v, i, [op |-> chores[v][i].op, ok |-> ok])
    BY <1>1 DEF EndsQuietly
  <2>2. PICK e : e = [op |-> chores[v][i].op, ok |-> ok]
    OBVIOUS
  <2>3. e.op = chores[v][i].op
    BY <2>2
  <2> QED
    BY <2>1, <2>2, <2>3 DEF RepliedTo
<1>2. CASE ~EndsQuietly(v, i, sid)
  BY <1>2 DEF Handled, GoesOnQuietly, GoesOnCreated, GoesOnNamed, GoesOnDropped, RequestGoesOn, Passed
<1> QED
  BY <1>1, <1>2

LEMMA HandledJoins ==
    ASSUME ListsInv, LobbyInv', JoinInv, NEW v \in Visitor, NEW i \in DOMAIN chores[v], NEW sid, Handled(v, i, sid),
           chores[v][i].op \notin Joins, RoomsOfVisitorsStay, hasty' = hasty
    PROVE  JoinInv'
<1>0. RoomsBase /\ TablesInv /\ TablesInv'
  BY DEF ListsInv, RoomsBase, LobbyInv
<1>1. PICK a : QuietBoxes(v, i, a) /\ SameRoomAsked(v, i, a)
  BY <1>0, HandledTurns
<1>2. RowsMove(sid) /\ UsersStay /\ puzzled \subseteq puzzled' /\ UNCHANGED lobby /\ chores[v][i].op # "Auth"
  BY DEF Handled, OthersStay
<1>3. Moves(v, i, a, sid)
  BY <1>1, <1>2 DEF Moves, QuietBoxes
<1>4. ASSUME NEW w \in Visitor
      PROVE  \E fresh : Longer(notices[w], notices'[w], fresh) /\ \A e \in fresh : e.op \notin Joins \cup {"Auth"}
  <2>1. CASE notices'[w] = notices[w]
    <3>1. Longer(notices[w], notices'[w], {})
      BY <2>1 DEF Longer
    <3> QED
      BY <3>1
  <2>2. ASSUME NEW e, w = v, e.op = chores[v][i].op, Grew(notices[v], notices'[v], e)
        PROVE  \E fresh : Longer(notices[w], notices'[w], fresh) /\ \A f \in fresh : f.op \notin Joins \cup {"Auth"}
    <3>1. Longer(notices[w], notices'[w], {e})
      BY <2>2, GrewLonger
    <3> QED
      BY <1>2, <2>2, <3>1
  <2> QED
    BY <2>1, <2>2, HandledTold
<1>5. CalmStep(v, i, a)
  <2>1. NoAuth(v, i, a)
    BY <1>1, QuietHears
  <2>2. \A w \in Visitor : BelongsStay(w)
    BY <1>0, <1>2, StillBelongs
  <2> QED
    BY <1>1, <1>2, <1>4, <2>1, <2>2 DEF CalmStep, SameRoomAsked, RoomsOfVisitorsStay
<1> QED
  BY <1>0, <1>3, <1>5, CalmStepKeeps

\* The end of a request that is announced to all.
LEMMA AnnouncedJoins ==
    ASSUME ListsInv, LobbyInv', JoinInv, NEW v \in Visitor, NEW i \in DOMAIN chores[v], NEW op \in Announcements,
           chores[v][i].op = op, NEW notice, notice.op \in Tidings, sendToAll(v, i, notice),
           UNCHANGED <<db, visit, lobby, hasty>>
    PROVE  JoinInv'
<1>0. RoomsBase /\ TablesInv /\ TablesInv' /\ Seqs
  BY BaseSeqs DEF ListsInv, RoomsBase, LobbyInv
<1>1. PICK reply : reply = [op |-> op, ok |-> TRUE]
  OBVIOUS
<1>2. Announced(v, i, notice, reply)
  BY <1>0, <1>1, SendAnnounces
<1>3. /\ op \notin Joins \cup {"Auth"} /\ reply.op = op /\ notice.op \notin Joins \cup {"Auth"}
  BY <1>1 DEF Announcements, Joins, Tidings
<1>4. ChoresTurned(v, i, 0) /\ 0 \notin DOMAIN chores'[v] /\ puzzled \subseteq puzzled'
  BY <1>2 DEF Announced
<1>5. RowsMove(0) /\ UsersStay
  BY <1>0, SameTablesMove, VisitMoves, Zenon DEF RoomsBase, TypesInv
<1>6. Moves(v, i, 0, 0)
  BY <1>4, <1>5 DEF Moves
<1>7. ASSUME NEW w \in Visitor
      PROVE  \E fresh : Longer(notices[w], notices'[w], fresh) /\ \A e \in fresh : e.op \notin Joins \cup {"Auth"}
  <2>1. Longer(notices[w], notices'[w], {notice, reply})
    BY <1>2, PostedLonger DEF Announced
  <2> QED
    BY <1>3, <2>1
<1>8. CalmStep(v, i, 0)
  <2>1. NoAuth(v, i, 0)
    BY <1>3, <1>4 DEF NoAuth
  <2>2. \A w \in Visitor : BelongsStay(w)
    BY <1>0, <1>4, <1>5, StillBelongs
  <2> QED
    BY <1>3, <1>4, <1>7, <2>1, <2>2 DEF CalmStep
<1> QED
  BY <1>0, <1>6, <1>8, CalmStepKeeps

\* The request is the client's only join.
OnlyJoin(v, i) ==
    /\ \A j \in DOMAIN chores[v] : j = i \/ chores[v][j].op \notin Joins
    /\ \A j \in DOMAIN notices[v] : notices[v][j].op \notin Joins
    /\ SelectedIs(lobby[v], chores[v][i].id)
    /\ chores[v][i].op = "BecomeMember" =>
          SelectedBelongs(v) /\ (lobby[v].page = "chat" => lobby[v].header.id = visit[v].room)

LEMMA JoinIsOnly ==
    ASSUME NEW v, JoiningOf(v), NEW i \in DOMAIN chores[v], chores[v][i].op \in Joins
    PROVE  OnlyJoin(v, i)
<1>1. "JoinRoom" \in Joins /\ "BecomeMember" \in Joins /\ "JoinRoom" # "BecomeMember"
  BY DEF Joins
<1>2. /\ \A j \in DOMAIN chores[v] : j = i \/ chores[v][j].op \notin Joins
      /\ \A j \in DOMAIN notices[v] : notices[v][j].op \notin Joins
      /\ SelectedIs(lobby[v], chores[v][i].id)
      /\ chores[v][i].op = "BecomeMember" => SelectedBelongs(v)
  BY DEF JoiningOf
<1>3. ASSUME chores[v][i].op = "BecomeMember" PROVE lobby[v].page = "chat" => lobby[v].header.id = visit[v].room
  <2>1. \A j \in DOMAIN chores[v] : chores[v][j].op # "JoinRoom"
    BY <1>1, <1>2, <1>3
  <2>2. \A j \in DOMAIN notices[v] : notices[v][j].op # "JoinRoom"
    BY <1>1, <1>2
  <2> QED
    BY <2>1, <2>2 DEF JoiningOf
<1> QED
  BY <1>2, <1>3 DEF OnlyJoin

\* What is listed as one's own stays so, as a join goes on or ends.
LEMMA MineStays ==
    ASSUME NEW v \in Visitor, NEW i, NEW a, NoAuth(v, i, a), AtMost(notices[v], notices'[v]), UNCHANGED lobby,
           BelongsStay(v), JoinedWell(v),
           \A j \in DOMAIN chores[v] : j = i \/ chores[v][j].op \notin Joins,
           NEW old, i \in DOMAIN chores[v] => chores[v][i] = old,
           \/ i \in DOMAIN chores[v] => old.op # "JoinRoom"
           \/ a \in DOMAIN chores'[v] /\ chores'[v][a].op = old.op /\ chores'[v][a].id = old.id
           \/ Belongs(v, old.id)'
    PROVE  \A lists \in Bases(v)' : MineBelong(v, lists.mine)'
<1>1. Bases(v)' = Bases(v)
  <2>1. DoneLists(v)' = DoneLists(v) /\ ToldLists(v)' = ToldLists(v)
    BY DoneListsStay, ToldListsStay
  <2>2. OwnLists(v)' = OwnLists(v)
    BY DEF OwnLists
  <2>3. Bases(v)' = OwnLists(v)' \cup DoneLists(v)' \cup ToldLists(v)'
    BY DEF Bases, OwnLists, DoneLists, ToldLists
  <2> QED
    BY <2>1, <2>2, <2>3, BasesParts
<1>2. ASSUME NEW lists \in Bases(v), NEW k \in DOMAIN lists.mine
      PROVE  Belongs(v, lists.mine[k].id)'
             \/ \E j \in DOMAIN chores'[v] : chores'[v][j].op = "JoinRoom" /\ chores'[v][j].id = lists.mine[k].id
  <2>1. PICK id : id = lists.mine[k].id
    OBVIOUS
  <2>2. Belongs(v, id) \/ \E j \in DOMAIN chores[v] : chores[v][j].op = "JoinRoom" /\ chores[v][j].id = id
    BY <1>2, <2>1 DEF JoinedWell, MineBelong
  <2>3. CASE Belongs(v, id)
    BY <2>1, <2>3 DEF BelongsStay
  <2>4. CASE \E j \in DOMAIN chores[v] : chores[v][j].op = "JoinRoom" /\ chores[v][j].id = id
    <3>1. i \in DOMAIN chores[v] /\ old.op = "JoinRoom" /\ old.id = id
      BY <2>4 DEF Joins
    <3> QED
      BY <2>1, <3>1
  <2> QED
    BY <2>2, <2>3, <2>4
<1> QED
  BY <1>1, <1>2 DEF MineBelong

\* A join goes on.
LEMMA JoinGoesOn ==
    ASSUME NEW v \in Visitor, NEW i \in DOMAIN chores[v], NEW old, old = chores[v][i], old.op \in Joins,
           NEW new, Passed(v, i, new), new.op = old.op, new.id = old.id, UNCHANGED lobby,
           BelongsStay(v), old.op = "BecomeMember" => visit'[v].room = visit[v].room, JoinedWell(v)
    PROVE  JoinedWell(v)'
<1>1. OnlyJoin(v, i)
  BY JoinIsOnly DEF JoinedWell
<1>2. ChoresTurned(v, i, i) /\ i \in DOMAIN chores'[v] /\ chores'[v][i] = new /\ notices'[v] = notices[v]
  BY DEF Passed
<1>3. NoAuth(v, i, i)
  BY <1>2 DEF NoAuth, Joins
<1>4. \A j \in DOMAIN chores'[v] : j = i \/ chores'[v][j].op \notin Joins
  BY <1>1, <1>2, OthersWereThere DEF OnlyJoin
<1>5. old.op = "BecomeMember" =>
         SelectedBelongs(v)' /\ (lobby'[v].page = "chat" => lobby'[v].header.id = visit'[v].room)
  <2> SUFFICES ASSUME old.op = "BecomeMember"
               PROVE  SelectedBelongs(v)' /\ (lobby'[v].page = "chat" => lobby'[v].header.id = visit'[v].room)
    OBVIOUS
  <2>1. SelectionKept(lobby[v], lobby'[v])
    BY DEF SelectionKept
  <2>2. SelectedBelongs(v) => SelectedBelongs(v)'
    BY <2>1, SelectionStays
  <2> QED
    BY <1>1, <2>2 DEF OnlyJoin
<1>6. new.op = "JoinRoom" \/ new.op = "BecomeMember"
  BY DEF Joins
<1>7. JoiningOf(v)'
  BY <1>1, <1>2, <1>4, <1>5, <1>6, OneIsAsked DEF OnlyJoin
<1>8. AtMost(notices[v], notices'[v])
  BY <1>2 DEF AtMost
<1>9. \A lists \in Bases(v)' : MineBelong(v, lists.mine)'
  BY <1>1, <1>2, <1>3, <1>8, MineStays DEF OnlyJoin
<1> QED
  BY <1>7, <1>9 DEF JoinedWell

\* A join ends, with success if it is to a room.
LEMMA JoinEnds ==
    ASSUME NEW v \in Visitor, NEW i \in DOMAIN chores[v], NEW old, old = chores[v][i], old.op \in Joins,
           NEW reply, RepliedTo(v, i, reply), reply.op = old.op, UNCHANGED lobby, BelongsStay(v), JoinedWell(v),
           old.op = "BecomeMember" => visit'[v].room = visit[v].room,
           old.op = "JoinRoom" => reply.ok /\ visit'[v].room = old.id /\ Belongs(v, old.id)'
    PROVE  JoinedWell(v)'
<1>1. OnlyJoin(v, i)
  BY JoinIsOnly DEF JoinedWell
<1>2. ChoresTurned(v, i, 0) /\ 0 \notin DOMAIN chores'[v] /\ Grew(notices[v], notices'[v], reply)
  BY DEF RepliedTo
<1>3. NoAuth(v, i, 0)
  BY <1>2 DEF NoAuth, Joins
<1>4. \A j \in DOMAIN chores'[v] : chores'[v][j].op \notin Joins
  BY <1>1, <1>2, OthersWereThere DEF OnlyJoin
<1>5. PICK n \in Nat : /\ DOMAIN notices[v] = 1 .. n /\ DOMAIN notices'[v] = 1 .. n + 1
                       /\ \A k \in 1 .. n : notices'[v][k] = notices[v][k]
                       /\ notices'[v][n + 1] = reply
  BY <1>2 DEF Grew
<1>6. n + 1 \in DOMAIN notices'[v] /\ \A j \in DOMAIN notices'[v] : j = n + 1 \/ j \in DOMAIN notices[v]
  BY <1>5
<1>7. \A j \in DOMAIN notices'[v] : j = n + 1 \/ notices'[v][j].op \notin Joins
  BY <1>1, <1>5, <1>6 DEF OnlyJoin
<1>8. old.op = "BecomeMember" =>
         SelectedBelongs(v)' /\ (lobby'[v].page = "chat" => lobby'[v].header.id = visit'[v].room)
  <2> SUFFICES ASSUME old.op = "BecomeMember"
               PROVE  SelectedBelongs(v)' /\ (lobby'[v].page = "chat" => lobby'[v].header.id = visit'[v].room)
    OBVIOUS
  <2>1. SelectionKept(lobby[v], lobby'[v])
    BY DEF SelectionKept
  <2>2. SelectedBelongs(v) => SelectedBelongs(v)'
    BY <2>1, SelectionStays
  <2> QED
    BY <1>1, <2>2 DEF OnlyJoin
<1>9. PICK last : last = n + 1
  OBVIOUS
<1>10. last \in DOMAIN notices'[v] /\ notices'[v][last] = reply /\ \A j \in DOMAIN notices'[v] : j = last \/ notices'[v][j].op \notin Joins
  BY <1>5, <1>6, <1>7, <1>9
<1>11. old.op = "JoinRoom" => reply.ok /\ SelectedIs(lobby'[v], visit'[v].room) /\ Belongs(v, visit[v].room)'
  <2> SUFFICES ASSUME old.op = "JoinRoom" PROVE reply.ok /\ SelectedIs(lobby'[v], visit'[v].room) /\ Belongs(v, visit[v].room)'
    OBVIOUS
  <2>1. PICK id : id = old.id
    OBVIOUS
  <2>2. visit'[v].room = id /\ Belongs(v, id)' /\ SelectedIs(lobby[v], id)
    BY <1>1, <2>1 DEF OnlyJoin
  <2> QED
    BY <2>2 DEF Belongs
<1>12. JoiningOf(v)'
  BY <1>4, <1>8, <1>10, <1>11, OneIsTold
<1>13. AtMost(notices[v], notices'[v])
  BY <1>2 DEF AtMost, Joins, Tidings
<1>14. old.op # "JoinRoom" \/ Belongs(v, old.id)'
  OBVIOUS
<1>15. \A lists \in Bases(v)' : MineBelong(v, lists.mine)'
  BY <1>1, <1>3, <1>13, <1>14, MineStays DEF OnlyJoin
<1> QED
  BY <1>12, <1>15 DEF JoinedWell

-----------------------------------------------------------------------------
(***************************************************************************)
(* The handlers, and the joins.                                            *)
(***************************************************************************)

\* One client's step.
LEMMA OneTurnsJoins ==
    ASSUME TablesInv, TablesInv', JoinInv, NEW v \in Visitor, NEW i, NEW a, NEW sid, Moves(v, i, a, sid),
           NEW new, a \in DOMAIN chores'[v] => chores'[v][a] = new /\ NowSound(v, new),
           \A w \in Visitor : w # v => notices'[w] = notices[w] /\ lobby'[w] = lobby[w] /\ visit'[w].room = visit[w].room,
           v \notin hasty' => JoinedWell(v)'
    PROVE  JoinInv'
<1>1. SoundRequests'
  BY JoinParts, RequestsStaySound DEF Moves
<1>2. ASSUME NEW w \in Visitor \ hasty' PROVE JoinedWell(w)'
  <2>1. CASE w = v
    BY <1>2, <2>1
  <2>2. CASE w # v
    <3>1. Untouched(w)
      BY <2>2 DEF Untouched, Moves, ChoresTurned
    <3>2. BelongsStay(w)
      BY StillBelongs DEF Moves
    <3>3. JoinedWell(w)
      BY <1>2, JoinParts DEF Moves
    <3> QED
      BY <2>2, <3>1, <3>2, <3>3, UntouchedJoins
  <2> QED
    BY <2>1, <2>2
<1> QED
  BY <1>1, <1>2 DEF JoinInv, SoundRequests, JoinedWell

JoinsAside(v, sid) ==
    /\ OthersStay(sid) /\ hasty \subseteq hasty'
    /\ \A w \in Visitor : w # v => visit'[w].room = visit[w].room

LEMMA PassingJoins ==
    ASSUME RoomsBase, LobbyInv', JoinInv, NEW v \in Visitor, NEW i \in DOMAIN chores[v], NEW sid, JoinsAside(v, sid),
           NEW old, old = chores[v][i], old.op \in Joins,
           NEW new, Passed(v, i, new), new.op = old.op, new.id = old.id, NowSound(v, new),
           old.op = "BecomeMember" => visit'[v].room = visit[v].room
    PROVE  JoinInv'
<1>0. TablesInv /\ TablesInv'
  BY DEF RoomsBase, LobbyInv
<1>1. RowsMove(sid) /\ UsersStay /\ puzzled \subseteq puzzled' /\ UNCHANGED lobby /\ hasty \subseteq hasty'
  BY DEF JoinsAside, OthersStay
<1>2. ChoresTurned(v, i, i) /\ chores'[v][i] = new /\ notices' = notices
  BY DEF Passed
<1>3. Moves(v, i, i, sid)
  BY <1>1, <1>2 DEF Moves
<1>4. ASSUME v \notin hasty' PROVE JoinedWell(v)'
  <2>1. JoinedWell(v)
    BY <1>1, <1>4, JoinParts
  <2>2. BelongsStay(v)
    BY <1>0, <1>1, StillBelongs
  <2> QED
    BY <1>1, <2>1, <2>2, JoinGoesOn
<1>5. \A w \in Visitor : w # v => notices'[w] = notices[w] /\ lobby'[w] = lobby[w] /\ visit'[w].room = visit[w].room
  BY <1>1, <1>2 DEF JoinsAside
<1> QED
  BY <1>0, <1>2, <1>3, <1>4, <1>5, OneTurnsJoins

LEMMA EndingJoins ==
    ASSUME RoomsBase, LobbyInv', JoinInv, NEW v \in Visitor, NEW i \in DOMAIN chores[v], NEW sid, JoinsAside(v, sid),
           NEW old, old = chores[v][i], old.op \in Joins, NEW reply, RepliedTo(v, i, reply), reply.op = old.op,
           old.op = "BecomeMember" => visit'[v].room = visit[v].room,
           old.op = "JoinRoom" => v \in hasty' \/ (reply.ok /\ visit'[v].room = old.id /\ Belongs(v, old.id)')
    PROVE  JoinInv'
<1>0. TablesInv /\ TablesInv'
  BY DEF RoomsBase, LobbyInv
<1>1. RowsMove(sid) /\ UsersStay /\ puzzled \subseteq puzzled' /\ UNCHANGED lobby /\ hasty \subseteq hasty'
  BY DEF JoinsAside, OthersStay
<1>2. ChoresTurned(v, i, 0) /\ 0 \notin DOMAIN chores'[v] /\ \A w \in Visitor : w # v => notices'[w] = notices[w]
  BY DEF RepliedTo
<1>3. Moves(v, i, 0, sid)
  BY <1>1, <1>2 DEF Moves
<1>4. ASSUME v \notin hasty' PROVE JoinedWell(v)'
  <2>1. JoinedWell(v)
    BY <1>1, <1>4, JoinParts
  <2>2. BelongsStay(v)
    BY <1>0, <1>1, StillBelongs
  <2> QED
    BY <1>1, <1>4, <2>1, <2>2, JoinEnds
<1>5. \A w \in Visitor : w # v => notices'[w] = notices[w] /\ lobby'[w] = lobby[w] /\ visit'[w].room = visit[w].room
  BY <1>1, <1>2 DEF JoinsAside
<1> QED
  BY <1>0, <1>2, <1>3, <1>4, <1>5, OneTurnsJoins

\* What a handler has read of a membership it may write.
LEMMA ReadIsSound ==
    ASSUME RoomsBase, NEW v \in Visitor, NEW chore, chore.op \in Joins, chore.id \in DOMAIN db.rooms,
           NEW told, NEW user, user = visit[v].user, MemberKnown(told, chore, user),
           NEW new, new.op = told.op, new.id = told.id, new.known = told.known,
           \/ new.stage = "write"
           \/ new.stage = "enter" /\ chore.op = "JoinRoom" /\ told.known /\ told.object.values.membership_status = "JOINED"
    PROVE  JoinSound(v, new)
<1>1. new.op = chore.op /\ new.id = chore.id /\ (new.known <=> <<user, chore.id>> \in DOMAIN db.membership)
  BY DEF MemberKnown
<1>2. chore.id \in 1 .. db.serial /\ chore.id \in 0 .. db.serial
  BY DEF RoomsBase, LobbyInv, TablesInv
<1>3. CASE new.stage = "write"
  BY <1>1, <1>2, <1>3 DEF JoinSound, Joins
<1>4. CASE new.stage = "enter"
  <2>1. IsMember(user, chore.id)
    BY <1>4 DEF MemberKnown
  <2>2. Belongs(v, chore.id) /\ chore.op = "JoinRoom"
    BY <1>2, <1>4, <2>1 DEF Belongs
  <2> QED
    BY <1>1, <1>4, <2>2 DEF JoinSound, Joins
<1> QED
  BY <1>3, <1>4

\* What was written, or puzzles.
LEMMA EnrolledBelongs ==
    ASSUME RoomsBase, LobbyInv', NEW v \in Visitor, NEW chore, ChoreTyped(chore), chore.op \in Joins, chore.stage = "write",
           JoinSound(v, chore), NEW id, id = chore.id, setUserMembershipStatus(v, id, chore), UNCHANGED visit
    PROVE  Belongs(v, id)'
<1>0. TablesInv /\ RowsTyped
  BY DEF RoomsBase, LobbyInv, TypesInv
<1>1. PICK self : self = visit[v].user
  OBVIOUS
<1>2. id \in 1 .. db.serial
  BY DEF JoinSound
<1>3. CASE id \in puzzled' /\ db' = db
  BY <1>3 DEF Belongs
<1>4. CASE db' = Enrolled(v, id, chore.known, chore.object) /\ puzzled' = puzzled
  <2>1. PICK known, object : known = chore.known /\ object = chore.object
    OBVIOUS
  <2>2. DOMAIN object.values = {"membership_status"} /\ db' = Enrolled(v, id, known, object)
    BY <1>4, <2>1 DEF ChoreTyped
  <2>3. /\ RowsMove(0) /\ RoomsStay
        /\ known /\ <<self, id>> \in DOMAIN db.membership => IsMember(self, id)'
        /\ ~known /\ <<self, id>> \notin DOMAIN db.membership /\ id \in DOMAIN db.rooms => IsMember(self, id)'
    BY <1>0, <1>1, <2>2, EnrollingMoves
  <2>4. DOMAIN db'.rooms = DOMAIN db.rooms /\ db'.serial = db.serial
    BY <2>3 DEF RoomsStay
  <2>5. CASE id \in puzzled \/ id \notin DOMAIN db.rooms
    BY <1>0, <1>2, <1>4, <2>4, <2>5 DEF Belongs, TablesInv
  <2>6. CASE id \notin puzzled /\ id \in DOMAIN db.rooms
    <3>1. IF known THEN <<self, id>> \in DOMAIN db.membership ELSE <<self, id>> \in DOMAIN db.membership => IsMember(self, id)
      BY <1>1, <2>1, <2>6 DEF JoinSound
    <3>2. IsMember(self, id) => IsMember(self, id)'
      <4>1. id \in 0 .. db.serial /\ id \in DOMAIN db'.rooms
        BY <1>0, <1>2, <2>4, <2>6 DEF TablesInv
      <4> QED
        BY <2>3, <4>1 DEF RowsMove
    <3>3. IsMember(self, id)'
      BY <2>3, <2>6, <3>1, <3>2
    <3>4. id \in 0 .. db'.serial /\ visit'[v].user = self
      BY <1>0, <1>1, <1>2, <2>4 DEF TablesInv
    <3> QED
      BY <3>3, <3>4 DEF Belongs
  <2> QED
    BY <2>5, <2>6
<1> QED
  BY <1>3, <1>4 DEF setUserMembershipStatus

LEMMA FailureReplies ==
    ASSUME RoomsBase, NEW v \in Visitor, NEW i \in DOMAIN chores[v], NEW op, op = chores[v][i].op, Fail(v, i)
    PROVE  \E reply : reply.op = op /\ RepliedTo(v, i, reply)
<1>1. PICK reply : reply = [op |-> chores[v][i].op, ok |-> FALSE]
  OBVIOUS
<1>2. RepliedTo(v, i, reply)
  BY <1>1, BaseSeqs, ReplyAnswers DEF Fail
<1> QED
  BY <1>1, <1>2

LEMMA SuccessReplies ==
    ASSUME RoomsBase, NEW v \in Visitor, NEW i \in DOMAIN chores[v], NEW op, op = chores[v][i].op, Succeed(v, i)
    PROVE  \E reply : reply.op = op /\ reply.ok /\ RepliedTo(v, i, reply)
<1>1. PICK reply : reply = [op |-> chores[v][i].op, ok |-> TRUE]
  OBVIOUS
<1>2. RepliedTo(v, i, reply)
  BY <1>1, BaseSeqs, ReplyAnswers DEF Succeed
<1>3. reply.op = op /\ reply.ok
  BY <1>1
<1> QED
  BY <1>2, <1>3

LEMMA AsideSound ==
    ASSUME RoomsBase, LobbyInv', NEW v \in Visitor, NEW sid, OthersStay(sid), NEW chore, JoinSound(v, chore)
    PROVE  NowSound(v, chore)
BY StillSound DEF RoomsBase, LobbyInv, OthersStay

LEMMA MemberReadJoins ==
    ASSUME RoomsBase, LobbyInv', JoinInv, NEW v \in Visitor, NEW i \in DOMAIN chores[v], BecomeMemberRead(v, i), UNCHANGED lobby
    PROVE  JoinInv'
<1>0. PICK chore, told, user : chore = chores[v][i] /\ told = Membership(v, chore) /\ user = visit[v].user
  OBVIOUS
<1>1. /\ chore.op = "BecomeMember" /\ chore.stage = "new" /\ UNCHANGED <<db, visit, hasty>>
      /\ Refuse(v, i) \/ (Go(v, i, "write", told) /\ chore.id \in DOMAIN db.rooms)
  BY <1>0 DEF BecomeMemberRead, At
<1>2. OthersStay(0)
  BY <1>1, AsideQuietly DEF Refuse, Go
<1>3. JoinsAside(v, 0) /\ chore.op \in Joins /\ chore.op # "JoinRoom" /\ visit'[v].room = visit[v].room
  BY <1>1, <1>2 DEF JoinsAside, Joins
<1>4. CASE Refuse(v, i)
  <2>1. PICK reply : reply.op = chore.op /\ RepliedTo(v, i, reply)
    BY <1>0, <1>4, FailureReplies DEF Refuse
  <2> QED
    BY <1>0, <1>3, <2>1, EndingJoins
<1>5. CASE Go(v, i, "write", told) /\ chore.id \in DOMAIN db.rooms
  <2>1. MemberKnown(told, chore, user)
    BY <1>0, ChoreShaped, MembershipRead DEF RoomsBase
  <2>2. PICK new : new = [told EXCEPT !.stage = "write"]
    OBVIOUS
  <2>3. new.op = told.op /\ new.id = told.id /\ new.known = told.known /\ new.stage = "write" /\ told.op = chore.op /\ told.id = chore.id
    BY <2>1, <2>2 DEF MemberKnown, ChoreFields
  <2>4. Passed(v, i, new)
    BY <1>5, <2>2, BaseSeqs, StepPasses DEF Go
  <2>5. JoinSound(v, new)
    BY <1>0, <1>3, <1>5, <2>1, <2>3, ReadIsSound
  <2>6. NowSound(v, new)
    BY <1>2, <2>5, AsideSound
  <2> QED
    BY <1>0, <1>3, <2>3, <2>4, <2>6, PassingJoins
<1> QED
  BY <1>1, <1>4, <1>5

LEMMA MemberWriteJoins ==
    ASSUME RoomsBase, LobbyInv', JoinInv, NEW v \in Visitor, NEW i \in DOMAIN chores[v], BecomeMemberWrite(v, i), UNCHANGED lobby
    PROVE  JoinInv'
<1>0. PICK chore, id : chore = chores[v][i] /\ id = chore.id
  OBVIOUS
<1>1. /\ chore.op = "BecomeMember" /\ chore.stage = "write" /\ UNCHANGED <<visit, hasty>>
      /\ setUserMembershipStatus(v, id, chore) /\ Succeed(v, i)
  BY <1>0 DEF BecomeMemberWrite, At
<1>2. OthersStay(id)
  BY <1>0, <1>1, ChoreShaped, EnrolledAside
<1>3. JoinsAside(v, id) /\ chore.op \in Joins /\ chore.op # "JoinRoom" /\ visit'[v].room = visit[v].room
  BY <1>1, <1>2 DEF JoinsAside, Joins
<1>4. PICK reply : reply.op = chore.op /\ RepliedTo(v, i, reply)
  BY <1>0, <1>1, SuccessReplies
<1> QED
  BY <1>0, <1>3, <1>4, EndingJoins

LEMMA JoinReadJoins ==
    ASSUME RoomsBase, LobbyInv', JoinInv, NEW v \in Visitor, NEW i \in DOMAIN chores[v], JoinRead(v, i), UNCHANGED lobby
    PROVE  JoinInv'
<1>0. PICK chore, found, row, told, user, joined :
         /\ chore = chores[v][i] /\ found = Membership(v, chore)
         /\ row = Rooms(db.rooms[chore.id]) /\ told = [found EXCEPT !.row = row] /\ user = visit[v].user
         /\ joined = (found.known /\ found.object.values.membership_status = "JOINED")
  OBVIOUS
<1>1. /\ chore.op = "JoinRoom" /\ chore.stage = "new" /\ UNCHANGED db /\ visit' = [visit EXCEPT ![v].room = 0]
      /\ \/ Refuse(v, i) /\ hasty' = hasty \cup {v}
         \/ chore.id \in DOMAIN db.rooms /\ Go(v, i, IF joined THEN "enter" ELSE "write", told) /\ UNCHANGED hasty
  BY <1>0 DEF JoinRead, At
<1>2. UsersStay /\ \A w \in Visitor : visit'[w].listed = visit[w].listed /\ (w # v => visit'[w].room = visit[w].room)
  <2>1. UsersStay
    BY <1>1, VisitMoves, Zenon DEF RoomsBase, TypesInv
  <2>2. \A w \in Visitor : visit'[w].listed = visit[w].listed /\ (w # v => visit'[w].room = visit[w].room)
    BY <1>1 DEF RoomsBase, TypesInv, VisitTyped
  <2> QED
    BY <2>1, <2>2
<1>3. OthersStay(0)
  BY <1>1, <1>2, SessionAside DEF Refuse, Go
<1>4. JoinsAside(v, 0) /\ chore.op \in Joins /\ chore.op # "BecomeMember"
  BY <1>1, <1>2, <1>3 DEF JoinsAside, Joins
<1>5. CASE Refuse(v, i) /\ hasty' = hasty \cup {v}
  <2>1. PICK reply : reply.op = chore.op /\ RepliedTo(v, i, reply)
    BY <1>0, <1>5, FailureReplies DEF Refuse
  <2>2. v \in hasty'
    BY <1>5
  <2> QED
    BY <1>0, <1>4, <2>1, <2>2, EndingJoins
<1>6. CASE chore.id \in DOMAIN db.rooms /\ Go(v, i, IF joined THEN "enter" ELSE "write", told)
  <2>1. MemberKnown(found, chore, user)
    BY <1>0, ChoreShaped, MembershipRead DEF RoomsBase
  <2>2. PICK stage : stage = (IF joined THEN "enter" ELSE "write")
    OBVIOUS
  <2>3. PICK new : new = [told EXCEPT !.stage = stage]
    OBVIOUS
  <2>4. new.op = found.op /\ new.id = found.id /\ new.known = found.known /\ new.stage = stage
        /\ found.op = chore.op /\ found.id = chore.id
    BY <1>0, <2>1, <2>3 DEF MemberKnown, ChoreFields
  <2>5. Passed(v, i, new)
    BY <1>6, <2>2, <2>3, BaseSeqs, StepPasses DEF Go
  <2>6. \/ new.stage = "write"
        \/ new.stage = "enter" /\ chore.op = "JoinRoom" /\ found.known /\ found.object.values.membership_status = "JOINED"
    BY <1>0, <1>1, <2>2, <2>4
  <2>7. JoinSound(v, new)
    BY <1>0, <1>4, <1>6, <2>1, <2>4, <2>6, ReadIsSound
  <2>8. NowSound(v, new)
    BY <1>3, <2>7, AsideSound
  <2> QED
    BY <1>0, <1>4, <2>4, <2>5, <2>8, PassingJoins
<1> QED
  BY <1>1, <1>5, <1>6

LEMMA JoinWriteJoins ==
    ASSUME RoomsBase, LobbyInv', JoinInv, NEW v \in Visitor, NEW i \in DOMAIN chores[v], JoinWrite(v, i), UNCHANGED lobby
    PROVE  JoinInv'
<1>0. PICK chore, id : chore = chores[v][i] /\ id = chore.id
  OBVIOUS
<1>1. /\ chore.op = "JoinRoom" /\ chore.stage = "write" /\ UNCHANGED <<visit, hasty>>
      /\ setUserMembershipStatus(v, id, chore) /\ Step(v, i, "enter", chore)
  BY <1>0 DEF JoinWrite, At
<1>2. DOMAIN chore = ChoreFields /\ ChoreTyped(chore)
  BY <1>0, ChoreShaped
<1>3. OthersStay(id)
  BY <1>1, <1>2, EnrolledAside
<1>4. JoinsAside(v, id) /\ chore.op \in Joins /\ chore.op # "BecomeMember"
  BY <1>1, <1>3 DEF JoinsAside, Joins
<1>5. PICK new : new = [chore EXCEPT !.stage = "enter"]
  OBVIOUS
<1>6. new.op = "JoinRoom" /\ new.id = id /\ new.stage = "enter"
  BY <1>0, <1>1, <1>2, <1>5 DEF ChoreFields
<1>7. Passed(v, i, new)
  BY <1>1, <1>5, BaseSeqs, StepPasses
<1>8. JoinSound(v, chore)
  BY <1>0 DEF JoinInv
<1>9. Belongs(v, id)'
  BY <1>0, <1>1, <1>2, <1>4, <1>8, EnrolledBelongs
<1>10. NowSound(v, new)
  BY <1>6, <1>9 DEF NowSound, JoinSound
<1> QED
  BY <1>0, <1>1, <1>4, <1>6, <1>7, <1>10, PassingJoins

LEMMA JoinEnterJoins ==
    ASSUME RoomsBase, LobbyInv', JoinInv, NEW v \in Visitor, NEW i \in DOMAIN chores[v], JoinEnter(v, i), UNCHANGED lobby
    PROVE  JoinInv'
<1>0. PICK chore, owner, id : chore = chores[v][i] /\ owner = (chore.row.values.owner_id = visit[v].user) /\ id = chore.id
  OBVIOUS
<1>1. /\ chore.op = "JoinRoom" /\ chore.stage = "enter" /\ UNCHANGED <<db, puzzled, hasty>> /\ Succeed(v, i)
      /\ visit' = [visit EXCEPT ![v] = [@ EXCEPT !.room = id, !.owner = owner]]
  BY <1>0 DEF JoinEnter, At
<1>2. UsersStay /\ visit'[v].room = id
      /\ \A w \in Visitor : visit'[w].listed = visit[w].listed /\ (w # v => visit'[w].room = visit[w].room)
  <2>1. UsersStay
    BY <1>1, VisitMoves, Zenon DEF RoomsBase, TypesInv
  <2>2. visit'[v].room = id
        /\ \A w \in Visitor : visit'[w].listed = visit[w].listed /\ (w # v => visit'[w].room = visit[w].room)
    BY <1>1 DEF RoomsBase, TypesInv, VisitTyped
  <2> QED
    BY <2>1, <2>2
<1>3. OthersStay(0)
  BY <1>1, <1>2, SessionAside
<1>4. JoinsAside(v, 0) /\ chore.op \in Joins /\ chore.op # "BecomeMember"
  BY <1>1, <1>2, <1>3 DEF JoinsAside, Joins
<1>5. PICK reply : reply.op = chore.op /\ reply.ok /\ RepliedTo(v, i, reply)
  BY <1>0, <1>1, SuccessReplies
<1>6. Belongs(v, id)
  BY <1>0, <1>1, <1>4 DEF JoinInv, JoinSound
<1>7. Belongs(v, id)'
  BY <1>1, <1>2, <1>6 DEF Belongs, IsMember, UsersStay
<1> QED
  BY <1>0, <1>2, <1>4, <1>5, <1>7, EndingJoins

\* Handlers of requests that are no joins leave everybody in its room.
LEMMA OtherHandlersJoins ==
    ASSUME ListsInv, LobbyInv', JoinInv, NEW v \in Visitor, NEW i \in DOMAIN chores[v], UNCHANGED lobby,
           \/ CreateRoom(v, i) \/ RenameRead(v, i) \/ RenameWrite(v, i) \/ DeleteRoom(v, i)
           \/ TransferCheck(v, i) \/ TransferRead(v, i) \/ TransferWrite(v, i) \/ TransferTell(v, i)
    PROVE  JoinInv'
<1>0. RoomsBase
  BY DEF ListsInv
<1>1. PICK sid : Handled(v, i, sid)
  BY <1>0, AllHandled
<1>2. PICK op : op = chores[v][i].op
  OBVIOUS
<1>3. op \in {"CreateRoom", "RenameRoom", "DeleteRoom", "AssignRole"} /\ hasty' = hasty
  BY <1>2 DEF CreateRoom, RenameRead, RenameWrite, DeleteRoom, TransferCheck, TransferRead, TransferWrite, TransferTell, At
<1>4. op \notin Joins
  BY <1>3 DEF Joins
<1>5. RoomsOfVisitorsStay
  <2>1. CASE TransferTell(v, i)
    <3>1. PICK chore, theirs : /\ chore = chores[v][i]
                               /\ theirs = {w \in Visitor : visit[w].listed /\ visit[w].user \in {chore.former, chore.user}}
      OBVIOUS
    <3>2. visit' = [w \in Visitor |-> IF w \in theirs /\ visit[w].room = chore.id
                                      THEN [visit[w] EXCEPT !.owner = visit[w].user = chore.user] ELSE visit[w]]
      BY <2>1, <3>1 DEF TransferTell
    <3> QED
      BY <1>0, <3>2 DEF RoomsOfVisitorsStay, RoomsBase, TypesInv, VisitTyped
  <2>2. CASE ~TransferTell(v, i)
    BY <2>2 DEF RoomsOfVisitorsStay, CreateRoom, RenameRead, RenameWrite, DeleteRoom, TransferCheck, TransferRead, TransferWrite
  <2> QED
    BY <2>1, <2>2
<1> QED
  BY <1>1, <1>2, <1>3, <1>4, <1>5, HandledJoins

LEMMA TellersJoins ==
    ASSUME ListsInv, LobbyInv', JoinInv, NEW v \in Visitor, NEW i \in DOMAIN chores[v], UNCHANGED lobby,
           CreateTell(v, i) \/ RenameTell(v, i) \/ DeleteTell(v, i)
    PROVE  JoinInv'
<1>1. PICK chore, user : chore = chores[v][i] /\ user = visit[v].user
  OBVIOUS
<1>2. PICK op, notice : /\ op \in Announcements /\ chore.op = op /\ notice.op \in Tidings /\ sendToAll(v, i, notice)
                        /\ UNCHANGED <<db, visit, hasty>>
  <2>1. CASE CreateTell(v, i)
    <3>1. PICK notice : notice = [op |-> "NewRoomCreated", id |-> chore.id, name |-> chore.name, owner |-> user]
      OBVIOUS
    <3>2. notice.op \in Tidings /\ chore.op \in Announcements /\ sendToAll(v, i, notice) /\ UNCHANGED <<db, visit, hasty>>
      BY <1>1, <2>1, <3>1 DEF CreateTell, At, Announcements, Tidings
    <3> QED
      BY <3>2
  <2>2. CASE RenameTell(v, i)
    <3>1. PICK notice : notice = [op |-> "NewRoomName", id |-> chore.id, name |-> chore.name]
      OBVIOUS
    <3>2. notice.op \in Tidings /\ chore.op \in Announcements /\ sendToAll(v, i, notice) /\ UNCHANGED <<db, visit, hasty>>
      BY <1>1, <2>2, <3>1 DEF RenameTell, At, Announcements, Tidings
    <3> QED
      BY <3>2
  <2>3. CASE DeleteTell(v, i)
    <3>1. PICK notice : notice = [op |-> "RoomDeleted", id |-> chore.id]
      OBVIOUS
    <3>2. notice.op \in Tidings /\ chore.op \in Announcements /\ sendToAll(v, i, notice) /\ UNCHANGED <<db, visit, hasty>>
      BY <1>1, <2>3, <3>1 DEF DeleteTell, At, Announcements, Tidings
    <3> QED
      BY <3>2
  <2> QED
    BY <2>1, <2>2, <2>3
<1> QED
  BY <1>1, <1>2, AnnouncedJoins

-----------------------------------------------------------------------------
\* A client that logs in joins nothing, and the rooms it is told as its own are.
LEMMA LogInJoins ==
    ASSUME RoomsBase, LobbyInv', PhaseInv, JoinInv, NEW v \in Visitor, NEW i, NEW a, AuthTurns(v, i, a), hasty' = hasty,
           UsersStay, visit'[v].room = visit[v].room, \A k \in DOMAIN notices'[v] : notices'[v][k].op \notin Joins,
           \A lists \in Bases(v)' : lists \in Bases(v) \/ \A k \in DOMAIN lists.mine : Belongs(v, lists.mine[k].id)
    PROVE  JoinInv'
<1>0. TablesInv /\ TablesInv'
  BY DEF RoomsBase, LobbyInv
<1>1. RowsMove(0)
  BY <1>0, SameTablesMove DEF AuthTurns
<1>2. Moves(v, i, a, 0)
  BY <1>1 DEF Moves, AuthTurns
<1>3. PICK new : new = chores'[v][a]
  OBVIOUS
<1>4. a \in DOMAIN chores'[v] => new.op \notin Joins /\ NowSound(v, new)
  BY <1>3, NoJoinIsSound DEF AuthTurns, Joins
<1>5. lobby[v].page = "auth" /\ DOMAIN chores[v] = {i} /\ chores[v][i].op = "Auth"
  BY AuthAlone DEF AuthTurns
<1>6. \A j \in DOMAIN chores'[v] : chores'[v][j].op \notin Joins
  BY <1>3, <1>4, <1>5, OthersWereThere DEF AuthTurns
<1>7. JoiningOf(v)'
  <2>1. NoJoins(v)'
    BY <1>6 DEF NoJoins
  <2>2. lobby'[v].page # "chat"
    BY <1>5 DEF AuthTurns
  <2> QED
    BY <2>1, <2>2, NoneJoins
<1>8. ASSUME v \notin hasty' PROVE JoinedWell(v)'
  <2>1. JoinedWell(v)
    BY <1>8, JoinParts
  <2>2. ASSUME NEW lists \in Bases(v)', NEW k \in DOMAIN lists.mine PROVE Belongs(v, lists.mine[k].id)'
    <3>1. PICK id : id = lists.mine[k].id
      OBVIOUS
    <3>2. Belongs(v, id)
      <4>1. CASE lists \in Bases(v)
        <5>1. \A j \in DOMAIN chores[v] : chores[v][j].op # "JoinRoom"
          BY <1>5
        <5> QED
          BY <2>1, <2>2, <3>1, <4>1, <5>1 DEF JoinedWell, MineBelong
      <4>2. CASE \A n \in DOMAIN lists.mine : Belongs(v, lists.mine[n].id)
        BY <2>2, <3>1, <4>2
      <4> QED
        BY <4>1, <4>2
    <3>3. BelongsStay(v)
      BY <1>0, <1>1, StillBelongs DEF AuthTurns
    <3> QED
      BY <3>1, <3>2, <3>3 DEF BelongsStay
  <2> QED
    BY <1>7, <2>2 DEF JoinedWell, MineBelong
<1>9. \A w \in Visitor : w # v => notices'[w] = notices[w] /\ lobby'[w] = lobby[w] /\ visit'[w].room = visit[w].room
  BY DEF AuthTurns
<1> QED
  BY <1>0, <1>2, <1>3, <1>4, <1>8, <1>9, OneTurnsJoins

LEMMA JoinedBelong ==
    ASSUME RoomsBase, NEW v \in Visitor, NEW id \in Joined(visit[v].user)
    PROVE  Belongs(v, id)
<1>1. id \in DOMAIN db.rooms /\ IsMember(visit[v].user, id)
  BY DEF Joined, IsMember
<1>2. id \in 0 .. db.serial
  BY <1>1 DEF RoomsBase, LobbyInv, TablesInv
<1> QED
  BY <1>1, <1>2 DEF Belongs

LEMMA ListingJoins ==
    ASSUME ListsInv, LobbyInv', JoinInv, NEW v \in Visitor, NEW i \in DOMAIN chores[v], AuthList(v, i), UNCHANGED lobby
    PROVE  JoinInv'
<1>0. RoomsBase /\ PhaseInv /\ TablesInv /\ Seqs /\ RowsTyped /\ VisitTyped
  BY BaseSeqs DEF ListsInv, RoomsBase, LobbyInv, TypesInv
<1>1. chores[v][i].op = "Auth" /\ chores[v][i].stage = "new" /\ UNCHANGED <<db, visit, notices, hasty>> /\ puzzled \subseteq puzzled'
  BY DEF AuthList, At, Step
<1>2. PICK joined, mine, public, chore, asked, new :
        /\ joined = Joined(visit[v].user) /\ mine = SetToSeq({Item(id, db.rooms[id].room_name) : id \in joined})
        /\ public = SetToSeq({Item(id, db.rooms[id].room_name) : id \in DOMAIN db.rooms \ joined})
        /\ chore = chores[v][i] /\ asked = [chore EXCEPT !.mine = mine, !.public = public]
        /\ new = [asked EXCEPT !.stage = "register"]
  OBVIOUS
<1>3. joined \in SUBSET DOMAIN db.rooms
  BY <1>2 DEF Joined
<1>4. ListOf(mine, joined)
  BY <1>0, <1>2, <1>3, FreshAreLists
<1>5. Step(v, i, "register", asked)
  BY <1>2 DEF AuthList
<1>6. Passed(v, i, new)
  BY <1>0, <1>2, <1>5, StepPasses
<1>7. new.op = "Auth" /\ new.mine = mine
  <2>1. DOMAIN chore = ChoreFields
    BY <1>0, <1>2, ChoreShaped
  <2> QED
    BY <1>1, <1>2, <2>1 DEF ChoreFields
<1>8. AuthTurns(v, i, i) /\ chores'[v][i] = new
  BY <1>1, <1>6, <1>7 DEF AuthTurns, Passed
<1>9. DOMAIN chores[v] = {i} /\ lobby[v].page = "auth" /\ notices[v] = <<>>
  BY <1>0, <1>1, AuthAlone
<1>10. \A k \in DOMAIN notices'[v] : FALSE
  BY <1>1, <1>9
<1>11. ASSUME NEW lists \in Bases(v)' PROVE \A k \in DOMAIN lists.mine : Belongs(v, lists.mine[k].id)
  <2>1. DOMAIN chores'[v] \subseteq {i}
    BY <1>0, <1>8, AuthTurnsAlone
  <2>2. lobby'[v].page = "auth" /\ AuthsTold(v)' = {} /\ AuthsDone(v)' \subseteq {i}
    BY <1>9, <1>10, <2>1 DEF AuthsTold, AuthsDone
  <2>3. lists = Pair(new)
    BY <1>8, <2>2 DEF Bases
  <2>4. lists.mine = mine
    BY <1>7, <2>3 DEF Pair
  <2>5. \A k \in DOMAIN mine : mine[k].id \in joined
    BY <1>4 DEF ListOf
  <2> QED
    BY <1>0, <1>2, <2>4, <2>5, JoinedBelong
<1>12. UsersStay /\ visit'[v].room = visit[v].room
  BY <1>0, <1>1, VisitMoves, Zenon
<1> QED
  BY <1>0, <1>1, <1>8, <1>10, <1>11, <1>12, LogInJoins

LEMMA RegisteringJoins ==
    ASSUME ListsInv, LobbyInv', JoinInv, NEW v \in Visitor, NEW i \in DOMAIN chores[v], AuthRegister(v, i), UNCHANGED lobby
    PROVE  JoinInv'
<1>0. RoomsBase /\ PhaseInv /\ Seqs /\ VisitTyped
  BY BaseSeqs DEF ListsInv, RoomsBase, TypesInv
<1>1. chores[v][i].op = "Auth" /\ chores[v][i].stage = "register" /\ UNCHANGED <<db, notices, puzzled, hasty>>
  BY DEF AuthRegister, At, Go, Step
<1>2. PICK chore, new : chore = chores[v][i] /\ new = [chore EXCEPT !.stage = "answer"]
  OBVIOUS
<1>3. Passed(v, i, new)
  BY <1>0, <1>2, StepPasses DEF AuthRegister, Go
<1>4. new.op = "Auth" /\ new.mine = chore.mine /\ new.public = chore.public
  <2>1. DOMAIN chore = ChoreFields
    BY <1>0, <1>2, ChoreShaped
  <2> QED
    BY <1>1, <1>2, <2>1 DEF ChoreFields
<1>5. (\A w \in Visitor : w # v => visit'[w] = visit[w]) /\ UsersStay /\ visit'[v].room = visit[v].room
  <2>1. visit' = [visit EXCEPT ![v].listed = TRUE]
    BY DEF AuthRegister
  <2>2. TRUE \in BOOLEAN
    OBVIOUS
  <2>3. UsersStay
    BY <1>0, <2>1, <2>2, VisitMoves, Zenon
  <2> QED
    BY <1>0, <2>1, <2>3 DEF VisitTyped
<1>6. AuthTurns(v, i, i) /\ chores'[v][i] = new
  BY <1>1, <1>3, <1>4, <1>5 DEF AuthTurns, Passed
<1>7. /\ DOMAIN chores[v] = {i} /\ lobby[v].page = "auth" /\ AuthsTold(v) = {} /\ AuthsDone(v) = {i}
      /\ \A k \in DOMAIN notices[v] : notices[v][k].op \in Tidings
  BY <1>0, <1>1, AuthAlone
<1>8. \A k \in DOMAIN notices'[v] : notices'[v][k].op \notin Joins
  BY <1>1, <1>7 DEF Tidings, Joins
<1>9. ASSUME NEW lists \in Bases(v)' PROVE lists \in Bases(v)
  <2>1. DOMAIN chores'[v] \subseteq {i}
    BY <1>0, <1>6, AuthTurnsAlone
  <2>2. lobby'[v].page = "auth" /\ AuthsTold(v)' = {} /\ AuthsDone(v)' \subseteq {i}
    BY <1>1, <1>6, <1>7, <2>1 DEF AuthsTold, AuthsDone, AuthTurns
  <2>3. lists = Pair(new)
    BY <1>6, <2>2 DEF Bases
  <2>4. Pair(new) = Pair(chore) /\ Pair(chore) \in Bases(v)
    BY <1>2, <1>4, <1>7 DEF Pair, Bases
  <2> QED
    BY <2>3, <2>4
<1> QED
  BY <1>0, <1>1, <1>5, <1>6, <1>8, <1>9, LogInJoins

LEMMA AnsweringJoins ==
    ASSUME ListsInv, LobbyInv', JoinInv, NEW v \in Visitor, NEW i \in DOMAIN chores[v], AuthReply(v, i), UNCHANGED lobby
    PROVE  JoinInv'
<1>0. RoomsBase /\ PhaseInv /\ Seqs /\ VisitTyped
  BY BaseSeqs DEF ListsInv, RoomsBase, TypesInv
<1>1. chores[v][i].op = "Auth" /\ chores[v][i].stage = "answer" /\ UNCHANGED <<db, visit, puzzled, hasty>>
  BY DEF AuthReply, At
<1>2. PICK chore, e : /\ chore = chores[v][i]
                      /\ e = [op |-> "Auth", ok |-> TRUE, mine |-> chore.mine, public |-> chore.public, user |-> visit[v].user]
  OBVIOUS
<1>3. e.op = "Auth" /\ e.mine = chore.mine /\ e.public = chore.public
  BY <1>2
<1>4. RepliedTo(v, i, e)
  <2>1. Reply(v, i, e)
    BY <1>2 DEF AuthReply
  <2> QED
    BY <1>0, <2>1, ReplyAnswers
<1>5. AuthTurns(v, i, 0) /\ 0 \notin DOMAIN chores'[v] /\ Grew(notices[v], notices'[v], e)
  BY <1>1, <1>4 DEF AuthTurns, RepliedTo
<1>6. /\ DOMAIN chores[v] = {i} /\ lobby[v].page = "auth" /\ AuthsTold(v) = {} /\ AuthsDone(v) = {i}
      /\ \A k \in DOMAIN notices[v] : notices[v][k].op \in Tidings
  BY <1>0, <1>1, AuthAlone
<1>7. \A k \in DOMAIN notices'[v] : notices'[v][k] = e \/ (k \in DOMAIN notices[v] /\ notices'[v][k] = notices[v][k])
  <2>1. Extends(notices[v], notices'[v], e)
    BY <1>5, GrewExtends
  <2> QED
    BY <2>1 DEF Extends
<1>8. \A k \in DOMAIN notices'[v] : notices'[v][k].op \notin Joins
  BY <1>3, <1>6, <1>7 DEF Tidings, Joins
<1>9. ASSUME NEW lists \in Bases(v)' PROVE lists \in Bases(v)
  <2>1. DOMAIN chores'[v] = {}
    BY <1>5, <1>6, OthersWereThere DEF AuthTurns
  <2>2. lobby'[v].page = "auth" /\ AuthsDone(v)' = {} /\ \A k \in AuthsTold(v)' : notices'[v][k] = e
    BY <1>5, <1>6, <1>7, <2>1 DEF AuthsTold, AuthsDone, AuthTurns, Tidings
  <2>3. lists = Pair(e)
    BY <2>2 DEF Bases
  <2>4. Pair(e) = Pair(chore) /\ Pair(chore) \in Bases(v)
    BY <1>2, <1>3, <1>6 DEF Pair, Bases
  <2> QED
    BY <2>3, <2>4
<1>10. UsersStay /\ visit'[v].room = visit[v].room
  BY <1>0, <1>1, VisitMoves, Zenon
<1> QED
  BY <1>0, <1>1, <1>5, <1>8, <1>9, <1>10, LogInJoins

\* Every step of a handler.
LEMMA HandlersKeepJoins ==
    ASSUME ListsInv, JoinInv, NEW v \in Visitor, HandleRooms(v), LobbyInv'
    PROVE  JoinInv'
<1>1. PICK i \in DOMAIN chores[v] :
          \/ CreateRoom(v, i) \/ CreateTell(v, i)
          \/ RenameRead(v, i) \/ RenameWrite(v, i) \/ RenameTell(v, i)
          \/ DeleteRoom(v, i) \/ DeleteTell(v, i)
          \/ BecomeMemberRead(v, i) \/ BecomeMemberWrite(v, i)
          \/ JoinRead(v, i) \/ JoinWrite(v, i) \/ JoinEnter(v, i)
          \/ TransferCheck(v, i) \/ TransferRead(v, i) \/ TransferWrite(v, i) \/ TransferTell(v, i)
          \/ AuthList(v, i) \/ AuthRegister(v, i) \/ AuthReply(v, i)
  BY DEF HandleRooms
<1>2. UNCHANGED lobby /\ RoomsBase
  BY DEF HandleRooms, ListsInv
<1>3. CASE \/ CreateRoom(v, i) \/ RenameRead(v, i) \/ RenameWrite(v, i) \/ DeleteRoom(v, i)
           \/ TransferCheck(v, i) \/ TransferRead(v, i) \/ TransferWrite(v, i) \/ TransferTell(v, i)
  BY <1>2, <1>3, OtherHandlersJoins
<1>4. CASE CreateTell(v, i) \/ RenameTell(v, i) \/ DeleteTell(v, i)
  BY <1>2, <1>4, TellersJoins
<1>5. CASE BecomeMemberRead(v, i)
  BY <1>2, <1>5, MemberReadJoins
<1>6. CASE BecomeMemberWrite(v, i)
  BY <1>2, <1>6, MemberWriteJoins
<1>7. CASE JoinRead(v, i)
  BY <1>2, <1>7, JoinReadJoins
<1>8. CASE JoinWrite(v, i)
  BY <1>2, <1>8, JoinWriteJoins
<1>9. CASE JoinEnter(v, i)
  BY <1>2, <1>9, JoinEnterJoins
<1>10. CASE AuthList(v, i)
  BY <1>2, <1>10, ListingJoins
<1>11. CASE AuthRegister(v, i)
  BY <1>2, <1>11, RegisteringJoins
<1>12. CASE AuthReply(v, i)
  BY <1>2, <1>12, AnsweringJoins
<1> QED
  BY <1>1, <1>3, <1>4, <1>5, <1>6, <1>7, <1>8, <1>9, <1>10, <1>11, <1>12

-----------------------------------------------------------------------------
(***************************************************************************)
(* The users, and the joins.                                               *)
(***************************************************************************)

\* Nothing happens in the tables and to the sessions.
OnlyTheClient == UNCHANGED <<db, visit, puzzled>>

LEMMA ClientMoves ==
    ASSUME RoomsBase, LobbyInv', OnlyTheClient
    PROVE  /\ RowsMove(0) /\ UsersStay /\ puzzled \subseteq puzzled' /\ RoomsOfVisitorsStay
           /\ \A w \in Visitor : BelongsStay(w)
<1>0. TablesInv /\ TablesInv' /\ VisitTyped
  BY DEF RoomsBase, LobbyInv, TypesInv
<1>1. UsersStay
  <2>1. CASE \E w : w \in Visitor
    BY <1>0, <2>1, VisitMoves, Zenon DEF OnlyTheClient
  <2>2. CASE ~\E w : w \in Visitor
    BY <1>0, <2>2 DEF OnlyTheClient, UsersStay, VisitTyped
  <2> QED
    BY <2>1, <2>2
<1>2. RowsMove(0) /\ puzzled \subseteq puzzled' /\ RoomsOfVisitorsStay
  BY <1>0, SameTablesMove DEF OnlyTheClient, RoomsOfVisitorsStay
<1> QED
  BY <1>0, <1>1, <1>2, StillBelongs

LEMMA Hastened ==
    ASSUME NEW v, Hasten(v)
    PROVE  hasty \subseteq hasty' /\ (v \notin hasty' => v \notin hasty /\ NoJoins(v))
<1>1. CASE Joining(v)
  BY <1>1 DEF Hasten
<1>2. CASE ~Joining(v)
  <2>1. \A i \in DOMAIN chores[v] : chores[v][i] \in ToSet(chores[v])
    BY DEF ToSet
  <2>2. \A i \in DOMAIN notices[v] : notices[v][i] \in ToSet(notices[v])
    BY DEF ToSet
  <2> QED
    BY <1>2, <2>1, <2>2 DEF Hasten, Joining, NoJoins, Joins
<1> QED
  BY <1>1, <1>2

LEMMA MineWithoutJoins ==
    ASSUME NEW v, NoJoins(v), BelongsStay(v), NEW items, MineBelong(v, items)
    PROVE  \A k \in DOMAIN items : Belongs(v, items[k].id) /\ Belongs(v, items[k].id)'
<1> SUFFICES ASSUME NEW k \in DOMAIN items PROVE Belongs(v, items[k].id) /\ Belongs(v, items[k].id)'
  OBVIOUS
<1>1. PICK id : id = items[k].id
  OBVIOUS
<1>2. Belongs(v, id)
  BY <1>1 DEF MineBelong, NoJoins, Joins
<1>3. Belongs(v, id)'
  BY <1>2 DEF BelongsStay
<1> QED
  BY <1>1, <1>2, <1>3

LEMMA HeaderWithoutJoins ==
    ASSUME NEW v, NoJoins(v), JoiningOf(v)
    PROVE  lobby[v].page = "chat" => lobby[v].header.id = visit[v].room
<1>1. "JoinRoom" \in Joins
  BY DEF Joins
<1> QED
  BY <1>1 DEF NoJoins, JoiningOf

\* A request for no join.
LEMMA ErrandJoins ==
    ASSUME ListsInv, LobbyInv', JoinInv, NEW v \in Visitor, NEW request, request.op \notin Joins \cup {"Auth"},
           Errand(v, request), UNCHANGED <<lobby, hasty>>
    PROVE  JoinInv'
<1>0. RoomsBase /\ TablesInv /\ TablesInv' /\ Seqs
  BY BaseSeqs DEF ListsInv, RoomsBase, LobbyInv
<1>1. OnlyTheClient /\ UNCHANGED notices /\ Ask(v, request)
  BY DEF Errand, OnlyTheClient
<1>2. PICK a \in DOMAIN chores'[v] : ChoresTurned(v, 0, a) /\ chores'[v][a] = request
  BY <1>0, <1>1, AskTurns
<1>3. 0 \notin DOMAIN chores[v]
  BY <1>0, SameTurns DEF Seqs
<1>4. RowsMove(0) /\ UsersStay /\ puzzled \subseteq puzzled' /\ RoomsOfVisitorsStay /\ \A w \in Visitor : BelongsStay(w)
  BY <1>0, <1>1, ClientMoves
<1>5. Moves(v, 0, a, 0)
  BY <1>2, <1>4 DEF Moves
<1>6. ASSUME NEW w \in Visitor PROVE Longer(notices[w], notices'[w], {})
  BY <1>1 DEF Longer
<1>7. NoAuth(v, 0, a)
  BY <1>2, <1>3 DEF NoAuth
<1>8. \A w \in Visitor : \E fresh : Longer(notices[w], notices'[w], fresh) /\ \A e \in fresh : e.op \notin Joins \cup {"Auth"}
  <2> TAKE w \in Visitor
  <2> QED
    BY <1>6
<1>9. CalmStep(v, 0, a)
  BY <1>2, <1>3, <1>4, <1>7, <1>8 DEF CalmStep, RoomsOfVisitorsStay
<1> QED
  BY <1>0, <1>5, <1>9, CalmStepKeeps

\* The client looks elsewhere.
LEMMA LookedJoins ==
    ASSUME ListsInv, LobbyInv', JoinInv, NEW v \in Visitor, NEW p, Looking(v, p), SameView(lobby[v], p), p.list = lobby[v].list
    PROVE  JoinInv'
<1>0. RoomsBase /\ TablesInv /\ TablesInv' /\ Seqs /\ PanelsTyped
  BY BaseSeqs DEF ListsInv, RoomsBase, LobbyInv, TypesInv
<1>1. OnlyTheClient /\ UNCHANGED <<chores, notices>> /\ Put(v, p) /\ Hasten(v)
  BY DEF Looking, OnlyTheClient
<1>2. hasty \subseteq hasty' /\ (v \notin hasty' => v \notin hasty /\ NoJoins(v))
  BY <1>1, Hastened
<1>3. RowsMove(0) /\ UsersStay /\ puzzled \subseteq puzzled' /\ RoomsOfVisitorsStay /\ \A w \in Visitor : BelongsStay(w)
  BY <1>0, <1>1, ClientMoves
<1>4. ChoresTurned(v, 0, 0) /\ 0 \notin DOMAIN chores'[v]
  BY <1>0, <1>1, SameTurns DEF Seqs, ChoresTurned
<1>5. Moves(v, 0, 0, 0)
  BY <1>2, <1>3, <1>4 DEF Moves
<1>6. lobby'[v] = p /\ \A w \in Visitor : w # v => lobby'[w] = lobby[w]
  BY <1>0, <1>1 DEF Put, PanelsTyped
<1>7. ASSUME v \notin hasty' PROVE JoinedWell(v)'
  <2>1. NoJoins(v) /\ JoinedWell(v)
    BY <1>2, <1>7, JoinParts
  <2>2. JoiningOf(v)'
    <3>1. NoJoins(v)'
      BY <1>1, <2>1 DEF NoJoins
    <3>2. lobby'[v].page = "chat" => lobby'[v].header.id = visit'[v].room
      BY <1>1, <1>6, <2>1, HeaderWithoutJoins DEF JoinedWell, SameView, OnlyTheClient
    <3> QED
      BY <3>1, <3>2, NoneJoins
  <2>3. Bases(v)' = Bases(v)
    BY <1>1, <1>6 DEF Bases, AuthsDone, AuthsTold, SameView
  <2>4. ASSUME NEW lists \in Bases(v) PROVE MineBelong(v, lists.mine)'
    <3>1. PICK items : items = lists.mine
      OBVIOUS
    <3>2. \A k \in DOMAIN items : Belongs(v, items[k].id)'
      BY <1>3, <2>1, <3>1, MineWithoutJoins DEF JoinedWell
    <3> QED
      BY <3>1, <3>2 DEF MineBelong
  <2> QED
    BY <2>2, <2>3, <2>4 DEF JoinedWell
<1>8. \A w \in Visitor : w # v => notices'[w] = notices[w] /\ lobby'[w] = lobby[w] /\ visit'[w].room = visit[w].room
  BY <1>1, <1>3, <1>6 DEF RoomsOfVisitorsStay
<1>9. PICK none : none = chores'[v][0]
  OBVIOUS
<1> QED
  BY <1>0, <1>4, <1>5, <1>7, <1>8, OneTurnsJoins

\* The client asks for its only join.
LEMMA FirstIsAsked ==
    ASSUME NEW v \in Visitor, \A i \in DOMAIN chores[v] : chores[v][i].op \notin Joins,
           \A j \in DOMAIN notices'[v] : notices'[v][j].op \notin Joins,
           NEW a \in DOMAIN chores'[v], ChoresTurned(v, 0, a), NEW request, chores'[v][a] = request, request.op \in Joins,
           SelectedIs(lobby'[v], request.id),
           \/ request.op = "JoinRoom"
           \/ (lobby'[v].page = "chat" => lobby'[v].header.id = visit'[v].room) /\ SelectedBelongs(v)'
    PROVE  JoiningOf(v)'
<1>1. \A j \in DOMAIN chores'[v] : j = a \/ chores'[v][j].op \notin Joins
  BY OthersWereThere
<1> QED
  BY <1>1, OneIsAsked

LEMMA AskedJoins ==
    ASSUME ListsInv, LobbyInv', JoinInv, NEW v \in Visitor, NEW id, NEW request, request = [Chore("JoinRoom") EXCEPT !.id = id],
           Errand(v, request), Hasten(v), NEW p, lobby'[v] = p, \A w \in Visitor : w # v => lobby'[w] = lobby[w],
           SameView(lobby[v], p), p.list = lobby[v].list, SelectedIs(p, id)
    PROVE  JoinInv'
<1>0. RoomsBase /\ TablesInv /\ TablesInv' /\ Seqs
  BY BaseSeqs DEF ListsInv, RoomsBase, LobbyInv
<1>1. OnlyTheClient /\ UNCHANGED notices /\ Ask(v, request)
  BY DEF Errand, OnlyTheClient
<1>2. PICK a \in DOMAIN chores'[v] : ChoresTurned(v, 0, a) /\ chores'[v][a] = request
  BY <1>0, <1>1, AskTurns
<1>3. request.op = "JoinRoom" /\ request.id = id /\ request.stage = "new" /\ request.op \in Joins
  <2>1. PICK op : op = "JoinRoom"
    OBVIOUS
  <2>2. op \in Joins /\ request = [Chore(op) EXCEPT !.id = id]
    BY <2>1 DEF Joins
  <2>3. RequestOf(request, op, id, "")
    BY <2>2, PlainRequest, Zenon
  <2> QED
    BY <2>1, <2>2, <2>3, Zenon DEF RequestOf
<1>4. hasty \subseteq hasty' /\ (v \notin hasty' => v \notin hasty /\ NoJoins(v))
  BY Hastened
<1>5. RowsMove(0) /\ UsersStay /\ puzzled \subseteq puzzled' /\ RoomsOfVisitorsStay /\ \A w \in Visitor : BelongsStay(w)
  BY <1>0, <1>1, ClientMoves
<1>6. Moves(v, 0, a, 0)
  BY <1>2, <1>4, <1>5 DEF Moves
<1>7. NowSound(v, request)
  BY <1>3, NoJoinIsSound
<1>8. ASSUME v \notin hasty' PROVE JoinedWell(v)'
  <2>1. NoJoins(v) /\ JoinedWell(v)
    BY <1>4, <1>8, JoinParts
  <2>2. JoiningOf(v)'
    BY <1>1, <1>2, <1>3, <2>1, FirstIsAsked DEF NoJoins
  <2>3. Bases(v)' = Bases(v)
    <3>1. 0 \notin DOMAIN chores[v]
      BY <1>0, SameTurns DEF Seqs
    <3>2. NoAuth(v, 0, a)
      BY <1>2, <1>3, <3>1 DEF NoAuth
    <3>3. DoneLists(v)' = DoneLists(v)
      BY <3>2, DoneListsStay
    <3>4. ToldLists(v)' = ToldLists(v) /\ OwnLists(v)' = OwnLists(v)
      BY <1>1 DEF ToldLists, OwnLists, AuthsTold, SameView
    <3>5. Bases(v)' = OwnLists(v)' \cup DoneLists(v)' \cup ToldLists(v)'
      BY DEF Bases, OwnLists, DoneLists, ToldLists
    <3> QED
      BY <3>3, <3>4, <3>5, BasesParts
  <2>4. ASSUME NEW lists \in Bases(v) PROVE MineBelong(v, lists.mine)'
    <3>1. PICK items : items = lists.mine
      OBVIOUS
    <3>2. \A k \in DOMAIN items : Belongs(v, items[k].id)'
      BY <1>5, <2>1, <3>1, MineWithoutJoins DEF JoinedWell
    <3> QED
      BY <3>1, <3>2 DEF MineBelong
  <2> QED
    BY <2>2, <2>3, <2>4 DEF JoinedWell
<1>9. \A w \in Visitor : w # v => notices'[w] = notices[w] /\ lobby'[w] = lobby[w] /\ visit'[w].room = visit[w].room
  BY <1>1, <1>5 DEF RoomsOfVisitorsStay
<1> QED
  BY <1>0, <1>2, <1>6, <1>7, <1>8, <1>9, OneTurnsJoins

LEMMA ChatJoins ==
    ASSUME ListsInv, LobbyInv', JoinInv, NEW v \in Visitor, NEW op \in {"RenameRoom", "DeleteRoom", "AssignRole"}, NEW request,
           NEW name, \A id : RequestOf([request EXCEPT !.id = id], op, id, name), InChat(v, request)
    PROVE  JoinInv'
<1>1. PICK id, sent : id = lobby[v].header.id /\ sent = [request EXCEPT !.id = id]
  OBVIOUS
<1>2. Errand(v, sent) /\ UNCHANGED <<lobby, hasty>>
  BY <1>1 DEF InChat
<1>3. sent.op = op
  BY <1>1 DEF RequestOf
<1>4. sent.op \notin Joins \cup {"Auth"}
  BY <1>3 DEF Joins
<1> QED
  BY <1>2, <1>4, ErrandJoins

LEMMA VisitJoins ==
    ASSUME ListsInv, JoinInv, NEW v \in Visitor, Visit(v), LobbyInv'
    PROVE  JoinInv'
<1>0. PanelSound(lobby[v]) /\ PanelsTyped
  BY DEF ListsInv, RoomsBase, TypesInv, PanelsTyped
<1>1. ASSUME NEW tab \in {"mine", "public"}, OnPageChanged(v, tab) PROVE JoinInv'
  <2>1. PICK p : p = [lobby[v] EXCEPT !.tab = tab]
    OBVIOUS
  <2>2. Looking(v, p)
    BY <1>1, <2>1 DEF OnPageChanged
  <2> QED
    BY <1>0, <2>1, <2>2, TabTurned, LookedJoins DEF Tabs
<1>2. ASSUME NEW i \in DOMAIN lobby[v].list.public, OnPublicRoomSelected(v, i) PROVE JoinInv'
  <2>1. PICK p : p = Select(lobby[v], "public", i)
    OBVIOUS
  <2>2. Looking(v, p)
    BY <1>2, <2>1 DEF OnPublicRoomSelected
  <2>3. i \in DOMAIN lobby[v].list["public"]
    OBVIOUS
  <2> QED
    BY <1>0, <2>1, <2>2, <2>3, PanelSelected, LookedJoins DEF Tabs
<1>3. ASSUME NEW i \in DOMAIN lobby[v].list.mine, OnMyRoomSelected(v, i) PROVE JoinInv'
  <2>1. PICK p, id : p = Select(lobby[v], "mine", i) /\ id = lobby[v].list.mine[i].id
    OBVIOUS
  <2>2. PICK request : request = [Chore("JoinRoom") EXCEPT !.id = id]
    OBVIOUS
  <2>3. Errand(v, request) /\ Put(v, p) /\ Hasten(v)
    BY <1>3, <2>1, <2>2 DEF OnMyRoomSelected
  <2>4. SameView(lobby[v], p) /\ p.list = lobby[v].list /\ GetSelectedRoom(p) = lobby[v].list["mine"][i] /\ PanelSound(p)
    BY <1>0, <2>1, PanelSelected DEF Tabs
  <2>5. SelectedIs(p, id)
    BY <2>1, <2>4 DEF SelectedIs
  <2>6. lobby'[v] = p /\ \A w \in Visitor : w # v => lobby'[w] = lobby[w]
    BY <1>0, <2>3, <2>4, PanelPut
  <2> QED
    BY <2>2, <2>3, <2>4, <2>5, <2>6, AskedJoins
<1>4. CASE OnJoin(v)
  <2>1. PICK p, id : p = lobby[v] /\ id = GetSelectedRoom(lobby[v]).id
    OBVIOUS
  <2>2. PICK request : request = [Chore("JoinRoom") EXCEPT !.id = id]
    OBVIOUS
  <2>3. Errand(v, request) /\ Hasten(v) /\ UNCHANGED lobby
    BY <1>4, <2>1, <2>2 DEF OnJoin
  <2>4. SelectedIs(p, id) /\ SameView(lobby[v], p) /\ p.list = lobby[v].list
    BY <2>1 DEF SelectedIs, SameView
  <2>5. lobby'[v] = p /\ \A w \in Visitor : w # v => lobby'[w] = lobby[w]
    BY <2>1, <2>3
  <2> QED
    BY <2>2, <2>3, <2>4, <2>5, AskedJoins
<1>5. CASE OnDelete(v)
  <2>1. PICK op : op = "DeleteRoom"
    OBVIOUS
  <2>2. PICK request : request = Chore(op)
    OBVIOUS
  <2>3. \A id : RequestOf([request EXCEPT !.id = id], op, id, "")
    BY <2>2, PlainRequest, Zenon
  <2>4. InChat(v, request) /\ op \in {"RenameRoom", "DeleteRoom", "AssignRole"}
    BY <1>5, <2>1, <2>2 DEF OnDelete
  <2> QED
    BY <2>3, <2>4, ChatJoins, Zenon
<1>6. ASSUME NEW name \in RoomName, OnRename(v, name) PROVE JoinInv'
  <2>1. PICK op : op = "RenameRoom"
    OBVIOUS
  <2>2. PICK request : request = [Chore(op) EXCEPT !.name = name]
    OBVIOUS
  <2>3. \A id : RequestOf([request EXCEPT !.id = id], op, id, name)
    BY <2>2, NamingRequest, Zenon
  <2>4. InChat(v, request) /\ op \in {"RenameRoom", "DeleteRoom", "AssignRole"}
    BY <1>6, <2>1, <2>2 DEF OnRename
  <2> QED
    BY <2>3, <2>4, ChatJoins
<1>7. ASSUME NEW user, OnTransferOwnership(v, user) PROVE JoinInv'
  <2>1. PICK op : op = "AssignRole"
    OBVIOUS
  <2>2. PICK request : request = [Chore(op) EXCEPT !.user = user]
    OBVIOUS
  <2>3. \A id : RequestOf([request EXCEPT !.id = id], op, id, "")
    BY <2>2, GivingRequest, Zenon
  <2>4. InChat(v, request) /\ op \in {"RenameRoom", "DeleteRoom", "AssignRole"}
    BY <1>7, <2>1, <2>2 DEF OnTransferOwnership
  <2> QED
    BY <2>3, <2>4, ChatJoins, Zenon
<1>8. ASSUME NEW name \in RoomName, OnCreate(v, name) PROVE JoinInv'
  <2>1. PICK op : op = "CreateRoom"
    OBVIOUS
  <2>2. PICK request : request = [Chore(op) EXCEPT !.name = name]
    OBVIOUS
  <2>3. Errand(v, request) /\ UNCHANGED <<lobby, hasty>>
    BY <1>8, <2>1, <2>2 DEF OnCreate
  <2>4. request.op = op
    <3>1. RequestOf(request, op, 0, name)
      BY <2>2, NamedRequest
    <3> QED
      BY <3>1 DEF RequestOf
  <2>5. request.op \notin Joins \cup {"Auth"}
    BY <2>1, <2>4 DEF Joins
  <2> QED
    BY <2>3, <2>5, ErrandJoins
<1> QED
  BY <1>1, <1>2, <1>3, <1>4, <1>5, <1>6, <1>7, <1>8 DEF Visit

-----------------------------------------------------------------------------
(***************************************************************************)
(* What the clients hear, and the joins.                                   *)
(***************************************************************************)

\* The lists a client has or will have, and those it has once it becomes p.
Seen(v, p) == Bases(v) \cup (IF p.page = "auth" THEN {} ELSE {p.list})
NoneAsked(v) == \A i \in DOMAIN chores[v] : chores[v][i].op \notin Joins
NoneTold(v) == \A j \in DOMAIN notices[v] : notices[v][j].op \notin Joins
NowBelongs(v, id) == Belongs(v, id)'

LEMMA HeardLists ==
    ASSUME NEW v \in Visitor, NEW e, TakesNotice(v, e), NEW p, lobby'[v] = p, NEW a, NoAuth(v, 0, a)
    PROVE  Bases(v)' \subseteq Seen(v, p)
<1>1. \A k \in DOMAIN notices'[v] : k + 1 \in DOMAIN notices[v] /\ notices'[v][k] = notices[v][k + 1]
  BY ShrankFrom DEF TakesNotice, NoticeTaken
<1>2. ToldLists(v)' \subseteq ToldLists(v)
  BY <1>1 DEF ToldLists, AuthsTold
<1>3. DoneLists(v)' = DoneLists(v)
  BY DoneListsStay
<1>4. OwnLists(v)' = IF p.page = "auth" THEN {} ELSE {p.list}
  BY DEF OwnLists
<1>5. Bases(v)' = OwnLists(v)' \cup DoneLists(v)' \cup ToldLists(v)'
  BY DEF Bases, OwnLists, DoneLists, ToldLists
<1> QED
  BY <1>2, <1>3, <1>4, <1>5, BasesParts DEF Seen

\* One client hears, and may ask for something.
LEMMA HeardJoins ==
    ASSUME ListsInv, LobbyInv', JoinInv, NEW v \in Visitor, NEW e, TakesNotice(v, e), NEW p, Put(v, p),
           NEW a, ChoresTurned(v, 0, a), NEW new, a \in DOMAIN chores'[v] => chores'[v][a] = new /\ new.op # "Auth" /\ NowSound(v, new),
           hasty \subseteq hasty', v \notin hasty' => JoiningOf(v)',
           v \notin hasty' => \A lists \in Seen(v, p) : MineBelong(v, lists.mine)'
    PROVE  JoinInv'
<1>0. RoomsBase /\ TablesInv /\ TablesInv' /\ Seqs /\ PanelsTyped
  BY BaseSeqs DEF ListsInv, RoomsBase, LobbyInv, TypesInv
<1>1. OnlyTheClient /\ \A w \in Visitor : w # v => notices'[w] = notices[w]
  BY DEF TakesNotice, NoticeTaken, OnlyTheClient
<1>2. RowsMove(0) /\ UsersStay /\ puzzled \subseteq puzzled' /\ RoomsOfVisitorsStay
  BY <1>0, <1>1, ClientMoves
<1>3. Moves(v, 0, a, 0)
  BY <1>2 DEF Moves
<1>4. lobby'[v] = p /\ \A w \in Visitor : w # v => lobby'[w] = lobby[w]
  BY <1>0 DEF Put, PanelsTyped
<1>5. NoAuth(v, 0, a)
  <2>1. 0 \notin DOMAIN chores[v]
    BY <1>0, SameTurns DEF Seqs
  <2> QED
    BY <2>1 DEF NoAuth
<1>6. Bases(v)' \subseteq Seen(v, p)
  BY <1>4, <1>5, HeardLists
<1>7. v \notin hasty' => JoinedWell(v)'
  BY <1>6 DEF JoinedWell
<1>8. \A w \in Visitor : w # v => notices'[w] = notices[w] /\ lobby'[w] = lobby[w] /\ visit'[w].room = visit[w].room
  BY <1>1, <1>2, <1>4 DEF RoomsOfVisitorsStay
<1> QED
  BY <1>0, <1>3, <1>7, <1>8, OneTurnsJoins

\* ... or asks for nothing.
LEMMA SilentlyHeardJoins ==
    ASSUME ListsInv, LobbyInv', JoinInv, NEW v \in Visitor, NEW e, TakesNotice(v, e), NEW p, Put(v, p),
           UNCHANGED <<chores, hasty>>, JoinedWell(v) => JoiningOf(v)',
           JoinedWell(v) => \A lists \in Seen(v, p) : MineBelong(v, lists.mine)'
    PROVE  JoinInv'
<1>0. Seqs
  BY BaseSeqs DEF ListsInv, RoomsBase
<1>1. ChoresTurned(v, 0, 0) /\ 0 \notin DOMAIN chores'[v]
  BY <1>0, SameTurns DEF Seqs, ChoresTurned
<1>2. v \notin hasty' => JoinedWell(v)
  BY JoinParts
<1> QED
  BY <1>1, <1>2, HeardJoins

\* The rooms of p's own list are those of the client's, or the user belongs to them.
LEMMA SeenBelong ==
    ASSUME NEW v, NoneAsked(v), JoinedWell(v), BelongsStay(v), NEW p, p.page # "auth" => lobby[v].page # "auth",
           \A k \in DOMAIN p.list.mine : Belongs(v, p.list.mine[k].id)
               \/ \E i \in DOMAIN lobby[v].list.mine : p.list.mine[k].id = lobby[v].list.mine[i].id
    PROVE  \A lists \in Seen(v, p) : MineBelong(v, lists.mine)'
<1>1. ASSUME NEW lists \in Bases(v), NEW k \in DOMAIN lists.mine PROVE Belongs(v, lists.mine[k].id)
  <2>1. \A j \in DOMAIN chores[v] : chores[v][j].op # "JoinRoom"
    BY DEF NoneAsked, Joins
  <2> QED
    BY <1>1, <2>1 DEF JoinedWell, MineBelong
<1>2. ASSUME NEW lists \in Seen(v, p), NEW k \in DOMAIN lists.mine PROVE Belongs(v, lists.mine[k].id)'
  <2>1. PICK id : id = lists.mine[k].id
    OBVIOUS
  <2>2. Belongs(v, id)
    <3>1. CASE lists \in Bases(v)
      BY <1>1, <1>2, <2>1, <3>1
    <3>2. CASE p.page # "auth" /\ lists = p.list
      <4>1. lobby[v].list \in Bases(v)
        BY <3>2 DEF Bases
      <4>2. CASE Belongs(v, p.list.mine[k].id)
        BY <2>1, <3>2, <4>2
      <4>3. ASSUME NEW i \in DOMAIN lobby[v].list.mine, p.list.mine[k].id = lobby[v].list.mine[i].id
            PROVE  Belongs(v, id)
        BY <1>1, <2>1, <3>2, <4>1, <4>3
      <4> QED
        BY <1>2, <3>2, <4>2, <4>3
    <3> QED
      BY <1>2, <3>1, <3>2 DEF Seen
  <2>3. NowBelongs(v, id)
    BY <2>2 DEF BelongsStay, NowBelongs
  <2> QED
    BY <2>1, <2>3 DEF NowBelongs
<1> QED
  BY <1>2 DEF MineBelong

LEMMA NoticeStays ==
    ASSUME ListsInv, LobbyInv', NEW v \in Visitor, NEW e, TakesNotice(v, e)
    PROVE  BelongsStay(v) /\ visit'[v].room = visit[v].room /\ PanelSound(lobby[v]) /\ Shrank(notices[v], notices'[v])
<1>1. RoomsBase /\ OnlyTheClient
  BY DEF ListsInv, TakesNotice, OnlyTheClient
<1> QED
  BY <1>1, ClientMoves DEF RoomsOfVisitorsStay, RoomsBase, TypesInv, PanelsTyped, TakesNotice, NoticeTaken

\* The client hears of a room, or that something was done, that is no join.
LEMMA CalmHearing ==
    ASSUME ListsInv, LobbyInv', JoinInv, NEW v \in Visitor, NEW e, TakesNotice(v, e), e.op \notin Joins, NEW p, Put(v, p),
           UNCHANGED <<chores, hasty>>, p.page # "auth" => lobby[v].page # "auth",
           ShowsSame(lobby[v], p), SelectionKept(lobby[v], p), MineFrom(lobby[v], p)
    PROVE  JoinInv'
<1>1. BelongsStay(v) /\ visit'[v].room = visit[v].room /\ Shrank(notices[v], notices'[v])
  BY NoticeStays
<1>2. lobby'[v] = p
  BY DEF Put, ListsInv, RoomsBase, TypesInv, PanelsTyped
<1>3. JoinsKept(chores[v], chores'[v])
  BY SameKeepsJoins
<1>4. JoinsKept(notices[v], notices'[v])
  BY <1>1, ShrankKeepsJoins DEF TakesNotice
<1>5. CalmFor(v)
  BY <1>1, <1>2, <1>3, <1>4 DEF CalmFor
<1>6. JoinedWell(v) => JoiningOf(v)'
  BY <1>5, CalmJoining DEF JoinedWell
<1>7. ASSUME JoinedWell(v), NEW lists \in Seen(v, p) PROVE MineBelong(v, lists.mine)'
  <2>1. PICK items : items = lists.mine
    OBVIOUS
  <2>2. MineBelong(v, items)
    <3>1. CASE lists \in Bases(v)
      BY <1>7, <2>1, <3>1 DEF JoinedWell
    <3>2. CASE p.page # "auth" /\ lists = p.list
      <4>1. PICK mine : mine = lobby[v].list.mine
        OBVIOUS
      <4>2. MineBelong(v, mine)
        <5>1. lobby[v].list \in Bases(v)
          BY <3>2 DEF Bases
        <5> QED
          BY <1>7, <4>1, <5>1 DEF JoinedWell
      <4>3. \A j \in DOMAIN items : \E i \in DOMAIN mine : items[j].id = mine[i].id
        BY <2>1, <3>2, <4>1 DEF MineFrom
      <4> QED
        BY <4>2, <4>3 DEF MineBelong
    <3> QED
      BY <1>7, <3>1, <3>2 DEF Seen
  <2>3. MineBelong(v, items)'
    BY <1>1, <1>3, <2>2, CalmMine
  <2> QED
    BY <2>1, <2>3 DEF MineBelong
<1> QED
  BY <1>6, <1>7, SilentlyHeardJoins

\* A notice that is the answer to a join is the last of it.
JoinTold(v, e) ==
    /\ NoneAsked(v) /\ NoneTold(v)'
    /\ e.op = "JoinRoom" => e.ok /\ SelectedIs(lobby[v], visit[v].room) /\ Belongs(v, visit[v].room)
    /\ e.op = "BecomeMember" => SelectedBelongs(v) /\ (lobby[v].page = "chat" => lobby[v].header.id = visit[v].room)

LEMMA JoinIsTold ==
    ASSUME NEW v \in Visitor, NEW e, TakesNotice(v, e), e.op \in Joins, JoinedWell(v)
    PROVE  JoinTold(v, e)
<1>1. /\ 1 \in DOMAIN notices[v] /\ e = notices[v][1]
      /\ \A k \in DOMAIN notices'[v] : k + 1 \in DOMAIN notices[v] /\ notices'[v][k] = notices[v][k + 1] /\ k + 1 # 1
  <2>1. PICK n \in Nat : /\ DOMAIN notices[v] = 1 .. n + 1 /\ DOMAIN notices'[v] = 1 .. n
                         /\ \A k \in 1 .. n : notices'[v][k] = notices[v][k + 1]
    BY DEF TakesNotice, NoticeTaken, Shrank
  <2> QED
    BY <2>1 DEF TakesNotice
<1>2. \A j \in DOMAIN notices[v] : j = 1 \/ notices[v][j].op \notin Joins
  BY <1>1 DEF JoinedWell, JoiningOf
<1>3. NoneAsked(v)
  BY <1>1 DEF JoinedWell, JoiningOf, NoneAsked
<1>4. NoneTold(v)'
  BY <1>1, <1>2 DEF NoneTold
<1>5. e.op = "JoinRoom" => e.ok /\ SelectedIs(lobby[v], visit[v].room) /\ Belongs(v, visit[v].room)
  BY <1>1 DEF JoinedWell, JoiningOf
<1>6. e.op = "BecomeMember" => SelectedBelongs(v)
  BY <1>1 DEF JoinedWell, JoiningOf
<1>7. ASSUME e.op = "BecomeMember" PROVE lobby[v].page = "chat" => lobby[v].header.id = visit[v].room
  <2>1. \A i \in DOMAIN chores[v] : chores[v][i].op # "JoinRoom"
    BY <1>3 DEF NoneAsked, Joins
  <2>2. \A j \in DOMAIN notices[v] : notices[v][j].op # "JoinRoom"
    BY <1>1, <1>2, <1>7 DEF Joins
  <2> QED
    BY <2>1, <2>2 DEF JoinedWell, JoiningOf
<1> QED
  BY <1>3, <1>4, <1>5, <1>6, <1>7 DEF JoinTold

\* The client is a member of the room it has selected.
LEMMA MemberHeard ==
    ASSUME ListsInv, LobbyInv', JoinInv, NEW v \in Visitor, NEW e, TakesNotice(v, e), e.op = "BecomeMember", NEW p, Put(v, p),
           p \in {OnBecameMember(lobby[v]), lobby[v]}, UNCHANGED <<chores, hasty>>
    PROVE  JoinInv'
<1>1. BelongsStay(v) /\ visit'[v].room = visit[v].room /\ PanelSound(lobby[v])
  BY NoticeStays
<1>2. lobby'[v] = p
  BY DEF Put, ListsInv, RoomsBase, TypesInv, PanelsTyped
<1>3. SameView(lobby[v], p) /\ \A k \in DOMAIN p.list.mine :
         \/ HasSelected(lobby[v]) /\ p.list.mine[k].id = GetSelectedRoom(lobby[v]).id
         \/ \E i \in DOMAIN lobby[v].list.mine : p.list.mine[k].id = lobby[v].list.mine[i].id
  <2>1. CASE p = OnBecameMember(lobby[v])
    BY <1>1, <2>1, MemberMoves
  <2>2. CASE p = lobby[v]
    BY <2>2 DEF SameView
  <2> QED
    BY <2>1, <2>2
<1>4. SUFFICES ASSUME JoinedWell(v) PROVE JoiningOf(v)' /\ \A lists \in Seen(v, p) : MineBelong(v, lists.mine)'
  BY SilentlyHeardJoins
<1>5. JoinTold(v, e)
  BY <1>4, JoinIsTold DEF Joins
<1>6. JoiningOf(v)'
  <2>1. NoJoins(v)'
    BY <1>5 DEF NoJoins, JoinTold, NoneAsked, NoneTold
  <2> QED
    BY <1>1, <1>2, <1>3, <1>5, <2>1, NoneJoins DEF JoinTold, SameView
<1>7. \A lists \in Seen(v, p) : MineBelong(v, lists.mine)'
  <2>1. \A k \in DOMAIN p.list.mine : Belongs(v, p.list.mine[k].id)
            \/ \E i \in DOMAIN lobby[v].list.mine : p.list.mine[k].id = lobby[v].list.mine[i].id
    BY <1>3, <1>5 DEF JoinTold, SelectedBelongs
  <2> QED
    BY <1>1, <1>3, <1>4, <1>5, <2>1, SeenBelong DEF JoinTold, SameView
<1> QED
  BY <1>6, <1>7

\* After the answer to a join, what is listed as one's own is one's own.
LEMMA TurnedSees ==
    ASSUME ListsInv, LobbyInv', NEW v \in Visitor, NEW e, TakesNotice(v, e), e.op \in Joins, JoinedWell(v),
           lobby[v].page # "auth", NEW p, p.list = lobby[v].list
    PROVE  \A lists \in Seen(v, p) : MineBelong(v, lists.mine)'
<1>1. BelongsStay(v)
  BY NoticeStays
<1>2. NoneAsked(v)
  BY JoinIsTold DEF JoinTold
<1>3. \A k \in DOMAIN p.list.mine : \E i \in DOMAIN lobby[v].list.mine : p.list.mine[k].id = lobby[v].list.mine[i].id
  OBVIOUS
<1> QED
  BY <1>1, <1>2, <1>3, SeenBelong

\* The room that was joined is shown, and is asked for as a member of.
LEMMA ChatEntered ==
    ASSUME NEW v, JoinedWell(v), NEW e, e.op = "JoinRoom", JoinTold(v, e), HasSelected(lobby[v]),
           BelongsStay(v), visit'[v].room = visit[v].room, NEW p, lobby'[v] = p,
           NEW item, item = GetSelectedRoom(lobby[v]), TurnedTo(lobby[v], p, "chat", item)
    PROVE  /\ lobby'[v].header.id = visit'[v].room /\ SelectedBelongs(v)' /\ SelectedIs(lobby'[v], item.id)
<1>1. item.id = visit[v].room /\ Belongs(v, item.id)
  BY DEF JoinTold, SelectedIs
<1>2. GetSelectedRoom(p) = item
  BY DEF TurnedTo, SameLists, GetSelectedRoom
<1>3. p.header.id = visit'[v].room
  BY <1>1 DEF TurnedTo
<1>4. PICK id : id = item.id
  OBVIOUS
<1>5. NowBelongs(v, id)
  BY <1>1, <1>4 DEF BelongsStay, NowBelongs
<1>6. GetSelectedRoom(lobby'[v]).id = id
  BY <1>2, <1>4
<1>7. SelectedBelongs(v)'
  BY <1>5, <1>6 DEF SelectedBelongs, NowBelongs
<1> QED
  BY <1>2, <1>3, <1>7 DEF SelectedIs

LEMMA RoomEntered ==
    ASSUME ListsInv, LobbyInv', JoinInv, NEW v \in Visitor, NEW e, TakesNotice(v, e), e.op = "JoinRoom", JoinRoomResponse(v)
    PROVE  JoinInv'
<1>0. Seqs /\ e.op \in Joins /\ lobby[v].page # "auth"
  BY BaseSeqs, WaitingIs DEF ListsInv, RoomsBase, Joins, Tidings
<1>1. PICK p : p = ShowChat(lobby[v])
  OBVIOUS
<1>2. Put(v, p) /\ lobby'[v] = p
  BY <1>1 DEF Put, JoinRoomResponse, ListsInv, RoomsBase, TypesInv, PanelsTyped
<1>3. BelongsStay(v) /\ visit'[v].room = visit[v].room /\ PanelSound(lobby[v])
  BY NoticeStays
<1>4. PICK item : item = GetSelectedRoom(lobby[v])
  OBVIOUS
<1>5. IF HasSelected(lobby[v]) THEN TurnedTo(lobby[v], p, "chat", item) ELSE TurnedTo(lobby[v], p, "ended", lobby[v].header)
  BY <1>1, <1>3, <1>4, ChatShown
<1>6. p.list = lobby[v].list
  BY <1>5 DEF TurnedTo, SameLists
<1>7. hasty' = hasty
  BY DEF JoinRoomResponse
<1>8. CASE OnJoinRoom(lobby[v])
  <2>1. HasSelected(lobby[v])
    BY <1>8 DEF OnJoinRoom
  <2>2. PICK request : request = [Chore("BecomeMember") EXCEPT !.id = item.id]
    OBVIOUS
  <2>3. Ask(v, request)
    BY <1>4, <1>8, <2>2 DEF JoinRoomResponse
  <2>4. PICK a \in DOMAIN chores'[v] : ChoresTurned(v, 0, a) /\ chores'[v][a] = request
    BY <1>0, <2>3, AskTurns
  <2>5. request.op = "BecomeMember" /\ request.id = item.id /\ request.stage = "new"
    <3>1. PICK op : op = "BecomeMember"
      OBVIOUS
    <3>2. PICK id : id = item.id
      OBVIOUS
    <3>3. op \in Joins /\ request = [Chore(op) EXCEPT !.id = id]
      BY <2>2, <3>1, <3>2 DEF Joins
    <3>4. RequestOf(request, op, id, "")
      BY <3>3, PlainRequest, Zenon
    <3> QED
      BY <3>1, <3>2, <3>4, Zenon DEF RequestOf
  <2>6. request.op \in Joins /\ request.op # "Auth"
    BY <2>5 DEF Joins
  <2>7. NowSound(v, request)
    BY <2>5, <2>6, NoJoinIsSound
  <2>8. ASSUME v \notin hasty' PROVE JoiningOf(v)' /\ \A lists \in Seen(v, p) : MineBelong(v, lists.mine)'
    <3>1. JoinedWell(v)
      BY <1>7, <2>8, JoinParts
    <3>2. JoinTold(v, e)
      BY <1>0, <3>1, JoinIsTold
    <3>3. lobby'[v].header.id = visit'[v].room /\ SelectedBelongs(v)' /\ SelectedIs(lobby'[v], item.id)
      BY <1>2, <1>3, <1>4, <1>5, <2>1, <3>1, <3>2, ChatEntered
    <3>4. JoiningOf(v)'
      BY <2>4, <2>5, <2>6, <3>2, <3>3, FirstIsAsked DEF JoinTold, NoneAsked, NoneTold
    <3> QED
      BY <1>0, <1>6, <3>1, <3>4, TurnedSees
  <2> QED
    BY <1>2, <1>7, <2>4, <2>6, <2>7, <2>8, HeardJoins
<1>9. CASE ~OnJoinRoom(lobby[v])
  <2>1. UNCHANGED <<chores, hasty>>
    BY <1>9 DEF JoinRoomResponse
  <2>2. ASSUME JoinedWell(v) PROVE JoiningOf(v)' /\ \A lists \in Seen(v, p) : MineBelong(v, lists.mine)'
    <3>1. JoinTold(v, e)
      BY <1>0, <2>2, JoinIsTold
    <3>2. NoJoins(v)'
      BY <2>1, <3>1 DEF NoJoins, JoinTold, NoneAsked, NoneTold
    <3>3. lobby'[v].page = "chat" => lobby'[v].header.id = visit'[v].room
      <4>1. CASE HasSelected(lobby[v])
        BY <1>2, <1>3, <1>4, <1>5, <2>2, <3>1, <4>1, ChatEntered
      <4>2. CASE ~HasSelected(lobby[v])
        BY <1>2, <1>5, <4>2 DEF TurnedTo
      <4> QED
        BY <4>1, <4>2
    <3> QED
      BY <1>0, <1>6, <2>2, <3>2, <3>3, NoneJoins, TurnedSees
  <2> QED
    BY <1>2, <2>1, <2>2, SilentlyHeardJoins
<1> QED
  BY <1>8, <1>9

\* A join that is refused is one that was hurried.
LEMMA RefusalHeard ==
    ASSUME ListsInv, LobbyInv', JoinInv, NEW v \in Visitor, NEW e, TakesNotice(v, e), e.op = "JoinRoom", ~e.ok, Look(v, lobby[v])
    PROVE  JoinInv'
<1>1. PICK p : p = lobby[v]
  OBVIOUS
<1>2. Put(v, p) /\ UNCHANGED <<chores, hasty>>
  BY <1>1 DEF Look
<1>3. ~JoinedWell(v)
  BY JoinIsTold DEF JoinTold, Joins
<1> QED
  BY <1>2, <1>3, SilentlyHeardJoins

\* Another user's room has come.
LEMMA OthersRoomHeard ==
    ASSUME ListsInv, LobbyInv', JoinInv, NEW v \in Visitor, NEW e, TakesNotice(v, e), e.op = "NewRoomCreated", NewRoomCreated(v, e),
           e.owner # lobby[v].me
    PROVE  JoinInv'
<1>1. PICK own : own = FALSE
  OBVIOUS
<1>2. PICK item : item = Item(e.id, e.name)
  OBVIOUS
<1>3. PICK p : p = AddRoom(lobby[v], item, own)
  OBVIOUS
<1>4. item \in RoomItem
  BY <1>2 DEF TakesNotice, NoticeTyped, Item, RoomItem, Tidings
<1>5. Put(v, p) /\ UNCHANGED <<chores, hasty>>
  <2>1. (e.owner = lobby[v].me) = own
    BY <1>1
  <2> QED
    BY <1>2, <1>3, <2>1 DEF NewRoomCreated
<1>6. PanelSound(lobby[v])
  BY NoticeStays
<1>7. RoomCame(lobby[v], p, item, e.id) /\ SelectionKept(lobby[v], p) /\ MineFrom(lobby[v], p)
  BY <1>1, <1>3, <1>4, <1>6, RoomAddedToPublic
<1>8. SelectionKept(lobby[v], p) /\ ShowsSame(lobby[v], p) /\ (p.page # "auth" => lobby[v].page # "auth")
  BY <1>7 DEF SelectionKept, ShowsSame, RoomCame, SameView
<1>9. e.op \notin Joins
  BY DEF Joins
<1> QED
  BY <1>5, <1>7, <1>8, <1>9, CalmHearing

\* One's own room has come, and is asked for.
LEMMA OwnRoomHeard ==
    ASSUME ListsInv, LobbyInv', JoinInv, NEW v \in Visitor, NEW e, TakesNotice(v, e), e.op = "NewRoomCreated", NewRoomCreated(v, e),
           e.owner = lobby[v].me
    PROVE  JoinInv'
<1>0. Seqs
  BY BaseSeqs DEF ListsInv, RoomsBase
<1>1. PICK own : own = TRUE
  OBVIOUS
<1>2. PICK item : item = Item(e.id, e.name)
  OBVIOUS
<1>3. PICK p : p = AddRoom(lobby[v], item, own)
  OBVIOUS
<1>4. item \in RoomItem /\ item.id = e.id
  BY <1>2 DEF TakesNotice, NoticeTyped, Item, RoomItem, Tidings
<1>5. PICK request : request = [Chore("JoinRoom") EXCEPT !.id = item.id]
  OBVIOUS
<1>6. Put(v, p) /\ Ask(v, request) /\ Hasten(v)
  <2>1. (e.owner = lobby[v].me) = own
    BY <1>1
  <2> QED
    BY <1>2, <1>3, <1>4, <1>5, <2>1 DEF NewRoomCreated
<1>7. lobby'[v] = p
  BY <1>6 DEF Put, ListsInv, RoomsBase, TypesInv, PanelsTyped
<1>8. BelongsStay(v) /\ PanelSound(lobby[v]) /\ Shrank(notices[v], notices'[v])
  BY NoticeStays
<1>9. RoomCame(lobby[v], p, item, e.id) /\ HasSelected(p) /\ GetSelectedRoom(p) = item /\ MineGained(lobby[v], p, item)
  <2>1. PICK panel, id : panel = lobby[v] /\ id = e.id
    OBVIOUS
  <2>2. PanelSound(panel) /\ p = AddRoom(panel, item, own)
    BY <1>3, <1>8, <2>1
  <2>3. RoomCame(panel, p, item, id) /\ HasSelected(p) /\ GetSelectedRoom(p) = item /\ MineGained(panel, p, item)
    BY <1>1, <1>4, <2>2, RoomAddedToMine
  <2> QED
    BY <2>1, <2>3
<1>10. PICK a \in DOMAIN chores'[v] : ChoresTurned(v, 0, a) /\ chores'[v][a] = request
  BY <1>0, <1>6, AskTurns
<1>11. request.op = "JoinRoom" /\ request.id = item.id /\ request.stage = "new"
  <2>1. PICK op : op = "JoinRoom"
    OBVIOUS
  <2>2. PICK id : id = item.id
    OBVIOUS
  <2>3. op \in Joins /\ request = [Chore(op) EXCEPT !.id = id]
    BY <1>5, <2>1, <2>2 DEF Joins
  <2>4. RequestOf(request, op, id, "")
    BY <2>3, PlainRequest, Zenon
  <2> QED
    BY <2>1, <2>2, <2>4, Zenon DEF RequestOf
<1>12. request.op \in Joins /\ request.op # "Auth"
  BY <1>11 DEF Joins
<1>13. NowSound(v, request)
  BY <1>11, <1>12, NoJoinIsSound
<1>14. hasty \subseteq hasty' /\ (v \notin hasty' => v \notin hasty /\ NoJoins(v))
  BY <1>6, Hastened
<1>15. ASSUME v \notin hasty' PROVE JoiningOf(v)'
  <2>1. \A j \in DOMAIN notices'[v] : \E k \in DOMAIN notices[v] : notices'[v][j] = notices[v][k]
    <3>1. PICK q, r : q = notices[v] /\ r = notices'[v]
      OBVIOUS
    <3>2. \A k \in DOMAIN r : k + 1 \in DOMAIN q /\ r[k] = q[k + 1]
      BY <1>8, <3>1, ShrankFrom
    <3> QED
      BY <3>1, <3>2
  <2>2. \A j \in DOMAIN notices'[v] : notices'[v][j].op \notin Joins
    BY <1>14, <1>15, <2>1 DEF NoJoins
  <2>3. \A i \in DOMAIN chores[v] : chores[v][i].op \notin Joins
    BY <1>14, <1>15 DEF NoJoins
  <2>4. SelectedIs(lobby'[v], request.id)
    BY <1>7, <1>9, <1>11 DEF SelectedIs
  <2> QED
    BY <1>10, <1>11, <1>12, <2>2, <2>3, <2>4, FirstIsAsked
<1>16. ASSUME v \notin hasty', NEW lists \in Seen(v, p) PROVE MineBelong(v, lists.mine)'
  <2>1. NoJoins(v) /\ JoinedWell(v)
    BY <1>14, <1>16, JoinParts
  <2>2. PICK items : items = lists.mine
    OBVIOUS
  <2>3. CASE lists \in Bases(v)
    <3>1. \A k \in DOMAIN items : Belongs(v, items[k].id)'
      BY <1>8, <2>1, <2>2, <2>3, MineWithoutJoins DEF JoinedWell
    <3> QED
      BY <2>2, <3>1 DEF MineBelong
  <2>4. CASE p.page # "auth" /\ lists = p.list
    <3>1. PICK mine : mine = lobby[v].list.mine
      OBVIOUS
    <3>2. lobby[v].list \in Bases(v)
      BY <1>9, <2>4 DEF RoomCame, SameView, Bases
    <3>3. \A k \in DOMAIN mine : Belongs(v, mine[k].id)'
      BY <1>8, <2>1, <3>1, <3>2, MineWithoutJoins DEF JoinedWell
    <3>4. \A k \in DOMAIN items : items[k] = item \/ \E j \in DOMAIN mine : items[k] = mine[j]
      BY <1>9, <2>2, <2>4, <3>1 DEF MineGained
    <3> QED
      BY <1>10, <1>11, <2>2, <3>3, <3>4 DEF MineBelong
  <2> QED
    BY <1>16, <2>3, <2>4 DEF Seen
<1> QED
  BY <1>6, <1>10, <1>12, <1>13, <1>14, <1>15, <1>16, HeardJoins

LEMMA CreationJoins ==
    ASSUME ListsInv, LobbyInv', JoinInv, NEW v \in Visitor, NEW e, TakesNotice(v, e), e.op = "NewRoomCreated", NewRoomCreated(v, e)
    PROVE  JoinInv'
<1>1. CASE e.owner = lobby[v].me
  BY <1>1, OwnRoomHeard
<1>2. CASE e.owner # lobby[v].me
  BY <1>2, OthersRoomHeard
<1> QED
  BY <1>1, <1>2

LEMMA RenamedJoins ==
    ASSUME NEW p, PanelSound(p), NEW rid, NEW name \in RoomText, NEW r, r = RenameRoom(SetRoomName(p, rid, name), rid, name)
    PROVE  r.page = p.page /\ ShowsSame(p, r) /\ SelectionKept(p, r) /\ MineFrom(p, r)
<1>1. PICK s : s = SetRoomName(p, rid, name)
  OBVIOUS
<1>2. TurnedTo(p, s, p.page, HeaderFor(p, rid, name))
  BY <1>1, HeaderNamed
<1>3. RoomNamed(s, r, rid, name, rid)
  <2>1. PICK id : id = rid
    OBVIOUS
  <2>2. PanelSound(s) /\ r = RenameRoom(s, rid, name)
    BY <1>1, <1>2 DEF TurnedTo
  <2>3. RoomNamed(s, r, rid, name, id)
    BY <2>2, RoomRenamedInLists
  <2> QED
    BY <2>1, <2>3
<1>4. HeaderFor(p, rid, name).id = p.header.id
  BY DEF HeaderFor, Item
<1>5. r.page = p.page /\ ShowsSame(p, r)
  BY <1>2, <1>3, <1>4 DEF TurnedTo, RoomNamed, ShowsSame
<1>6. SameIds(p.list.mine, r.list.mine) /\ SameIds(p.list.public, r.list.public) /\ r.tab = p.tab /\ r.selected = p.selected
  BY <1>2, <1>3 DEF TurnedTo, SameLists, RoomNamed
<1>7. SelectionKept(p, r)
  <2>1. p.tab \in {"mine", "public"}
    BY DEF PanelSound, Panels, Tabs
  <2>2. ASSUME HasSelected(p) PROVE p.selected[p.tab] \in DOMAIN p.list[p.tab]
    BY <2>1, <2>2 DEF HasSelected, PanelSound, Panels
  <2> QED
    BY <1>6, <2>1, <2>2 DEF SelectionKept, SameIds, HasSelected, GetSelectedRoom
<1>8. MineFrom(p, r)
  BY <1>6 DEF MineFrom, SameIds
<1> QED
  BY <1>5, <1>7, <1>8

LEMMA NameJoins ==
    ASSUME ListsInv, LobbyInv', JoinInv, NEW v \in Visitor, NEW e, TakesNotice(v, e), e.op = "NewRoomName", NewRoomName(v, e)
    PROVE  JoinInv'
<1>1. PICK p, panel, rid, name : p = RenameRoom(SetRoomName(panel, rid, name), rid, name) /\ panel = lobby[v] /\ rid = e.id /\ name = e.name
  OBVIOUS
<1>2. Put(v, p) /\ UNCHANGED <<chores, hasty>>
  BY <1>1 DEF NewRoomName, Look
<1>3. name \in RoomText /\ e.op \notin Joins
  BY <1>1 DEF TakesNotice, NoticeTyped, Joins
<1>4. PanelSound(panel)
  BY <1>1, NoticeStays
<1>5. p.page = panel.page /\ ShowsSame(panel, p) /\ SelectionKept(panel, p) /\ MineFrom(panel, p)
  BY <1>1, <1>3, <1>4, RenamedJoins
<1> QED
  BY <1>1, <1>2, <1>3, <1>5, CalmHearing

LEMMA RemovedJoins ==
    ASSUME NEW p, PanelSound(p), NEW rid, NEW s, NEW r,
           s = (IF p.page = "chat" /\ p.header.id = rid THEN ShowRooms(p) ELSE p), r = RemoveRoom(s, rid)
    PROVE  (r.page # "auth" => p.page # "auth") /\ ShowsSame(p, r) /\ SelectionKept(p, r) /\ MineFrom(p, r)
<1>1. PanelSound(s) /\ SameLists(p, s) /\ s.header = p.header /\ (s.page = p.page \/ (p.page = "chat" /\ s.page = "rooms"))
  <2>1. TurnedTo(p, ShowRooms(p), "rooms", p.header)
    BY RoomsShown
  <2> QED
    BY <2>1 DEF TurnedTo, SameLists
<1>2. RoomGone(s, r, rid, rid)
  <2>1. PICK id : id = rid
    OBVIOUS
  <2>2. RoomGone(s, r, rid, id)
    BY <1>1, RoomRemovedFromLists
  <2> QED
    BY <2>1, <2>2
<1>3. HasSelected(s) = HasSelected(p) /\ GetSelectedRoom(s) = GetSelectedRoom(p)
  BY <1>1 DEF SameLists, HasSelected, GetSelectedRoom
<1>4. SelectionKept(p, r)
  BY <1>2, <1>3 DEF RoomGone, SelectionKept
<1>5. ShowsSame(p, r) /\ (r.page # "auth" => p.page # "auth")
  BY <1>1, <1>2 DEF RoomGone, SameView, ShowsSame
<1>6. MineFrom(p, r)
  BY <1>1, <1>2 DEF RoomGone, MineFrom, SameLists
<1> QED
  BY <1>4, <1>5, <1>6

LEMMA DeletionJoins ==
    ASSUME ListsInv, LobbyInv', JoinInv, NEW v \in Visitor, NEW e, TakesNotice(v, e), e.op = "RoomDeleted", RoomDeleted(v, e)
    PROVE  JoinInv'
<1>1. PICK panel, rid : panel = lobby[v] /\ rid = e.id
  OBVIOUS
<1>2. PICK s : s = (IF panel.page = "chat" /\ panel.header.id = rid THEN ShowRooms(panel) ELSE panel)
  OBVIOUS
<1>3. PICK p : p = RemoveRoom(s, rid)
  OBVIOUS
<1>4. Put(v, p) /\ UNCHANGED <<chores, hasty>> /\ e.op \notin Joins
  BY <1>1, <1>2, <1>3 DEF RoomDeleted, Look, Joins
<1>5. PanelSound(panel)
  BY <1>1, NoticeStays
<1>6. (p.page # "auth" => panel.page # "auth") /\ ShowsSame(panel, p) /\ SelectionKept(panel, p) /\ MineFrom(panel, p)
  BY <1>2, <1>3, <1>5, RemovedJoins
<1> QED
  BY <1>1, <1>4, <1>6, CalmHearing

\* The end of a request that is no join.
LEMMA ShownJoins ==
    ASSUME ListsInv, LobbyInv', JoinInv, NEW v \in Visitor, NEW e, TakesNotice(v, e), e.op \notin Joins \cup Tidings \cup {"Auth"},
           NEW p \in {ShowRooms(lobby[v]), lobby[v]}, Look(v, p)
    PROVE  JoinInv'
<1>1. Put(v, p) /\ UNCHANGED <<chores, hasty>> /\ e.op \notin Joins
  BY DEF Look
<1>2. PanelSound(lobby[v]) /\ lobby[v].page # "auth"
  BY NoticeStays, WaitingIs
<1>3. ShowsSame(lobby[v], p) /\ SameLists(lobby[v], p)
  <2>1. TurnedTo(lobby[v], ShowRooms(lobby[v]), "rooms", lobby[v].header)
    BY <1>2, RoomsShown
  <2>2. CASE p = ShowRooms(lobby[v])
    BY <2>1, <2>2 DEF TurnedTo, ShowsSame
  <2>3. CASE p = lobby[v]
    BY <2>3 DEF ShowsSame, SameLists
  <2> QED
    BY <2>2, <2>3
<1>4. SelectionKept(lobby[v], p) /\ MineFrom(lobby[v], p)
  BY <1>3 DEF SameLists, SelectionKept, MineFrom, HasSelected, GetSelectedRoom
<1> QED
  BY <1>1, <1>2, <1>3, <1>4, CalmHearing

\* The lists have come.
LEMMA ListsJoins ==
    ASSUME ListsInv, LobbyInv', JoinInv, NEW v \in Visitor, NEW e, TakesNotice(v, e), e.op = "Auth", AuthResponse(v, e)
    PROVE  JoinInv'
<1>1. PICK p, panel, me, mine, public : /\ p = ShowRooms(UpdateRoomList([panel EXCEPT !.me = me], mine, public))
                                        /\ panel = lobby[v] /\ me = e.user /\ mine = e.mine /\ public = e.public
  OBVIOUS
<1>2. Put(v, p) /\ UNCHANGED <<chores, hasty>>
  BY <1>1 DEF AuthResponse, Look
<1>3. me \in Nat /\ mine \in Seq(RoomItem) /\ public \in Seq(RoomItem)
  BY <1>1 DEF TakesNotice, NoticeTyped
<1>4. PanelSound(panel) /\ BelongsStay(v) /\ Shrank(notices[v], notices'[v])
  BY <1>1, NoticeStays
<1>5. p.page = "rooms" /\ p.list = [mine |-> mine, public |-> public]
  BY <1>1, <1>3, <1>4, ListsTaken
<1>6. lobby'[v] = p
  BY <1>2 DEF Put, ListsInv, RoomsBase, TypesInv, PanelsTyped
<1>7. /\ 1 \in DOMAIN notices[v] /\ e = notices[v][1]
      /\ \A k \in DOMAIN notices'[v] : k + 1 \in DOMAIN notices[v] /\ notices'[v][k] = notices[v][k + 1]
  BY <1>4, ShrankFrom DEF TakesNotice
<1>8. NoJoins(v) /\ NoJoins(v)'
  <2>1. PhaseOf(v) /\ lobby[v].page = "auth"
    BY InsideHearsNoLists DEF ListsInv, PhaseInv
  <2>2. DOMAIN chores[v] = {}
    BY <1>7, <2>1 DEF PhaseOf
  <2>3. \A k \in DOMAIN notices[v] : notices[v][k].op \notin Joins
    BY <2>1 DEF PhaseOf, Tidings, Joins
  <2> QED
    BY <1>2, <1>7, <2>2, <2>3 DEF NoJoins
<1>9. p.list \in Bases(v)
  <2>1. 1 \in AuthsTold(v)
    BY <1>7 DEF AuthsTold
  <2>2. p.list = Pair(notices[v][1])
    BY <1>1, <1>5, <1>7 DEF Pair
  <2> QED
    BY <2>1, <2>2 DEF Bases
<1>10. JoiningOf(v)'
  BY <1>5, <1>6, <1>8, NoneJoins
<1>11. ASSUME JoinedWell(v), NEW lists \in Seen(v, p) PROVE MineBelong(v, lists.mine)'
  <2>1. PICK items : items = lists.mine
    OBVIOUS
  <2>2. lists \in Bases(v)
    BY <1>9, <1>11 DEF Seen
  <2>3. \A k \in DOMAIN items : Belongs(v, items[k].id)'
    BY <1>4, <1>8, <1>11, <2>1, <2>2, MineWithoutJoins DEF JoinedWell
  <2> QED
    BY <2>1, <2>3 DEF MineBelong
<1> QED
  BY <1>2, <1>10, <1>11, SilentlyHeardJoins

LEMMA HearJoins ==
    ASSUME ListsInv, JoinInv, NEW v \in Visitor, Hear(v), LobbyInv'
    PROVE  JoinInv'
<1>1. PICK e : e = Head(notices[v])
  OBVIOUS
<1>2. TakesNotice(v, e)
  BY <1>1, NoticeHeard
<1>3. CASE e.op = "NewRoomCreated"
  <2>1. NewRoomCreated(v, e)
    BY <1>1, <1>3 DEF Hear
  <2> QED
    BY <1>2, <1>3, <2>1, CreationJoins
<1>4. CASE e.op = "NewRoomName"
  <2>1. NewRoomName(v, e)
    BY <1>1, <1>4 DEF Hear
  <2> QED
    BY <1>2, <1>4, <2>1, NameJoins
<1>5. CASE e.op = "RoomDeleted"
  <2>1. RoomDeleted(v, e)
    BY <1>1, <1>5 DEF Hear
  <2> QED
    BY <1>2, <1>5, <2>1, DeletionJoins
<1>6. CASE e.op = "Auth"
  <2>1. AuthResponse(v, e)
    BY <1>1, <1>6 DEF Hear
  <2> QED
    BY <1>2, <1>6, <2>1, ListsJoins
<1>7. CASE e.op = "JoinRoom"
  <2>1. IF e.ok THEN JoinRoomResponse(v) ELSE Look(v, lobby[v])
    BY <1>1, <1>7 DEF Hear
  <2> QED
    BY <1>2, <1>7, <2>1, RoomEntered, RefusalHeard
<1>8. CASE e.op = "BecomeMember"
  <2>1. PICK p \in {OnBecameMember(lobby[v]), lobby[v]} : Look(v, p)
    BY <1>1, <1>8 DEF Hear
  <2>2. Put(v, p) /\ UNCHANGED <<chores, hasty>>
    BY <2>1 DEF Look
  <2> QED
    BY <1>2, <1>8, <2>1, <2>2, MemberHeard
<1>9. CASE e.op \notin Joins \cup Tidings \cup {"Auth"}
  <2>1. PICK p \in {ShowRooms(lobby[v]), lobby[v]} : Look(v, p)
    BY <1>1, <1>9 DEF Hear, Tidings, Joins
  <2> QED
    BY <1>2, <1>9, <2>1, ShownJoins
<1> QED
  BY <1>3, <1>4, <1>5, <1>6, <1>7, <1>8, <1>9 DEF Tidings, Joins

LEMMA JoinStep ==
    ASSUME ListsInv, JoinInv, LobbyInv', [NextLobby]_lobbyVars
    PROVE  JoinInv'
<1>1. CASE UNCHANGED lobbyVars
  <2>1. UNCHANGED <<db, visit, chores, notices, lobby, puzzled, hasty>>
    BY <1>1 DEF lobbyVars
  <2>2. ASSUME NEW v, NEW id PROVE Belongs(v, id)' <=> Belongs(v, id)
    BY <2>1 DEF Belongs, IsMember
  <2>3. ASSUME NEW v, NEW chore, JoinSound(v, chore) PROVE NowSound(v, chore)
    BY <2>1, <2>2, <2>3 DEF NowSound, JoinSound, IsMember
  <2>4. SoundRequests'
    BY <2>1, <2>3, JoinParts DEF SoundRequests, NowSound
  <2>5. ASSUME NEW w \in Visitor, JoinedWell(w) PROVE JoinedWell(w)'
    <3>1. /\ JoinsKept(chores[w], chores'[w]) /\ JoinsKept(notices[w], notices'[w])
      BY <2>1, SameKeepsJoins
    <3>2. visit'[w].room = visit[w].room /\ BelongsStay(w) /\ ShowsSame(lobby[w], lobby'[w]) /\ SelectionKept(lobby[w], lobby'[w])
      BY <2>1, <2>2 DEF BelongsStay, ShowsSame, SelectionKept
    <3>3. JoiningOf(w)'
      BY <2>5, <3>1, <3>2, CalmJoining DEF CalmFor, JoinedWell
    <3>4. Bases(w)' = Bases(w)
      BY <2>1 DEF Bases, AuthsDone, AuthsTold
    <3>5. ASSUME NEW lists \in Bases(w) PROVE MineBelong(w, lists.mine)'
      <4>1. PICK items : items = lists.mine /\ MineBelong(w, items)
        BY <2>5 DEF JoinedWell
      <4>2. MineBelong(w, items)'
        BY <3>1, <3>2, <4>1, CalmMine
      <4> QED
        BY <4>1, <4>2
    <3> QED
      BY <3>3, <3>4, <3>5 DEF JoinedWell
  <2> QED
    BY <2>1, <2>4, <2>5, JoinParts DEF JoinInv, SoundRequests, JoinedWell
<1>2. CASE NextLobby
  BY <1>2, HandlersKeepJoins, VisitJoins, HearJoins DEF NextLobby
<1> QED
  BY <1>1, <1>2

LEMMA JoinStart == InitLobby => JoinInv
<1> SUFFICES ASSUME InitLobby PROVE JoinInv
  OBVIOUS
<1>0. StartsQuietly /\ ListsInv
  BY QuietStart, ListsStart
<1>1. PICK auth : auth = Chore("Auth")
  OBVIOUS
<1>2. auth.op = "Auth" /\ auth.stage = "new" /\ auth.op \notin Joins
  BY <1>1, LogInTyped DEF Joins
<1>3. \A w \in Visitor : \A j \in DOMAIN chores[w] : chores[w][j] = auth
  BY <1>0, <1>1 DEF StartsQuietly
<1>4. SoundRequests
  BY <1>2, <1>3 DEF SoundRequests, JoinSound, Joins
<1>5. ASSUME NEW v \in Visitor PROVE JoinedWell(v)
  <2>1. (\A j \in DOMAIN chores[v] : chores[v][j].op \notin Joins) /\ notices[v] = <<>> /\ DOMAIN notices[v] = {}
    BY <1>0, <1>2, <1>3 DEF StartsQuietly
  <2>2. AuthsDone(v) = {} /\ AuthsTold(v) = {}
    BY <1>2, <1>3, <2>1 DEF AuthsDone, AuthsTold
  <2>3. lobby[v].page = "chat" => lobby[v].header.id = visit[v].room
    <3>1. CASE Outside(v)
      <4>1. PICK p : p = NewLobby(0)
        OBVIOUS
      <4> QED
        BY <3>1, <4>1, NewLobbyIsSound DEF Outside
    <3>2. CASE Arrived(v)
      BY <3>2, Zenon DEF Arrived
    <3> QED
      BY <3>1, <3>2 DEF InitLobby
  <2>4. JoiningOf(v)
    BY <2>1, <2>3 DEF JoiningOf, Joins
  <2>5. ASSUME NEW lists \in Bases(v) PROVE MineBelong(v, lists.mine)
    <3>1. lobby[v].page # "auth" /\ lists = lobby[v].list
      BY <2>2, <2>5 DEF Bases
    <3>2. Arrived(v)
      <4>1. PICK p : p = NewLobby(0)
        OBVIOUS
      <4>2. ~Outside(v)
        BY <3>1, <4>1, NewLobbyIsSound DEF Outside
      <4> QED
        BY <4>2 DEF InitLobby
    <3>3. PICK mine, ids : mine = lists.mine /\ ids = Joined(visit[v].user)
      OBVIOUS
    <3>4. ListOf(mine, ids)
      BY <3>1, <3>2, <3>3, ArrivedLists
    <3>5. \A k \in DOMAIN mine : mine[k].id \in ids
      BY <3>4 DEF ListOf
    <3>6. \A id \in ids : Belongs(v, id)
      BY <1>0, <3>3, JoinedBelong DEF ListsInv
    <3> QED
      BY <3>3, <3>5, <3>6 DEF MineBelong
  <2> QED
    BY <2>4, <2>5 DEF JoinedWell
<1> QED
  BY <1>4, <1>5, JoinParts

-----------------------------------------------------------------------------
(***************************************************************************)
(* Clients that have heard everything.                                     *)
(***************************************************************************)

LEMMA NowAnnounced ==
    ASSUME NEW v \in Visitor, Settled(v), ListsInv, NEW op, NEW id
    PROVE  ~Announcing(op, id)
<1>1. ASSUME NEW w \in Visitor, NEW j \in DOMAIN chores[w] PROVE chores[w][j].stage # "tell"
  <2>1. chores[w][j] \in ToSet(chores[w])
    BY DEF ToSet
  <2> QED
    BY <2>1 DEF Settled
<1> QED
  BY <1>1 DEF Announcing

\* A client that has heard everything calls the rooms what the tables do.
LEMMA CallsAreRows ==
    ASSUME ListsInv, NEW v \in Visitor, Settled(v), NEW id \in Nat \ puzzled
    PROVE  /\ Single(lobby[v].list, id)
           /\ Calls(lobby[v].list, id) = (IF id \in DOMAIN db.rooms THEN {db.rooms[id].room_name} ELSE {})
<1>1. PICK lists : lists = lobby[v].list
  OBVIOUS
<1>2. lists \in Bases(v) /\ DOMAIN notices[v] = {} /\ notices[v] = <<>>
  BY <1>1 DEF Settled, Inside, Bases
<1>3. ~Announcing("CreateRoom", id) /\ ~Announcing("DeleteRoom", id) /\ Quiet(id)
  BY NowAnnounced DEF Quiet
<1>4. Heard(lists, <<>>, id, Stage(id), NameNow(id), Quiet(id))
  <2>1. HeardOf(v, id)
    BY DEF ListsInv, HeardInv
  <2> QED
    BY <1>2, <2>1 DEF HeardOf
<1>5. CASE id \in DOMAIN db.rooms
  <2>1. id \in 1 .. db.serial
    BY <1>5 DEF ListsInv, RoomsBase, LobbyInv, TablesInv
  <2>2. Stage(id) = "known"
    BY <1>3, <1>5, <2>1 DEF Stage, Unborn
  <2>3. PICK stage, name : stage = Stage(id) /\ name = NameNow(id)
    OBVIOUS
  <2>4. Calls(lists, id) # {}
    BY <1>4, <2>2 DEF Heard, Stays
  <2>5. \A n \in Calls(lists, id) : n = NameNow(id)
    BY <1>3, <1>4, <2>2 DEF Heard, NameComesTo, Later
  <2> QED
    BY <1>1, <1>4, <1>5, <2>4, <2>5 DEF Heard, NameNow
<1>6. CASE id \notin DOMAIN db.rooms
  <2>1. Stage(id) \in {"unborn", "gone"}
    BY <1>3, <1>6 DEF Stage
  <2>2. Calls(lists, id) = {}
    BY <1>4, <2>1 DEF Heard, Unheard, Goes, Later
  <2> QED
    BY <1>1, <1>4, <1>6, <2>2 DEF Heard
<1> QED
  BY <1>5, <1>6

\* Counting the places where it does.
LEMMA PlacesCounted ==
    ASSUME NEW p, PanelSound(p), NEW id, Single(p.list, id), NEW names, Calls(p.list, id) = names, NEW name, names = {} \/ names = {name}
    PROVE  Cardinality(Indices(p, "mine", id)) + Cardinality(Indices(p, "public", id)) = (IF names = {} THEN 0 ELSE 1)
<1>1. PICK mine, public : mine = Places(p.list.mine, id) /\ public = Places(p.list.public, id)
  OBVIOUS
<1>2. Indices(p, "mine", id) = mine /\ Indices(p, "public", id) = public
  BY <1>1 DEF Indices, Places
<1>3. (mine = {} <=> NamesIn(p.list.mine, id) = {}) /\ (public = {} <=> NamesIn(p.list.public, id) = {})
  BY <1>1 DEF NamesIn
<1>4. (\A i, j \in mine : i = j) /\ (\A i, j \in public : i = j) /\ (mine = {} \/ public = {})
  BY <1>1, <1>3 DEF Single, AtMostOnce
<1>5. Cardinality({}) = 0
  BY FS_EmptySet
<1>6. ASSUME NEW places, \A i, j \in places : i = j, places # {} PROVE Cardinality(places) = 1
  <2>1. PICK i : i \in places
    BY <1>6
  <2>2. places = {i}
    BY <1>6, <2>1
  <2> QED
    BY <2>2, FS_Singleton
<1>7. names = {} <=> mine = {} /\ public = {}
  BY <1>3 DEF Calls
<1>8. Cardinality(mine) + Cardinality(public) = (IF names = {} THEN 0 ELSE 1)
  <2>1. CASE mine # {}
    <3>1. Cardinality(mine) = 1
      BY <1>4, <1>6, <2>1
    <3>2. public = {} /\ names # {}
      BY <1>4, <1>7, <2>1
    <3> QED
      BY <1>5, <3>1, <3>2
  <2>2. CASE mine = {} /\ public # {}
    <3>1. Cardinality(public) = 1
      BY <1>4, <1>6, <2>2
    <3>2. names # {}
      BY <1>7, <2>2
    <3> QED
      BY <1>5, <2>2, <3>1, <3>2
  <2>3. CASE mine = {} /\ public = {}
    BY <1>5, <1>7, <2>3
  <2> QED
    BY <2>1, <2>2, <2>3
<1> QED
  BY <1>2, <1>8

LEMMA ListedItems ==
    ASSUME NEW p, PanelSound(p)
    PROVE  /\ \A item \in ToSet(p.list.mine \o p.list.public) : item.id \in Nat /\ item.name \in Calls(p.list, item.id)
           /\ \A item \in ToSet(p.list.mine) : item.id \in Nat /\ item.name \in Calls(p.list, item.id)
                                               /\ \E i \in DOMAIN p.list.mine : p.list.mine[i] = item
<1>1. PICK mine, public : mine = p.list.mine /\ public = p.list.public
  OBVIOUS
<1>2. mine \in Seq(RoomItem) /\ public \in Seq(RoomItem)
  BY <1>1 DEF PanelSound, Panels
<1>3. ASSUME NEW item, (\E i \in DOMAIN mine : mine[i] = item) \/ (\E i \in DOMAIN public : public[i] = item)
      PROVE  item.id \in Nat /\ item.name \in Calls(p.list, item.id)
  <2>1. item \in RoomItem
    BY <1>2, <1>3
  <2>2. item.name \in NamesIn(mine, item.id) \/ item.name \in NamesIn(public, item.id)
    BY <1>3 DEF NamesIn, Places
  <2> QED
    BY <1>1, <2>1, <2>2 DEF Calls, RoomItem
<1>4. ASSUME NEW item \in ToSet(mine \o public)
      PROVE  (\E i \in DOMAIN mine : mine[i] = item) \/ (\E i \in DOMAIN public : public[i] = item)
  <2>1. PICK k \in DOMAIN (mine \o public) : (mine \o public)[k] = item
    BY <1>4 DEF ToSet
  <2>2. /\ Len(mine) \in Nat /\ Len(public) \in Nat /\ DOMAIN mine = 1 .. Len(mine) /\ DOMAIN public = 1 .. Len(public)
        /\ k \in 1 .. Len(mine) + Len(public)
        /\ (mine \o public)[k] = IF k <= Len(mine) THEN mine[k] ELSE public[k - Len(mine)]
    BY <1>2, <2>1
  <2>3. CASE k <= Len(mine)
    BY <2>1, <2>2, <2>3
  <2>4. CASE k > Len(mine)
    <3>1. k - Len(mine) \in DOMAIN public /\ public[k - Len(mine)] = item
      BY <2>1, <2>2, <2>4
    <3> QED
      BY <3>1
  <2> QED
    BY <2>2, <2>3, <2>4
<1> QED
  BY <1>1, <1>3, <1>4, Zenon DEF ToSet

LEMMA SettledRooms ==
    ASSUME ListsInv, JoinInv
    PROVE  RoomsAreTrue
<1> SUFFICES ASSUME NEW v \in Visitor, Settled(v), NEW panel, panel = lobby[v],
                    NEW all, all = ToSet(panel.list.mine \o panel.list.public)
             PROVE  /\ \A id \in ({item.id : item \in all} \cup DOMAIN db.rooms) \ puzzled :
                          /\ Cardinality(Indices(panel, "mine", id)) + Cardinality(Indices(panel, "public", id))
                                 = (IF id \in DOMAIN db.rooms THEN 1 ELSE 0)
                          /\ \A item \in all : item.id = id => item.name = db.rooms[id].room_name
                    /\ v \notin hasty =>
                          /\ \A item \in ToSet(panel.list.mine) : item.id \notin puzzled =>
                                <<panel.me, item.id>> \in DOMAIN db.membership
                                /\ db.membership[<<panel.me, item.id>>].membership_status = "JOINED"
                          /\ panel.page = "chat" /\ panel.header.id \notin puzzled =>
                                /\ panel.header.id = visit[v].room
                                /\ panel.header.name = db.rooms[panel.header.id].room_name
  BY DEF RoomsAreTrue
<1>1. PanelSound(panel) /\ panel.page # "auth" /\ notices[v] = <<>> /\ chores[v] = <<>>
  BY DEF ListsInv, RoomsBase, TypesInv, PanelsTyped, Settled, Inside
<1>2. /\ \A item \in all : item.id \in Nat /\ item.name \in Calls(panel.list, item.id)
      /\ \A item \in ToSet(panel.list.mine) : item.id \in Nat /\ item.name \in Calls(panel.list, item.id)
                                              /\ \E i \in DOMAIN panel.list.mine : panel.list.mine[i] = item
  BY <1>1, ListedItems
<1>3. \A id \in Nat \ puzzled :
         /\ Single(panel.list, id)
         /\ Calls(panel.list, id) = (IF id \in DOMAIN db.rooms THEN {db.rooms[id].room_name} ELSE {})
  BY CallsAreRows
<1>4. DOMAIN db.rooms \subseteq Nat
  <2>1. db.serial \in Nat /\ DOMAIN db.rooms \subseteq 1 .. db.serial
    BY DEF ListsInv, RoomsBase, LobbyInv, TablesInv
  <2> QED
    BY <2>1
<1>5. ASSUME NEW id \in ({item.id : item \in all} \cup DOMAIN db.rooms) \ puzzled
      PROVE  /\ Cardinality(Indices(panel, "mine", id)) + Cardinality(Indices(panel, "public", id))
                    = (IF id \in DOMAIN db.rooms THEN 1 ELSE 0)
             /\ \A item \in all : item.id = id => item.name = db.rooms[id].room_name
  <2>1. id \in Nat \ puzzled
    BY <1>2, <1>4
  <2>2. PICK name, names : name = db.rooms[id].room_name /\ names = Calls(panel.list, id)
    OBVIOUS
  <2>3. Single(panel.list, id) /\ names = (IF id \in DOMAIN db.rooms THEN {name} ELSE {})
    BY <1>3, <2>1, <2>2
  <2>4. Cardinality(Indices(panel, "mine", id)) + Cardinality(Indices(panel, "public", id)) = (IF names = {} THEN 0 ELSE 1)
    <3>1. /\ PanelSound(panel) /\ Single(panel.list, id) /\ Calls(panel.list, id) = names
          /\ names = {} \/ names = {name}
      BY <1>1, <2>2, <2>3
    <3> QED
      BY <3>1, PlacesCounted
  <2>5. names = {} <=> id \notin DOMAIN db.rooms
    BY <2>3
  <2>6. ASSUME NEW item \in all, item.id = id PROVE item.name = name
    <3>1. item.name \in names
      BY <1>2, <2>2, <2>6
    <3>2. names \subseteq {name}
      BY <2>3
    <3> QED
      BY <3>1, <3>2
  <2> QED
    BY <2>2, <2>4, <2>5, <2>6
<1>6. ASSUME v \notin hasty, NEW item \in ToSet(panel.list.mine), item.id \notin puzzled
      PROVE  <<panel.me, item.id>> \in DOMAIN db.membership
             /\ db.membership[<<panel.me, item.id>>].membership_status = "JOINED"
  <2>1. PICK id : id = item.id
    OBVIOUS
  <2>2. id \in Nat \ puzzled /\ Calls(panel.list, id) # {}
    BY <1>2, <1>6, <2>1
  <2>3. id \in DOMAIN db.rooms
    BY <1>3, <2>2
  <2>4. Belongs(v, id)
    <3>1. PICK mine : mine = panel.list.mine
      OBVIOUS
    <3>2. MineBelong(v, mine)
      <4>1. panel.list \in Bases(v)
        BY <1>1 DEF Bases
      <4> QED
        BY <1>6, <3>1, <4>1 DEF JoinInv
    <3>3. DOMAIN chores[v] = {}
      BY <1>1
    <3>4. PICK i \in DOMAIN mine : mine[i] = item
      BY <1>2, <1>6, <3>1
    <3> QED
      BY <2>1, <3>2, <3>3, <3>4 DEF MineBelong
  <2>5. panel.me = visit[v].user
    BY <1>1 DEF ListsInv, PhaseInv, PhaseOf
  <2> QED
    BY <2>1, <2>2, <2>3, <2>4, <2>5 DEF Belongs, IsMember
<1>7. ASSUME v \notin hasty, panel.page = "chat", panel.header.id \notin puzzled
      PROVE  /\ panel.header.id = visit[v].room
             /\ panel.header.name = db.rooms[panel.header.id].room_name
  <2>1. panel.header.id = visit[v].room
    <3>1. DOMAIN chores[v] = {} /\ DOMAIN notices[v] = {}
      BY <1>1
    <3>2. JoiningOf(v)
      BY <1>7 DEF JoinInv
    <3> QED
      BY <1>7, <3>1, <3>2 DEF JoiningOf
  <2>2. PICK id : id = panel.header.id
    OBVIOUS
  <2>3. id \in Nat \ puzzled
    BY <1>1, <1>7, <2>2 DEF PanelSound, Panels, RoomItem
  <2>4. Calls(panel.list, id) = {panel.header.name}
    BY <1>7, <2>2, <2>3 DEF ListsInv, HeardInv, HeaderOf
  <2>5. panel.header.name = db.rooms[id].room_name
    BY <1>3, <2>3, <2>4
  <2> QED
    BY <2>1, <2>2, <2>5
<1> QED
  BY <1>5, <1>6, <1>7

LEMMA ListsHaveLobbyInv == ListsInv => LobbyInv
BY DEF ListsInv, RoomsBase

(***************************************************************************)
(* A client that has heard everything lists every room of the database     *)
(* once and no other, by its name; among its own only rooms its user has   *)
(* joined; and shows the room the server has it in: whichever of the       *)
(* handlers' awaits between row, transaction and sendToAll, and of the     *)
(* client's own requests, overlap.                                         *)
(***************************************************************************)
THEOREM RoomsAreTrueHolds == SpecLobby => []RoomsAreTrue
<1>1. InitLobby => ListsInv /\ JoinInv
  BY ListsStart, JoinStart
<1>2. ListsInv /\ JoinInv /\ [NextLobby]_lobbyVars => ListsInv' /\ JoinInv'
  BY LobbyStep, ListsStep, JoinStep, ListsHaveLobbyInv
<1>3. ListsInv /\ JoinInv => RoomsAreTrue
  BY SettledRooms
<1> QED
  BY <1>1, <1>2, <1>3, PTL DEF SpecLobby

=============================================================================
