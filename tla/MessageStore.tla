---------------------------- MODULE MessageStore ----------------------------
(***************************************************************************)
(* The messages of a server's rooms: writers that send and delete them,    *)
(* and the connection of one reader, whose requests to join a room and to  *)
(* list its messages are coroutines that share its session's lock.         *)
(*                                                                         *)
(* A row of table messages is its id, its room and created_at, which the   *)
(* database takes from its clock when a transaction begins: rows may share *)
(* a stamp, and become visible in another order than that of their stamps. *)
(***************************************************************************)
EXTENDS Integers, FiniteSets, Sequences, SequencesExt

CONSTANTS
    None,
    Room,
    Writer,         \* other sessions that send or delete, one thing at a time
    Frame,          \* coroutines of the reader's connection
    Chunk,          \* CHUNK_SIZE
    Rows0,          \* the possible contents of the table at the start
    MaxRows,        \* bound: rows ever inserted
    MaxGone         \* bound: rows ever deleted

Message == [id : Nat, room : Room, at : Int]
Write   == [op : {"send", "delete", "deleteRoom"}, row : Message, committed : BOOLEAN]
Request == [op : {"GetMessages"}, room : {None}, newer : BOOLEAN, at : Int]
             \cup [op : {"JoinRoom"}, room : Room, newer : {FALSE}, at : {0}]

ASSUME MessagesAssumption ==
    /\ None \notin Room \cup Write \cup Request
    /\ Chunk \in Nat \ {0}
    /\ \A known \in Rows0 : IsFiniteSet(known) /\ known \subseteq Message

VARIABLES
    table,          \* the rows of table messages
    gone,           \* the rows that were deleted
    closed,         \* the rooms that were deleted
    lastId,         \* the sequence of message ids
    clock,          \* the latest stamp given out
    writing,        \* writing[w]: the transaction and notice w is about
    session,        \* the reader's WsData::room
    listed,         \* the room in whose registry the reader's connection is
    frame,          \* frame[f]: the reader's coroutine f
    toServer,       \* requests on their way
    toClient,       \* responses and notices on their way
    overtaken       \* rows whose deletion was announced while a page or a
                    \* notice that shows them had yet to be sent

storage == <<table, gone, closed, lastId, clock>>
reader  == <<session, listed, frame>>
network == <<toServer, toClient>>
server  == <<storage, writing, reader, overtaken>>

Free == [stage |-> "free", ask |-> None, page |-> <<>>]

Send(kind, r, batch) ==
    toClient' = Append(toClient, [kind |-> kind, room |-> r, rows |-> batch])

GetMessages(newer, at) == [op |-> "GetMessages", room |-> None, newer |-> newer, at |-> at]
JoinRoom(r)            == [op |-> "JoinRoom", room |-> r, newer |-> FALSE, at |-> 0]

-----------------------------------------------------------------------------
\* handleSendMessage: the transaction begins, which fixes the stamp.
BeginSend(w) ==
    /\ writing[w] = None
    /\ lastId < MaxRows
    /\ \E r \in Room, at \in {clock, clock + 1} :
          /\ clock' = at
          /\ writing' = [writing EXCEPT ![w] =
                [op |-> "send", row |-> [id |-> lastId + 1, room |-> r, at |-> at],
                 committed |-> FALSE]]
    /\ lastId' = lastId + 1
    /\ UNCHANGED <<table, gone, closed, reader, network, overtaken>>

\* handleDeleteMessage, by a moderator of the row's room.
BeginDelete(w) ==
    /\ writing[w] = None
    /\ Cardinality(gone) < MaxGone
    /\ \E row \in table :
          writing' = [writing EXCEPT ![w] =
                        [op |-> "delete", row |-> row, committed |-> FALSE]]
    /\ UNCHANGED <<storage, reader, network, overtaken>>

\* handleDeleteRoom, by its owner.
BeginDeleteRoom(w) ==
    /\ writing[w] = None
    /\ \E r \in Room \ closed :
          writing' = [writing EXCEPT ![w] =
                        [op |-> "deleteRoom", row |-> [id |-> 0, room |-> r, at |-> 0],
                         committed |-> FALSE]]
    /\ UNCHANGED <<storage, reader, network, overtaken>>

Deciding(w) == writing[w] # None /\ ~writing[w].committed

\* WithTransaction returns: the row is there, or gone, for everybody.
CommitWrite(w) ==
    /\ Deciding(w)
    /\ LET row == writing[w].row IN
       \/ /\ writing[w].op = "send" /\ row.room \notin closed
          /\ table' = table \cup {row}
          /\ UNCHANGED <<gone, closed>>
       \/ /\ writing[w].op = "delete" /\ row \in table
          /\ table' = table \ {row}
          /\ gone' = gone \cup {row}
          /\ UNCHANGED closed
       \/ /\ writing[w].op = "deleteRoom" /\ row.room \notin closed
          /\ closed' = closed \cup {row.room}
          /\ LET lost == {m \in table : m.room = row.room}
             IN  table' = table \ lost /\ gone' = gone \cup lost
    /\ writing' = [writing EXCEPT ![w].committed = TRUE]
    /\ UNCHANGED <<lastId, clock, reader, network, overtaken>>

\* It was rolled back, or the row to delete was not found.
FailWrite(w) ==
    /\ Deciding(w)
    /\ writing' = [writing EXCEPT ![w] = None]
    /\ UNCHANGED <<storage, reader, network, overtaken>>

\* A row that was read for the reader and has yet to be sent.
StillToCome(row) ==
    \/ \E w \in Writer : writing[w] # None /\ writing[w].op = "send" /\ writing[w].row = row
    \/ \E f \in Frame : row \in ToSet(frame[f].page)

\* (mutation: a connection whose session is locked gets no notice)
NotifyUnlocked(w) ==
    /\ writing[w] # None /\ writing[w].committed /\ writing[w].op # "deleteRoom"
    /\ LET row == writing[w].row
           kind == IF writing[w].op = "send" THEN "RoomMessage" ELSE "MessageDeleted"
       IN  IF listed = row.room /\ \A f \in Frame : frame[f].stage \in {"free", "spinning"}
           THEN Send(kind, row.room, <<row>>) ELSE UNCHANGED toClient
    /\ writing' = [writing EXCEPT ![w] = None]
    /\ UNCHANGED <<storage, reader, toServer, overtaken>>

\* room_service.sendToRoom: to whoever is in the room's registry by now.
Notify(w) ==
    /\ writing[w] # None /\ writing[w].committed /\ writing[w].op # "deleteRoom"
    /\ LET row == writing[w].row
           kind == IF writing[w].op = "send" THEN "RoomMessage" ELSE "MessageDeleted"
       IN  /\ IF listed = row.room THEN Send(kind, row.room, <<row>>)
                                   ELSE UNCHANGED toClient
           /\ overtaken' = IF kind = "MessageDeleted" /\ StillToCome(row)
                           THEN overtaken \cup {row} ELSE overtaken
    /\ writing' = [writing EXCEPT ![w] = None]
    /\ UNCHANGED <<storage, reader, toServer>>

\* onRoomDeleted: the registry forgets the room, the sessions in it do not.
EvictRoom(w) ==
    /\ writing[w] # None /\ writing[w].committed /\ writing[w].op = "deleteRoom"
    /\ LET r == writing[w].row.room IN
          /\ listed' = IF listed = r THEN None ELSE listed
          /\ Send("RoomDeleted", r, <<>>)
    /\ writing' = [writing EXCEPT ![w] = None]
    /\ UNCHANGED <<storage, session, frame, toServer, overtaken>>

-----------------------------------------------------------------------------
\* The session's lock: shared for GetMessages, unique for the others.
Holds(f) == frame[f].stage \notin {"free", "spinning"}
\* (mutation: GetMessages drops its guard once it knows the room)
CanTakeBesideReaders(request) ==
    \A f \in Frame : Holds(f) => frame[f].ask.op = "GetMessages"

CanTake(request) ==
    \A f \in Frame : Holds(f) =>
        request.op = "GetMessages" /\ frame[f].ask.op = "GetMessages"

Go(f, stage) == frame' = [frame EXCEPT ![f].stage = stage]
Answer(f, kind, page) ==
    /\ Send(kind, frame[f].ask.room, page)
    /\ frame' = [frame EXCEPT ![f] = Free]

Arrive(f) ==
    /\ frame[f].stage = "free" /\ toServer # <<>>
    /\ frame' = [frame EXCEPT ![f].ask = Head(toServer),
                              ![f].stage = IF CanTake(Head(toServer)) THEN "holding"
                                                                     ELSE "spinning"]
    /\ toServer' = Tail(toServer)
    /\ UNCHANGED <<storage, writing, session, listed, toClient, overtaken>>

Spin(f) ==
    /\ frame[f].stage = "spinning" /\ CanTake(frame[f].ask)
    /\ Go(f, "holding")
    /\ UNCHANGED <<storage, writing, session, listed, network, overtaken>>

At(f, op, stage) == frame[f].stage = stage /\ frame[f].ask.op = op

\* (mutation: the query is ordered the other way round)
FarthestPages(r, newer, at) ==
    LET beyond == {m \in table : m.room = r /\ IF newer THEN m.at > at ELSE m.at < at}
        size == IF Cardinality(beyond) < Chunk THEN Cardinality(beyond) ELSE Chunk
    IN  {p \in [1..size -> beyond] :
            /\ IsInjective(p)
            /\ \A m \in beyond, i \in 1..size :
                  m \notin {p[j] : j \in 1..i} =>
                      IF newer THEN m.at <= p[i].at ELSE m.at >= p[i].at}

\* Every answer to ORDER BY created_at LIMIT Chunk: the nearest rows beyond a
\* stamp, in any order among those that share one.
Pages(r, newer, at) ==
    LET beyond == {m \in table : m.room = r /\ IF newer THEN m.at > at ELSE m.at < at}
        nearer(m, n) == IF newer THEN m.at < n.at ELSE m.at > n.at
        size == IF Cardinality(beyond) < Chunk THEN Cardinality(beyond) ELSE Chunk
    IN  {p \in [1..size -> beyond] :
            /\ IsInjective(p)
            /\ \A i, j \in 1..size : i < j => ~nearer(p[j], p[i])
            /\ \A m \in beyond \ ToSet(p) : \A i \in 1..size : ~nearer(m, p[i])}

\* handleGetMessages: the database answers ...
ReadPage(f) ==
    /\ At(f, "GetMessages", "holding") /\ session # None
    /\ \E p \in Pages(session, frame[f].ask.newer, frame[f].ask.at) :
          frame' = [frame EXCEPT ![f].stage = "read", ![f].page = p]
    /\ UNCHANGED <<storage, writing, session, listed, network, overtaken>>

\* ... and the coroutine goes on and responds in one turn of its loop.
SendPage(f) ==
    /\ At(f, "GetMessages", "read")
    /\ Answer(f, "Page", frame[f].page)
    /\ UNCHANGED <<storage, writing, session, listed, toServer, overtaken>>

\* Not in a room, or the query failed.
RefusePage(f) ==
    /\ At(f, "GetMessages", "holding")
    /\ Answer(f, "NoPage", <<>>)
    /\ UNCHANGED <<storage, writing, session, listed, toServer, overtaken>>

\* handleJoinRoom: leaveCurrentRoom and room.reset() ...
JoinDepart(f) ==
    /\ At(f, "JoinRoom", "holding")
    /\ listed' = None /\ session' = None
    /\ Go(f, "departed")
    /\ UNCHANGED <<storage, writing, network, overtaken>>
JoinRefuse(f) ==
    /\ At(f, "JoinRoom", "departed")
    /\ Answer(f, "Refused", <<>>)
    /\ UNCHANGED <<storage, writing, session, listed, toServer, overtaken>>
JoinSetRoom(f) ==
    /\ At(f, "JoinRoom", "departed") /\ frame[f].ask.room \notin closed
    /\ session' = frame[f].ask.room
    /\ Go(f, "entering")
    /\ UNCHANGED <<storage, writing, listed, network, overtaken>>
JoinEnter(f) ==
    /\ At(f, "JoinRoom", "entering")
    /\ listed' = session
    /\ Go(f, "listing")
    /\ UNCHANGED <<storage, writing, session, network, overtaken>>
JoinRespond(f) ==
    /\ At(f, "JoinRoom", "listing")
    /\ Answer(f, "Joined", <<>>)
    /\ UNCHANGED <<storage, writing, session, listed, toServer, overtaken>>

ServerStep ==
    \/ \E w \in Writer :
          \/ BeginSend(w) \/ BeginDelete(w) \/ BeginDeleteRoom(w)
          \/ CommitWrite(w) \/ FailWrite(w) \/ Notify(w) \/ EvictRoom(w)
    \/ \E f \in Frame :
          \/ Arrive(f) \/ Spin(f) \/ ReadPage(f) \/ SendPage(f) \/ RefusePage(f)
          \/ JoinDepart(f) \/ JoinRefuse(f) \/ JoinSetRoom(f) \/ JoinEnter(f) \/ JoinRespond(f)

=============================================================================
