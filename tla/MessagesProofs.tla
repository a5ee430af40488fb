--------------------------- MODULE MessagesProofs ---------------------------
(***************************************************************************)
(* Proofs about a server's messages and one reader's view of them, for any *)
(* number of rooms, writers and coroutines, any size of page and of view,  *)
(* and any contents of the table at the start.                             *)
(*                                                                         *)
(* Typed gives the domains of the variables.  On top of it,                *)
(*   LoadingIsAnswered is inductive by itself;                             *)
(*   RoomsInv follows the room a row belongs to, from the session whose    *)
(*   lock is held when a page is read, through the queue of envelopes, in  *)
(*   which the answer to a join separates what came before from what comes *)
(*   after, to the view;                                                   *)
(*   DeletionInv follows a row that is deleted on the same way: whatever   *)
(*   shows it is to be cleared, or the notice comes behind it;             *)
(*   HistoryInv, in the second half, follows the order of the rows and     *)
(*   what is missing between them.                                         *)
(***************************************************************************)
EXTENDS Messages, TLAPS, FiniteSetTheorems, SequenceTheorems, WellFoundedInduction

(***************************************************************************)
(* The domains of the variables.                                           *)
(***************************************************************************)

Stages == {"free", "spinning", "holding", "read", "departed", "entering", "listing"}
Kinds  == {"RoomMessage", "MessageDeleted", "RoomDeleted", "Page", "NoPage", "Joined", "Refused"}

Coroutine == [stage : Stages, ask : Request \cup {None}, page : Seq(Message)]
Envelope  == [kind : Kinds, room : Room \cup {None}, rows : Seq(Message)]

TypedStorage ==
    /\ table \subseteq Message /\ IsFiniteSet(table)
    /\ lastId \in Nat /\ clock \in Int
    /\ writing \in [Writer -> Write \cup {None}]

TypedReader ==
    /\ session \in Room \cup {None} /\ listed \in Room \cup {None}
    /\ frame \in [Frame -> Coroutine]
    /\ \A f \in Frame : frame[f].stage # "free" => frame[f].ask \in Request

TypedNetwork ==
    /\ toServer \in Seq(Request)
    /\ toClient \in Seq(Envelope)
    /\ \A i \in DOMAIN toClient :
          toClient[i].kind \in {"RoomMessage", "MessageDeleted"} => toClient[i].rows # <<>>

TypedClient ==
    /\ view \in Seq(Message)
    /\ loadingOlder \in BOOLEAN /\ loadingNewer \in BOOLEAN
    /\ shown \in BOOLEAN
    /\ joined \in Room \cup {None}

Typed == TypedStorage /\ TypedReader /\ TypedNetwork /\ TypedClient

\* Sending one envelope keeps the network's types.
LEMMA SendTyped ==
    ASSUME TypedNetwork, NEW kind \in Kinds, NEW r \in Room \cup {None},
           NEW batch \in Seq(Message), kind \in {"RoomMessage", "MessageDeleted"} => batch # <<>>,
           Send(kind, r, batch), UNCHANGED toServer
    PROVE  TypedNetwork'
<1>1. [kind |-> kind, room |-> r, rows |-> batch] \in Envelope
  BY DEF Envelope
<1> QED
  BY <1>1 DEF Send, TypedNetwork

\* The steps of the writers.
LEMMA WriterTyped ==
    ASSUME Typed, NEW w \in Writer,
           \/ BeginSend(w) \/ BeginDelete(w) \/ BeginDeleteRoom(w)
           \/ CommitWrite(w) \/ FailWrite(w) \/ Notify(w) \/ EvictRoom(w)
    PROVE  (TypedStorage /\ TypedReader /\ TypedNetwork)'
<1>1. TypedStorage /\ TypedReader /\ TypedNetwork
  BY DEF Typed
<1>2. CASE BeginSend(w)
  <2>1. PICK r \in Room, at \in {clock, clock + 1} :
            /\ clock' = at
            /\ writing' = [writing EXCEPT ![w] =
                  [op |-> "send", row |-> [id |-> lastId + 1, room |-> r, at |-> at],
                   committed |-> FALSE]]
    BY <1>2 DEF BeginSend
  <2>2. [op |-> "send", row |-> [id |-> lastId + 1, room |-> r, at |-> at], committed |-> FALSE]
            \in Write
    BY <1>1 DEF TypedStorage, Write, Message
  <2>3. TypedStorage'
    <3>1. table' = table /\ lastId' = lastId + 1 /\ clock' \in Int
      BY <1>1, <1>2, <2>1 DEF BeginSend, TypedStorage
    <3> QED
      BY <1>1, <2>1, <2>2, <3>1 DEF TypedStorage
  <2> QED
    BY <1>1, <1>2, <2>3 DEF BeginSend, TypedReader, TypedNetwork, reader, network
<1>3. CASE BeginDelete(w)
  <2>1. PICK row \in table :
            writing' = [writing EXCEPT ![w] = [op |-> "delete", row |-> row, committed |-> FALSE]]
    BY <1>3 DEF BeginDelete
  <2>2. [op |-> "delete", row |-> row, committed |-> FALSE] \in Write
    BY <1>1 DEF TypedStorage, Write
  <2>3. TypedStorage'
    BY <1>1, <1>3, <2>1, <2>2 DEF BeginDelete, TypedStorage, storage
  <2> QED
    BY <1>1, <1>3, <2>3 DEF BeginDelete, TypedReader, TypedNetwork, reader, network
<1>4. CASE BeginDeleteRoom(w)
  <2>1. PICK r \in Room :
            writing' = [writing EXCEPT ![w] =
                           [op |-> "deleteRoom", row |-> [id |-> 0, room |-> r, at |-> 0],
                            committed |-> FALSE]]
    BY <1>4 DEF BeginDeleteRoom
  <2>2. [op |-> "deleteRoom", row |-> [id |-> 0, room |-> r, at |-> 0], committed |-> FALSE]
            \in Write
    BY DEF Write, Message
  <2>3. TypedStorage'
    BY <1>1, <1>4, <2>1, <2>2 DEF BeginDeleteRoom, TypedStorage, storage
  <2> QED
    BY <1>1, <1>4, <2>3 DEF BeginDeleteRoom, TypedReader, TypedNetwork, reader, network
<1>5. CASE CommitWrite(w)
  <2>1. writing[w] \in Write /\ writing[w].row \in Message
    BY <1>1, <1>5 DEF CommitWrite, Deciding, TypedStorage, Write
  <2>2. writing' \in [Writer -> Write \cup {None}]
    BY <1>1, <1>5, <2>1 DEF CommitWrite, TypedStorage, Write
  <2>3. table' \subseteq Message /\ IsFiniteSet(table')
    <3>1. \/ table' = table \cup {writing[w].row}
          \/ table' \subseteq table
      BY <1>5 DEF CommitWrite
    <3> QED
      BY <1>1, <2>1, <3>1, FS_AddElement, FS_Subset DEF TypedStorage
  <2>4. TypedStorage'
    BY <1>1, <1>5, <2>2, <2>3 DEF CommitWrite, TypedStorage
  <2> QED
    BY <1>1, <1>5, <2>4 DEF CommitWrite, TypedReader, TypedNetwork, reader, network
<1>6. CASE FailWrite(w)
  <2>1. TypedStorage'
    BY <1>1, <1>6 DEF FailWrite, TypedStorage, storage
  <2> QED
    BY <1>1, <1>6, <2>1 DEF FailWrite, TypedReader, TypedNetwork, reader, network
<1>7. CASE Notify(w)
  <2>1. writing[w] \in Write /\ writing[w].row \in Message /\ writing[w].row.room \in Room
    BY <1>1, <1>7 DEF Notify, TypedStorage, Write, Message
  <2>2. TypedStorage'
    BY <1>1, <1>7 DEF Notify, TypedStorage, storage
  <2>3. TypedReader'
    BY <1>1, <1>7 DEF Notify, TypedReader, reader
  <2>4. UNCHANGED toServer
        /\ (toClient' = toClient
            \/ \E kind \in {"RoomMessage", "MessageDeleted"} :
                  Send(kind, writing[w].row.room, <<writing[w].row>>))
    BY <1>7 DEF Notify
  <2>5. <<writing[w].row>> \in Seq(Message) /\ <<writing[w].row>> # <<>>
    BY <2>1
  <2>6. CASE toClient' = toClient
    BY <1>1, <2>2, <2>3, <2>4, <2>6 DEF TypedNetwork
  <2>7. CASE \E kind \in {"RoomMessage", "MessageDeleted"} :
                  Send(kind, writing[w].row.room, <<writing[w].row>>)
    BY <1>1, <2>1, <2>2, <2>3, <2>4, <2>5, <2>7, SendTyped DEF Kinds
  <2> QED
    BY <2>2, <2>3, <2>4, <2>6, <2>7
<1>8. CASE EvictRoom(w)
  <2>1. writing[w].row.room \in Room
    BY <1>1, <1>8 DEF EvictRoom, TypedStorage, Write, Message
  <2>2. TypedStorage'
    BY <1>1, <1>8 DEF EvictRoom, TypedStorage, storage
  <2>3. TypedReader'
    BY <1>1, <1>8 DEF EvictRoom, TypedReader
  <2>4. TypedNetwork'
    BY <1>1, <1>8, <2>1, SendTyped, EmptySeq DEF EvictRoom, Kinds
  <2> QED
    BY <2>2, <2>3, <2>4
<1> QED
  BY <1>2, <1>3, <1>4, <1>5, <1>6, <1>7, <1>8

\* A page that the database answers with has rows of that room's table only.
LEMMA PageRows ==
    ASSUME TypedStorage, NEW r \in Room, NEW newer, NEW at, NEW p \in Pages(r, newer, at)
    PROVE  /\ p \in Seq(Message)
           /\ \A i \in DOMAIN p : p[i] \in table /\ p[i].room = r
<1> DEFINE beyond == {m \in table : m.room = r /\ IF newer THEN m.at > at ELSE m.at < at}
           size == IF Cardinality(beyond) < Chunk THEN Cardinality(beyond) ELSE Chunk
<1>1. beyond \subseteq table /\ IsFiniteSet(beyond)
  BY FS_Subset DEF TypedStorage
<1>2. size \in Nat
  BY <1>1, FS_CardinalityType, MessagesAssumption
<1>3. p \in [1..size -> beyond]
  BY DEF Pages
<1> HIDE DEF size
<1>4. beyond \subseteq Message /\ \A m \in beyond : m \in table /\ m.room = r
  BY <1>1 DEF TypedStorage
<1> HIDE DEF beyond
<1>5. DOMAIN p = 1..size /\ \A i \in 1..size : p[i] \in beyond
  BY <1>3
<1>6. p \in Seq(beyond)
  BY <1>2, <1>3
<1> QED
  BY <1>4, <1>5, <1>6

\* Freeing, or moving, one coroutine keeps the coroutines' types.
LEMMA FrameTyped ==
    ASSUME TypedReader, NEW f \in Frame, NEW c \in Coroutine,
           c.stage # "free" => c.ask \in Request,
           frame' = [frame EXCEPT ![f] = c],
           session' \in Room \cup {None}, listed' \in Room \cup {None}
    PROVE  TypedReader'
  BY DEF TypedReader

\* The steps of the reader's coroutines.
LEMMA ReaderTyped ==
    ASSUME Typed, NEW f \in Frame,
           \/ Arrive(f) \/ Spin(f) \/ ReadPage(f) \/ SendPage(f) \/ RefusePage(f)
           \/ JoinDepart(f) \/ JoinRefuse(f) \/ JoinSetRoom(f) \/ JoinEnter(f) \/ JoinRespond(f)
    PROVE  (TypedStorage /\ TypedReader /\ TypedNetwork)'
<1>1. TypedStorage /\ TypedReader /\ TypedNetwork /\ frame[f] \in Coroutine
  BY DEF Typed, TypedReader
<1>2. TypedStorage'
  BY <1>1 DEF TypedStorage, storage, Arrive, Spin, ReadPage, SendPage, RefusePage,
     JoinDepart, JoinRefuse, JoinSetRoom, JoinEnter, JoinRespond
<1>3. frame[f].stage # "free" => frame[f].ask \in Request
  BY <1>1 DEF TypedReader
<1>4. None \notin Room /\ None \notin Request
  BY MessagesAssumption
<1>5. CASE Arrive(f)
  <2>1. Head(toServer) \in Request /\ Tail(toServer) \in Seq(Request)
    BY <1>1, <1>5 DEF Arrive, TypedNetwork
  <2>2. TypedReader'
    BY <1>1, <1>5, <2>1 DEF Arrive, TypedReader, Coroutine, Stages
  <2> QED
    BY <1>1, <1>2, <1>5, <2>1, <2>2 DEF Arrive, TypedNetwork
<1>6. CASE \E kind \in {"Page", "NoPage", "Refused", "Joined"}, page \in Seq(Message) :
               Answer(f, kind, page) /\ frame[f].stage # "free"
               /\ UNCHANGED <<session, listed, toServer>>
  <2>1. PICK kind \in {"Page", "NoPage", "Refused", "Joined"}, page \in Seq(Message) :
            Answer(f, kind, page) /\ frame[f].stage # "free" /\ UNCHANGED <<session, listed, toServer>>
    BY <1>6
  <2>2. Free \in Coroutine
    BY DEF Free, Coroutine, Stages
  <2>3. TypedReader'
    BY <1>1, <2>1, <2>2, FrameTyped DEF Answer, Free, TypedReader
  <2>4. frame[f].ask.room \in Room \cup {None}
    BY <1>3, <2>1 DEF Request
  <2>5. TypedNetwork'
    BY <1>1, <2>1, <2>4, SendTyped DEF Answer, Kinds
  <2> QED
    BY <1>2, <2>3, <2>5
<1>7. CASE SendPage(f)
  <2>1. frame[f].page \in Seq(Message)
    BY <1>1 DEF Coroutine
  <2> QED
    BY <1>6, <1>7, <2>1 DEF SendPage, At
<1>8. CASE RefusePage(f) \/ JoinRefuse(f) \/ JoinRespond(f)
  <2>1. <<>> \in Seq(Message)
    OBVIOUS
  <2> QED
    BY <1>6, <1>8, <2>1 DEF RefusePage, JoinRefuse, JoinRespond, At
<1>9. CASE ReadPage(f)
  <2>1. PICK p \in Pages(session, frame[f].ask.newer, frame[f].ask.at) :
            frame' = [frame EXCEPT ![f].stage = "read", ![f].page = p]
    BY <1>9 DEF ReadPage
  <2>2. p \in Seq(Message)
    BY <1>1, <1>9, PageRows DEF ReadPage, TypedReader
  <2>3. TypedReader'
    BY <1>1, <1>3, <1>9, <2>1, <2>2 DEF ReadPage, TypedReader, Coroutine, Stages, At
  <2> QED
    BY <1>1, <1>2, <1>9, <2>3 DEF ReadPage, TypedNetwork, network
<1>10. CASE Spin(f) \/ JoinDepart(f) \/ JoinSetRoom(f) \/ JoinEnter(f)
  <2>1. frame[f].stage # "free" /\ frame[f].ask \in Request
    BY <1>3, <1>10 DEF Spin, JoinDepart, JoinSetRoom, JoinEnter, At
  <2>2. JoinSetRoom(f) => frame[f].ask.room \in Room
    BY <2>1 DEF JoinSetRoom, At, Request
  <2>3. \E stage \in Stages : frame' = [frame EXCEPT ![f].stage = stage]
    BY <1>10 DEF Spin, JoinDepart, JoinSetRoom, JoinEnter, Go, Stages
  <2>4. session' \in Room \cup {None} /\ listed' \in Room \cup {None}
    BY <1>1, <1>10, <2>2 DEF Spin, JoinDepart, JoinSetRoom, JoinEnter, TypedReader
  <2>5. TypedReader'
    BY <1>1, <2>1, <2>3, <2>4 DEF TypedReader, Coroutine
  <2> QED
    BY <1>1, <1>2, <1>10, <2>5 DEF Spin, JoinDepart, JoinSetRoom, JoinEnter, TypedNetwork, network
<1> QED
  BY <1>5, <1>7, <1>8, <1>9, <1>10

-----------------------------------------------------------------------------
(* What the client's list operations do to the rows of the view.           *)

\* A set of numbers that is not empty has a least one (Min of the library).
LEMMA LeastOf ==
    ASSUME NEW I \in SUBSET Nat, I # {}
    PROVE  Min(I) \in I
<1> DEFINE less == OpToRel(<, Nat)
<1>1. IsWellFoundedOn(less, Nat)
  BY NatLessThanWellFounded
<1>2. ASSUME NEW y \in Nat, NEW x \in Nat, y < x
      PROVE  <<y, x>> \in less
  <2>1. <<y, x>> \in Nat \X Nat /\ <<y, x>>[1] = y /\ <<y, x>>[2] = x
    OBVIOUS
  <2> QED
    BY <1>2, <2>1 DEF OpToRel
<1> HIDE DEF less
<1>3. PICK x \in I : \A y \in I : <<y, x>> \notin less
  BY <1>1, WFMin
<1>4. ASSUME NEW y \in I PROVE x <= y
  <2>1. x \in Nat /\ y \in Nat
    OBVIOUS
  <2>2. CASE y < x
    BY <1>2, <1>3, <2>1, <2>2
  <2> QED
    BY <2>1, <2>2
<1> QED
  BY <1>4 DEF Min

\* The rows of two sequences put together are the rows of both.
LEMMA JoinedRows ==
    ASSUME NEW s \in Seq(Message), NEW t \in Seq(Message)
    PROVE  s \o t \in Seq(Message) /\ ToSet(s \o t) = ToSet(s) \cup ToSet(t)
<1>1. /\ s \o t \in Seq(Message) /\ Len(s \o t) = Len(s) + Len(t)
      /\ \A i \in 1..Len(s) + Len(t) :
            (s \o t)[i] = IF i <= Len(s) THEN s[i] ELSE t[i - Len(s)]
  BY ConcatProperties
<1>2. Len(s) \in Nat /\ Len(t) \in Nat
  OBVIOUS
<1>3. ASSUME NEW i \in 1..Len(t) PROVE t[i] = (s \o t)[Len(s) + i] /\ Len(s) + i \in 1..Len(s) + Len(t)
  BY <1>1, <1>2
<1>4. ToSet(s \o t) \subseteq ToSet(s) \cup ToSet(t)
  <2> SUFFICES ASSUME NEW i \in 1..Len(s) + Len(t)
               PROVE  (s \o t)[i] \in ToSet(s) \cup ToSet(t)
    BY <1>1, <1>2 DEF ToSet
  <2>1. CASE i <= Len(s)
    BY <1>1, <1>2, <2>1 DEF ToSet
  <2>2. CASE i > Len(s)
    <3>1. (s \o t)[i] = t[i - Len(s)] /\ i - Len(s) \in 1..Len(t)
      BY <1>1, <1>2, <2>2
    <3> QED
      BY <3>1 DEF ToSet
  <2> QED
    BY <1>2, <2>1, <2>2
<1>5. ToSet(s) \subseteq ToSet(s \o t)
  <2> SUFFICES ASSUME NEW i \in DOMAIN s PROVE s[i] \in ToSet(s \o t)
    BY DEF ToSet
  <2>0. i \in 1..Len(s)
    OBVIOUS
  <2>1. i \in 1..Len(s) + Len(t) /\ s[i] = (s \o t)[i]
    BY <1>1, <1>2, <2>0
  <2>2. DOMAIN (s \o t) = 1..Len(s) + Len(t)
    BY <1>1, <1>2
  <2>3. \A k \in DOMAIN (s \o t) : (s \o t)[k] \in ToSet(s \o t)
    BY DEF ToSet
  <2> QED
    BY <2>1, <2>2, <2>3
<1>6. ToSet(t) \subseteq ToSet(s \o t)
  <2> SUFFICES ASSUME NEW i \in DOMAIN t PROVE t[i] \in ToSet(s \o t)
    BY DEF ToSet
  <2>0. i \in 1..Len(t)
    OBVIOUS
  <2>1. PICK k \in 1..Len(s) + Len(t) : t[i] = (s \o t)[k]
    BY <1>3, <2>0
  <2>2. DOMAIN (s \o t) = 1..Len(s) + Len(t)
    BY <1>1, <1>2
  <2> QED
    BY <2>1, <2>2 DEF ToSet
<1> QED
  BY <1>1, <1>4, <1>5, <1>6

\* RemoveFirst adds no row.
LEMMA RemovedRows ==
    ASSUME NEW s \in Seq(Message), NEW row
    PROVE  /\ RemoveFirst(s, row) \in Seq(Message)
           /\ ToSet(RemoveFirst(s, row)) \subseteq ToSet(s)
<1> DEFINE at == {i \in 1..Len(s) : s[i] = row}
<1>1. CASE at = {}
  <2>1. RemoveFirst(s, row) = s
    BY <1>1 DEF RemoveFirst
  <2> QED
    BY <2>1
<1>2. CASE at # {}
  <2>1. Min(at) \in at
    <3>1. at \in SUBSET Nat
      OBVIOUS
    <3> HIDE DEF at
    <3> QED
      BY <1>2, <3>1, LeastOf
  <2>2. PICK k \in 1..Len(s) : k = Min(at)
    BY <2>1
  <2>3. RemoveFirst(s, row) = SubSeq(s, 1, k - 1) \o SubSeq(s, k + 1, Len(s))
    BY <1>2, <2>2 DEF RemoveFirst, SelectInSeq, RemoveAt
  <2>4. /\ SubSeq(s, 1, k - 1) \in Seq(Message) /\ SubSeq(s, k + 1, Len(s)) \in Seq(Message)
        /\ Len(SubSeq(s, 1, k - 1)) = k - 1 /\ Len(SubSeq(s, k + 1, Len(s))) = Len(s) - k
        /\ \A i \in 1..(k - 1) : SubSeq(s, 1, k - 1)[i] = s[i]
        /\ \A i \in 1..(Len(s) - k) : SubSeq(s, k + 1, Len(s))[i] = s[k + i]
    OBVIOUS
  <2> DEFINE low == SubSeq(s, 1, k - 1)
             high == SubSeq(s, k + 1, Len(s))
  <2>5. low \o high \in Seq(Message) /\ ToSet(low \o high) = ToSet(low) \cup ToSet(high)
    BY <2>4, JoinedRows
  <2>6. ToSet(low) \subseteq ToSet(s) /\ ToSet(high) \subseteq ToSet(s)
    BY <2>4 DEF ToSet
  <2> QED
    BY <2>3, <2>5, <2>6
<1> QED
  BY <1>1, <1>2

\* Nor does Reverse ...
LEMMA ReversedRows ==
    ASSUME NEW s \in Seq(Message)
    PROVE  Reverse(s) \in Seq(Message) /\ ToSet(Reverse(s)) \subseteq ToSet(s)
<1>1. Len(s) \in Nat /\ \A i \in 1..Len(s) : s[i] \in Message
  OBVIOUS
<1>2. \A i \in 1..Len(s) : Len(s) - i + 1 \in 1..Len(s)
  BY <1>1
<1>3. Reverse(s) = [i \in 1..Len(s) |-> s[Len(s) - i + 1]]
  BY DEF Reverse
<1>4. Reverse(s) \in Seq(Message)
  BY <1>1, <1>2, <1>3
<1>5. ASSUME NEW i \in 1..Len(s) PROVE Reverse(s)[i] \in ToSet(s)
  <2>1. PICK k \in 1..Len(s) : k = Len(s) - i + 1
    BY <1>2
  <2>2. Reverse(s)[i] = s[k]
    BY <1>3, <2>1
  <2> QED
    BY <2>2 DEF ToSet
<1>6. DOMAIN Reverse(s) = 1..Len(s)
  BY <1>3
<1> QED
  BY <1>4, <1>5, <1>6 DEF ToSet

\* ... nor Fill: the view shows what it showed, and the batch's rows.
LEMMA FilledRows ==
    ASSUME TypedClient, NEW batch \in Seq(Message)
    PROVE  Fill(batch) \in Seq(Message) /\ ToSet(Fill(batch)) \subseteq ToSet(batch) \cup ToSet(view)
<1>1. view \in Seq(Message) /\ MaxShown \in Nat
  BY ViewAssumption DEF TypedClient
<1>3. CASE loadingOlder
  <2> DEFINE all == Reverse(batch) \o view
             n == IF Len(all) < MaxShown THEN Len(all) ELSE MaxShown
  <2>1. all \in Seq(Message) /\ ToSet(all) \subseteq ToSet(batch) \cup ToSet(view)
    <3> QED
      BY <1>1, ReversedRows, JoinedRows
  <2>2. n \in 0..Len(all)
    BY <1>1, <2>1
  <2>3. Fill(batch) = SubSeq(all, 1, n)
    BY <1>3 DEF Fill
  <2> HIDE DEF all, n
  <2>4. SubSeq(all, 1, n) \in Seq(Message) /\ ToSet(SubSeq(all, 1, n)) \subseteq ToSet(all)
    BY <2>1, <2>2 DEF ToSet
  <2> QED
    BY <2>1, <2>3, <2>4
<1>4. CASE ~loadingOlder
  <2> DEFINE all == view \o batch
             n == IF Len(all) < MaxShown THEN 1 ELSE Len(all) - MaxShown + 1
  <2>1. all \in Seq(Message) /\ ToSet(all) \subseteq ToSet(batch) \cup ToSet(view)
    BY <1>1, JoinedRows
  <2>2. n \in 1..(Len(all) + 1)
    BY <1>1, <2>1
  <2>3. Fill(batch) = SubSeq(all, n, Len(all))
    BY <1>4 DEF Fill
  <2> HIDE DEF all, n
  <2>4. SubSeq(all, n, Len(all)) \in Seq(Message) /\ ToSet(SubSeq(all, n, Len(all))) \subseteq ToSet(all)
    BY <2>1, <2>2 DEF ToSet
  <2> QED
    BY <2>1, <2>3, <2>4
<1> QED
  BY <1>3, <1>4

-----------------------------------------------------------------------------
(* The first of the envelopes is handled.                                  *)

\* The queue before and after its first envelope was taken.
LEMMA Popped ==
    ASSUME TypedNetwork, toClient # <<>>, toClient' = Tail(toClient)
    PROVE  /\ Head(toClient) = toClient[1] /\ Head(toClient) \in Envelope
           /\ 1 \in DOMAIN toClient
           /\ toClient' \in Seq(Envelope)
           /\ \A i \in DOMAIN toClient' : i + 1 \in DOMAIN toClient /\ toClient'[i] = toClient[i + 1]
           /\ \A i \in DOMAIN toClient \ {1} :
                 i - 1 \in DOMAIN toClient' /\ toClient'[i - 1] = toClient[i]
  BY DEF TypedNetwork

\* A request on its way.
LEMMA AskTyped ==
    ASSUME toServer \in Seq(Request), NEW request \in Request, Ask(request)
    PROVE  toServer' \in Seq(Request)
  BY AppendProperties DEF Ask

\* The view starts over.
LEMMA StartTyped ==
    ASSUME TypedClient, toServer \in Seq(Request), Start,
           shown' \in BOOLEAN, joined' \in Room \cup {None}
    PROVE  TypedClient' /\ toServer' \in Seq(Request)
<1>1. GetMessages(FALSE, Latest) \in Request
  BY DEF GetMessages, Request, Latest
<1>2. toServer' \in Seq(Request)
  BY <1>1, AskTyped DEF Start
<1>3. view' = <<>> /\ loadingOlder' = TRUE /\ loadingNewer' = FALSE
  BY DEF Start
<1>4. <<>> \in Seq(Message)
  OBVIOUS
<1> QED
  BY <1>2, <1>3, <1>4 DEF TypedClient

\* The handling of an envelope.
LEMMA HandleTyped ==
    ASSUME Typed, handleMessage
    PROVE  Typed'
<1>1. TypedStorage /\ TypedReader /\ TypedNetwork /\ TypedClient /\ UNCHANGED server
      /\ toServer \in Seq(Request)
  BY DEF Typed, handleMessage, TypedNetwork
<1>2. /\ toClient # <<>> /\ toClient' = Tail(toClient)
      /\ Head(toClient) \in Envelope /\ toClient' \in Seq(Envelope)
      /\ \A i \in DOMAIN toClient' : i + 1 \in DOMAIN toClient /\ toClient'[i] = toClient[i + 1]
  BY <1>1, Popped DEF handleMessage
<1>3. TypedStorage' /\ TypedReader'
  BY <1>1 DEF TypedStorage, TypedReader, server, storage, reader
<1> DEFINE e == Head(toClient)
<1>4. e.rows \in Seq(Message) /\ e.room \in Room \cup {None}
  BY <1>2 DEF Envelope
<1>5. ASSUME NEW history, OnMessagesReceived(e.rows, history)
      PROVE  TypedClient' /\ toServer' = toServer
  BY <1>1, <1>4, <1>5, FilledRows DEF OnMessagesReceived, TypedClient
<1>6. OnNoMessages => TypedClient' /\ toServer' = toServer
  BY <1>1 DEF OnNoMessages, TypedClient
<1>7. ASSUME NEW row, DeleteMessageById(row)
      PROVE  TypedClient' /\ toServer' = toServer
  BY <1>1, <1>7, RemovedRows DEF DeleteMessageById, TypedClient, loading
<1>8. ShowChat(e.room) => TypedClient' /\ toServer' \in Seq(Request)
  BY <1>1, <1>4, StartTyped DEF ShowChat
<1>9. ShowRooms => TypedClient' /\ toServer' = toServer
  BY <1>1 DEF ShowRooms, TypedClient, loading
<1>10. UNCHANGED <<toServer, client>> => TypedClient' /\ toServer' = toServer
  BY <1>1 DEF client, TypedClient, loading
<1>11. TypedClient' /\ toServer' \in Seq(Request)
  <2>1. \/ showRoomMessage(e) \/ kGetMessagesResponse(e) \/ removeMessageFromView(e)
        \/ ShowChat(e.room) \/ kRoomDeleted(e) \/ UNCHANGED <<toServer, client>>
    BY DEF handleMessage
  <2> HIDE DEF e
  <2>2. CASE showRoomMessage(e)
    BY <1>1, <1>5, <2>2 DEF showRoomMessage
  <2>3. CASE kGetMessagesResponse(e)
    BY <1>1, <1>5, <1>6, <2>3 DEF kGetMessagesResponse
  <2>4. CASE removeMessageFromView(e)
    BY <1>1, <1>7, <1>10, <2>4 DEF removeMessageFromView
  <2>5. CASE ShowChat(e.room)
    BY <1>8, <2>5
  <2>6. CASE kRoomDeleted(e)
    BY <1>1, <1>9, <1>10, <2>6 DEF kRoomDeleted
  <2>7. CASE UNCHANGED <<toServer, client>>
    BY <1>1, <1>10, <2>7
  <2> QED
    BY <2>1, <2>2, <2>3, <2>4, <2>5, <2>6, <2>7
<1>12. TypedNetwork'
  BY <1>1, <1>2, <1>11 DEF TypedNetwork
<1> QED
  BY <1>3, <1>11, <1>12 DEF Typed

\* The user's actions.
LEMMA UserTyped ==
    ASSUME Typed, ScrollUp \/ ScrollDown \/ JumpToPresent \/ \E r \in Room : OnJoin(r)
    PROVE  Typed'
<1>1. TypedStorage /\ TypedReader /\ TypedNetwork /\ TypedClient /\ UNCHANGED <<server, toClient>>
      /\ toServer \in Seq(Request)
  BY DEF Typed, ScrollUp, ScrollDown, JumpToPresent, OnJoin, MayAsk, TypedNetwork
<1>2. TypedStorage' /\ TypedReader'
  BY <1>1 DEF TypedStorage, TypedReader, server, storage, reader
<1>3. CASE ScrollUp \/ ScrollDown
  <2>1. view # <<>> /\ Head(view).at \in Int /\ Last(view).at \in Int
    <3>1. view # <<>> /\ view \in Seq(Message)
      BY <1>1, <1>3 DEF ScrollUp, ScrollDown, TypedClient
    <3>2. Head(view) \in Message /\ Last(view) \in Message
      BY <3>1 DEF Last
    <3> QED
      BY <3>1, <3>2 DEF Message
  <2>2. \A newer \in BOOLEAN, at \in Int : GetMessages(newer, at) \in Request
    BY DEF GetMessages, Request
  <2>3. toServer' \in Seq(Request)
    BY <1>1, <1>3, <2>1, <2>2, AskTyped DEF ScrollUp, ScrollDown
  <2>4. TypedClient'
    BY <1>1, <1>3 DEF ScrollUp, ScrollDown, TypedClient
  <2> QED
    BY <1>1, <1>2, <2>3, <2>4 DEF Typed, TypedNetwork
<1>4. CASE JumpToPresent
  <2>1. TypedClient' /\ toServer' \in Seq(Request)
    BY <1>1, <1>4, StartTyped DEF JumpToPresent, TypedClient
  <2> QED
    BY <1>1, <1>2, <2>1 DEF Typed, TypedNetwork
<1>5. CASE \E r \in Room : OnJoin(r)
  <2>1. \A r \in Room : JoinRoom(r) \in Request
    BY DEF JoinRoom, Request
  <2>2. toServer' \in Seq(Request) /\ UNCHANGED client
    BY <1>1, <1>5, <2>1 DEF OnJoin, Ask
  <2>3. TypedClient'
    BY <1>1, <2>2 DEF client, loading, TypedClient
  <2> QED
    BY <1>1, <1>2, <2>2, <2>3 DEF Typed, TypedNetwork
<1> QED
  BY <1>3, <1>4, <1>5

\* The first state.
LEMMA InitTyped == Init => Typed
<1> SUFFICES ASSUME Init PROVE Typed
  OBVIOUS
<1>1. TypedStorage
  <2>1. IsFiniteSet(table) /\ table \subseteq Message
    BY MessagesAssumption DEF Init
  <2> QED
    BY <2>1, FS_CardinalityType DEF Init, TypedStorage
<1>2. TypedReader
  BY DEF Init, TypedReader, Free, Coroutine, Stages
<1>3. <<>> \in Seq(Request) /\ <<>> \in Seq(Envelope) /\ <<>> \in Seq(Message)
      /\ DOMAIN <<>> = {}
  OBVIOUS
<1>4. TypedNetwork
  BY <1>3 DEF Init, TypedNetwork
<1>5. TypedClient
  BY <1>3 DEF Init, TypedClient
<1> QED
  BY <1>1, <1>2, <1>4, <1>5 DEF Typed

\* Every step keeps the types.
LEMMA NextTyped ==
    ASSUME Typed, [Next]_vars
    PROVE  Typed'
<1>1. CASE ServerStep /\ UNCHANGED client
  <2>1. (TypedStorage /\ TypedReader /\ TypedNetwork)'
    BY <1>1, WriterTyped, ReaderTyped DEF ServerStep
  <2>2. TypedClient'
    BY <1>1 DEF Typed, TypedClient, client, loading
  <2> QED
    BY <2>1, <2>2 DEF Typed
<1>2. CASE ClientStep
  BY <1>2, HandleTyped, UserTyped DEF ClientStep
<1>3. CASE UNCHANGED vars
  BY <1>3 DEF vars, server, storage, reader, network, client, loading, Typed,
     TypedStorage, TypedReader, TypedNetwork, TypedClient
<1> QED
  BY <1>1, <1>2, <1>3 DEF Next

\* The types hold in every state.
THEOREM TypedHolds == Spec => []Typed
<1>1. Typed /\ [Next]_vars => Typed'
  BY NextTyped
<1> QED
  BY InitTyped, <1>1, PTL DEF Spec

-----------------------------------------------------------------------------
(* Loads are answered.                                                     *)

\* A sequence and what was appended to it.
LEMMA Appended ==
    ASSUME NEW S, NEW s \in Seq(S), NEW e \in S
    PROVE  /\ Append(s, e) \in Seq(S)
           /\ DOMAIN Append(s, e) = DOMAIN s \cup {Len(s) + 1}
           /\ \A i \in DOMAIN s : Append(s, e)[i] = s[i] /\ i \in Nat /\ i < Len(s) + 1
           /\ Append(s, e)[Len(s) + 1] = e
           /\ Len(s) \in Nat /\ Len(s) + 1 \notin DOMAIN s
  BY AppendProperties

\* A request that is sent leaves the others asked.
LEMMA AskedMore ==
    ASSUME Typed, NEW q \in Request, Ask(q), frame' = frame, NEW ops
    PROVE  /\ Asked(ops) => Asked(ops)'
           /\ q.op \in ops => Asked(ops)'
<1>1. toServer \in Seq(Request) /\ toServer' = Append(toServer, q)
  BY DEF Typed, TypedNetwork, Ask
<1> QED
  BY <1>1, Appended DEF Asked

\* An answer that is sent leaves the others answered.
LEMMA AnsweredMore ==
    ASSUME Typed, NEW kind \in Kinds, NEW r \in Room \cup {None}, NEW batch \in Seq(Message),
           Send(kind, r, batch), NEW kinds
    PROVE  /\ Answered(kinds) => Answered(kinds)'
           /\ kind \in kinds => Answered(kinds)'
<1> DEFINE e == [kind |-> kind, room |-> r, rows |-> batch]
<1>1. e \in Envelope /\ e.kind = kind
  BY DEF Envelope
<1>2. toClient \in Seq(Envelope) /\ toClient' = Append(toClient, e)
  BY DEF Typed, TypedNetwork, Send
<1> HIDE DEF e
<1> QED
  BY <1>1, <1>2, Appended DEF Answered

\* A step of the server leaves no request for a page without an answer.
LEMMA ServerAnswers ==
    ASSUME Typed, ServerStep, PageOutstanding
    PROVE  PageOutstanding'
<1>1. TypedStorage /\ TypedReader /\ TypedNetwork
  BY DEF Typed
<1>2. ASSUME NEW w \in Writer,
             \/ BeginSend(w) \/ BeginDelete(w) \/ BeginDeleteRoom(w)
             \/ CommitWrite(w) \/ FailWrite(w) \/ Notify(w) \/ EvictRoom(w)
      PROVE  PageOutstanding'
  <2>1. UNCHANGED <<toServer, frame>>
    BY <1>2 DEF BeginSend, BeginDelete, BeginDeleteRoom, CommitWrite, FailWrite, Notify, EvictRoom,
       reader, network
  <2>2. \/ toClient' = toClient
        \/ \E e : toClient' = Append(toClient, e) /\ toClient' \in Seq(Envelope)
    <3>1. toClient' \in Seq(Envelope)
      BY <1>2, WriterTyped DEF TypedNetwork
    <3> QED
      BY <1>2, <3>1 DEF BeginSend, BeginDelete, BeginDeleteRoom, CommitWrite, FailWrite, Notify,
         EvictRoom, network, Send
  <2>3. Answered({"Page", "NoPage"}) => Answered({"Page", "NoPage"})'
    <3>1. toClient \in Seq(Envelope)
      BY <1>1 DEF TypedNetwork
    <3>2. CASE toClient' = toClient
      BY <3>2 DEF Answered
    <3>3. ASSUME NEW e, toClient' = Append(toClient, e), toClient' \in Seq(Envelope)
          PROVE  \A i \in DOMAIN toClient : i \in DOMAIN toClient' /\ toClient'[i] = toClient[i]
      BY <3>1, <3>3
    <3> QED
      BY <2>2, <3>2, <3>3 DEF Answered
  <2> QED
    BY <2>1, <2>3 DEF PageOutstanding, Asked
<1>3. ASSUME NEW f \in Frame,
             \/ Arrive(f) \/ Spin(f) \/ ReadPage(f) \/ SendPage(f) \/ RefusePage(f)
             \/ JoinDepart(f) \/ JoinRefuse(f) \/ JoinSetRoom(f) \/ JoinEnter(f) \/ JoinRespond(f)
      PROVE  PageOutstanding'
  <2>1. CASE Arrive(f)
    <3>1. /\ toServer # <<>> /\ toServer' = Tail(toServer) /\ toServer \in Seq(Request)
          /\ frame[f].stage = "free" /\ UNCHANGED toClient
          /\ frame'[f].stage # "free" /\ frame'[f].ask = Head(toServer)
          /\ \A g \in Frame \ {f} : frame'[g] = frame[g]
      BY <1>1, <2>1 DEF Arrive, TypedNetwork, TypedReader, Coroutine
    <3>2. \A i \in DOMAIN toServer :
              \/ toServer[i] = frame'[f].ask
              \/ \E j \in DOMAIN toServer' : toServer'[j] = toServer[i]
      <4> SUFFICES ASSUME NEW i \in DOMAIN toServer, i # 1
                   PROVE  \E j \in DOMAIN toServer' : toServer'[j] = toServer[i]
        BY <3>1
      <4>1. i - 1 \in DOMAIN toServer' /\ toServer'[i - 1] = toServer[i]
        BY <3>1
      <4> QED
        BY <4>1
    <3> QED
      BY <3>1, <3>2 DEF PageOutstanding, Asked, Answered
  <2>2. CASE Spin(f) \/ ReadPage(f) \/ JoinDepart(f) \/ JoinSetRoom(f) \/ JoinEnter(f)
    <3>1. /\ UNCHANGED <<toServer, toClient>>
          /\ frame'[f].stage # "free" /\ frame'[f].ask = frame[f].ask
          /\ \A g \in Frame \ {f} : frame'[g] = frame[g]
      BY <1>1, <2>2 DEF Spin, ReadPage, JoinDepart, JoinSetRoom, JoinEnter, Go, network,
         TypedReader, Coroutine
    <3> QED
      BY <3>1 DEF PageOutstanding, Asked, Answered
  <2>3. CASE SendPage(f) \/ RefusePage(f)
    <3>1. \E kind \in {"Page", "NoPage"}, r \in Room \cup {None}, page \in Seq(Message) :
              Send(kind, r, page)
      <4>1. frame[f].page \in Seq(Message) /\ <<>> \in Seq(Message)
        BY <1>1 DEF TypedReader, Coroutine
      <4>2. frame[f].ask.room \in Room \cup {None}
        BY <1>1, <2>3 DEF SendPage, RefusePage, At, TypedReader, Request
      <4> QED
        BY <2>3, <4>1, <4>2 DEF SendPage, RefusePage, Answer
    <3> QED
      BY <3>1, AnsweredMore DEF PageOutstanding, Kinds
  <2>4. CASE JoinRefuse(f) \/ JoinRespond(f)
    <3>1. PICK kind \in {"Refused", "Joined"} : Answer(f, kind, <<>>)
      BY <2>4 DEF JoinRefuse, JoinRespond
    <3>2. frame[f].ask.room \in Room \cup {None}
      BY <1>1, <2>4 DEF JoinRefuse, JoinRespond, At, TypedReader, Request
    <3>0. <<>> \in Seq(Message)
      OBVIOUS
    <3>3. Answered({"Page", "NoPage"}) => Answered({"Page", "NoPage"})'
      BY <3>0, <3>1, <3>2, AnsweredMore DEF Answer, Kinds
    <3>4. /\ UNCHANGED toServer /\ frame[f].ask.op = "JoinRoom"
          /\ \A g \in Frame \ {f} : frame'[g] = frame[g]
      BY <1>1, <2>4 DEF JoinRefuse, JoinRespond, Answer, At, TypedReader
    <3> QED
      BY <3>3, <3>4 DEF PageOutstanding, Asked
  <2> QED
    BY <1>3, <2>1, <2>2, <2>3, <2>4
<1> QED
  BY <1>2, <1>3 DEF ServerStep

\* The client's next step: what it handles ends the load, or was not its answer.
LEMMA ClientAnswers ==
    ASSUME Typed, ClientStep, LoadingIsAnswered
    PROVE  LoadingIsAnswered'
<1>1. GetMessages(FALSE, Latest) \in Request /\ GetMessages(FALSE, Latest).op = "GetMessages"
  BY DEF GetMessages, Request, Latest
<1>2. Start /\ frame' = frame => PageOutstanding'
  BY <1>1, AskedMore DEF Start, PageOutstanding
<1>3. CASE handleMessage
  <2>1. /\ UNCHANGED server /\ frame' = frame
        /\ Head(toClient).kind \notin {"Page", "NoPage"} =>
              (Answered({"Page", "NoPage"}) => Answered({"Page", "NoPage"})')
    <3>1. TypedNetwork /\ toClient # <<>> /\ toClient' = Tail(toClient)
      BY <1>3 DEF Typed, handleMessage
    <3> QED
      BY <1>3, <3>1, Popped DEF handleMessage, server, reader, Answered
  <2> DEFINE e == Head(toClient)
  <2>2. CASE e.kind \in {"RoomMessage", "Page", "NoPage"}
    BY <1>3, <2>2 DEF handleMessage, showRoomMessage, kGetMessagesResponse, OnMessagesReceived,
       OnNoMessages, LoadingIsAnswered
  <2>3. CASE e.kind = "Joined"
    BY <1>2, <1>3, <2>1, <2>3 DEF handleMessage, ShowChat, LoadingIsAnswered
  <2>4. CASE e.kind \in {"MessageDeleted", "RoomDeleted", "Refused"}
    <3>1. UNCHANGED <<toServer, loading>>
      BY <1>3, <2>4 DEF handleMessage, removeMessageFromView, DeleteMessageById, kRoomDeleted,
         ShowRooms, client
    <3> QED
      BY <2>1, <2>4, <3>1 DEF LoadingIsAnswered, PageOutstanding, Asked, loading
  <2> QED
    BY <1>3, <2>2, <2>3, <2>4 DEF handleMessage
<1>4. CASE ScrollUp \/ ScrollDown \/ JumpToPresent \/ \E r \in Room : OnJoin(r)
  <2>1. frame' = frame /\ toClient' = toClient
    BY <1>4 DEF ScrollUp, ScrollDown, JumpToPresent, OnJoin, MayAsk, server, reader
  <2>2. ScrollUp \/ ScrollDown => \E newer \in BOOLEAN, at \in Int : Ask(GetMessages(newer, at))
    <3>1. view # <<>> => Head(view).at \in Int /\ Last(view).at \in Int
      <4>1. view # <<>> => Head(view) \in Message /\ Last(view) \in Message
        BY DEF Typed, TypedClient, Last
      <4> QED
        BY <4>1 DEF Message
    <3> QED
      BY <3>1 DEF ScrollUp, ScrollDown
  <2>3. \A newer \in BOOLEAN, at \in Int :
            GetMessages(newer, at) \in Request /\ GetMessages(newer, at).op = "GetMessages"
    BY DEF GetMessages, Request
  <2>4. ScrollUp \/ ScrollDown => PageOutstanding'
    BY <2>1, <2>2, <2>3, AskedMore DEF PageOutstanding
  <2>5. JumpToPresent => PageOutstanding'
    BY <1>2, <2>1 DEF JumpToPresent
  <2>6. ASSUME NEW r \in Room, OnJoin(r)
        PROVE  LoadingIsAnswered'
    <3>1. JoinRoom(r) \in Request
      BY DEF JoinRoom, Request
    <3>2. PageOutstanding => PageOutstanding'
      BY <2>1, <2>6, <3>1, AskedMore DEF OnJoin, PageOutstanding, Answered
    <3> QED
      BY <2>6, <3>2 DEF OnJoin, client, loading, LoadingIsAnswered
  <2> QED
    BY <1>4, <2>4, <2>5, <2>6 DEF LoadingIsAnswered
<1> QED
  BY <1>3, <1>4 DEF ClientStep

\* The view waits for a page only while the request or its answer is on its way.
THEOREM LoadingIsAnsweredHolds == Spec => []LoadingIsAnswered
<1>1. Init => Typed /\ LoadingIsAnswered
  BY InitTyped DEF Init, LoadingIsAnswered
<1>2. ASSUME Typed, LoadingIsAnswered, [Next]_vars
      PROVE  Typed' /\ LoadingIsAnswered'
  <2>1. Typed'
    BY <1>2, NextTyped
  <2>2. CASE ServerStep /\ UNCHANGED client
    BY <1>2, <2>1, <2>2, ServerAnswers DEF client, loading, LoadingIsAnswered
  <2>3. CASE ClientStep
    BY <1>2, <2>1, <2>3, ClientAnswers
  <2>4. CASE UNCHANGED vars
    BY <1>2, <2>1, <2>4 DEF vars, server, reader, network, client, loading, LoadingIsAnswered,
       PageOutstanding, Asked, Answered
  <2> QED
    BY <1>2, <2>1, <2>2, <2>3, <2>4 DEF Next
<1> QED
  BY <1>1, <1>2, PTL DEF Spec

-----------------------------------------------------------------------------
(* The view shows one room.                                                *)

\* A join has entered its room's registry and has yet to be answered.
Joining == \E f \in Frame : frame[f].stage = "listing"

\* The answer to a join comes behind envelope i.
JoinedAfter(i) == \E j \in DOMAIN toClient : j > i /\ toClient[j].kind = "Joined"

\* What the reader got with, or before, envelope i is not shown for long.
ToBeCleared(i) == Joining \/ JoinedAfter(i)

\* The room of the last join that was answered, whether or not the answer
\* has been handled.
Served(r) ==
    \/ ~JoinedAfter(0) /\ r = joined
    \/ \E i \in DOMAIN toClient :
          toClient[i].kind = "Joined" /\ toClient[i].room = r /\ ~JoinedAfter(i)

\* The stages of a coroutine that handles a join, under the session's lock.
JoinStages == {"departed", "entering", "listing"}

\* The session's lock: a page is read, and a room entered, by whoever asked for
\* that, and only requests for pages share the lock.
LocksInv ==
    /\ \A f \in Frame :
          /\ frame[f].stage = "read" => frame[f].ask.op = "GetMessages"
          /\ frame[f].stage \in JoinStages => frame[f].ask.op = "JoinRoom"
    /\ \A f, g \in Frame :
          f # g /\ Holds(f) /\ Holds(g) =>
              frame[f].ask.op = "GetMessages" /\ frame[g].ask.op = "GetMessages"

\* Where the reader is: in no room, or in the one that was served last, or a
\* join is about to serve it.
PlaceInv ==
    /\ \A f \in Frame :
          /\ frame[f].stage = "departed" => session = None /\ listed = None
          /\ frame[f].stage = "entering" => session = frame[f].ask.room /\ listed = None
          /\ frame[f].stage = "listing" =>
                session = frame[f].ask.room /\ listed \in {frame[f].ask.room, None}
    /\ session # None =>
          Served(session) \/ \E f \in Frame : frame[f].stage \in {"entering", "listing"}
    /\ listed # None => Served(listed) \/ Joining

\* The envelopes whose rows come into the view.
Carries(e) == e.kind \in {"Page", "RoomMessage"}

\* A page that was read is of the session's room.
PagesInv ==
    \A f \in Frame : frame[f].stage = "read" =>
        session # None /\ \A m \in ToSet(frame[f].page) : m.room = session

\* What is on its way, and what is shown, is of the room it will be shown as,
\* or will be cleared.
ShownInv ==
    /\ \A i \in DOMAIN toClient : Carries(toClient[i]) =>
          \A m \in ToSet(toClient[i].rows) : ToBeCleared(i) \/ Served(m.room)
    /\ \A m \in ToSet(view) : ToBeCleared(0) \/ m.room = joined

RoomsInv == LocksInv /\ PlaceInv /\ PagesInv /\ ShownInv

\* The queue of envelopes after one was sent, as its n-th.
Grows(n, kind, r, batch) ==
    /\ n > 0
    /\ DOMAIN toClient' = DOMAIN toClient \cup {n}
    /\ \A i \in DOMAIN toClient : toClient'[i] = toClient[i] /\ i \in Nat /\ i < n
    /\ toClient'[n].kind = kind /\ toClient'[n].room = r /\ toClient'[n].rows = batch

LEMMA Grown ==
    ASSUME Typed, NEW kind \in Kinds, NEW r \in Room \cup {None}, NEW batch \in Seq(Message),
           Send(kind, r, batch)
    PROVE  \E n \in Nat : Grows(n, kind, r, batch)
<1> DEFINE e == [kind |-> kind, room |-> r, rows |-> batch]
<1>1. e \in Envelope /\ e.kind = kind /\ e.room = r /\ e.rows = batch
  BY DEF Envelope
<1>2. toClient \in Seq(Envelope) /\ toClient' = Append(toClient, e)
  BY DEF Typed, TypedNetwork, Send
<1> HIDE DEF e
<1>3. /\ Append(toClient, e) \in Seq(Envelope)
      /\ DOMAIN Append(toClient, e) = DOMAIN toClient \cup {Len(toClient) + 1}
      /\ \A i \in DOMAIN toClient :
            Append(toClient, e)[i] = toClient[i] /\ i \in Nat /\ i < Len(toClient) + 1
      /\ Append(toClient, e)[Len(toClient) + 1] = e
      /\ Len(toClient) \in Nat
  BY <1>1, <1>2, Appended
<1>4. PICK n \in Nat : n = Len(toClient) + 1 /\ n > 0
  BY <1>3
<1> QED
  BY <1>1, <1>2, <1>3, <1>4 DEF Grows

\* An envelope that is no answer to a join, and shows the served room's rows.
LEMMA SendKeepsShown ==
    ASSUME Typed, ShownInv, NEW kind \in Kinds \ {"Joined"}, NEW r \in Room \cup {None},
           NEW batch \in Seq(Message), Send(kind, r, batch),
           kind \in {"Page", "RoomMessage"} => \A m \in ToSet(batch) : Joining \/ Served(m.room),
           UNCHANGED <<joined, view>>, Joining' <=> Joining
    PROVE  ShownInv' /\ \A room : Served(room) => Served(room)'
<1>0. PICK n \in Nat : Grows(n, kind, r, batch)
  BY Grown
<1>1. /\ n > 0
      /\ DOMAIN toClient' = DOMAIN toClient \cup {n}
      /\ \A i \in DOMAIN toClient : toClient'[i] = toClient[i] /\ i \in Nat /\ i < n
      /\ toClient'[n].kind = kind /\ toClient'[n].room = r /\ toClient'[n].rows = batch
  BY <1>0 DEF Grows
<1>2. \A i \in DOMAIN toClient \cup {0} : JoinedAfter(i) <=> JoinedAfter(i)'
  BY <1>1 DEF JoinedAfter
<1>3. ASSUME NEW room, Served(room)
      PROVE  Served(room)'
  BY <1>1, <1>2, <1>3 DEF Served
<1>4. ASSUME NEW i \in DOMAIN toClient', Carries(toClient'[i]), NEW m \in ToSet(toClient'[i].rows)
      PROVE  ToBeCleared(i)' \/ Served(m.room)'
  <2>1. CASE i \in DOMAIN toClient
    BY <1>1, <1>2, <1>3, <1>4, <2>1 DEF ShownInv, ToBeCleared
  <2>2. CASE i = n
    BY <1>1, <1>3, <1>4, <2>2 DEF Carries, ToBeCleared
  <2> QED
    BY <1>1, <2>1, <2>2
<1>5. ASSUME NEW m \in ToSet(view)'
      PROVE  ToBeCleared(0)' \/ m.room = joined'
  BY <1>2, <1>5 DEF ShownInv, ToBeCleared
<1> QED
  BY <1>3, <1>4, <1>5 DEF ShownInv

\* Nothing is sent.
LEMMA StayKeepsShown ==
    ASSUME ShownInv, UNCHANGED <<toClient, joined, view>>, Joining => Joining'
    PROVE  ShownInv' /\ \A room : Served(room) => Served(room)'
<1>1. \A i : JoinedAfter(i) <=> JoinedAfter(i)'
  BY DEF JoinedAfter
<1>2. \A room : Served(room) => Served(room)'
  BY <1>1 DEF Served
<1> QED
  BY <1>1, <1>2 DEF ShownInv, ToBeCleared

\* The answer to a join: all that was sent before is to be cleared.
LEMMA JoinedKeepsShown ==
    ASSUME Typed, NEW r \in Room, Send("Joined", r, <<>>), UNCHANGED view
    PROVE  ShownInv' /\ Served(r)'
<1>0. PICK n \in Nat : Grows(n, "Joined", r, <<>>)
  <2>1. "Joined" \in Kinds /\ <<>> \in Seq(Message)
    BY DEF Kinds
  <2> QED
    BY <2>1, Grown
<1>1. /\ n > 0
      /\ DOMAIN toClient' = DOMAIN toClient \cup {n}
      /\ \A i \in DOMAIN toClient : toClient'[i] = toClient[i] /\ i \in Nat /\ i < n
      /\ toClient'[n].kind = "Joined" /\ toClient'[n].room = r
  BY <1>0 DEF Grows
<1>2. \A i \in DOMAIN toClient \cup {0} : JoinedAfter(i)'
  BY <1>1 DEF JoinedAfter
<1>3. ~JoinedAfter(n)'
  BY <1>1 DEF JoinedAfter
<1>4. Served(r)'
  BY <1>1, <1>3 DEF Served
<1> QED
  BY <1>1, <1>2, <1>4 DEF ShownInv, ToBeCleared, Carries

\* The queue after its first envelope was taken: what comes after the others
\* is as it was, and the room served too, once a join's answer is handled.
LEMMA PoppedKeeps ==
    ASSUME Typed, toClient # <<>>, toClient' = Tail(toClient),
           Head(toClient).kind = "Joined" => joined' = Head(toClient).room,
           Head(toClient).kind # "Joined" => joined' = joined
    PROVE  /\ \A i \in Nat : JoinedAfter(i + 1) <=> JoinedAfter(i)'
           /\ \A room : Served(room) => Served(room)'
           /\ JoinedAfter(0) => Head(toClient).kind = "Joined" \/ JoinedAfter(0)'
<1>1. /\ Head(toClient) = toClient[1] /\ 1 \in DOMAIN toClient
      /\ \A i \in DOMAIN toClient' : i + 1 \in DOMAIN toClient /\ toClient'[i] = toClient[i + 1]
      /\ \A i \in DOMAIN toClient \ {1} :
            i - 1 \in DOMAIN toClient' /\ toClient'[i - 1] = toClient[i]
  BY Popped DEF Typed
<1>2. /\ \A i \in DOMAIN toClient : i \in Nat /\ i > 0
      /\ \A i \in DOMAIN toClient' : i \in Nat /\ i > 0
  <2>1. toClient \in Seq(Envelope) /\ toClient' \in Seq(Envelope)
    BY Popped DEF Typed, TypedNetwork
  <2> QED
    BY <2>1
<1>3. ASSUME NEW i \in Nat
      PROVE  JoinedAfter(i + 1) <=> JoinedAfter(i)'
  <2>1. ASSUME NEW j \in DOMAIN toClient, j > i + 1, toClient[j].kind = "Joined"
        PROVE  JoinedAfter(i)'
    <3>1. j - 1 \in DOMAIN toClient' /\ toClient'[j - 1].kind = "Joined" /\ j - 1 > i
      BY <1>1, <1>2, <2>1
    <3> QED
      BY <3>1 DEF JoinedAfter
  <2>2. ASSUME NEW j \in DOMAIN toClient', j > i, toClient'[j].kind = "Joined"
        PROVE  JoinedAfter(i + 1)
    <3>1. j + 1 \in DOMAIN toClient /\ toClient[j + 1].kind = "Joined" /\ j + 1 > i + 1
      BY <1>1, <1>2, <2>2
    <3> QED
      BY <3>1 DEF JoinedAfter
  <2> QED
    BY <2>1, <2>2 DEF JoinedAfter
<1>4. JoinedAfter(0)' <=> JoinedAfter(1)
  <2>1. 0 \in Nat /\ 0 + 1 = 1
    OBVIOUS
  <2>2. JoinedAfter(0 + 1) <=> JoinedAfter(0)'
    BY <1>3, <2>1
  <2> QED
    BY <2>1, <2>2
<1>5. JoinedAfter(0) => Head(toClient).kind = "Joined" \/ JoinedAfter(0)'
  <2>1. ASSUME NEW j \in DOMAIN toClient, toClient[j].kind = "Joined", j # 1
        PROVE  JoinedAfter(1)
    BY <1>2, <2>1 DEF JoinedAfter
  <2> QED
    BY <1>1, <1>4, <2>1 DEF JoinedAfter
<1>6. ASSUME NEW room, Served(room)
      PROVE  Served(room)'
  <2>1. CASE ~JoinedAfter(0) /\ room = joined
    <3>1. Head(toClient).kind # "Joined" /\ ~JoinedAfter(1)
      BY <1>1, <1>2, <2>1 DEF JoinedAfter
    <3> QED
      BY <1>4, <2>1, <3>1 DEF Served
  <2>2. ASSUME NEW i \in DOMAIN toClient,
               toClient[i].kind = "Joined", toClient[i].room = room, ~JoinedAfter(i)
        PROVE  Served(room)'
    <3>1. CASE i = 1
      BY <1>1, <1>4, <2>2, <3>1 DEF Served
    <3>2. CASE i # 1
      <4>1. PICK k \in Nat : k = i - 1
        BY <1>2
      <4>2. k \in DOMAIN toClient' /\ toClient'[k] = toClient[i] /\ i = k + 1
        BY <1>1, <1>2, <3>2, <4>1
      <4>3. ~JoinedAfter(k)'
        BY <1>3, <2>2, <4>2
      <4> QED
        BY <2>2, <4>2, <4>3 DEF Served
    <3> QED
      BY <3>1, <3>2
  <2> QED
    BY <1>6, <2>1, <2>2 DEF Served
<1> QED
  BY <1>3, <1>5, <1>6

\* What the handling of an envelope does to the view.
LEMMA HandledRows ==
    ASSUME Typed, handleMessage
    PROVE  /\ toClient # <<>> /\ toClient' = Tail(toClient) /\ UNCHANGED server
           /\ Head(toClient).kind = "Joined" =>
                 joined' = Head(toClient).room /\ view' = <<>>
           /\ Head(toClient).kind # "Joined" =>
                 /\ joined' = joined
                 /\ \A m \in ToSet(view') :
                       m \in ToSet(view) \/ (Carries(Head(toClient)) /\ m \in ToSet(Head(toClient).rows))
<1> DEFINE e == Head(toClient)
<1>1. toClient # <<>> /\ toClient' = Tail(toClient) /\ UNCHANGED server
  BY DEF handleMessage
<1>2. TypedClient /\ e \in Envelope
  BY <1>1, Popped DEF Typed
<1>3. e.kind = "Joined" => joined' = e.room /\ view' = <<>>
  BY DEF handleMessage, ShowChat, Start
<1>4. CASE Carries(e)
  <2>1. joined' = joined /\ (view' = view \/ view' = Fill(e.rows))
    BY <1>4 DEF handleMessage, Carries, showRoomMessage, kGetMessagesResponse, OnMessagesReceived
  <2>2. ToSet(Fill(e.rows)) \subseteq ToSet(e.rows) \cup ToSet(view)
    BY <1>2, FilledRows DEF Envelope
  <2> QED
    BY <1>1, <1>3, <1>4, <2>1, <2>2
<1>5. CASE ~Carries(e) /\ e.kind # "Joined"
  <2>1. joined' = joined /\ (view' = view \/ \E row : view' = RemoveFirst(view, row))
    BY <1>5 DEF handleMessage, Carries, kGetMessagesResponse, OnNoMessages, removeMessageFromView,
       DeleteMessageById, kRoomDeleted, ShowRooms, client
  <2>2. \A row : ToSet(RemoveFirst(view, row)) \subseteq ToSet(view)
    BY <1>2, RemovedRows DEF TypedClient
  <2> QED
    BY <1>1, <1>3, <1>5, <2>1, <2>2
<1> QED
  BY <1>1, <1>3, <1>4, <1>5 DEF Carries

\* Whoever holds the lock for a join holds it alone.
LEMMA Alone ==
    ASSUME LocksInv, NEW f \in Frame, Holds(f), frame[f].ask.op = "JoinRoom"
    PROVE  \A g \in Frame \ {f} : ~Holds(g)
  BY DEF LocksInv

\* A coroutine that goes on as the lock allows keeps the locks sound.
LEMMA LocksKept ==
    ASSUME LocksInv, NEW f \in Frame, \A g \in Frame \ {f} : frame'[g] = frame[g],
           \/ frame'[f].stage \in {"free", "spinning"}
           \/ frame'[f].stage = "holding" /\ CanTake(frame'[f].ask) /\ ~Holds(f)
           \/ /\ Holds(f) /\ frame'[f].ask = frame[f].ask
              /\ frame'[f].stage = "read" => frame[f].ask.op = "GetMessages"
              /\ frame'[f].stage \in JoinStages => frame[f].ask.op = "JoinRoom"
    PROVE  LocksInv'
<1>1. \A g \in Frame \ {f} : Holds(g)' <=> Holds(g)
  BY DEF Holds
<1>2. ASSUME NEW g \in Frame
      PROVE  /\ frame'[g].stage = "read" => frame'[g].ask.op = "GetMessages"
             /\ frame'[g].stage \in JoinStages => frame'[g].ask.op = "JoinRoom"
  BY DEF LocksInv, JoinStages
<1>3. ASSUME NEW g \in Frame \ {f}, Holds(g)', Holds(f)'
      PROVE  frame'[f].ask.op = "GetMessages" /\ frame'[g].ask.op = "GetMessages"
  BY <1>1, <1>3 DEF LocksInv, Holds, CanTake
<1>4. ASSUME NEW g \in Frame \ {f}, NEW h \in Frame \ {f}, g # h, Holds(g)', Holds(h)'
      PROVE  frame'[h].ask.op = "GetMessages" /\ frame'[g].ask.op = "GetMessages"
  BY <1>1, <1>4 DEF LocksInv
<1> QED
  BY <1>2, <1>3, <1>4 DEF LocksInv

\* The writers' steps: a notice shows rows of the room the reader is listed in.
LEMMA WriterKeepsRooms ==
    ASSUME Typed, RoomsInv, UNCHANGED client, NEW w \in Writer,
           \/ BeginSend(w) \/ BeginDelete(w) \/ BeginDeleteRoom(w)
           \/ CommitWrite(w) \/ FailWrite(w) \/ Notify(w) \/ EvictRoom(w)
    PROVE  RoomsInv'
<1>1. /\ UNCHANGED <<session, frame, joined, view>> /\ listed' \in {listed, None}
      /\ Joining' <=> Joining
  BY DEF BeginSend, BeginDelete, BeginDeleteRoom, CommitWrite, FailWrite, Notify, EvictRoom,
     reader, client, Joining
<1>2. \/ toClient' = toClient
      \/ \E kind \in Kinds \ {"Joined", "Page"}, r \in Room \cup {None}, batch \in Seq(Message) :
            /\ Send(kind, r, batch)
            /\ kind = "RoomMessage" => \A m \in ToSet(batch) : listed # None /\ m.room = listed
  <2>1. CASE Notify(w)
    <3>1. writing[w].row \in Message /\ writing[w].row.room \in Room /\ None \notin Room
      BY <2>1, MessagesAssumption DEF Notify, Typed, TypedStorage, Write, Message
    <3>2. <<writing[w].row>> \in Seq(Message) /\ ToSet(<<writing[w].row>>) = {writing[w].row}
      BY <3>1 DEF ToSet
    <3>3. \/ toClient' = toClient
          \/ /\ listed = writing[w].row.room
             /\ \E kind \in {"RoomMessage", "MessageDeleted"} :
                   Send(kind, writing[w].row.room, <<writing[w].row>>)
      BY <2>1 DEF Notify
    <3> QED
      BY <3>1, <3>2, <3>3 DEF Kinds
  <2>2. CASE EvictRoom(w)
    <3>1. writing[w].row.room \in Room
      BY <2>2 DEF EvictRoom, Typed, TypedStorage, Write, Message
    <3>2. PICK kind \in Kinds \ {"Joined", "Page"}, batch \in Seq(Message) :
              kind = "RoomDeleted" /\ batch = <<>>
      <4>1. <<>> \in Seq(Message)
        OBVIOUS
      <4>2. "RoomDeleted" \in Kinds \ {"Joined", "Page"}
        BY DEF Kinds
      <4> QED
        BY <4>1, <4>2
    <3>3. Send(kind, writing[w].row.room, batch) /\ kind # "RoomMessage"
      BY <2>2, <3>2 DEF EvictRoom
    <3> QED
      BY <3>1, <3>3
  <2> QED
    BY <2>1, <2>2 DEF BeginSend, BeginDelete, BeginDeleteRoom, CommitWrite, FailWrite, network
<1>3. ShownInv' /\ \A room : Served(room) => Served(room)'
  <2>1. CASE toClient' = toClient
    BY <1>1, <2>1, StayKeepsShown DEF RoomsInv
  <2>2. ASSUME NEW kind \in Kinds \ {"Joined", "Page"}, NEW r \in Room \cup {None},
               NEW batch \in Seq(Message), Send(kind, r, batch),
               kind = "RoomMessage" => \A m \in ToSet(batch) : listed # None /\ m.room = listed
        PROVE  ShownInv' /\ \A room : Served(room) => Served(room)'
    <3>1. kind = "RoomMessage" => \A m \in ToSet(batch) : Joining \/ Served(m.room)
      BY <2>2 DEF RoomsInv, PlaceInv
    <3> QED
      BY <1>1, <2>2, <3>1, SendKeepsShown DEF RoomsInv
  <2> QED
    BY <1>2, <2>1, <2>2
<1>4. LocksInv' /\ PagesInv'
  BY <1>1 DEF RoomsInv, LocksInv, PagesInv, Holds
<1>5. PlaceInv'
  BY <1>1, <1>3 DEF RoomsInv, PlaceInv
<1> QED
  BY <1>3, <1>4, <1>5 DEF RoomsInv

\* The reader's coroutines: a page shows the room whose lock it was read under.
LEMMA ReaderKeepsRooms ==
    ASSUME Typed, RoomsInv, UNCHANGED client, NEW f \in Frame,
           \/ Arrive(f) \/ Spin(f) \/ ReadPage(f) \/ SendPage(f) \/ RefusePage(f)
           \/ JoinDepart(f) \/ JoinRefuse(f) \/ JoinSetRoom(f) \/ JoinEnter(f) \/ JoinRespond(f)
    PROVE  RoomsInv'
<1>1. /\ frame[f] \in Coroutine /\ frame[f].stage # "free" => frame[f].ask \in Request
      /\ TypedReader
  BY DEF Typed, TypedReader
<1>2. UNCHANGED <<joined, view>>
  BY DEF client
<1>3. LocksInv /\ PlaceInv /\ PagesInv /\ ShownInv
  BY DEF RoomsInv
<1>4. \A g \in Frame \ {f} : frame'[g] = frame[g]
  BY <1>1 DEF TypedReader, Arrive, Spin, ReadPage, SendPage, RefusePage, JoinDepart, JoinRefuse,
     JoinSetRoom, JoinEnter, JoinRespond, Go, Answer
<1>5. CASE Arrive(f) \/ Spin(f)
  <2>1. /\ UNCHANGED <<session, listed, toClient>>
        /\ frame[f].stage \in {"free", "spinning"}
        /\ \/ frame'[f].stage = "spinning"
           \/ frame'[f].stage = "holding" /\ CanTake(frame'[f].ask)
    BY <1>1, <1>5 DEF Arrive, Spin, Go, TypedReader, Coroutine, network
  <2>2. Joining <=> Joining'
    BY <1>4, <2>1 DEF Joining
  <2>3. ShownInv' /\ \A room : Served(room) => Served(room)'
    BY <1>2, <1>3, <2>1, <2>2, StayKeepsShown
  <2>4. LocksInv'
    BY <1>3, <1>4, <2>1, LocksKept DEF Holds
  <2>5. PagesInv'
    BY <1>3, <1>4, <2>1 DEF PagesInv
  <2>6. PlaceInv'
    BY <1>3, <1>4, <2>1, <2>2, <2>3 DEF PlaceInv
  <2> QED
    BY <2>3, <2>4, <2>5, <2>6 DEF RoomsInv
<1>6. CASE ReadPage(f)
  <2>1. PICK p \in Pages(session, frame[f].ask.newer, frame[f].ask.at) :
            frame' = [frame EXCEPT ![f].stage = "read", ![f].page = p]
    BY <1>6 DEF ReadPage
  <2>2. session \in Room /\ session # None
    BY <1>1, <1>6 DEF ReadPage, TypedReader
  <2>3. \A m \in ToSet(p) : m.room = session
    BY <2>2, PageRows DEF Typed, ToSet
  <2>4. /\ UNCHANGED <<session, listed, toClient>>
        /\ frame[f].stage = "holding" /\ frame[f].ask.op = "GetMessages"
        /\ frame'[f].stage = "read" /\ frame'[f].ask = frame[f].ask /\ frame'[f].page = p
    <3>1. frame'[f].stage = "read" /\ frame'[f].ask = frame[f].ask /\ frame'[f].page = p
      BY <1>1, <2>1 DEF TypedReader, Coroutine
    <3> QED
      BY <1>6, <3>1 DEF ReadPage, network, At
  <2>5. Joining <=> Joining'
    BY <1>4, <2>4 DEF Joining
  <2>6. ShownInv' /\ \A room : Served(room) => Served(room)'
    BY <1>2, <1>3, <2>4, <2>5, StayKeepsShown
  <2>7. LocksInv'
    BY <1>3, <1>4, <2>4, LocksKept DEF Holds, JoinStages
  <2>8. PagesInv'
    BY <1>3, <1>4, <2>2, <2>3, <2>4 DEF PagesInv
  <2>9. PlaceInv'
    BY <1>3, <1>4, <2>4, <2>5, <2>6 DEF PlaceInv
  <2> QED
    BY <2>6, <2>7, <2>8, <2>9 DEF RoomsInv
<1>7. CASE SendPage(f)
  <2>1. /\ UNCHANGED <<session, listed>>
        /\ frame[f].stage = "read" /\ frame[f].ask.op = "GetMessages" /\ Holds(f)
        /\ frame'[f].stage = "free"
        /\ frame[f].ask.room \in Room \cup {None} /\ frame[f].page \in Seq(Message)
        /\ Send("Page", frame[f].ask.room, frame[f].page)
    BY <1>1, <1>7 DEF SendPage, Answer, At, Free, TypedReader, Coroutine, Request, Holds
  <2>2. session # None /\ \A m \in ToSet(frame[f].page) : m.room = session
    BY <1>3, <2>1 DEF PagesInv
  <2>3. \A g \in Frame : frame[g].stage \notin JoinStages
    BY <1>3, <2>1 DEF LocksInv, Holds, JoinStages
  <2>4. Served(session)
    BY <1>3, <2>2, <2>3 DEF PlaceInv, JoinStages
  <2>5. Joining <=> Joining'
    BY <1>4, <2>1 DEF Joining
  <2>6. ShownInv' /\ \A room : Served(room) => Served(room)'
    <3>1. \A m \in ToSet(frame[f].page) : Joining \/ Served(m.room)
      BY <2>2, <2>4
    <3> QED
      BY <1>2, <1>3, <2>1, <2>5, <3>1, SendKeepsShown DEF Kinds
  <2>7. LocksInv'
    BY <1>3, <1>4, <2>1, LocksKept
  <2>8. PagesInv'
    BY <1>3, <1>4, <2>1 DEF PagesInv
  <2>9. PlaceInv'
    BY <1>3, <1>4, <2>1, <2>5, <2>6 DEF PlaceInv
  <2> QED
    BY <2>6, <2>7, <2>8, <2>9 DEF RoomsInv
<1>8. CASE RefusePage(f) \/ JoinRefuse(f)
  <2>1. PICK kind \in {"NoPage", "Refused"} : Answer(f, kind, <<>>)
    BY <1>8 DEF RefusePage, JoinRefuse
  <2>2. /\ UNCHANGED <<session, listed>>
        /\ frame[f].stage \in {"holding", "departed"}
        /\ frame'[f].stage = "free" /\ frame[f].ask.room \in Room \cup {None}
        /\ Send(kind, frame[f].ask.room, <<>>)
    BY <1>1, <1>8, <2>1 DEF RefusePage, JoinRefuse, Answer, At, Free, TypedReader, Request
  <2>3. Joining <=> Joining'
    BY <1>4, <2>2 DEF Joining
  <2>4. ShownInv' /\ \A room : Served(room) => Served(room)'
    <3>1. <<>> \in Seq(Message) /\ kind \in Kinds \ {"Joined"} /\ kind \notin {"Page", "RoomMessage"}
      BY DEF Kinds
    <3> QED
      BY <1>2, <1>3, <2>2, <2>3, <3>1, SendKeepsShown
  <2>5. LocksInv'
    BY <1>3, <1>4, <2>2, LocksKept
  <2>6. PagesInv'
    BY <1>3, <1>4, <2>2 DEF PagesInv
  <2>7. PlaceInv'
    BY <1>3, <1>4, <2>2, <2>3, <2>4 DEF PlaceInv
  <2> QED
    BY <2>4, <2>5, <2>6, <2>7 DEF RoomsInv
<1>9. CASE JoinDepart(f) \/ JoinSetRoom(f) \/ JoinEnter(f)
  <2>1. /\ frame[f].ask.op = "JoinRoom" /\ Holds(f) /\ UNCHANGED toClient
        /\ frame'[f].ask = frame[f].ask
        /\ frame'[f].stage \in JoinStages
    BY <1>1, <1>9 DEF JoinDepart, JoinSetRoom, JoinEnter, At, Go, Holds, network, JoinStages,
       TypedReader, Coroutine
  <2>2. \A g \in Frame \ {f} : frame[g].stage \in {"free", "spinning"}
    BY <1>3, <2>1, Alone DEF Holds
  <2>3. LocksInv'
    BY <1>3, <1>4, <2>1, LocksKept DEF JoinStages
  <2>4. PagesInv'
    BY <1>4, <2>1, <2>2 DEF PagesInv, JoinStages
  <2>5. Joining => Joining'
    BY <1>4, <1>9, <2>2 DEF Joining, JoinDepart, JoinSetRoom, JoinEnter, At
  <2>6. ShownInv'
    BY <1>2, <1>3, <2>1, <2>5, StayKeepsShown
  <2>7. PlaceInv'
    <3>1. CASE JoinDepart(f)
      <4>1. frame'[f].stage = "departed" /\ session' = None /\ listed' = None
        BY <1>1, <3>1 DEF JoinDepart, Go, TypedReader, Coroutine
      <4> QED
        BY <1>4, <2>2, <4>1 DEF PlaceInv
    <3>2. CASE JoinSetRoom(f)
      <4>1. frame'[f].stage = "entering" /\ session' = frame'[f].ask.room /\ listed' = None
        BY <1>1, <1>3, <2>1, <3>2 DEF JoinSetRoom, Go, TypedReader, Coroutine, PlaceInv, At
      <4> QED
        BY <1>4, <2>2, <4>1 DEF PlaceInv
    <3>3. CASE JoinEnter(f)
      <4>1. frame'[f].stage = "listing" /\ session' = frame'[f].ask.room /\ listed' = frame'[f].ask.room
        BY <1>1, <1>3, <2>1, <3>3 DEF JoinEnter, Go, TypedReader, Coroutine, PlaceInv, At
      <4> QED
        BY <1>4, <2>2, <4>1 DEF PlaceInv, Joining
    <3> QED
      BY <1>9, <3>1, <3>2, <3>3
  <2> QED
    BY <2>3, <2>4, <2>6, <2>7 DEF RoomsInv
<1>10. CASE JoinRespond(f)
  <2>1. /\ frame[f].ask.op = "JoinRoom" /\ frame[f].stage = "listing" /\ Holds(f)
        /\ UNCHANGED <<session, listed>>
        /\ frame'[f].stage = "free"
        /\ frame[f].ask.room \in Room
        /\ Send("Joined", frame[f].ask.room, <<>>)
    BY <1>1, <1>10 DEF JoinRespond, Answer, At, Free, TypedReader, Request, Holds
  <2>2. \A g \in Frame \ {f} : frame[g].stage \in {"free", "spinning"}
    BY <1>3, <2>1, Alone DEF Holds
  <2>3. LocksInv'
    BY <1>3, <1>4, <2>1, LocksKept
  <2>4. PagesInv'
    BY <1>4, <2>1, <2>2 DEF PagesInv
  <2>5. PICK r \in Room : r = frame[f].ask.room /\ Send("Joined", r, <<>>)
    BY <2>1
  <2>6. ShownInv' /\ Served(r)'
    BY <1>2, <2>5, JoinedKeepsShown
  <2>7. PlaceInv'
    <3>1. session' = r /\ listed' \in {r, None}
      BY <1>3, <2>1, <2>5 DEF PlaceInv
    <3> QED
      BY <1>4, <2>1, <2>2, <2>6, <3>1 DEF PlaceInv
  <2> QED
    BY <2>3, <2>4, <2>6, <2>7 DEF RoomsInv
<1> QED
  BY <1>5, <1>6, <1>7, <1>8, <1>9, <1>10

\* The client's steps.
LEMMA ClientKeepsRooms ==
    ASSUME Typed, RoomsInv, ClientStep
    PROVE  RoomsInv'
<1>1. LocksInv /\ PlaceInv /\ PagesInv /\ ShownInv
  BY DEF RoomsInv
<1>2. CASE handleMessage
  <2> DEFINE e == Head(toClient)
  <2>1. /\ toClient # <<>> /\ toClient' = Tail(toClient) /\ UNCHANGED server
        /\ e.kind = "Joined" => joined' = e.room /\ view' = <<>>
        /\ e.kind # "Joined" =>
              /\ joined' = joined
              /\ \A m \in ToSet(view') : m \in ToSet(view) \/ (Carries(e) /\ m \in ToSet(e.rows))
    BY <1>2, HandledRows
  <2>2. UNCHANGED <<frame, session, listed>>
    BY <2>1 DEF server, reader
  <2>3. /\ \A i \in Nat : JoinedAfter(i + 1) <=> JoinedAfter(i)'
        /\ \A room : Served(room) => Served(room)'
        /\ JoinedAfter(0) => e.kind = "Joined" \/ JoinedAfter(0)'
    BY <2>1, PoppedKeeps
  <2>4. LocksInv' /\ PagesInv' /\ (Joining' <=> Joining)
    BY <1>1, <2>2 DEF LocksInv, PagesInv, Holds, Joining
  <2>5. PlaceInv'
    BY <1>1, <2>2, <2>3, <2>4 DEF PlaceInv
  <2>6. /\ e = toClient[1] /\ 1 \in DOMAIN toClient
        /\ \A i \in DOMAIN toClient' :
              i \in Nat /\ i + 1 \in DOMAIN toClient /\ toClient'[i] = toClient[i + 1]
    BY <2>1, Popped DEF Typed
  <2>7. ASSUME NEW i \in DOMAIN toClient', Carries(toClient'[i]), NEW m \in ToSet(toClient'[i].rows)
        PROVE  ToBeCleared(i)' \/ Served(m.room)'
    <3>1. ToBeCleared(i + 1) \/ Served(m.room)
      BY <1>1, <2>6, <2>7 DEF ShownInv
    <3> QED
      BY <2>3, <2>4, <2>6, <3>1 DEF ToBeCleared
  <2>8. ASSUME NEW m \in ToSet(view')
        PROVE  ToBeCleared(0)' \/ m.room = joined'
    <3>1. CASE e.kind = "Joined"
      <4>1. ToSet(view') = {}
        BY <2>1, <3>1 DEF ToSet
      <4> QED
        BY <2>8, <4>1
    <3>2. CASE e.kind # "Joined" /\ m \in ToSet(view)
      BY <1>1, <2>1, <2>3, <2>4, <3>2 DEF ShownInv, ToBeCleared
    <3>3. CASE e.kind # "Joined" /\ Carries(e) /\ m \in ToSet(e.rows)
      <4>1. ToBeCleared(1) \/ Served(m.room)
        BY <1>1, <2>6, <3>3 DEF ShownInv
      <4>2. JoinedAfter(1) <=> JoinedAfter(0)'
        BY <2>3
      <4>3. Served(m.room)' => JoinedAfter(0)' \/ m.room = joined'
        <5>1. ASSUME NEW i \in DOMAIN toClient', toClient'[i].kind = "Joined"
              PROVE  JoinedAfter(0)'
          <6>1. i > 0
            BY <2>1, Popped DEF Typed
          <6> QED
            BY <5>1, <6>1 DEF JoinedAfter
        <5> QED
          BY <5>1 DEF Served
      <4> QED
        BY <2>3, <2>4, <4>1, <4>2, <4>3 DEF ToBeCleared
    <3> QED
      BY <2>1, <2>8, <3>1, <3>2, <3>3
  <2>9. ShownInv'
    BY <2>7, <2>8 DEF ShownInv
  <2> QED
    BY <2>4, <2>5, <2>9 DEF RoomsInv
<1>3. CASE ScrollUp \/ ScrollDown \/ JumpToPresent \/ \E r \in Room : OnJoin(r)
  <2>1. UNCHANGED <<session, listed, frame, toClient, joined>> /\ (view' = view \/ view' = <<>>)
    BY <1>3 DEF ScrollUp, ScrollDown, JumpToPresent, OnJoin, MayAsk, Start, server, reader, client
  <2>2. \A room : Served(room) <=> Served(room)'
    BY <2>1 DEF Served, JoinedAfter
  <2>3. \A i : ToBeCleared(i) <=> ToBeCleared(i)'
    BY <2>1 DEF ToBeCleared, JoinedAfter, Joining
  <2>4. LocksInv' /\ PagesInv' /\ PlaceInv'
    BY <1>1, <2>1, <2>2 DEF LocksInv, PagesInv, PlaceInv, Holds, Joining
  <2>5. ToSet(view') \subseteq ToSet(view)
    BY <2>1 DEF ToSet
  <2>6. ShownInv'
    BY <1>1, <2>1, <2>2, <2>3, <2>5 DEF ShownInv
  <2> QED
    BY <2>4, <2>6 DEF RoomsInv
<1> QED
  BY <1>2, <1>3 DEF ClientStep

\* The first state.
LEMMA InitRooms == Init => RoomsInv
<1> SUFFICES ASSUME Init PROVE RoomsInv
  OBVIOUS
<1>1. \A f \in Frame : frame[f].stage = "free"
  BY DEF Init, Free
<1>2. LocksInv /\ PagesInv
  BY <1>1 DEF LocksInv, PagesInv, Holds, JoinStages
<1>3. PlaceInv
  BY <1>1 DEF Init, PlaceInv
<1>4. ShownInv
  <2>1. DOMAIN <<>> = {} /\ ToSet(<<>>) = {}
    BY DEF ToSet
  <2> QED
    BY <2>1 DEF Init, ShownInv
<1> QED
  BY <1>2, <1>3, <1>4 DEF RoomsInv

\* Every step keeps RoomsInv.
LEMMA NextRooms ==
    ASSUME Typed, RoomsInv, [Next]_vars
    PROVE  RoomsInv'
<1>1. CASE ServerStep /\ UNCHANGED client
  BY <1>1, WriterKeepsRooms, ReaderKeepsRooms DEF ServerStep
<1>2. CASE ClientStep
  BY <1>2, ClientKeepsRooms
<1>3. CASE UNCHANGED vars
  BY <1>3 DEF vars, server, reader, network, client, RoomsInv, LocksInv, PlaceInv, PagesInv,
     ShownInv, Holds, Joining, JoinedAfter, ToBeCleared, Served
<1> QED
  BY <1>1, <1>2, <1>3 DEF Next

\* Unless a join is under way, the view shows messages of the room joined last.
THEOREM OnlyThisRoomsMessagesHolds == Spec => []OnlyThisRoomsMessages
<1>1. Init => Typed /\ RoomsInv
  BY InitTyped, InitRooms
<1>2. Typed /\ RoomsInv /\ [Next]_vars => Typed' /\ RoomsInv'
  BY NextTyped, NextRooms
<1>3. ASSUME Typed, RoomsInv
      PROVE  OnlyThisRoomsMessages
  <2>1. ~Moving => ~ToBeCleared(0)
    <3>1. Joining => Asked({"JoinRoom"})
      BY <1>3 DEF RoomsInv, LocksInv, Joining, JoinStages, Asked
    <3>2. JoinedAfter(0) => Answered({"Joined", "Refused"})
      BY DEF JoinedAfter, Answered
    <3> QED
      BY <3>1, <3>2 DEF Moving, ToBeCleared
  <2>2. \A i \in DOMAIN view : view[i] \in ToSet(view)
    BY <1>3 DEF Typed, TypedClient, ToSet
  <2> QED
    BY <1>3, <2>1, <2>2 DEF OnlyThisRoomsMessages, RoomsInv, ShownInv
<1> QED
  BY <1>1, <1>2, <1>3, PTL DEF Spec

-----------------------------------------------------------------------------
(* What is deleted goes away.                                              *)

\* The deletion of row is committed and has yet to be announced.
Doomed(row) ==
    \E w \in Writer : writing[w] # None /\ writing[w].op = "delete" /\ writing[w].committed
                         /\ writing[w].row = row

\* A row is there, or what took it away is known: its room's deletion, or its
\* own, which has overtaken it or has yet to be announced.
Fate(row) == row \in table \cup overtaken \/ row.room \in closed \/ Doomed(row)

\* The notice of row's deletion comes behind envelope i.
DeletedAfter(row, i) ==
    \E j \in DOMAIN toClient :
        j > i /\ toClient[j].kind = "MessageDeleted" /\ toClient[j].rows[1] = row

\* A row that the reader gets with envelope i (0: is shown) is still there, or
\* will be taken away.
Settled(row, i) ==
    Fate(row) \/ ToBeCleared(i) \/ DeletedAfter(row, i) \/ listed # row.room

\* Every row that was read, announced, sent or shown is settled.
DeletionInv ==
    /\ \A f \in Frame : \A m \in ToSet(frame[f].page) : Fate(m)
    /\ \A w \in Writer :
          writing[w] # None /\ writing[w].op = "send" /\ writing[w].committed => Fate(writing[w].row)
    /\ \A i \in DOMAIN toClient : Carries(toClient[i]) =>
          \A m \in ToSet(toClient[i].rows) : Settled(m, i)
    /\ shown /\ "twice" \notin flaws => \A m \in ToSet(view) : Settled(m, 0)

\* What was deleted is doomed until the deletion is announced.
LEMMA WriterFate ==
    ASSUME Typed, NEW w \in Writer, NEW m, Fate(m),
           \/ BeginSend(w) \/ BeginDelete(w) \/ BeginDeleteRoom(w)
           \/ CommitWrite(w) \/ FailWrite(w) \/ Notify(w) \/ EvictRoom(w)
    PROVE  \/ Fate(m)'
           \/ Notify(w) /\ writing[w].op = "delete" /\ writing[w].row = m /\ ~StillToCome(m)
<1>1. writing \in [Writer -> Write \cup {None}] /\ None \notin Write
  BY MessagesAssumption DEF Typed, TypedStorage
<1>2. \A v \in Writer \ {w} : writing'[v] = writing[v]
  BY <1>1 DEF BeginSend, BeginDelete, BeginDeleteRoom, CommitWrite, FailWrite, Notify, EvictRoom
<1>3. ASSUME NEW v \in Writer \ {w}, writing[v] # None, writing[v].op = "delete",
             writing[v].committed, writing[v].row = m
      PROVE  Fate(m)'
  BY <1>2, <1>3 DEF Fate, Doomed
<1>4. CASE BeginSend(w) \/ BeginDelete(w) \/ BeginDeleteRoom(w) \/ FailWrite(w)
  <2>1. /\ UNCHANGED <<table, closed, overtaken>>
        /\ writing[w] = None \/ ~writing[w].committed
    BY <1>4 DEF BeginSend, BeginDelete, BeginDeleteRoom, FailWrite, Deciding, storage
  <2> QED
    BY <1>3, <2>1 DEF Fate, Doomed
<1>5. CASE CommitWrite(w)
  <2>1. ~writing[w].committed /\ writing[w] \in Write
    BY <1>1, <1>5 DEF CommitWrite, Deciding
  <2>2. /\ overtaken' = overtaken /\ closed \subseteq closed'
        /\ m \in table => \/ m \in table'
                          \/ writing[w].op = "delete" /\ writing[w].row = m
                          \/ m.room \in closed'
    BY <1>5 DEF CommitWrite
  <2>3. writing'[w] = [writing[w] EXCEPT !.committed = TRUE]
    BY <1>1, <1>5 DEF CommitWrite
  <2>4. /\ writing'[w].committed /\ writing'[w].op = writing[w].op
        /\ writing'[w].row = writing[w].row /\ writing'[w] # None
    <3>1. writing'[w] \in Write
      BY <2>1, <2>3 DEF Write
    <3> QED
      BY <1>1, <2>1, <2>3, <3>1 DEF Write
  <2>5. writing[w].op = "delete" /\ writing[w].row = m => Fate(m)'
    BY <2>4 DEF Fate, Doomed
  <2> QED
    BY <1>3, <2>1, <2>2, <2>5 DEF Fate, Doomed
<1>6. CASE Notify(w)
  <2>1. /\ UNCHANGED <<table, closed>> /\ overtaken \subseteq overtaken'
        /\ writing[w].op # "send" /\ StillToCome(writing[w].row) => writing[w].row \in overtaken'
    BY <1>6 DEF Notify, storage
  <2> QED
    BY <1>3, <1>6, <2>1 DEF Fate, Doomed
<1>7. CASE EvictRoom(w)
  <2>1. UNCHANGED <<table, closed, overtaken>> /\ writing[w].op = "deleteRoom"
    BY <1>7 DEF EvictRoom, storage
  <2> QED
    BY <1>3, <2>1 DEF Fate, Doomed
<1> QED
  BY <1>4, <1>5, <1>6, <1>7

\* What an envelope carries are messages.
LEMMA QueuedRows ==
    ASSUME Typed, NEW i \in DOMAIN toClient, NEW m \in ToSet(toClient[i].rows)
    PROVE  m \in Message
<1>1. toClient[i] \in Envelope
  BY DEF Typed, TypedNetwork
<1>2. toClient[i].rows \in Seq(Message)
  BY <1>1 DEF Envelope
<1> QED
  BY <1>2 DEF ToSet

\* An envelope that was sent comes after the others.
LEMMA GrownAfter ==
    ASSUME NEW n \in Nat, NEW kind, NEW r, NEW batch, Grows(n, kind, r, batch),
           NEW i \in DOMAIN toClient \cup {0}, NEW m
    PROVE  /\ JoinedAfter(i) \/ kind = "Joined" => JoinedAfter(i)'
           /\ DeletedAfter(m, i) \/ (kind = "MessageDeleted" /\ batch[1] = m) => DeletedAfter(m, i)'
<1>1. /\ n > 0
      /\ DOMAIN toClient' = DOMAIN toClient \cup {n}
      /\ \A j \in DOMAIN toClient : toClient'[j] = toClient[j] /\ j \in Nat /\ j < n
      /\ toClient'[n].kind = kind /\ toClient'[n].room = r /\ toClient'[n].rows = batch
  BY DEF Grows
<1> QED
  BY <1>1 DEF JoinedAfter, DeletedAfter

\* A deletion is announced behind every envelope that shows the row.
LEMMA WriterKeepsDeletion ==
    ASSUME Typed, DeletionInv, UNCHANGED client, NEW w \in Writer,
           \/ BeginSend(w) \/ BeginDelete(w) \/ BeginDeleteRoom(w)
           \/ CommitWrite(w) \/ FailWrite(w) \/ Notify(w) \/ EvictRoom(w)
    PROVE  DeletionInv'
<1>1. /\ UNCHANGED <<frame, view, shown, flaws>> /\ listed' \in {listed, None}
      /\ Joining' <=> Joining
  BY DEF BeginSend, BeginDelete, BeginDeleteRoom, CommitWrite, FailWrite, Notify, EvictRoom,
     reader, client, Joining
<1>2. writing \in [Writer -> Write \cup {None}] /\ None \notin Write /\ None \notin Room
  BY MessagesAssumption DEF Typed, TypedStorage
<1>3. \A v \in Writer \ {w} : writing'[v] = writing[v]
  BY <1>2 DEF BeginSend, BeginDelete, BeginDeleteRoom, CommitWrite, FailWrite, Notify, EvictRoom
<1>4. ASSUME NEW m, Fate(m), StillToCome(m)
      PROVE  Fate(m)'
  BY <1>4, WriterFate
<1>5. \A f \in Frame : \A m \in ToSet(frame'[f].page) : Fate(m)'
  BY <1>1, <1>4 DEF DeletionInv, StillToCome
<1>6. ASSUME NEW v \in Writer, writing'[v] # None, writing'[v].op = "send", writing'[v].committed
      PROVE  Fate(writing[v].row)'
  <2>1. CASE v # w
    <3>1. /\ writing'[v] = writing[v] /\ Fate(writing[v].row) /\ StillToCome(writing[v].row)
      BY <1>3, <1>6, <2>1 DEF DeletionInv, StillToCome
    <3>2. PICK m : m = writing[v].row
      OBVIOUS
    <3>3. Fate(m)' /\ writing'[v].row = m
      BY <1>4, <3>1, <3>2
    <3> QED
      BY <3>3 DEF Fate, Doomed
  <2>2. CASE v = w
    <3>1. CommitWrite(w)
      BY <1>2, <1>6, <2>2 DEF BeginSend, BeginDelete, BeginDeleteRoom, FailWrite, Notify, EvictRoom
    <3>2. writing[w] \in Write /\ writing'[w] = [writing[w] EXCEPT !.committed = TRUE]
      BY <1>2, <3>1 DEF CommitWrite, Deciding
    <3>3. writing'[w].op = writing[w].op /\ writing'[w].row = writing[w].row
      BY <3>2 DEF Write
    <3> QED
      BY <1>6, <2>2, <3>1, <3>3 DEF CommitWrite, Fate
  <2> QED
    BY <2>1, <2>2
<1>7. \/ toClient' = toClient
      \/ \E n \in Nat, kind \in Kinds, r \in Room, batch \in Seq(Message) :
            /\ Grows(n, kind, r, batch)
            /\ kind \in {"Page", "RoomMessage"} => \A m \in ToSet(batch) : Fate(m)'

<2>1. CASE Notify(w)
    <3>1. writing[w].row \in Message /\ writing[w].row.room \in Room
      BY <1>2, <2>1 DEF Notify, Write, Message
    <3>2. PICK batch \in Seq(Message) : batch = <<writing[w].row>> /\ ToSet(batch) = {writing[w].row}
      <4>1. <<writing[w].row>> \in Seq(Message) /\ ToSet(<<writing[w].row>>) = {writing[w].row}
        BY <3>1 DEF ToSet
      <4> QED
        BY <4>1
    <3>3. CASE toClient' = toClient
      BY <3>3
    <3>4. CASE toClient' # toClient
      <4>1. PICK kind \in {"RoomMessage", "MessageDeleted"} :
                /\ Send(kind, writing[w].row.room, batch)
                /\ kind = "RoomMessage" => writing[w].op = "send" /\ writing[w].committed
                /\ writing[w] # None
        BY <2>1, <3>2, <3>4 DEF Notify
      <4>2. kind \in Kinds /\ writing[w].row.room \in Room \cup {None}
        BY <3>1 DEF Kinds
      <4>3. PICK n \in Nat : Grows(n, kind, writing[w].row.room, batch)
        BY <4>1, <4>2, Grown
      <4>4. kind = "RoomMessage" => \A m \in ToSet(batch) : Fate(m)'
        <5>1. kind = "RoomMessage" => \A m \in ToSet(batch) : Fate(m) /\ StillToCome(m)
          BY <3>2, <4>1 DEF DeletionInv, StillToCome
        <5> QED
          BY <1>4, <5>1
      <4> QED
        BY <3>1, <4>2, <4>3, <4>4
    <3> QED
      BY <3>3, <3>4
  <2>2. CASE EvictRoom(w)
    <3>1. writing[w].row.room \in Room
      BY <1>2, <2>2 DEF EvictRoom, Write, Message
    <3>2. PICK kind \in Kinds, batch \in Seq(Message) : kind = "RoomDeleted" /\ batch = <<>>
      <4>1. <<>> \in Seq(Message)
        OBVIOUS
      <4> QED
        BY <4>1 DEF Kinds
    <3>3. Send(kind, writing[w].row.room, batch)
      BY <2>2, <3>2 DEF EvictRoom
    <3>4. PICK n \in Nat : Grows(n, kind, writing[w].row.room, batch)
      BY <3>1, <3>3, Grown
    <3> QED
      BY <3>1, <3>2, <3>4
  <2> QED
    BY <2>1, <2>2 DEF BeginSend, BeginDelete, BeginDeleteRoom, CommitWrite, FailWrite, network
<1>8. ASSUME NEW i \in DOMAIN toClient \cup {0}, NEW m \in Message, Settled(m, i)
      PROVE  Settled(m, i)'
  <2>1. (JoinedAfter(i) => JoinedAfter(i)') /\ (DeletedAfter(m, i) => DeletedAfter(m, i)')
    <3>1. CASE toClient' = toClient
      BY <3>1 DEF JoinedAfter, DeletedAfter
    <3>2. ASSUME NEW n \in Nat, NEW kind, NEW r, NEW batch, Grows(n, kind, r, batch)
          PROVE  (JoinedAfter(i) => JoinedAfter(i)') /\ (DeletedAfter(m, i) => DeletedAfter(m, i)')
      BY <3>2, GrownAfter
    <3> QED
      BY <1>7, <3>1, <3>2
  <2>2. listed # m.room => listed' # m.room
    BY <1>1, <1>2 DEF Message
  <2>3. CASE Fate(m)
    <3>1. CASE Notify(w) /\ writing[w].op = "delete" /\ writing[w].row = m /\ listed = m.room
      <4>1. PICK batch \in Seq(Message) : batch = <<m>> /\ batch[1] = m
        <5>1. <<m>> \in Seq(Message) /\ <<m>>[1] = m
          OBVIOUS
        <5> QED
          BY <5>1
      <4>2. Send("MessageDeleted", m.room, batch)
        BY <3>1, <4>1 DEF Notify
      <4>3. m.room \in Room \cup {None} /\ "MessageDeleted" \in Kinds
        BY DEF Message, Kinds
      <4>4. PICK n \in Nat : Grows(n, "MessageDeleted", m.room, batch)
        BY <4>2, <4>3, Grown
      <4> QED
        BY <4>1, <4>4, GrownAfter DEF Settled
    <3>2. CASE Fate(m)'
      BY <3>2 DEF Settled
    <3>3. CASE Notify(w) /\ listed # m.room
      BY <2>2, <3>3 DEF Settled
    <3> QED
      BY <2>3, <3>1, <3>2, <3>3, WriterFate
  <2> QED
    BY <1>1, <1>8, <2>1, <2>2, <2>3 DEF Settled, ToBeCleared
<1>9. ASSUME NEW i \in DOMAIN toClient', Carries(toClient'[i]), NEW m \in ToSet(toClient'[i].rows)
      PROVE  Settled(m, i)'
  <2>1. CASE i \in DOMAIN toClient /\ toClient'[i] = toClient[i]
    <3>1. m \in Message
      BY <1>9, <2>1, QueuedRows
    <3> QED
      BY <1>8, <1>9, <2>1, <3>1 DEF DeletionInv
  <2>2. ASSUME NEW n \in Nat, NEW kind \in Kinds, NEW r \in Room, NEW batch \in Seq(Message),
               Grows(n, kind, r, batch), i = n,
               kind \in {"Page", "RoomMessage"} => \A row \in ToSet(batch) : Fate(row)'
        PROVE  Settled(m, i)'
    BY <1>9, <2>2 DEF Grows, Carries, Settled
  <2> QED
    BY <1>7, <1>9, <2>1, <2>2 DEF Grows
<1>10. shown' /\ "twice" \notin flaws' => \A m \in ToSet(view') : Settled(m, 0)'
  <2>1. \A m \in ToSet(view) : m \in Message
    BY DEF Typed, TypedClient, ToSet
  <2> QED
    BY <1>1, <1>8, <2>1 DEF DeletionInv
<1> QED
  BY <1>5, <1>6, <1>9, <1>10 DEF DeletionInv

\* The reader's coroutines read what is there, and pass it on.
LEMMA ReaderKeepsDeletion ==
    ASSUME Typed, DeletionInv, UNCHANGED client, NEW f \in Frame,
           \/ Arrive(f) \/ Spin(f) \/ ReadPage(f) \/ SendPage(f) \/ RefusePage(f)
           \/ JoinDepart(f) \/ JoinRefuse(f) \/ JoinSetRoom(f) \/ JoinEnter(f) \/ JoinRespond(f)
    PROVE  DeletionInv'
<1>1. /\ UNCHANGED <<table, closed, overtaken, writing, view, shown, flaws>>
      /\ frame[f] \in Coroutine /\ frame \in [Frame -> Coroutine] /\ None \notin Room
  BY MessagesAssumption DEF Arrive, Spin, ReadPage, SendPage, RefusePage, JoinDepart, JoinRefuse,
     JoinSetRoom, JoinEnter, JoinRespond, storage, client, Typed, TypedReader
<1>2. \A g \in Frame \ {f} : frame'[g] = frame[g]
  BY <1>1 DEF Arrive, Spin, ReadPage, SendPage, RefusePage, JoinDepart, JoinRefuse,
     JoinSetRoom, JoinEnter, JoinRespond, Go, Answer
<1>3. \A m : Fate(m) <=> Fate(m)'
  BY <1>1 DEF Fate, Doomed
<1>4. ASSUME NEW m \in ToSet(frame'[f].page)
      PROVE  Fate(m)
  <2>1. CASE ReadPage(f)
    <3>1. PICK p \in Pages(session, frame[f].ask.newer, frame[f].ask.at) :
              frame' = [frame EXCEPT ![f].stage = "read", ![f].page = p]
      BY <2>1 DEF ReadPage
    <3>2. session \in Room
      BY <2>1 DEF ReadPage, Typed, TypedReader
    <3>3. \A i \in DOMAIN p : p[i] \in table
      BY <3>2, PageRows DEF Typed
    <3>4. frame'[f].page = p
      BY <1>1, <3>1 DEF Coroutine
    <3> QED
      BY <1>4, <3>3, <3>4 DEF Fate, ToSet
  <2>2. CASE frame'[f].page = <<>>
    BY <1>4, <2>2 DEF ToSet
  <2>3. CASE frame'[f].page = frame[f].page
    BY <1>4, <2>3 DEF DeletionInv
  <2>4. ReadPage(f) \/ frame'[f].page = <<>> \/ frame'[f].page = frame[f].page
    BY <1>1 DEF Arrive, Spin, SendPage, RefusePage, JoinDepart, JoinRefuse,
       JoinSetRoom, JoinEnter, JoinRespond, Go, Answer, Free, Coroutine
  <2> QED
    BY <2>1, <2>2, <2>3, <2>4
<1>5. \/ toClient' = toClient
      \/ \E n \in Nat, kind \in Kinds, r \in Room \cup {None}, batch \in Seq(Message) :
            /\ Grows(n, kind, r, batch)
            /\ kind \in {"Page", "RoomMessage"} => \A m \in ToSet(batch) : Fate(m)
            /\ JoinRespond(f) => kind = "Joined"
  <2>1. CASE SendPage(f)
    <3>1. /\ frame[f].ask.room \in Room \cup {None} /\ frame[f].page \in Seq(Message)
          /\ Send("Page", frame[f].ask.room, frame[f].page) /\ "Page" \in Kinds
          /\ ~JoinRespond(f)
      BY <1>1, <2>1 DEF SendPage, JoinRespond, Answer, At, Typed, TypedReader, Coroutine, Request, Kinds
    <3>2. PICK n \in Nat : Grows(n, "Page", frame[f].ask.room, frame[f].page)
      BY <3>1, Grown
    <3> QED
      BY <3>1, <3>2 DEF DeletionInv
  <2>2. CASE RefusePage(f) \/ JoinRefuse(f) \/ JoinRespond(f)
    <3>1. PICK kind \in {"NoPage", "Refused", "Joined"} :
              Answer(f, kind, <<>>) /\ (JoinRespond(f) => kind = "Joined")
      BY <2>2 DEF RefusePage, JoinRefuse, JoinRespond, At
    <3>2. frame[f].ask.room \in Room \cup {None} /\ Send(kind, frame[f].ask.room, <<>>)
      BY <1>1, <2>2, <3>1 DEF RefusePage, JoinRefuse, JoinRespond, Answer, At, Typed, TypedReader,
         Request
    <3>3. PICK batch \in Seq(Message) : batch = <<>>
      <4>1. <<>> \in Seq(Message)
        OBVIOUS
      <4> QED
        BY <4>1
    <3>4. kind \in Kinds /\ kind \notin {"Page", "RoomMessage"}
      BY DEF Kinds
    <3>5. PICK n \in Nat : Grows(n, kind, frame[f].ask.room, batch)
      BY <3>2, <3>3, <3>4, Grown
    <3> QED
      BY <3>1, <3>2, <3>4, <3>5
  <2> QED
    BY <2>1, <2>2 DEF Arrive, Spin, ReadPage, JoinDepart, JoinSetRoom, JoinEnter, network
<1>6. ASSUME NEW i \in DOMAIN toClient \cup {0}, NEW m \in Message, Settled(m, i)
      PROVE  Settled(m, i)'
  <2>1. (JoinedAfter(i) => JoinedAfter(i)') /\ (DeletedAfter(m, i) => DeletedAfter(m, i)')
    <3>1. CASE toClient' = toClient
      BY <3>1 DEF JoinedAfter, DeletedAfter
    <3>2. ASSUME NEW n \in Nat, NEW kind, NEW r, NEW batch, Grows(n, kind, r, batch)
          PROVE  (JoinedAfter(i) => JoinedAfter(i)') /\ (DeletedAfter(m, i) => DeletedAfter(m, i)')
      BY <3>2, GrownAfter
    <3> QED
      BY <1>5, <3>1, <3>2
  <2>2. Joining => Joining' \/ JoinedAfter(i)'
    <3>1. CASE JoinRespond(f)
      <4>1. toClient' # toClient
        BY <3>1, AppendProperties DEF JoinRespond, Answer, Send, Typed, TypedNetwork
      <4> QED
        BY <1>5, <3>1, <4>1, GrownAfter
    <3>2. CASE ~JoinRespond(f)
      BY <1>1, <1>2, <3>2 DEF Joining, Arrive, Spin, ReadPage, SendPage, RefusePage, JoinDepart,
         JoinRefuse, JoinSetRoom, JoinEnter, At, Go, Answer, Coroutine
    <3> QED
      BY <3>1, <3>2
  <2>3. listed # m.room => listed' # m.room \/ Joining'
    <3>1. m.room \in Room
      BY DEF Message
    <3>2. listed' \in {listed, None} \/ JoinEnter(f)
      BY DEF Arrive, Spin, ReadPage, SendPage, RefusePage, JoinDepart, JoinRefuse, JoinSetRoom,
         JoinRespond
    <3>3. JoinEnter(f) => frame'[f].stage = "listing"
      BY <1>1 DEF JoinEnter, Go, Coroutine
    <3> QED
      BY <1>1, <3>1, <3>2, <3>3 DEF Joining
  <2> QED
    BY <1>3, <1>6, <2>1, <2>2, <2>3 DEF Settled, ToBeCleared
<1>7. ASSUME NEW i \in DOMAIN toClient', Carries(toClient'[i]), NEW m \in ToSet(toClient'[i].rows)
      PROVE  Settled(m, i)'
  <2>1. CASE i \in DOMAIN toClient /\ toClient'[i] = toClient[i]
    <3>1. m \in Message
      BY <1>7, <2>1, QueuedRows
    <3> QED
      BY <1>6, <1>7, <2>1, <3>1 DEF DeletionInv
  <2>2. ASSUME NEW n \in Nat, NEW kind \in Kinds, NEW r, NEW batch \in Seq(Message),
               Grows(n, kind, r, batch), i = n,
               kind \in {"Page", "RoomMessage"} => \A row \in ToSet(batch) : Fate(row)
        PROVE  Settled(m, i)'
    BY <1>3, <1>7, <2>2 DEF Grows, Carries, Settled
  <2> QED
    BY <1>5, <1>7, <2>1, <2>2 DEF Grows
<1>8. shown' /\ "twice" \notin flaws' => \A m \in ToSet(view') : Settled(m, 0)'
  <2>1. \A m \in ToSet(view) : m \in Message
    BY DEF Typed, TypedClient, ToSet
  <2> QED
    BY <1>1, <1>6, <2>1 DEF DeletionInv
<1>9. \A g \in Frame : \A m \in ToSet(frame'[g].page) : Fate(m)'
  BY <1>2, <1>3, <1>4 DEF DeletionInv
<1>10. \A w \in Writer :
           writing'[w] # None /\ writing'[w].op = "send" /\ writing'[w].committed
               => Fate(writing[w].row)'
  BY <1>1, <1>3 DEF DeletionInv, Fate, Doomed
<1> QED
  BY <1>7, <1>8, <1>9, <1>10 DEF DeletionInv

\* What the client handles is what came first.
LEMMA PoppedDeletions ==
    ASSUME Typed, toClient # <<>>, toClient' = Tail(toClient), NEW m
    PROVE  /\ \A i \in Nat : DeletedAfter(m, i + 1) => DeletedAfter(m, i)'
           /\ DeletedAfter(m, 0) =>
                 \/ Head(toClient).kind = "MessageDeleted" /\ Head(toClient).rows[1] = m
                 \/ DeletedAfter(m, 0)'
<1>1. /\ Head(toClient) = toClient[1] /\ toClient \in Seq(Envelope)
      /\ \A i \in DOMAIN toClient \ {1} :
            i - 1 \in DOMAIN toClient' /\ toClient'[i - 1] = toClient[i]
  BY Popped DEF Typed, TypedNetwork
<1>2. \A i \in DOMAIN toClient : i \in Nat /\ i > 0
  BY <1>1
<1>3. ASSUME NEW i \in Nat, NEW j \in DOMAIN toClient, j > i + 1,
             toClient[j].kind = "MessageDeleted", toClient[j].rows[1] = m
      PROVE  DeletedAfter(m, i)'
  <2>1. /\ j - 1 \in DOMAIN toClient' /\ j - 1 > i
        /\ toClient'[j - 1].kind = "MessageDeleted" /\ toClient'[j - 1].rows[1] = m
    BY <1>1, <1>2, <1>3
  <2> QED
    BY <2>1 DEF DeletedAfter
<1>4. ASSUME NEW j \in DOMAIN toClient, j # 1,
             toClient[j].kind = "MessageDeleted", toClient[j].rows[1] = m
      PROVE  DeletedAfter(m, 0)'
  <2>1. j > 0 + 1 /\ 0 \in Nat
    BY <1>2, <1>4
  <2> QED
    BY <1>3, <1>4, <2>1
<1>5. DeletedAfter(m, 0) =>
          \/ Head(toClient).kind = "MessageDeleted" /\ Head(toClient).rows[1] = m
          \/ DeletedAfter(m, 0)'
  BY <1>1, <1>4 DEF DeletedAfter
<1>6. \A i \in Nat : DeletedAfter(m, i + 1) => DeletedAfter(m, i)'
  BY <1>3 DEF DeletedAfter
<1> QED
  BY <1>5, <1>6

\* Which rows an envelope leaves in the view, and adds to it.
LEMMA HandledDeletion ==
    ASSUME Typed, handleMessage, Head(toClient).kind # "Joined",
           shown', "twice" \notin flaws', NEW m \in ToSet(view')
    PROVE  /\ shown /\ "twice" \notin flaws
           /\ \/ Carries(Head(toClient)) /\ m \in ToSet(Head(toClient).rows)
              \/ /\ m \in ToSet(view)
                 /\ Head(toClient).kind = "MessageDeleted" => Head(toClient).rows[1] # m
<1> DEFINE e == Head(toClient)
<1>1. \/ Carries(e) /\ m \in ToSet(e.rows)
      \/ m \in ToSet(view)
  BY HandledRows
<1>2. CASE e.kind = "MessageDeleted"
  <2>1. shown /\ DeleteMessageById(e.rows[1])
    BY <1>2 DEF handleMessage, removeMessageFromView, client
  <2>2. "twice" \notin flaws /\ e.rows[1] \notin ToSet(view')
    BY <2>1 DEF DeleteMessageById
  <2> QED
    BY <1>1, <1>2, <2>1, <2>2 DEF Carries
<1>3. CASE e.kind \in {"RoomMessage", "Page", "NoPage"}
  BY <1>1, <1>3 DEF handleMessage, showRoomMessage, kGetMessagesResponse, OnMessagesReceived,
     OnNoMessages
<1>4. CASE e.kind \in {"RoomDeleted", "Refused"}
  BY <1>1, <1>4 DEF handleMessage, kRoomDeleted, ShowRooms, client
<1> QED
  BY <1>2, <1>3, <1>4 DEF handleMessage

\* The client's steps.
LEMMA ClientKeepsDeletion ==
    ASSUME Typed, DeletionInv, ClientStep
    PROVE  DeletionInv'
<1>1. UNCHANGED server
  BY DEF ClientStep, handleMessage, ScrollUp, ScrollDown, JumpToPresent, OnJoin, MayAsk
<1>2. /\ UNCHANGED <<frame, listed, writing>>
      /\ \A m : Fate(m) <=> Fate(m)'
      /\ Joining <=> Joining'
  BY <1>1 DEF server, storage, reader, Fate, Doomed, Joining
<1>3. /\ \A f \in Frame : \A m \in ToSet(frame'[f].page) : Fate(m)'
      /\ \A w \in Writer :
            writing'[w] # None /\ writing'[w].op = "send" /\ writing'[w].committed
                => Fate(writing[w].row)'
  BY <1>2 DEF DeletionInv, Fate, Doomed
<1>4. CASE handleMessage
  <2> DEFINE e == Head(toClient)
  <2>1. /\ toClient # <<>> /\ toClient' = Tail(toClient)
        /\ e.kind = "Joined" => joined' = e.room /\ view' = <<>>
        /\ e.kind # "Joined" => joined' = joined
    BY <1>4, HandledRows
  <2>2. /\ \A i \in Nat : JoinedAfter(i + 1) <=> JoinedAfter(i)'
        /\ JoinedAfter(0) => e.kind = "Joined" \/ JoinedAfter(0)'
    BY <2>1, PoppedKeeps
  <2>3. \A m : /\ \A i \in Nat : DeletedAfter(m, i + 1) => DeletedAfter(m, i)'
               /\ DeletedAfter(m, 0) =>
                     \/ e.kind = "MessageDeleted" /\ e.rows[1] = m
                     \/ DeletedAfter(m, 0)'
    BY <2>1, PoppedDeletions
  <2>4. \A i \in Nat : \A m : Settled(m, i + 1) => Settled(m, i)'
    BY <1>2, <2>2, <2>3 DEF Settled, ToBeCleared
  <2>5. /\ e = toClient[1] /\ 1 \in DOMAIN toClient
        /\ \A i \in DOMAIN toClient' :
              i \in Nat /\ i + 1 \in DOMAIN toClient /\ toClient'[i] = toClient[i + 1]
    BY <2>1, Popped DEF Typed
  <2>6. \A i \in DOMAIN toClient' : Carries(toClient'[i]) =>
            \A m \in ToSet(toClient'[i].rows) : Settled(m, i)'
    BY <2>4, <2>5 DEF DeletionInv
  <2>7. ASSUME shown', "twice" \notin flaws', NEW m \in ToSet(view')
        PROVE  Settled(m, 0)'
    <3>1. CASE e.kind = "Joined"
      BY <2>1, <2>7, <3>1 DEF ToSet
    <3>2. CASE e.kind # "Joined"
      <4>1. /\ shown /\ "twice" \notin flaws
            /\ \/ Carries(e) /\ m \in ToSet(e.rows)
               \/ m \in ToSet(view) /\ (e.kind = "MessageDeleted" => e.rows[1] # m)
        BY <1>4, <2>7, <3>2, HandledDeletion
      <4>2. CASE Carries(e) /\ m \in ToSet(e.rows)
        <5>1. Settled(m, 0 + 1)
          BY <2>5, <4>2 DEF DeletionInv
        <5>2. 0 \in Nat
          OBVIOUS
        <5> QED
          BY <2>4, <5>1, <5>2
      <4>3. CASE m \in ToSet(view) /\ (e.kind = "MessageDeleted" => e.rows[1] # m)
        <5>1. Settled(m, 0)
          BY <4>1, <4>3 DEF DeletionInv
        <5> QED
          BY <1>2, <2>2, <2>3, <3>2, <4>3, <5>1 DEF Settled, ToBeCleared
      <4> QED
        BY <4>1, <4>2, <4>3
    <3> QED
      BY <3>1, <3>2
  <2> QED
    BY <1>3, <2>6, <2>7 DEF DeletionInv
<1>5. CASE ScrollUp \/ ScrollDown \/ JumpToPresent \/ \E r \in Room : OnJoin(r)
  <2>1. /\ UNCHANGED <<toClient, shown>>
        /\ view' = <<>> \/ UNCHANGED <<view, flaws>>
    BY <1>5 DEF ScrollUp, ScrollDown, JumpToPresent, OnJoin, MayAsk, Start, client
  <2>2. \A m, i : Settled(m, i) => Settled(m, i)'
    BY <1>2, <2>1 DEF Settled, ToBeCleared, JoinedAfter, DeletedAfter
  <2>3. shown' /\ "twice" \notin flaws' => \A m \in ToSet(view') : Settled(m, 0)'
    <3>1. CASE view' = <<>>
      BY <3>1 DEF ToSet
    <3>2. CASE UNCHANGED <<view, flaws>>
      BY <2>1, <2>2, <3>2 DEF DeletionInv
    <3> QED
      BY <2>1, <3>1, <3>2
  <2> QED
    BY <1>3, <2>1, <2>2, <2>3 DEF DeletionInv
<1> QED
  BY <1>4, <1>5 DEF ClientStep

\* The first state.
LEMMA InitDeletion == Init => DeletionInv
<1>1. DOMAIN <<>> = {} /\ ToSet(<<>>) = {}
  BY DEF ToSet
<1> QED
  BY <1>1 DEF Init, DeletionInv, Free

\* Every step keeps DeletionInv.
LEMMA NextDeletion ==
    ASSUME Typed, DeletionInv, [Next]_vars
    PROVE  DeletionInv'
<1>1. CASE ServerStep /\ UNCHANGED client
  BY <1>1, WriterKeepsDeletion, ReaderKeepsDeletion DEF ServerStep
<1>2. CASE ClientStep
  BY <1>2, ClientKeepsDeletion
<1>3. CASE UNCHANGED vars
  <2>1. UNCHANGED <<table, closed, overtaken, writing, listed, frame, toClient, view, shown, flaws>>
    BY <1>3 DEF vars, server, storage, reader, network, client
  <2> QED
    BY <2>1 DEF DeletionInv, Settled, Fate, Doomed, ToBeCleared, Joining, JoinedAfter, DeletedAfter
<1> QED
  BY <1>1, <1>2, <1>3 DEF Next

\* When everything has been answered, a deleted message is shown no more,
\* unless its deletion overtook a page or a notice, or it was shown twice.
THEOREM DeletedStayAwayHolds == Spec => []DeletedStayAway
<1>1. Init => Typed /\ RoomsInv /\ DeletionInv
  BY InitTyped, InitRooms, InitDeletion
<1>2. Typed /\ RoomsInv /\ DeletionInv /\ [Next]_vars => Typed' /\ RoomsInv' /\ DeletionInv'
  BY NextTyped, NextRooms, NextDeletion
<1>3. ASSUME Typed, RoomsInv, DeletionInv
      PROVE  DeletedStayAway
  <2> SUFFICES ASSUME Quiet, shown, listed = joined, joined \notin closed, "twice" \notin flaws,
                      NEW m \in ToSet(view)
               PROVE  m \in table \cup overtaken
    BY DEF DeletedStayAway
  <2>1. ~ToBeCleared(0) /\ ~DeletedAfter(m, 0) /\ ~Doomed(m)
    <3>1. DOMAIN toClient = {}
      BY DEF Quiet
    <3> QED
      BY <3>1 DEF Quiet, ToBeCleared, Joining, JoinedAfter, DeletedAfter, Doomed
  <2>2. m.room = joined
    BY <1>3, <2>1 DEF RoomsInv, ShownInv
  <2> QED
    BY <1>3, <2>1, <2>2 DEF DeletionInv, Settled, Fate
<1> QED
  BY <1>1, <1>2, <1>3, PTL DEF Spec


-----------------------------------------------------------------------------
(***************************************************************************)
(* The reader's view is a piece of its room's history without gaps, and    *)
(* reaches down to its end.                                                *)
(*                                                                         *)
(* HistoryInv is inductive.  On top of Typed and RoomsInv,                 *)
(*   StoredInv bounds the stamps by the clock, so that a row that is being *)
(*   sent is a new one, and says what a notice is about;                   *)
(*   OrderInv follows the one page that is under way, from the request to  *)
(*   the view: it is in order, and beyond what the view shows;             *)
(*   CompleteInv says what is known of the history: from a stamp that is   *)
(*   shown, or will be, or from which a page was asked for, no row is      *)
(*   missing without its notice being under way or its stamp being shared. *)
(***************************************************************************)

(***************************************************************************)
(* Sequences of rows in the order of their stamps.                         *)
(***************************************************************************)

Sorted(s) == \A i, j \in DOMAIN s : i < j => s[i] # s[j] /\ s[i].at <= s[j].at

\* A page, whose first row is the nearest to where it was asked for.
Nearest(p, newer) ==
    \A i, j \in DOMAIN p : i < j =>
        p[i] # p[j] /\ IF newer THEN p[i].at <= p[j].at ELSE p[j].at <= p[i].at

\* Every element of a sequence is at some index.
LEMMA IndexOf ==
    ASSUME NEW s \in Seq(Message), NEW m \in ToSet(s)
    PROVE  \E i \in 1..Len(s) : s[i] = m
  BY DEF ToSet

\* The rows of a sequence have stamps.
LEMMA StampOf ==
    ASSUME NEW s \in Seq(Message), NEW m \in ToSet(s)
    PROVE  m \in Message /\ m.at \in Int
<1>1. PICK i \in 1..Len(s) : s[i] = m
  BY IndexOf
<1>2. m \in Message
  BY <1>1
<1> QED
  BY <1>2 DEF Message

\* A piece of a sequence.
LEMMA SubRows ==
    ASSUME NEW s \in Seq(Message), NEW a \in Nat \ {0}, NEW b \in 0..Len(s), a <= b + 1
    PROVE  ToSet(SubSeq(s, a, b)) \subseteq ToSet(s)
<1>1. \A i \in 1..(b - a + 1) : SubSeq(s, a, b)[i] = s[a + i - 1] /\ a + i - 1 \in 1..Len(s)
  OBVIOUS
<1>2. DOMAIN SubSeq(s, a, b) = 1..(b - a + 1) /\ DOMAIN s = 1..Len(s)
  OBVIOUS
<1> QED
  BY <1>1, <1>2 DEF ToSet

\* A piece of a sorted sequence is sorted, and what is cut off at its end, or
\* at its beginning, is not before, or not after, what is kept.
LEMMA PieceSorted ==
    ASSUME NEW s \in Seq(Message), NEW a \in Nat \ {0}, NEW b \in 0..Len(s), a <= b + 1, Sorted(s)
    PROVE  /\ SubSeq(s, a, b) \in Seq(Message)
           /\ Sorted(SubSeq(s, a, b))
           /\ ToSet(SubSeq(s, a, b)) \subseteq ToSet(s)
           /\ \A m \in ToSet(s) \ ToSet(SubSeq(s, a, b)), x \in ToSet(SubSeq(s, a, b)) :
                 /\ a = 1 => x.at <= m.at
                 /\ b = Len(s) => m.at <= x.at
<1> DEFINE t == SubSeq(s, a, b)
<1>1. /\ t \in Seq(Message) /\ Len(t) = b - a + 1 /\ Len(s) \in Nat
      /\ \A i \in 1..(b - a + 1) : t[i] = s[a + i - 1] /\ a + i - 1 \in 1..Len(s)
  OBVIOUS
<1>2. DOMAIN t = 1..(b - a + 1) /\ DOMAIN s = 1..Len(s)
  BY <1>1
<1> HIDE DEF t
<1>3. ASSUME NEW i \in DOMAIN t, NEW j \in DOMAIN t, i < j
      PROVE  t[i] # t[j] /\ t[i].at <= t[j].at
  <2>1. a + i - 1 < a + j - 1
    BY <1>2, <1>3
  <2> QED
    BY <1>1, <1>2, <1>3, <2>1 DEF Sorted
<1>4. ToSet(t) \subseteq ToSet(s)
  BY <1>1, <1>2 DEF ToSet
<1>5. ASSUME NEW m \in ToSet(s) \ ToSet(t), NEW x \in ToSet(t)
      PROVE  /\ a = 1 => x.at <= m.at
             /\ b = Len(s) => m.at <= x.at
  <2>1. PICK k \in 1..Len(s) : s[k] = m
    BY <1>5, IndexOf
  <2>2. PICK i \in 1..(b - a + 1) : t[i] = x
    BY <1>2, <1>5 DEF ToSet
  <2>3. k < a \/ k > b
    <3>1. ASSUME a <= k, k <= b
          PROVE  FALSE
      <4>1. k - a + 1 \in 1..(b - a + 1) /\ a + (k - a + 1) - 1 = k
        BY <3>1
      <4>2. t[k - a + 1] = m
        BY <1>1, <2>1, <4>1
      <4> QED
        BY <1>2, <1>5, <4>1, <4>2 DEF ToSet
    <3> QED
      BY <3>1
  <2>4. x = s[a + i - 1] /\ a + i - 1 \in 1..Len(s) /\ a <= a + i - 1 /\ a + i - 1 <= b
    BY <1>1, <2>2
  <2>5. a = 1 => x.at <= m.at
    BY <1>2, <2>1, <2>3, <2>4 DEF Sorted
  <2>6. b = Len(s) => m.at <= x.at
    BY <1>2, <2>1, <2>3, <2>4 DEF Sorted
  <2> QED
    BY <2>5, <2>6
<1> QED
  BY <1>1, <1>3, <1>4, <1>5 DEF Sorted, t

\* Two sorted sequences, of which one is before the other.
LEMMA JoinSorted ==
    ASSUME NEW s \in Seq(Message), NEW t \in Seq(Message), Sorted(s), Sorted(t),
           \A x \in ToSet(s), y \in ToSet(t) : x # y /\ x.at <= y.at
    PROVE  Sorted(s \o t)
<1>1. /\ s \o t \in Seq(Message) /\ Len(s \o t) = Len(s) + Len(t)
      /\ \A i \in 1..Len(s) + Len(t) :
            (s \o t)[i] = IF i <= Len(s) THEN s[i] ELSE t[i - Len(s)]
  BY ConcatProperties
<1>2. Len(s) \in Nat /\ Len(t) \in Nat /\ DOMAIN s = 1..Len(s) /\ DOMAIN t = 1..Len(t)
      /\ DOMAIN (s \o t) = 1..Len(s) + Len(t)
  BY <1>1
<1> SUFFICES ASSUME NEW i \in 1..Len(s) + Len(t), NEW j \in 1..Len(s) + Len(t), i < j
             PROVE  (s \o t)[i] # (s \o t)[j] /\ (s \o t)[i].at <= (s \o t)[j].at
  BY <1>2 DEF Sorted
<1>3. CASE j <= Len(s)
  BY <1>1, <1>2, <1>3 DEF Sorted
<1>4. CASE i <= Len(s) /\ j > Len(s)
  <2>1. i \in DOMAIN s /\ j - Len(s) \in DOMAIN t
    BY <1>2, <1>4
  <2>2. s[i] \in ToSet(s) /\ t[j - Len(s)] \in ToSet(t)
    BY <2>1 DEF ToSet
  <2> QED
    BY <1>1, <1>4, <2>2
<1>5. CASE i > Len(s)
  <2>1. i - Len(s) \in DOMAIN t /\ j - Len(s) \in DOMAIN t /\ i - Len(s) < j - Len(s)
    BY <1>2, <1>5
  <2>2. (s \o t)[i] = t[i - Len(s)] /\ (s \o t)[j] = t[j - Len(s)]
    BY <1>1, <1>2, <1>5
  <2> QED
    BY <2>1, <2>2 DEF Sorted
<1> QED
  BY <1>2, <1>3, <1>4, <1>5

\* Reverse turns an older page into a piece of the history, of the same rows.
LEMMA ReversedSorted ==
    ASSUME NEW p \in Seq(Message)
    PROVE  /\ Reverse(p) \in Seq(Message) /\ Len(Reverse(p)) = Len(p)
           /\ ToSet(Reverse(p)) = ToSet(p)
           /\ Nearest(p, FALSE) => Sorted(Reverse(p))
<1>1. Len(p) \in Nat /\ DOMAIN p = 1..Len(p) /\ \A i \in 1..Len(p) : p[i] \in Message
  OBVIOUS
<1>2. Reverse(p) = [i \in 1..Len(p) |-> p[Len(p) - i + 1]]
  BY DEF Reverse
<1>3. Reverse(p) \in Seq(Message) /\ DOMAIN Reverse(p) = 1..Len(p) /\ ToSet(Reverse(p)) \subseteq ToSet(p)
  BY <1>2, ReversedRows
<1>4. Len(Reverse(p)) = Len(p)
  BY <1>1, <1>3
<1>5. ASSUME NEW i \in 1..Len(p)
      PROVE  p[i] \in ToSet(Reverse(p))
  <2>1. PICK k \in 1..Len(p) : k = Len(p) - i + 1
    BY <1>1
  <2>2. Reverse(p)[k] = p[i]
    <3>1. Len(p) - k + 1 = i
      BY <1>1, <2>1
    <3> QED
      BY <1>2, <3>1
  <2> QED
    BY <1>3, <2>2 DEF ToSet
<1>6. ToSet(Reverse(p)) = ToSet(p)
  BY <1>1, <1>3, <1>5 DEF ToSet
<1>7. ASSUME Nearest(p, FALSE), NEW i \in 1..Len(p), NEW j \in 1..Len(p), i < j
      PROVE  Reverse(p)[i] # Reverse(p)[j] /\ Reverse(p)[i].at <= Reverse(p)[j].at
  <2>1. PICK k \in 1..Len(p) : k = Len(p) - i + 1
    BY <1>1
  <2>0. PICK l \in 1..Len(p) : l = Len(p) - j + 1
    BY <1>1
  <2>3. l < k
    BY <1>1, <1>7, <2>0, <2>1 DEF Nearest
  <2>2. Reverse(p)[i] = p[k] /\ Reverse(p)[j] = p[l]
    BY <1>2, <2>0, <2>1
  <2>4. p[l] # p[k] /\ p[k].at <= p[l].at
    BY <1>1, <1>7, <2>3 DEF Nearest
  <2> QED
    BY <2>2, <2>4
<1> QED
  BY <1>3, <1>4, <1>6, <1>7 DEF Sorted

\* A newer page is such a piece as it is.
LEMMA NewerSorted ==
    ASSUME NEW p \in Seq(Message), Nearest(p, TRUE)
    PROVE  Sorted(p)
  BY DEF Nearest, Sorted

\* RemoveFirst keeps the order and the other rows.
LEMMA RemovedSorted ==
    ASSUME NEW s \in Seq(Message), NEW row
    PROVE  /\ Sorted(s) => Sorted(RemoveFirst(s, row))
           /\ ToSet(s) \ {row} \subseteq ToSet(RemoveFirst(s, row))
<1> DEFINE at == {i \in 1..Len(s) : s[i] = row}
<1>1. CASE at = {}
  <2>1. RemoveFirst(s, row) = s
    BY <1>1 DEF RemoveFirst
  <2> QED
    BY <2>1
<1>2. CASE at # {}
  <2>1. Min(at) \in at
    <3>1. at \in SUBSET Nat
      OBVIOUS
    <3> HIDE DEF at
    <3> QED
      BY <1>2, <3>1, LeastOf
  <2>2. PICK k \in 1..Len(s) : k = Min(at) /\ s[k] = row
    BY <2>1
  <2> DEFINE low == SubSeq(s, 1, k - 1)
             high == SubSeq(s, k + 1, Len(s))
  <2>3. RemoveFirst(s, row) = low \o high
    BY <1>2, <2>2 DEF RemoveFirst, SelectInSeq, RemoveAt
  <2>4. /\ low \in Seq(Message) /\ high \in Seq(Message) /\ Len(s) \in Nat
        /\ DOMAIN low = 1..(k - 1) /\ DOMAIN high = 1..(Len(s) - k) /\ DOMAIN s = 1..Len(s)
        /\ \A i \in 1..(k - 1) : low[i] = s[i]
        /\ \A i \in 1..(Len(s) - k) : high[i] = s[k + i]
    OBVIOUS
  <2> HIDE DEF low, high, at
  <2>5. ASSUME Sorted(s)
        PROVE  Sorted(low \o high)
    <3>1. Sorted(low)
      BY <2>4, <2>5 DEF Sorted
    <3>2. Sorted(high)
      <4> SUFFICES ASSUME NEW i \in 1..(Len(s) - k), NEW j \in 1..(Len(s) - k), i < j
                   PROVE  high[i] # high[j] /\ high[i].at <= high[j].at
        BY <2>4 DEF Sorted
      <4>1. k + i \in DOMAIN s /\ k + j \in DOMAIN s /\ k + i < k + j
        BY <2>4
      <4>2. s[k + i] # s[k + j] /\ s[k + i].at <= s[k + j].at
        BY <2>5, <4>1 DEF Sorted
      <4> QED
        BY <2>4, <4>2
    <3>3. ASSUME NEW x \in ToSet(low), NEW y \in ToSet(high)
          PROVE  x # y /\ x.at <= y.at
      <4>1. PICK i \in 1..(k - 1) : x = s[i]
        BY <2>4, <3>3 DEF ToSet
      <4>2. PICK j \in 1..(Len(s) - k) : y = s[k + j]
        BY <2>4, <3>3 DEF ToSet
      <4>3. i \in DOMAIN s /\ k + j \in DOMAIN s /\ i < k + j
        BY <2>4
      <4> QED
        BY <2>5, <4>1, <4>2, <4>3 DEF Sorted
    <3> QED
      BY <2>4, <3>1, <3>2, <3>3, JoinSorted
  <2>6. ASSUME NEW m \in ToSet(s) \ {row}
        PROVE  m \in ToSet(low \o high)
    <3>1. PICK i \in 1..Len(s) : s[i] = m
      BY <2>6, IndexOf
    <3>2. i # k
      BY <2>2, <2>6, <3>1
    <3>3. i < k => m \in ToSet(low)
      <4> SUFFICES ASSUME i < k PROVE m \in ToSet(low)
        OBVIOUS
      <4>1. i \in 1..(k - 1)
        OBVIOUS
      <4>2. i \in DOMAIN low /\ low[i] = m
        BY <2>4, <3>1, <4>1
      <4> QED
        BY <4>2 DEF ToSet
    <3>4. i > k => m \in ToSet(high)
      <4> SUFFICES ASSUME i > k PROVE m \in ToSet(high)
        OBVIOUS
      <4>1. i - k \in 1..(Len(s) - k) /\ k + (i - k) = i
        BY <2>4
      <4>2. high[i - k] = m
        BY <2>4, <3>1, <4>1
      <4> QED
        BY <2>4, <4>1, <4>2 DEF ToSet
    <3>5. ToSet(low \o high) = ToSet(low) \cup ToSet(high)
      BY <2>4, JoinedRows
    <3> QED
      BY <3>2, <3>3, <3>4, <3>5
  <2> QED
    BY <2>3, <2>5, <2>6
<1> QED
  BY <1>1, <1>2

-----------------------------------------------------------------------------
(* Fill and Pages.                                                         *)

\* What the view would show if nothing were trimmed.
All(batch) == IF loadingOlder THEN Reverse(batch) \o view ELSE view \o batch

LEMMA AllRows ==
    ASSUME TypedClient, NEW batch \in Seq(Message)
    PROVE  /\ All(batch) \in Seq(Message)
           /\ ToSet(All(batch)) = ToSet(view) \cup ToSet(batch)
           /\ Len(All(batch)) = Len(view) + Len(batch)
<1>1. view \in Seq(Message)
  BY DEF TypedClient
<1>2. CASE loadingOlder
  <2>1. Reverse(batch) \in Seq(Message) /\ Len(Reverse(batch)) = Len(batch)
        /\ ToSet(Reverse(batch)) = ToSet(batch)
    BY ReversedSorted
  <2>2. /\ Reverse(batch) \o view \in Seq(Message)
        /\ ToSet(Reverse(batch) \o view) = ToSet(Reverse(batch)) \cup ToSet(view)
    BY <1>1, <2>1, JoinedRows
  <2>3. Len(Reverse(batch) \o view) = Len(batch) + Len(view)
    BY <1>1, <2>1
  <2> QED
    BY <1>1, <1>2, <2>1, <2>2, <2>3 DEF All
<1>3. CASE ~loadingOlder
  <2>1. view \o batch \in Seq(Message) /\ ToSet(view \o batch) = ToSet(view) \cup ToSet(batch)
    BY <1>1, JoinedRows
  <2>2. Len(view \o batch) = Len(view) + Len(batch)
    BY <1>1
  <2> QED
    BY <1>3, <2>1, <2>2 DEF All
<1> QED
  BY <1>2, <1>3

\* Fill trims the end that the batch does not come to.
LEMMA FilledPiece ==
    ASSUME TypedClient, NEW batch \in Seq(Message)
    PROVE  /\ Len(view) + Len(batch) <= MaxShown => Fill(batch) = All(batch)
           /\ ToSet(Fill(batch)) \subseteq ToSet(All(batch))
           /\ Sorted(All(batch)) =>
                 /\ Sorted(Fill(batch))
                 /\ \A m \in ToSet(All(batch)) \ ToSet(Fill(batch)), x \in ToSet(Fill(batch)) :
                       IF loadingOlder THEN x.at <= m.at ELSE m.at <= x.at
           /\ batch # <<>> => Fill(batch) # <<>>
           /\ Len(batch) = 1 => batch[1] \in ToSet(Fill(batch))
<1>1. /\ All(batch) \in Seq(Message) /\ Len(All(batch)) = Len(view) + Len(batch)
      /\ MaxShown \in Nat /\ MaxShown > 0 /\ view \in Seq(Message)
      /\ Len(view) \in Nat /\ Len(batch) \in Nat /\ (batch # <<>> => Len(batch) > 0)
  <2>1. MaxShown \in Nat /\ MaxShown > 0
    BY ViewAssumption
  <2>2. view \in Seq(Message) /\ Len(view) \in Nat /\ Len(batch) \in Nat
        /\ (batch # <<>> => Len(batch) > 0)
    BY DEF TypedClient
  <2> QED
    BY <2>1, <2>2, AllRows
<1>2. PICK s \in Seq(Message) : s = All(batch)
  BY <1>1
<1> DEFINE a == IF loadingOlder \/ Len(s) < MaxShown THEN 1 ELSE Len(s) - MaxShown + 1
           b == IF loadingOlder /\ ~(Len(s) < MaxShown) THEN MaxShown ELSE Len(s)
<1>3. Fill(batch) = SubSeq(s, a, b)
  BY <1>2 DEF Fill, All
<1>4. /\ a \in Nat \ {0} /\ b \in 0..Len(s) /\ a <= b + 1
      /\ loadingOlder => a = 1
      /\ ~loadingOlder => b = Len(s)
      /\ Len(s) <= MaxShown => a = 1 /\ b = Len(s)
      /\ Len(s) > 0 => a <= b
  BY <1>1
<1> HIDE DEF a, b
<1>5. ASSUME Sorted(s)
      PROVE  /\ Sorted(SubSeq(s, a, b))
             /\ \A m \in ToSet(s) \ ToSet(SubSeq(s, a, b)), x \in ToSet(SubSeq(s, a, b)) :
                   IF loadingOlder THEN x.at <= m.at ELSE m.at <= x.at
  <2>1. /\ Sorted(SubSeq(s, a, b))
        /\ \A m \in ToSet(s) \ ToSet(SubSeq(s, a, b)), x \in ToSet(SubSeq(s, a, b)) :
              /\ a = 1 => x.at <= m.at
              /\ b = Len(s) => m.at <= x.at
    BY <1>4, <1>5, PieceSorted
  <2> QED
    BY <1>4, <2>1
<1>6. /\ Len(SubSeq(s, a, b)) = b - a + 1 /\ DOMAIN SubSeq(s, a, b) = 1..(b - a + 1)
      /\ \A i \in 1..(b - a + 1) : SubSeq(s, a, b)[i] = s[a + i - 1] /\ a + i - 1 \in 1..Len(s)
  <2>1. Len(SubSeq(s, a, b)) = b - a + 1 /\ DOMAIN SubSeq(s, a, b) = 1..(b - a + 1)
    BY <1>4
  <2>2. \A i \in 1..(b - a + 1) : SubSeq(s, a, b)[i] = s[a + i - 1]
    BY <1>4
  <2>3. \A i \in 1..(b - a + 1) : a + i - 1 \in 1..Len(s)
    BY <1>4
  <2> QED
    BY <2>1, <2>2, <2>3, Zenon
<1>7. Len(s) <= MaxShown => SubSeq(s, a, b) = s
  <2>1. SubSeq(s, 1, Len(s)) = s
    OBVIOUS
  <2>2. Len(s) <= MaxShown => a = 1 /\ b = Len(s)
    BY <1>4
  <2> QED
    BY <2>1, <2>2, Zenon
<1>8. ToSet(SubSeq(s, a, b)) \subseteq ToSet(s)
  BY <1>4, SubRows
<1>9. batch # <<>> => SubSeq(s, a, b) # <<>>
  <2> SUFFICES ASSUME batch # <<>> PROVE SubSeq(s, a, b) # <<>>
    OBVIOUS
  <2>1. a <= b
    BY <1>1, <1>2, <1>4
  <2> QED
    BY <1>4, <1>6, <2>1
<1>10. Len(batch) = 1 => batch[1] \in ToSet(SubSeq(s, a, b))
  <2> SUFFICES ASSUME Len(batch) = 1 PROVE batch[1] \in ToSet(SubSeq(s, a, b))
    OBVIOUS
  <2>1. a <= b /\ Len(s) > 0 /\ Len(s) = Len(view) + 1
    BY <1>1, <1>2, <1>4
  <2>2. CASE loadingOlder
    <3>1. Reverse(batch) \in Seq(Message) /\ Len(Reverse(batch)) = 1 /\ Reverse(batch)[1] = batch[1]
      <4>1. Reverse(batch) = [i \in 1..1 |-> batch[1 - i + 1]]
        BY DEF Reverse
      <4>2. Reverse(batch)[1] = batch[1 - 1 + 1] /\ 1 - 1 + 1 = 1
        BY <4>1
      <4>3. Reverse(batch)[1] = batch[1]
        BY <4>2
      <4> QED
        BY <4>3, ReversedSorted
    <3>2. s = Reverse(batch) \o view
      BY <1>2, <2>2 DEF All
    <3>3. s[1] = batch[1]
      <4> DEFINE r == Reverse(batch)
      <4>1. r \in Seq(Message) /\ Len(r) = 1 /\ r[1] = batch[1]
        BY <3>1
      <4> HIDE DEF r
      <4>2. (r \o view)[1] = r[1]
        <5>1. 1 \in 1..Len(r) + Len(view) /\ 1 <= Len(r)
          BY <1>1, <4>1
        <5> QED
          BY <1>1, <4>1, <5>1, ConcatProperties
      <4> QED
        BY <3>2, <4>1, <4>2 DEF r
    <3>4. 1 \in 1..(b - a + 1) /\ a + 1 - 1 = 1
      BY <1>4, <2>1, <2>2
    <3>5. SubSeq(s, a, b)[1] = batch[1]
      BY <1>6, <3>3, <3>4
    <3> QED
      BY <1>6, <3>4, <3>5 DEF ToSet
  <2>3. CASE ~loadingOlder
    <3>1. s = view \o batch
      BY <1>2, <2>3 DEF All
    <3>2. s[Len(s)] = batch[1]
      BY <1>1, <2>1, <3>1
    <3>3. b - a + 1 \in 1..(b - a + 1) /\ a + (b - a + 1) - 1 = Len(s)
      BY <1>4, <2>1, <2>3
    <3>4. SubSeq(s, a, b)[b - a + 1] = batch[1]
      BY <1>6, <3>2, <3>3
    <3> QED
      BY <1>6, <3>3, <3>4 DEF ToSet
  <2> QED
    BY <2>2, <2>3
<1> QED
  BY <1>1, <1>2, <1>3, <1>5, <1>7, <1>8, <1>9, <1>10

\* The rows that a request for a page is about.
Beyond(r, newer, at) == {m \in table : m.room = r /\ IF newer THEN m.at > at ELSE m.at < at}

\* A page is in order, nothing nearer is left out, and it is empty only when
\* there is nothing beyond.
LEMMA PageOrder ==
    ASSUME TypedStorage, NEW r \in Room, NEW newer \in BOOLEAN, NEW at \in Int,
           NEW p \in Pages(r, newer, at)
    PROVE  /\ p \in Seq(Message)
           /\ Nearest(p, newer)
           /\ ToSet(p) \subseteq Beyond(r, newer, at)
           /\ \A m \in Beyond(r, newer, at) \ ToSet(p), x \in ToSet(p) :
                 IF newer THEN x.at <= m.at ELSE m.at <= x.at
           /\ p = <<>> => Beyond(r, newer, at) = {}
<1> DEFINE beyond == Beyond(r, newer, at)
           size == IF Cardinality(beyond) < Chunk THEN Cardinality(beyond) ELSE Chunk
<1>1. /\ beyond \subseteq table /\ IsFiniteSet(beyond) /\ beyond \subseteq Message
      /\ Cardinality(beyond) \in Nat
  BY FS_Subset, FS_CardinalityType DEF TypedStorage, Beyond
<1>2. Chunk \in Nat /\ Chunk > 0
  BY MessagesAssumption
<1>3. /\ p \in [1..size -> beyond]
      /\ IsInjective(p)
      /\ \A i, j \in 1..size : i < j =>
            ~(IF newer THEN p[j].at < p[i].at ELSE p[j].at > p[i].at)
      /\ \A m \in beyond \ ToSet(p) : \A i \in 1..size :
            ~(IF newer THEN m.at < p[i].at ELSE m.at > p[i].at)
  BY DEF Pages, Beyond
<1>4. size \in Nat /\ (size = 0 => Cardinality(beyond) = 0)
  BY <1>1, <1>2
<1>5. Cardinality(beyond) = 0 => beyond = {}
  BY <1>1, FS_EmptySet
<1> HIDE DEF size, beyond
<1>6. p \in Seq(Message) /\ DOMAIN p = 1..size
  BY <1>1, <1>3, <1>4
<1>7. \A i \in 1..size : p[i] \in beyond /\ p[i] \in Message /\ p[i].at \in Int
  BY <1>1, <1>3 DEF Message
<1>8. ASSUME NEW i \in DOMAIN p, NEW j \in DOMAIN p, i < j
      PROVE  p[i] # p[j] /\ IF newer THEN p[i].at <= p[j].at ELSE p[j].at <= p[i].at
  <2>1. p[i] # p[j]
    BY <1>3, <1>6, <1>8 DEF IsInjective
  <2> QED
    BY <1>3, <1>6, <1>7, <1>8, <2>1
<1>9. ToSet(p) \subseteq beyond
  BY <1>6, <1>7 DEF ToSet
<1>10. ASSUME NEW m \in beyond \ ToSet(p), NEW x \in ToSet(p)
       PROVE  IF newer THEN x.at <= m.at ELSE m.at <= x.at
  <2>1. PICK i \in 1..size : x = p[i]
    BY <1>6, <1>10 DEF ToSet
  <2>2. m.at \in Int /\ x.at \in Int
    BY <1>1, <1>7, <1>10, <2>1 DEF Message
  <2> QED
    BY <1>3, <1>10, <2>1, <2>2
<1>11. p = <<>> => beyond = {}
  BY <1>4, <1>5, <1>6
<1> QED
  BY <1>6, <1>8, <1>9, <1>10, <1>11 DEF Nearest, beyond

-----------------------------------------------------------------------------
(* Stamps, deletions, and where the reader is.                             *)

Sends(w) == writing[w] # None /\ writing[w].op = "send"

\* A row that is being sent is new, and no stamp is later than the clock.
StampInv ==
    /\ clock <= lastId /\ lastId <= MaxRows
    /\ \A m \in table : m.id <= lastId /\ m.at <= clock
    /\ \A w \in Writer : Sends(w) =>
          /\ writing[w].row.id <= lastId /\ writing[w].row.at <= clock
          /\ ~writing[w].committed => writing[w].row \notin table
    /\ \A v, w \in Writer : v # w /\ Sends(v) /\ Sends(w) => writing[v].row # writing[w].row

\* What is announced as deleted is gone, and a notice has one row.
NoticesInv ==
    /\ \A w \in Writer :
          writing[w] # None /\ writing[w].op = "delete" /\ writing[w].committed
              => writing[w].row \in gone
    /\ \A i \in DOMAIN toClient :
          /\ toClient[i].kind = "MessageDeleted" => toClient[i].rows[1] \in gone
          /\ toClient[i].kind = "RoomMessage" => Len(toClient[i].rows) = 1

SessionInv == listed # None => session = listed

StoredInv == StampInv /\ NoticesInv /\ SessionInv

\* A writer's step and the stamps.
LEMMA WriterKeepsStamps ==
    ASSUME Typed, StampInv, NEW w \in Writer,
           \/ BeginSend(w) \/ BeginDelete(w) \/ BeginDeleteRoom(w)
           \/ CommitWrite(w) \/ FailWrite(w) \/ Notify(w) \/ EvictRoom(w)
    PROVE  StampInv'
<1>1. /\ writing \in [Writer -> Write \cup {None}] /\ None \notin Write
      /\ table \subseteq Message /\ lastId \in Nat /\ clock \in Int /\ MaxRows \in Nat
  BY MessagesAssumption, HistoryAssumption DEF Typed, TypedStorage
<1>2. \A v \in Writer \ {w} : writing'[v] = writing[v]
  BY <1>1 DEF BeginSend, BeginDelete, BeginDeleteRoom, CommitWrite, FailWrite, Notify, EvictRoom
<1>3. \A m \in table : m.id \in Nat /\ m.at \in Int
  BY <1>1 DEF Message
<1>4. \A v \in Writer : Sends(v) =>
          writing[v] \in Write /\ writing[v].row.id \in Nat /\ writing[v].row.at \in Int
  BY <1>1 DEF Sends, Write, Message
<1>5. CASE BeginSend(w)
  <2>1. PICK r \in Room, at \in {clock, clock + 1} :
            /\ clock' = at
            /\ writing' = [writing EXCEPT ![w] =
                  [op |-> "send", row |-> [id |-> lastId + 1, room |-> r, at |-> at],
                   committed |-> FALSE]]
    BY <1>5 DEF BeginSend
  <2>2. /\ table' = table /\ lastId' = lastId + 1 /\ lastId < MaxRows
        /\ clock' \in Int /\ clock <= clock' /\ clock' <= clock + 1
    BY <1>1, <1>5, <2>1 DEF BeginSend
  <2>3. PICK new : new = [id |-> lastId + 1, room |-> r, at |-> at]
    OBVIOUS
  <2>4. /\ writing'[w].row = new /\ new.id = lastId' /\ new.at = clock'
        /\ writing'[w].committed = FALSE
    BY <1>1, <2>1, <2>2, <2>3
  <2>5. clock' <= lastId' /\ lastId' <= MaxRows
    BY <1>1, <2>2 DEF StampInv
  <2>6. \A m \in table : m.id < new.id /\ m.at <= clock'
    BY <1>1, <1>3, <2>2, <2>4 DEF StampInv
  <2>7. \A v \in Writer \ {w} : Sends(v) => writing[v].row.id < new.id /\ writing[v].row.at <= clock'
    BY <1>1, <1>4, <2>2, <2>4 DEF StampInv
  <2>8. \A v \in Writer \ {w} : Sends(v)' <=> Sends(v)
    BY <1>2 DEF Sends
  <2>9. \A m \in table' : m.id <= lastId' /\ m.at <= clock'
    BY <1>1, <1>3, <2>2, <2>4, <2>6
  <2>10. new \notin table'
    BY <1>3, <2>2, <2>6
  <2>11. ASSUME NEW v \in Writer, Sends(v)'
         PROVE  /\ writing'[v].row.id <= lastId' /\ writing'[v].row.at <= clock'
                /\ ~writing'[v].committed => writing'[v].row \notin table'
    <3>1. CASE v = w
      BY <1>1, <2>2, <2>4, <2>10, <3>1
    <3>2. CASE v # w
      <4>1. Sends(v) /\ writing'[v] = writing[v]
        BY <1>2, <2>8, <2>11, <3>2
      <4>2. writing[v].row.id <= lastId' /\ writing[v].row.at <= clock'
        BY <1>1, <1>4, <2>2, <2>4, <2>7, <3>2, <4>1
      <4>3. ~writing[v].committed => writing[v].row \notin table'
        BY <2>2, <4>1 DEF StampInv
      <4> QED
        BY <4>1, <4>2, <4>3
    <3> QED
      BY <3>1, <3>2
  <2>12. ASSUME NEW v \in Writer, NEW u \in Writer, v # u, Sends(v)', Sends(u)'
         PROVE  writing'[v].row # writing'[u].row
    <3>1. CASE v # w /\ u # w
      BY <1>2, <2>8, <2>12, <3>1 DEF StampInv
    <3>2. CASE v = w
      <4>1. Sends(u) /\ writing'[u] = writing[u]
        BY <1>2, <2>8, <2>12, <3>2
      <4> QED
        BY <1>4, <2>4, <2>7, <2>12, <3>2, <4>1
    <3>3. CASE u = w
      <4>1. Sends(v) /\ writing'[v] = writing[v]
        BY <1>2, <2>8, <2>12, <3>3
      <4> QED
        BY <1>4, <2>4, <2>7, <2>12, <3>3, <4>1
    <3> QED
      BY <3>1, <3>2, <3>3
  <2> QED
    BY <2>5, <2>9, <2>11, <2>12 DEF StampInv
<1>6. CASE CommitWrite(w)
  <2>1. /\ writing'[w] = [writing[w] EXCEPT !.committed = TRUE] /\ ~writing[w].committed
        /\ writing[w] \in Write
    BY <1>1, <1>6 DEF CommitWrite, Deciding
  <2>2. /\ writing'[w].committed /\ writing'[w].op = writing[w].op
        /\ writing'[w].row = writing[w].row /\ writing'[w] # None /\ writing[w] # None
    <3>1. writing'[w] \in Write
      BY <2>1 DEF Write
    <3> QED
      BY <1>1, <2>1, <3>1 DEF Write
  <2>3. \A v \in Writer : (Sends(v)' <=> Sends(v)) /\ writing'[v].row = writing[v].row
    BY <1>2, <2>2 DEF Sends
  <2>4. UNCHANGED <<clock, lastId>>
        /\ (table' \subseteq table \/ (Sends(w) /\ table' = table \cup {writing[w].row}))
    BY <1>6, <2>2 DEF CommitWrite, Sends
  <2>5. \A m \in table' : m.id <= lastId' /\ m.at <= clock'
    BY <2>4 DEF StampInv
  <2>6. ASSUME NEW v \in Writer, Sends(v)', ~writing'[v].committed
        PROVE  writing'[v].row \notin table'
    <3>1. v # w /\ Sends(v) /\ writing'[v] = writing[v] /\ ~writing[v].committed
      BY <1>2, <2>2, <2>3, <2>6
    <3>2. Sends(w) => writing[v].row # writing[w].row
      BY <3>1 DEF StampInv
    <3>3. writing[v].row \notin table
      BY <3>1 DEF StampInv
    <3> QED
      BY <2>4, <3>1, <3>2, <3>3
  <2> QED
    BY <2>3, <2>4, <2>5, <2>6 DEF StampInv
<1>7. CASE BeginDelete(w) \/ BeginDeleteRoom(w) \/ FailWrite(w) \/ Notify(w) \/ EvictRoom(w)
  <2>1. UNCHANGED <<table, lastId, clock>>
    BY <1>7 DEF BeginDelete, BeginDeleteRoom, FailWrite, Notify, EvictRoom, storage
  <2>2. ~Sends(w)'
    BY <1>1, <1>7 DEF BeginDelete, BeginDeleteRoom, FailWrite, Notify, EvictRoom, Sends
  <2>3. \A v \in Writer : Sends(v)' => Sends(v) /\ writing'[v] = writing[v]
    BY <1>2, <2>2 DEF Sends
  <2> QED
    BY <2>1, <2>3 DEF StampInv
<1> QED
  BY <1>5, <1>6, <1>7

\* A writer's step and the announcements.
LEMMA WriterKeepsNotices ==
    ASSUME Typed, NoticesInv, NEW w \in Writer,
           \/ BeginSend(w) \/ BeginDelete(w) \/ BeginDeleteRoom(w)
           \/ CommitWrite(w) \/ FailWrite(w) \/ Notify(w) \/ EvictRoom(w)
    PROVE  NoticesInv'
<1>1. /\ writing \in [Writer -> Write \cup {None}] /\ None \notin Write
  BY MessagesAssumption DEF Typed, TypedStorage
<1>2. \A v \in Writer \ {w} : writing'[v] = writing[v]
  BY <1>1 DEF BeginSend, BeginDelete, BeginDeleteRoom, CommitWrite, FailWrite, Notify, EvictRoom
<1>3. gone \subseteq gone'
  BY DEF BeginSend, BeginDelete, BeginDeleteRoom, CommitWrite, FailWrite, Notify, EvictRoom, storage
<1>4. ASSUME writing'[w] # None, writing'[w].op = "delete", writing'[w].committed
      PROVE  writing'[w].row \in gone'
  <2>1. CommitWrite(w)
    BY <1>1, <1>4 DEF BeginSend, BeginDelete, BeginDeleteRoom, CommitWrite, FailWrite, Notify, EvictRoom
  <2>2. writing'[w] = [writing[w] EXCEPT !.committed = TRUE] /\ writing[w] \in Write
    BY <1>1, <2>1 DEF CommitWrite, Deciding
  <2>3. writing'[w].op = writing[w].op /\ writing'[w].row = writing[w].row
    BY <2>2 DEF Write
  <2> QED
    BY <1>4, <2>1, <2>3 DEF CommitWrite
<1>5. \A v \in Writer :
          writing'[v] # None /\ writing'[v].op = "delete" /\ writing'[v].committed
              => writing'[v].row \in gone'
  BY <1>2, <1>3, <1>4 DEF NoticesInv
<1>6. ASSUME NEW i \in DOMAIN toClient'
      PROVE  /\ toClient'[i].kind = "MessageDeleted" => toClient'[i].rows[1] \in gone'
             /\ toClient'[i].kind = "RoomMessage" => Len(toClient'[i].rows) = 1
  <2>1. CASE toClient' = toClient
    BY <1>3, <1>6, <2>1 DEF NoticesInv
  <2>2. ASSUME NEW kind \in Kinds, NEW r \in Room \cup {None}, NEW batch \in Seq(Message),
               Send(kind, r, batch),
               kind = "MessageDeleted" => batch[1] \in gone',
               kind = "RoomMessage" => Len(batch) = 1
        PROVE  /\ toClient'[i].kind = "MessageDeleted" => toClient'[i].rows[1] \in gone'
               /\ toClient'[i].kind = "RoomMessage" => Len(toClient'[i].rows) = 1
    <3>1. PICK n \in Nat : Grows(n, kind, r, batch)
      BY <2>2, Grown
    <3>2. i = n \/ (i \in DOMAIN toClient /\ toClient'[i] = toClient[i])
      BY <1>6, <3>1 DEF Grows
    <3> QED
      BY <1>3, <2>2, <3>1, <3>2 DEF NoticesInv, Grows
  <2>3. CASE Notify(w)
    <3>1. writing[w] \in Write /\ writing[w].row \in Message /\ writing[w].row.room \in Room
      BY <1>1, <2>3 DEF Notify, Write, Message
    <3>2. PICK row \in Message : row = writing[w].row
      BY <3>1
    <3>3. <<row>> \in Seq(Message) /\ <<row>>[1] = row /\ Len(<<row>>) = 1
      OBVIOUS
    <3>4. \/ toClient' = toClient
          \/ writing[w].op = "send" /\ Send("RoomMessage", row.room, <<row>>)
          \/ writing[w].op = "delete" /\ Send("MessageDeleted", row.room, <<row>>)
      BY <2>3, <3>1, <3>2 DEF Notify, Write
    <3>5. writing[w].op = "delete" => row \in gone'
      BY <1>3, <2>3, <3>2 DEF Notify, NoticesInv
    <3> QED
      BY <2>1, <2>2, <3>1, <3>2, <3>3, <3>4, <3>5 DEF Kinds
  <2>4. CASE EvictRoom(w)
    <3>1. writing[w].row.room \in Room /\ <<>> \in Seq(Message)
      BY <1>1, <2>4 DEF EvictRoom, Write, Message
    <3> QED
      BY <2>2, <2>4, <3>1 DEF EvictRoom, Kinds
  <2>5. CASE BeginSend(w) \/ BeginDelete(w) \/ BeginDeleteRoom(w) \/ CommitWrite(w) \/ FailWrite(w)
    BY <2>1, <2>5 DEF BeginSend, BeginDelete, BeginDeleteRoom, CommitWrite, FailWrite, network
  <2> QED
    BY <2>3, <2>4, <2>5
<1> QED
  BY <1>5, <1>6 DEF NoticesInv

\* Every step of the server keeps StoredInv.
LEMMA ServerKeepsStored ==
    ASSUME Typed, RoomsInv, StoredInv, ServerStep
    PROVE  StoredInv'
<1>1. ASSUME NEW w \in Writer,
             \/ BeginSend(w) \/ BeginDelete(w) \/ BeginDeleteRoom(w)
             \/ CommitWrite(w) \/ FailWrite(w) \/ Notify(w) \/ EvictRoom(w)
      PROVE  StoredInv'
  <2>1. session' = session /\ listed' \in {listed, None}
    BY <1>1 DEF BeginSend, BeginDelete, BeginDeleteRoom, CommitWrite, FailWrite, Notify,
       EvictRoom, reader
  <2> QED
    BY <1>1, <2>1, WriterKeepsStamps, WriterKeepsNotices DEF StoredInv, SessionInv
<1>2. ASSUME NEW f \in Frame,
             \/ Arrive(f) \/ Spin(f) \/ ReadPage(f) \/ SendPage(f) \/ RefusePage(f)
             \/ JoinDepart(f) \/ JoinRefuse(f) \/ JoinSetRoom(f) \/ JoinEnter(f) \/ JoinRespond(f)
      PROVE  StoredInv'
  <2>1. UNCHANGED <<table, gone, lastId, clock, writing>>
    BY <1>2 DEF storage, Arrive, Spin, ReadPage, SendPage, RefusePage,
       JoinDepart, JoinRefuse, JoinSetRoom, JoinEnter, JoinRespond
  <2>2. StampInv'
    BY <2>1 DEF StoredInv, StampInv, Sends
  <2>3. SessionInv'
    BY <1>2 DEF StoredInv, SessionInv, RoomsInv, PlaceInv, At, Arrive, Spin, ReadPage, SendPage,
       RefusePage, JoinDepart, JoinRefuse, JoinSetRoom, JoinEnter, JoinRespond
  <2>4. \/ toClient' = toClient
        \/ \E kind \in {"Page", "NoPage", "Refused", "Joined"}, r \in Room \cup {None},
              batch \in Seq(Message) : Send(kind, r, batch)
    <3>1. frame[f].page \in Seq(Message) /\ <<>> \in Seq(Message)
      BY DEF Typed, TypedReader, Coroutine
    <3>2. frame[f].stage # "free" => frame[f].ask.room \in Room \cup {None}
      BY DEF Typed, TypedReader, Request
    <3>3. CASE Arrive(f) \/ Spin(f) \/ ReadPage(f) \/ JoinDepart(f) \/ JoinSetRoom(f) \/ JoinEnter(f)
      BY <3>3 DEF network, Arrive, Spin, ReadPage, JoinDepart, JoinSetRoom, JoinEnter
    <3>4. CASE SendPage(f) \/ RefusePage(f) \/ JoinRefuse(f) \/ JoinRespond(f)
      BY <3>1, <3>2, <3>4 DEF Answer, At, SendPage, RefusePage, JoinRefuse, JoinRespond
    <3> QED
      BY <1>2, <3>3, <3>4
  <2>5. ASSUME NEW i \in DOMAIN toClient'
        PROVE  \/ i \in DOMAIN toClient /\ toClient'[i] = toClient[i]
               \/ toClient'[i].kind \in {"Page", "NoPage", "Refused", "Joined"}
    <3>1. ASSUME NEW kind \in {"Page", "NoPage", "Refused", "Joined"}, NEW r \in Room \cup {None},
                 NEW batch \in Seq(Message), Send(kind, r, batch)
          PROVE  \/ i \in DOMAIN toClient /\ toClient'[i] = toClient[i]
                 \/ toClient'[i].kind \in {"Page", "NoPage", "Refused", "Joined"}
      <4>1. kind \in Kinds
        BY DEF Kinds
      <4>2. PICK n \in Nat : Grows(n, kind, r, batch)
        BY <3>1, <4>1, Grown
      <4> QED
        BY <2>5, <4>2 DEF Grows
    <3> QED
      BY <2>4, <2>5, <3>1
  <2>6. NoticesInv'
    BY <2>1, <2>5 DEF StoredInv, NoticesInv
  <2> QED
    BY <2>2, <2>3, <2>6 DEF StoredInv
<1> QED
  BY <1>1, <1>2 DEF ServerStep

\* Every step of the client keeps StoredInv.
LEMMA ClientKeepsStored ==
    ASSUME Typed, StoredInv, ClientStep
    PROVE  StoredInv'
<1>1. UNCHANGED server /\ (toClient' = toClient \/ (toClient # <<>> /\ toClient' = Tail(toClient)))
  BY DEF ClientStep, handleMessage, ScrollUp, ScrollDown, JumpToPresent, OnJoin, MayAsk
<1>2. UNCHANGED <<table, gone, lastId, clock, writing, session, listed>>
  BY <1>1 DEF server, storage, reader
<1>3. \A i \in DOMAIN toClient' : \E j \in DOMAIN toClient : toClient'[i] = toClient[j]
  BY <1>1, Popped DEF Typed
<1> QED
  BY <1>2, <1>3 DEF StoredInv, StampInv, NoticesInv, SessionInv, Sends

\* In the beginning.
LEMMA InitStored == Init => StoredInv
<1> SUFFICES ASSUME Init PROVE StoredInv
  OBVIOUS
<1>1. Typed /\ Cardinality(table) <= MaxRows
      /\ \A m \in table : m.id <= Cardinality(table) /\ m.at <= Cardinality(table)
  BY InitTyped, HistoryAssumption DEF Init
<1>2. Cardinality(table) \in Nat
  BY <1>1, FS_CardinalityType DEF Typed, TypedStorage
<1>3. \A w \in Writer : writing[w] = None
  BY DEF Init
<1>4. lastId = Cardinality(table) /\ clock = Cardinality(table) /\ toClient = <<>> /\ listed = None
  BY DEF Init
<1>5. StampInv
  BY <1>1, <1>2, <1>3, <1>4 DEF StampInv, Sends
<1>6. DOMAIN <<>> = {}
  OBVIOUS
<1> QED
  BY <1>3, <1>4, <1>5, <1>6 DEF StoredInv, NoticesInv, SessionInv

-----------------------------------------------------------------------------
(* The way of a page: asked for, read, answered, handled.                  *)

AsksPage(f) == frame[f].stage # "free" /\ frame[f].ask.op = "GetMessages"
IsPage(e)   == e.kind \in {"Page", "NoPage"}

\* Only one page is on its way.
OneLoad ==
    /\ \A i, j \in DOMAIN toServer :
          toServer[i].op = "GetMessages" /\ toServer[j].op = "GetMessages" => i = j
    /\ \A f, g \in Frame : AsksPage(f) /\ AsksPage(g) => f = g
    /\ \A i, j \in DOMAIN toClient : IsPage(toClient[i]) /\ IsPage(toClient[j]) => i = j
    /\ \A i \in DOMAIN toServer, f \in Frame : ~(toServer[i].op = "GetMessages" /\ AsksPage(f))
    /\ \A i \in DOMAIN toServer, j \in DOMAIN toClient :
          ~(toServer[i].op = "GetMessages" /\ IsPage(toClient[j]))
    /\ \A f \in Frame, j \in DOMAIN toClient : ~(AsksPage(f) /\ IsPage(toClient[j]))

\* Page q was asked for, and the database has yet to read it.
Unread(q) ==
    /\ q.op = "GetMessages"
    /\ \/ \E i \in DOMAIN toServer : toServer[i] = q
       \/ \E f \in Frame : frame[f].stage \in {"spinning", "holding"} /\ frame[f].ask = q

\* Page p was read, and the view has yet to show it.
PageRead(p) ==
    \/ \E f \in Frame : At(f, "GetMessages", "read") /\ frame[f].page = p
    \/ \E i \in DOMAIN toClient : toClient[i].kind = "Page" /\ toClient[i].rows = p

LEMMA UnderWay ==
    /\ PageOutstanding <=> \/ \E i \in DOMAIN toServer : toServer[i].op = "GetMessages"
                           \/ \E f \in Frame : AsksPage(f)
                           \/ \E i \in DOMAIN toClient : IsPage(toClient[i])
    /\ \A q \in Request : Unread(q) => PageOutstanding
    /\ \A p \in Seq(Message) : PageRead(p) => PageOutstanding
    /\ Answered({"NoPage"}) => PageOutstanding
<1>1. PageOutstanding <=> \/ \E i \in DOMAIN toServer : toServer[i].op = "GetMessages"
                          \/ \E f \in Frame : AsksPage(f)
                          \/ \E i \in DOMAIN toClient : IsPage(toClient[i])
  BY DEF PageOutstanding, Asked, Answered, AsksPage, IsPage
<1>2. \A q \in Request : Unread(q) => PageOutstanding
  BY <1>1 DEF Unread, AsksPage
<1>3. \A p \in Seq(Message) : PageRead(p) => PageOutstanding
  BY <1>1 DEF PageRead, AsksPage, IsPage, At
<1> QED
  BY <1>1, <1>2, <1>3 DEF Answered, IsPage

\* The same of the next state.
LEMMA NoneUnderWay ==
    ASSUME ~PageOutstanding'
    PROVE  /\ \A q \in Request : ~Unread(q)'
           /\ \A p \in Seq(Message) : ~PageRead(p)'
<1>1. /\ \A i \in DOMAIN toServer' : toServer'[i].op # "GetMessages"
      /\ \A f \in Frame : ~AsksPage(f)'
      /\ \A i \in DOMAIN toClient' : ~IsPage(toClient'[i])
  BY DEF PageOutstanding, Asked, Answered, AsksPage, IsPage
<1>2. ASSUME NEW q \in Request, Unread(q)'
      PROVE  FALSE
  BY <1>1, <1>2 DEF Unread, AsksPage
<1>3. ASSUME NEW p \in Seq(Message), PageRead(p)'
      PROVE  FALSE
  BY <1>1, <1>3 DEF PageRead, AsksPage, At, IsPage
<1> QED
  BY <1>2, <1>3

\* A step of the server that reads no page hands on what is under way.
Passes ==
    /\ UNCHANGED client
    /\ \A q \in Request : /\ Unread(q)' => Unread(q)
                          /\ Unread(q) => Unread(q)' \/ Answered({"NoPage"})'
    /\ \A p \in Seq(Message) : PageRead(p)' <=> PageRead(p)
    /\ PageOutstanding' => PageOutstanding
    /\ OneLoad => OneLoad'
    /\ Answered({"NoPage"}) => Answered({"NoPage"})'

\* Nothing is sent, or something that is no page.
SendsNoPage ==
    \/ toClient' = toClient
    \/ \E kind \in Kinds \ {"Page", "NoPage"}, r \in Room \cup {None}, batch \in Seq(Message) :
          Send(kind, r, batch)

\* The pages in the queue of envelopes stay there, and are the only ones.
SamePages ==
    /\ \A i \in DOMAIN toClient : i \in DOMAIN toClient' /\ toClient'[i] = toClient[i]
    /\ \A i \in DOMAIN toClient' : IsPage(toClient'[i]) =>
          i \in DOMAIN toClient /\ toClient'[i] = toClient[i]

LEMMA NoPageSent ==
    ASSUME Typed, SendsNoPage
    PROVE  SamePages
<1>1. ASSUME NEW kind \in Kinds \ {"Page", "NoPage"}, NEW r \in Room \cup {None},
             NEW batch \in Seq(Message), Send(kind, r, batch)
      PROVE  SamePages
  <2>1. PICK n \in Nat : Grows(n, kind, r, batch)
    BY <1>1, Grown
  <2> QED
    BY <1>1, <2>1 DEF Grows, SamePages, IsPage
<1> QED
  BY <1>1 DEF SendsNoPage, SamePages

\* A step that leaves the coroutines that ask for pages as they are.
LEMMA PassesBy ==
    ASSUME Typed, UNCHANGED <<client, toServer>>, SamePages,
           \A f \in Frame :
               \/ frame'[f] = frame[f]
               \/ /\ AsksPage(f)' <=> AsksPage(f)
                  /\ AsksPage(f) => /\ frame'[f].ask = frame[f].ask
                                    /\ frame[f].stage # "read" /\ frame'[f].stage # "read"
                                    /\ {frame[f].stage, frame'[f].stage} \subseteq {"spinning", "holding"}
    PROVE  Passes
<1>1. \A f \in Frame : AsksPage(f)' <=> AsksPage(f)
  BY DEF AsksPage
<1>2. \A i \in DOMAIN toClient : i \in DOMAIN toClient' /\ toClient'[i] = toClient[i]
  BY DEF SamePages
<1>3. \A i \in DOMAIN toClient' : IsPage(toClient'[i]) => i \in DOMAIN toClient /\ toClient'[i] = toClient[i]
  BY DEF SamePages
<1>4. OneLoad => OneLoad'
  BY <1>1, <1>3 DEF OneLoad
<1>5. PageOutstanding' => PageOutstanding
  <2>1. PageOutstanding' => \/ \E i \in DOMAIN toServer' : toServer'[i].op = "GetMessages"
                            \/ \E f \in Frame : AsksPage(f)'
                            \/ \E i \in DOMAIN toClient' : IsPage(toClient'[i])
    BY DEF PageOutstanding, Asked, Answered, AsksPage, IsPage
  <2> QED
    BY <1>1, <1>3, <2>1, UnderWay
<1>6. ASSUME NEW q \in Request PROVE Unread(q)' <=> Unread(q)
  <2>1. ASSUME NEW f \in Frame, q.op = "GetMessages"
        PROVE  (frame'[f].stage \in {"spinning", "holding"} /\ frame'[f].ask = q)
                  <=> (frame[f].stage \in {"spinning", "holding"} /\ frame[f].ask = q)
    BY <1>1, <2>1 DEF AsksPage
  <2> QED
    BY <2>1 DEF Unread
<1>7. ASSUME NEW p \in Seq(Message) PROVE PageRead(p)' <=> PageRead(p)
  <2>1. ASSUME NEW f \in Frame
        PROVE  At(f, "GetMessages", "read")' /\ frame'[f].page = p
                  <=> At(f, "GetMessages", "read") /\ frame[f].page = p
    BY <1>1 DEF AsksPage, At
  <2>2. (\E i \in DOMAIN toClient' : toClient'[i].kind = "Page" /\ toClient'[i].rows = p)
           <=> (\E i \in DOMAIN toClient : toClient[i].kind = "Page" /\ toClient[i].rows = p)
    BY <1>2, <1>3 DEF IsPage
  <2> QED
    BY <2>1, <2>2 DEF PageRead
<1>8. Answered({"NoPage"}) => Answered({"NoPage"})'
  BY <1>2 DEF Answered
<1> QED
  BY <1>4, <1>5, <1>6, <1>7, <1>8 DEF Passes

\* A request arrives at a coroutine.
LEMMA ArrivePasses ==
    ASSUME Typed, UNCHANGED client, NEW f \in Frame, Arrive(f)
    PROVE  Passes
<1>1. toServer \in Seq(Request) /\ toServer # <<>> /\ toServer' = Tail(toServer) /\ toClient' = toClient
  BY DEF Typed, TypedNetwork, Arrive
<1>2. /\ toServer[1] \in Request /\ 1 \in DOMAIN toServer
      /\ \A i \in DOMAIN toServer' :
            /\ i \in Nat /\ i > 0 /\ i + 1 \in DOMAIN toServer
            /\ toServer'[i] = toServer[i + 1]
      /\ \A i \in DOMAIN toServer \ {1} :
            i \in Nat /\ i - 1 \in DOMAIN toServer' /\ toServer'[i - 1] = toServer[i]
  BY <1>1
<1>3. PICK a : a = toServer[1]
  OBVIOUS
<1>4. /\ frame'[f].ask = a /\ frame'[f].stage \in {"spinning", "holding"}
      /\ frame[f].stage = "free"
      /\ \A g \in Frame \ {f} : frame'[g] = frame[g]
  <2>1. frame \in [Frame -> Coroutine] /\ Head(toServer) = a
    BY <1>1, <1>3 DEF Typed, TypedReader
  <2> QED
    BY <2>1 DEF Arrive, Coroutine
<1>5. /\ \A g \in Frame \ {f} : AsksPage(g)' <=> AsksPage(g)
      /\ AsksPage(f)' <=> a.op = "GetMessages"
      /\ ~AsksPage(f)
  BY <1>4 DEF AsksPage
<1>6. \A i, j \in DOMAIN toServer' : i + 1 = j + 1 => i = j
  BY <1>2
<1>7. ASSUME OneLoad
      PROVE  OneLoad'
  <2>1. \A i \in DOMAIN toServer' : i + 1 # 1 /\ i + 1 \in DOMAIN toServer
    BY <1>2
  <2>2. \A i, j \in DOMAIN toServer' :
            toServer'[i].op = "GetMessages" /\ toServer'[j].op = "GetMessages" => i = j
    BY <1>2, <1>6, <1>7 DEF OneLoad
  <2>3. a.op = "GetMessages" =>
            /\ \A g \in Frame : ~AsksPage(g)
            /\ \A i \in DOMAIN toClient : ~IsPage(toClient[i])
            /\ \A i \in DOMAIN toServer' : toServer'[i].op # "GetMessages"
    BY <1>2, <1>3, <1>7, <2>1 DEF OneLoad
  <2>4. \A g, h \in Frame : AsksPage(g)' /\ AsksPage(h)' => g = h
    BY <1>5, <1>7, <2>3 DEF OneLoad
  <2>5. \A i \in DOMAIN toServer', g \in Frame : ~(toServer'[i].op = "GetMessages" /\ AsksPage(g)')
    BY <1>2, <1>5, <1>7, <2>3 DEF OneLoad
  <2>6. \A i \in DOMAIN toServer', j \in DOMAIN toClient :
            ~(toServer'[i].op = "GetMessages" /\ IsPage(toClient[j]))
    BY <1>2, <1>7 DEF OneLoad
  <2>7. \A g \in Frame, j \in DOMAIN toClient : ~(AsksPage(g)' /\ IsPage(toClient[j]))
    BY <1>5, <1>7, <2>3 DEF OneLoad
  <2> QED
    BY <1>1, <1>7, <2>2, <2>4, <2>5, <2>6, <2>7 DEF OneLoad
<1>8. PageOutstanding' => PageOutstanding
  <2>1. PageOutstanding' => \/ \E i \in DOMAIN toServer' : toServer'[i].op = "GetMessages"
                            \/ \E g \in Frame : AsksPage(g)'
                            \/ \E i \in DOMAIN toClient : IsPage(toClient[i])
    BY <1>1 DEF PageOutstanding, Asked, Answered, AsksPage, IsPage
  <2> QED
    BY <1>2, <1>3, <1>5, <2>1, UnderWay
<1>9. ASSUME NEW q \in Request PROVE Unread(q)' <=> Unread(q)
  <2>1. (\E i \in DOMAIN toServer : toServer[i] = q)
           <=> a = q \/ \E i \in DOMAIN toServer' : toServer'[i] = q
    BY <1>2, <1>3
  <2>2. (\E g \in Frame : frame'[g].stage \in {"spinning", "holding"} /\ frame'[g].ask = q)
           <=> a = q \/ \E g \in Frame : frame[g].stage \in {"spinning", "holding"} /\ frame[g].ask = q
    BY <1>4
  <2> QED
    BY <2>1, <2>2 DEF Unread
<1>10. ASSUME NEW p \in Seq(Message) PROVE PageRead(p)' <=> PageRead(p)
  <2>1. \A g \in Frame : At(g, "GetMessages", "read")' /\ frame'[g].page = p
                            <=> At(g, "GetMessages", "read") /\ frame[g].page = p
    BY <1>4 DEF At
  <2> QED
    BY <1>1, <2>1 DEF PageRead
<1> QED
  BY <1>1, <1>7, <1>8, <1>9, <1>10 DEF Passes, Answered

\* A coroutine answers the request for a page.
LEMMA AnswerPasses ==
    ASSUME Typed, UNCHANGED client, NEW f \in Frame, SendPage(f) \/ RefusePage(f)
    PROVE  Passes
<1>1. /\ AsksPage(f) /\ frame[f].page \in Seq(Message) /\ frame[f].ask.room \in Room \cup {None}
      /\ toServer' = toServer
  BY DEF SendPage, RefusePage, At, AsksPage, Typed, TypedReader, Coroutine, Request
<1>2. PICK kind \in {"Page", "NoPage"}, page \in Seq(Message) :
          /\ Answer(f, kind, page)
          /\ kind = "Page" => At(f, "GetMessages", "read") /\ page = frame[f].page
          /\ kind = "NoPage" => At(f, "GetMessages", "holding")
  <2>1. <<>> \in Seq(Message)
    OBVIOUS
  <2> QED
    BY <1>1, <2>1 DEF SendPage, RefusePage
<1>3. PICK n \in Nat : Grows(n, kind, frame[f].ask.room, page)
  <2>1. kind \in Kinds
    BY DEF Kinds
  <2> QED
    BY <1>1, <1>2, <2>1, Grown DEF Answer
<1>4. /\ DOMAIN toClient' = DOMAIN toClient \cup {n} /\ n \notin DOMAIN toClient
      /\ \A i \in DOMAIN toClient : toClient'[i] = toClient[i]
      /\ toClient'[n].kind = kind /\ toClient'[n].rows = page
  BY <1>3 DEF Grows
<1>5. frame'[f] = Free /\ \A g \in Frame \ {f} : frame'[g] = frame[g]
  BY <1>2 DEF Answer, Typed, TypedReader
<1>6. Free.stage = "free"
  BY DEF Free
<1>7. ~AsksPage(f)' /\ \A g \in Frame \ {f} : AsksPage(g)' <=> AsksPage(g)
  BY <1>5, <1>6 DEF AsksPage
<1>8. IsPage(toClient'[n])
  BY <1>2, <1>4 DEF IsPage
<1>9. ASSUME OneLoad
      PROVE  OneLoad'
  <2>1. /\ \A g \in Frame : AsksPage(g) => g = f
        /\ \A i \in DOMAIN toServer : toServer[i].op # "GetMessages"
        /\ \A i \in DOMAIN toClient : ~IsPage(toClient[i])
    BY <1>1, <1>9 DEF OneLoad
  <2>2. \A g \in Frame : ~AsksPage(g)'
    BY <1>7, <2>1
  <2>3. \A i \in DOMAIN toClient' : IsPage(toClient'[i]) => i = n
    BY <1>4, <2>1
  <2> QED
    BY <1>1, <2>1, <2>2, <2>3 DEF OneLoad
<1>10. PageOutstanding
  BY <1>1, UnderWay
<1>11. ASSUME NEW q \in Request
       PROVE  /\ Unread(q)' => Unread(q)
              /\ Unread(q) => Unread(q)' \/ Answered({"NoPage"})'
  <2>1. CASE kind = "NoPage"
    <3>1. Answered({"NoPage"})'
      BY <1>4, <2>1 DEF Answered
    <3> QED
      BY <1>1, <1>5, <1>6, <3>1 DEF Unread
  <2>2. CASE kind = "Page"
    <3>1. frame[f].stage = "read"
      BY <1>2, <2>2 DEF At
    <3> QED
      BY <1>1, <1>5, <1>6, <3>1 DEF Unread
  <2> QED
    BY <1>2, <2>1, <2>2
<1>12. ASSUME NEW p \in Seq(Message)
       PROVE  PageRead(p)' <=> PageRead(p)
  <2>1. \A g \in Frame \ {f} : At(g, "GetMessages", "read")' /\ frame'[g].page = p
                            <=> At(g, "GetMessages", "read") /\ frame[g].page = p
    BY <1>5 DEF At
  <2>2. ~At(f, "GetMessages", "read")'
    BY <1>5, <1>6 DEF At
  <2>3. CASE kind = "Page"
    BY <1>2, <1>4, <2>1, <2>2, <2>3 DEF PageRead
  <2>4. CASE kind = "NoPage"
    <3>1. ~At(f, "GetMessages", "read")
      BY <1>2, <2>4 DEF At
    <3> QED
      BY <1>4, <2>1, <2>2, <2>4, <3>1 DEF PageRead
  <2> QED
    BY <1>2, <2>3, <2>4
<1>13. Answered({"NoPage"}) => Answered({"NoPage"})'
  BY <1>4 DEF Answered
<1> QED
  BY <1>9, <1>10, <1>11, <1>12, <1>13 DEF Passes

\* Every step of the server but the reading of a page.
LEMMA ServerPasses ==
    ASSUME Typed, RoomsInv, UNCHANGED client, ServerStep
    PROVE  Passes \/ \E f \in Frame : ReadPage(f)
<1>1. ASSUME NEW w \in Writer,
             \/ BeginSend(w) \/ BeginDelete(w) \/ BeginDeleteRoom(w)
             \/ CommitWrite(w) \/ FailWrite(w) \/ Notify(w) \/ EvictRoom(w)
      PROVE  Passes
  <2>1. frame' = frame /\ toServer' = toServer
    BY <1>1 DEF BeginSend, BeginDelete, BeginDeleteRoom, CommitWrite, FailWrite, Notify,
       EvictRoom, reader, network
  <2>2. SendsNoPage
    <3>1. Notify(w) \/ EvictRoom(w) => writing[w] \in Write
      BY DEF Notify, EvictRoom, Typed, TypedStorage
    <3>2. writing[w] \in Write => writing[w].row \in Message /\ writing[w].row.room \in Room
      BY DEF Write, Message
    <3>3. CASE Notify(w)
      <4>1. PICK row \in Message : row = writing[w].row /\ row.room \in Room
        BY <3>1, <3>2, <3>3
      <4>2. <<row>> \in Seq(Message)
        OBVIOUS
      <4>3. \/ toClient' = toClient
            \/ \E kind \in {"RoomMessage", "MessageDeleted"} : Send(kind, row.room, <<row>>)
        BY <3>3, <4>1 DEF Notify
      <4> QED
        BY <4>1, <4>2, <4>3 DEF SendsNoPage, Kinds
    <3>4. CASE EvictRoom(w)
      <4>1. <<>> \in Seq(Message)
        OBVIOUS
      <4> QED
        BY <3>1, <3>2, <3>4, <4>1 DEF EvictRoom, SendsNoPage, Kinds
    <3>5. CASE BeginSend(w) \/ BeginDelete(w) \/ BeginDeleteRoom(w) \/ CommitWrite(w) \/ FailWrite(w)
      BY <3>5 DEF BeginSend, BeginDelete, BeginDeleteRoom, CommitWrite, FailWrite, network,
         SendsNoPage
    <3> QED
      BY <1>1, <3>3, <3>4, <3>5
  <2> QED
    BY <2>1, <2>2, NoPageSent, PassesBy
<1>2. ASSUME NEW f \in Frame,
             Spin(f) \/ JoinDepart(f) \/ JoinRefuse(f) \/ JoinSetRoom(f) \/ JoinEnter(f) \/ JoinRespond(f)
      PROVE  Passes
  <2>1. frame \in [Frame -> Coroutine] /\ frame[f].ask.op \in {"GetMessages", "JoinRoom"}
    BY <1>2 DEF Typed, TypedReader, Spin, JoinDepart, JoinRefuse, JoinSetRoom, JoinEnter,
       JoinRespond, At, Request
  <2>2. toServer' = toServer /\ \A g \in Frame \ {f} : frame'[g] = frame[g]
    BY <1>2, <2>1 DEF Spin, JoinDepart, JoinRefuse, JoinSetRoom, JoinEnter, JoinRespond, Go, Answer,
       network
  <2>3. SendsNoPage
    <3>1. frame[f].stage # "free" => frame[f].ask.room \in Room \cup {None}
      BY DEF Typed, TypedReader, Request
    <3>2. <<>> \in Seq(Message)
      OBVIOUS
    <3>3. \/ toClient' = toClient
          \/ \E kind \in {"Refused", "Joined"} : Send(kind, frame[f].ask.room, <<>>)
      BY <1>2 DEF Spin, JoinDepart, JoinRefuse, JoinSetRoom, JoinEnter, JoinRespond, Answer, network
    <3>4. frame[f].stage # "free"
      BY <1>2 DEF Spin, JoinDepart, JoinRefuse, JoinSetRoom, JoinEnter, JoinRespond, At
    <3> QED
      BY <3>1, <3>2, <3>3, <3>4 DEF SendsNoPage, Kinds
  <2>4. CASE Spin(f)
    <3>1. frame'[f].stage = "holding" /\ frame[f].stage = "spinning" /\ frame'[f].ask = frame[f].ask
      BY <2>1, <2>4 DEF Spin, Go, Coroutine
    <3> QED
      BY <2>2, <2>3, <3>1, NoPageSent, PassesBy DEF AsksPage
  <2>5. CASE ~Spin(f)
    <3>1. frame[f].ask.op = "JoinRoom"
      BY <1>2, <2>5 DEF JoinDepart, JoinRefuse, JoinSetRoom, JoinEnter, JoinRespond, At
    <3>2. frame'[f].stage = "free" \/ frame'[f].ask = frame[f].ask
      BY <1>2, <2>1, <2>5 DEF JoinDepart, JoinRefuse, JoinSetRoom, JoinEnter, JoinRespond, Go,
         Answer, Free, Coroutine
    <3> QED
      BY <2>2, <2>3, <3>1, <3>2, NoPageSent, PassesBy DEF AsksPage
  <2> QED
    BY <2>4, <2>5
<1> QED
  BY <1>1, <1>2, ArrivePasses, AnswerPasses DEF ServerStep

\* The first envelope is taken: if it was a page, then none is left.
LEMMA PoppedPages ==
    ASSUME Typed, UNCHANGED <<frame, toServer>>, toClient # <<>>, toClient' = Tail(toClient)
    PROVE  /\ \A q \in Request : Unread(q)' <=> Unread(q)
           /\ \A p \in Seq(Message) :
                 /\ PageRead(p)' => PageRead(p)
                 /\ PageRead(p) => \/ PageRead(p)'
                                   \/ Head(toClient).kind = "Page" /\ Head(toClient).rows = p
           /\ OneLoad => OneLoad'
           /\ PageOutstanding' => PageOutstanding
           /\ Answered({"NoPage"}) => Answered({"NoPage"})' \/ Head(toClient).kind = "NoPage"
           /\ OneLoad /\ IsPage(Head(toClient)) => ~PageOutstanding'
<1>1. /\ Head(toClient) = toClient[1] /\ 1 \in DOMAIN toClient
      /\ \A i \in DOMAIN toClient' :
            i \in Nat /\ i > 0 /\ i + 1 \in DOMAIN toClient /\ toClient'[i] = toClient[i + 1]
      /\ \A i \in DOMAIN toClient \ {1} :
            i - 1 \in DOMAIN toClient' /\ toClient'[i - 1] = toClient[i]
  <2>1. toClient \in Seq(Envelope) /\ toClient' \in Seq(Envelope)
    BY Popped DEF Typed, TypedNetwork
  <2> QED
    BY <2>1, Popped DEF Typed
<1>2. \A i \in DOMAIN toClient' : i + 1 # 1
  BY <1>1
<1>3. \A i, j \in DOMAIN toClient' : i + 1 = j + 1 => i = j
  BY <1>1
<1>4. /\ \A f \in Frame : AsksPage(f)' <=> AsksPage(f)
      /\ PageOutstanding' <=> \/ \E i \in DOMAIN toServer : toServer[i].op = "GetMessages"
                              \/ \E f \in Frame : AsksPage(f)
                              \/ \E i \in DOMAIN toClient' : IsPage(toClient'[i])
  BY DEF PageOutstanding, Asked, Answered, AsksPage, IsPage
<1>5. ASSUME NEW q \in Request PROVE Unread(q)' <=> Unread(q)
  BY DEF Unread
<1>6. ASSUME NEW p \in Seq(Message)
      PROVE  /\ PageRead(p)' => PageRead(p)
             /\ PageRead(p) => \/ PageRead(p)'
                               \/ Head(toClient).kind = "Page" /\ Head(toClient).rows = p
  <2>1. \A f \in Frame : At(f, "GetMessages", "read")' /\ frame'[f].page = p
                            <=> At(f, "GetMessages", "read") /\ frame[f].page = p
    BY DEF At
  <2>2. ASSUME NEW i \in DOMAIN toClient, toClient[i].kind = "Page", toClient[i].rows = p
        PROVE  \/ \E j \in DOMAIN toClient' : toClient'[j].kind = "Page" /\ toClient'[j].rows = p
               \/ Head(toClient).kind = "Page" /\ Head(toClient).rows = p
    BY <1>1, <2>2
  <2>3. ASSUME NEW i \in DOMAIN toClient', toClient'[i].kind = "Page", toClient'[i].rows = p
        PROVE  \E j \in DOMAIN toClient : toClient[j].kind = "Page" /\ toClient[j].rows = p
    BY <1>1, <2>3
  <2> QED
    BY <2>1, <2>2, <2>3 DEF PageRead
<1>7. OneLoad => OneLoad'
  <2> SUFFICES ASSUME OneLoad PROVE OneLoad'
    OBVIOUS
  <2>1. \A i, j \in DOMAIN toClient' : IsPage(toClient'[i]) /\ IsPage(toClient'[j]) => i = j
    BY <1>1, <1>3 DEF OneLoad
  <2>2. \A i \in DOMAIN toServer, j \in DOMAIN toClient' :
            ~(toServer[i].op = "GetMessages" /\ IsPage(toClient'[j]))
    BY <1>1 DEF OneLoad
  <2>3. \A f \in Frame, j \in DOMAIN toClient' : ~(AsksPage(f)' /\ IsPage(toClient'[j]))
    BY <1>1, <1>4 DEF OneLoad
  <2> QED
    BY <1>4, <2>1, <2>2, <2>3 DEF OneLoad
<1>8. PageOutstanding' => PageOutstanding
  BY <1>1, <1>4, UnderWay
<1>9. Answered({"NoPage"}) => Answered({"NoPage"})' \/ Head(toClient).kind = "NoPage"
  BY <1>1 DEF Answered
<1>10. OneLoad /\ IsPage(Head(toClient)) => ~PageOutstanding'
  <2> SUFFICES ASSUME OneLoad, IsPage(Head(toClient)) PROVE ~PageOutstanding'
    OBVIOUS
  <2>1. \A i \in DOMAIN toClient' : ~IsPage(toClient'[i])
    BY <1>1, <1>2 DEF OneLoad
  <2>2. /\ \A i \in DOMAIN toServer : toServer[i].op # "GetMessages"
        /\ \A f \in Frame : ~AsksPage(f)
    BY <1>1 DEF OneLoad
  <2> QED
    BY <1>4, <2>1, <2>2
<1> QED
  BY <1>5, <1>6, <1>7, <1>8, <1>9, <1>10

\* A request is sent: the only one, if no page was on its way.
LEMMA AskedPages ==
    ASSUME Typed, NEW r \in Request, Ask(r), UNCHANGED frame,
           \/ toClient' = toClient
           \/ toClient # <<>> /\ toClient' = Tail(toClient)
    PROVE  /\ \A q \in Request : Unread(q)' <=> Unread(q) \/ (r.op = "GetMessages" /\ q = r)
           /\ \A p \in Seq(Message) : PageRead(p)' => PageRead(p)
           /\ toClient' = toClient =>
                 /\ \A p \in Seq(Message) : PageRead(p) => PageRead(p)'
                 /\ Answered({"NoPage"}) => Answered({"NoPage"})'
           /\ OneLoad /\ r.op # "GetMessages" => OneLoad'
           /\ r.op # "GetMessages" /\ PageOutstanding' => PageOutstanding
           /\ ~PageOutstanding => OneLoad'
<1>1. toServer \in Seq(Request) /\ toServer' = Append(toServer, r)
  BY DEF Typed, TypedNetwork, Ask
<1>2. PICK n \in Nat : /\ DOMAIN toServer' = DOMAIN toServer \cup {n} /\ n \notin DOMAIN toServer
                       /\ \A i \in DOMAIN toServer : toServer'[i] = toServer[i]
                       /\ toServer'[n] = r
  BY <1>1, Appended
<1>3. \A i \in DOMAIN toClient' : \E j \in DOMAIN toClient : toClient'[i] = toClient[j]
  BY Popped DEF Typed
<1>4. /\ \A f \in Frame : AsksPage(f)' <=> AsksPage(f)
      /\ PageOutstanding' <=> \/ \E i \in DOMAIN toServer' : toServer'[i].op = "GetMessages"
                              \/ \E f \in Frame : AsksPage(f)
                              \/ \E i \in DOMAIN toClient' : IsPage(toClient'[i])
  BY DEF PageOutstanding, Asked, Answered, AsksPage, IsPage
<1>5. ASSUME NEW q \in Request
      PROVE  Unread(q)' <=> Unread(q) \/ (r.op = "GetMessages" /\ q = r)
  BY <1>2 DEF Unread
<1>6. ASSUME NEW p \in Seq(Message)
      PROVE  /\ PageRead(p)' => PageRead(p)
             /\ toClient' = toClient /\ PageRead(p) => PageRead(p)'
  <2>1. \A f \in Frame : At(f, "GetMessages", "read")' /\ frame'[f].page = p
                            <=> At(f, "GetMessages", "read") /\ frame[f].page = p
    BY DEF At
  <2> QED
    BY <1>3, <2>1 DEF PageRead
<1>7. PageOutstanding' /\ r.op # "GetMessages" => PageOutstanding
  BY <1>2, <1>3, <1>4, UnderWay
<1>8. \A i, j \in DOMAIN toClient' :
          OneLoad /\ IsPage(toClient'[i]) /\ IsPage(toClient'[j]) => i = j
  <2>1. OneLoad /\ toClient # <<>> /\ toClient' = Tail(toClient) =>
            \A i, j \in DOMAIN toClient' : IsPage(toClient'[i]) /\ IsPage(toClient'[j]) => i = j
    <3>1. ASSUME OneLoad, toClient # <<>>, toClient' = Tail(toClient)
          PROVE  \A i, j \in DOMAIN toClient' : IsPage(toClient'[i]) /\ IsPage(toClient'[j]) => i = j
      <4>1. toClient \in Seq(Envelope) /\ toClient' \in Seq(Envelope)
        BY <3>1, Popped DEF Typed, TypedNetwork
      <4>2. \A i \in DOMAIN toClient' :
                i \in Nat /\ i + 1 \in DOMAIN toClient /\ toClient'[i] = toClient[i + 1]
        BY <3>1, <4>1, Popped DEF Typed
      <4>3. \A i, j \in DOMAIN toClient' : i + 1 = j + 1 => i = j
        BY <4>2
      <4> QED
        BY <3>1, <4>2, <4>3 DEF OneLoad
    <3> QED
      BY <3>1
  <2> QED
    BY <2>1 DEF OneLoad
<1>9. OneLoad /\ r.op # "GetMessages" => OneLoad'
  <2> SUFFICES ASSUME OneLoad, r.op # "GetMessages" PROVE OneLoad'
    OBVIOUS
  <2>1. \A i \in DOMAIN toServer' : toServer'[i].op = "GetMessages" =>
            i \in DOMAIN toServer /\ toServer[i].op = "GetMessages"
    BY <1>2
  <2>2. \A i, j \in DOMAIN toServer' :
            toServer'[i].op = "GetMessages" /\ toServer'[j].op = "GetMessages" => i = j
    BY <2>1 DEF OneLoad
  <2>3. \A i \in DOMAIN toServer', f \in Frame : ~(toServer'[i].op = "GetMessages" /\ AsksPage(f)')
    BY <1>4, <2>1 DEF OneLoad
  <2>4. \A i \in DOMAIN toServer', j \in DOMAIN toClient' :
            ~(toServer'[i].op = "GetMessages" /\ IsPage(toClient'[j]))
    BY <1>3, <2>1 DEF OneLoad
  <2>5. \A f \in Frame, j \in DOMAIN toClient' : ~(AsksPage(f)' /\ IsPage(toClient'[j]))
    BY <1>3, <1>4 DEF OneLoad
  <2>6. \A f, g \in Frame : AsksPage(f)' /\ AsksPage(g)' => f = g
    BY <1>4 DEF OneLoad
  <2> QED
    BY <1>8, <2>2, <2>3, <2>4, <2>5, <2>6 DEF OneLoad
<1>10. ~PageOutstanding => OneLoad'
  <2> SUFFICES ASSUME ~PageOutstanding PROVE OneLoad'
    OBVIOUS
  <2>1. /\ \A i \in DOMAIN toServer : toServer[i].op # "GetMessages"
        /\ \A f \in Frame : ~AsksPage(f)'
        /\ \A i \in DOMAIN toClient' : ~IsPage(toClient'[i])
    BY <1>3, <1>4, UnderWay
  <2>2. \A i, j \in DOMAIN toServer' :
            toServer'[i].op = "GetMessages" /\ toServer'[j].op = "GetMessages" => i = j
    BY <1>2, <2>1
  <2> QED
    BY <2>1, <2>2 DEF OneLoad
<1>11. toClient' = toClient /\ Answered({"NoPage"}) => Answered({"NoPage"})'
  BY DEF Answered
<1> QED
  BY <1>5, <1>6, <1>7, <1>9, <1>10, <1>11

-----------------------------------------------------------------------------
(* The view is in order, and a page under way is beyond it.                *)

Ordered ==
    /\ Sorted(view)
    /\ OneLoad
    /\ ~(loadingOlder /\ loadingNewer)
    /\ PageOutstanding => loadingOlder \/ loadingNewer
    /\ \A q \in Request : Unread(q) =>
          /\ q.newer = loadingNewer
          /\ \A m \in ToSet(view) : IF q.newer THEN m.at <= q.at ELSE q.at <= m.at
    /\ \A p \in Seq(Message) : PageRead(p) =>
          /\ Nearest(p, loadingNewer)
          /\ \A x \in ToSet(p), m \in ToSet(view) :
                IF loadingNewer THEN m.at < x.at ELSE x.at < m.at

\* As long as neither a message came out of order, nor a page that the view
\* had not asked for since it was started may come.
OrderInv == flaws \cap {"order", "stale"} = {} => Ordered

\* A step that hands on what is under way.
LEMMA PassingKeepsOrder ==
    ASSUME Passes, OrderInv
    PROVE  OrderInv'
<1>1. UNCHANGED <<view, loadingOlder, loadingNewer, flaws>>
  BY DEF Passes, client, loading
<1>2. /\ \A q \in Request : Unread(q)' => Unread(q)
      /\ \A p \in Seq(Message) : PageRead(p)' => PageRead(p)
      /\ PageOutstanding' => PageOutstanding
      /\ OneLoad => OneLoad'
  BY DEF Passes
<1> QED
  BY <1>1, <1>2 DEF OrderInv, Ordered

\* The parts of a request.
LEMMA RequestParts ==
    ASSUME NEW q \in Request
    PROVE  q.newer \in BOOLEAN /\ q.at \in Int
<1>1. CASE q \in [op : {"GetMessages"}, room : {None}, newer : BOOLEAN, at : Int]
  BY <1>1
<1>2. CASE q \in [op : {"JoinRoom"}, room : Room, newer : {FALSE}, at : {0}]
  <2>1. q.newer \in {FALSE} /\ q.at = 0
    BY <1>2
  <2>2. q.newer \in BOOLEAN
    BY <2>1, Zenon
  <2> QED
    BY <2>1, <2>2
<1> QED
  BY <1>1, <1>2 DEF Request

\* Page q is read: it is p.
Reads(q, p) ==
    /\ Unread(q)
    /\ \A r \in Request : Unread(r)' => Unread(r)
    /\ \A o \in Seq(Message) : PageRead(o)' <=> PageRead(o) \/ o = p
    /\ OneLoad => OneLoad'
    /\ PageOutstanding' => PageOutstanding

LEMMA ReadPageReads ==
    ASSUME Typed, NEW f \in Frame, ReadPage(f)
    PROVE  /\ session \in Room
           /\ \E q \in Request : \E p \in Pages(session, q.newer, q.at) : Reads(q, p)
<1>1. /\ frame \in [Frame -> Coroutine] /\ frame[f].ask \in Request /\ session \in Room
      /\ At(f, "GetMessages", "holding")
  BY DEF ReadPage, At, Typed, TypedReader
<1>2. PICK q \in Request : q = frame[f].ask
  BY <1>1
<1>3. PICK p \in Pages(session, q.newer, q.at) :
          frame' = [frame EXCEPT ![f].stage = "read", ![f].page = p]
  BY <1>2 DEF ReadPage
<1>4. p \in Seq(Message)
  BY <1>1, PageRows DEF Typed
<1>5. /\ frame'[f].stage = "read" /\ frame'[f].ask = q /\ frame'[f].page = p
      /\ \A g \in Frame \ {f} : frame'[g] = frame[g]
      /\ frame[f].stage = "holding" /\ q.op = "GetMessages"
      /\ UNCHANGED <<toServer, toClient>>
  BY <1>1, <1>2, <1>3 DEF Coroutine, At, ReadPage, network
<1>6. /\ \A g \in Frame : AsksPage(g)' <=> AsksPage(g)
      /\ PageOutstanding' <=> \/ \E i \in DOMAIN toServer : toServer[i].op = "GetMessages"
                              \/ \E g \in Frame : AsksPage(g)'
                              \/ \E i \in DOMAIN toClient : IsPage(toClient[i])
  <2>1. \A g \in Frame : AsksPage(g)' <=> AsksPage(g)
    BY <1>2, <1>5 DEF AsksPage
  <2> QED
    BY <1>5, <2>1 DEF PageOutstanding, Asked, Answered, AsksPage, IsPage
<1>7. Unread(q)
  BY <1>2, <1>5 DEF Unread
<1>8. ASSUME NEW r \in Request, Unread(r)'
      PROVE  Unread(r)
  BY <1>5, <1>8 DEF Unread
<1>9. ASSUME NEW o \in Seq(Message)
      PROVE  PageRead(o)' <=> PageRead(o) \/ o = p
  <2>1. \A g \in Frame \ {f} : At(g, "GetMessages", "read")' /\ frame'[g].page = o
                            <=> At(g, "GetMessages", "read") /\ frame[g].page = o
    BY <1>5 DEF At
  <2>2. ~At(f, "GetMessages", "read") /\ At(f, "GetMessages", "read")'
    BY <1>5 DEF At
  <2> QED
    BY <1>5, <2>1, <2>2 DEF PageRead
<1>10. OneLoad => OneLoad'
  BY <1>5, <1>6 DEF OneLoad
<1>11. PageOutstanding' => PageOutstanding
  BY <1>6, UnderWay
<1>12. Reads(q, p)
  BY <1>7, <1>8, <1>9, <1>10, <1>11 DEF Reads
<1> QED
  BY <1>1, <1>12

\* The database answers with what is beyond the view.
LEMMA ReadingKeepsOrder ==
    ASSUME Typed, OrderInv, UNCHANGED client, NEW f \in Frame, ReadPage(f)
    PROVE  OrderInv'
<1> SUFFICES ASSUME flaws \cap {"order", "stale"} = {} PROVE Ordered'
  BY DEF OrderInv, client
<1>1. PICK q \in Request : \E p \in Pages(session, q.newer, q.at) : Reads(q, p)
  BY ReadPageReads
<1>2. PICK p \in Pages(session, q.newer, q.at) : Reads(q, p)
  BY <1>1
<1>0. q.newer \in BOOLEAN /\ q.at \in Int
  BY RequestParts
<1>3. /\ Unread(q) /\ q.newer = loadingNewer /\ q.newer \in BOOLEAN /\ q.at \in Int
      /\ \A m \in ToSet(view) : IF q.newer THEN m.at <= q.at ELSE q.at <= m.at
  <2>1. Unread(q) /\ Ordered
    BY <1>2 DEF Reads, OrderInv
  <2>2. /\ q.newer = loadingNewer
        /\ \A m \in ToSet(view) : IF q.newer THEN m.at <= q.at ELSE q.at <= m.at
    BY <2>1, Zenon DEF Ordered
  <2> QED
    BY <1>0, <2>1, <2>2, Zenon
<1>4. p \in Seq(Message) /\ Nearest(p, q.newer) /\ ToSet(p) \subseteq Beyond(session, q.newer, q.at)
  BY <1>2, <1>3, PageOrder, ReadPageReads DEF Typed
<1>5. \A m \in ToSet(view) \cup ToSet(p) : m.at \in Int
  BY <1>4, StampOf DEF Typed, TypedClient
<1>6. \A x \in ToSet(p), m \in ToSet(view) : IF loadingNewer THEN m.at < x.at ELSE x.at < m.at
  BY <1>3, <1>4, <1>5 DEF Beyond
<1>7. UNCHANGED <<view, loadingOlder, loadingNewer>>
  BY DEF client, loading
<1> QED
  BY <1>2, <1>3, <1>4, <1>6, <1>7 DEF Reads, OrderInv, Ordered

\* A page that was asked for, and the view, put together.
LEMMA PageJoins ==
    ASSUME Typed, Ordered, NEW p \in Seq(Message), PageRead(p)
    PROVE  Sorted(All(p))
<1>1. /\ view \in Seq(Message) /\ Sorted(view) /\ Nearest(p, loadingNewer)
      /\ \A x \in ToSet(p), m \in ToSet(view) : IF loadingNewer THEN m.at < x.at ELSE x.at < m.at
      /\ loadingOlder \in BOOLEAN /\ loadingNewer \in BOOLEAN
      /\ loadingOlder <=> ~loadingNewer
  BY UnderWay DEF Ordered, Typed, TypedClient
<1>2. \A m \in ToSet(view) \cup ToSet(p) : m.at \in Int
  BY <1>1, StampOf
<1>3. CASE loadingOlder
  <2>1. PICK r \in Seq(Message) : r = Reverse(p) /\ ToSet(r) = ToSet(p) /\ Sorted(r)
    <3>1. Nearest(p, FALSE)
      BY <1>1, <1>3
    <3> QED
      BY <3>1, ReversedSorted
  <2>2. \A x \in ToSet(r), m \in ToSet(view) : x # m /\ x.at <= m.at
    BY <1>1, <1>2, <1>3, <2>1
  <2>3. Sorted(r \o view)
    BY <1>1, <2>1, <2>2, JoinSorted
  <2> QED
    BY <1>3, <2>1, <2>3 DEF All
<1>4. CASE ~loadingOlder
  <2>1. Sorted(p)
    BY <1>1, <1>4, NewerSorted
  <2>2. \A m \in ToSet(view), x \in ToSet(p) : m # x /\ m.at <= x.at
    BY <1>1, <1>2, <1>4
  <2>3. Sorted(view \o p)
    BY <1>1, <2>1, <2>2, JoinSorted
  <2> QED
    BY <1>4, <2>3 DEF All
<1> QED
  BY <1>3, <1>4

\* The view starts over: what it asked for before would come too.
LEMMA StartKeepsOrder ==
    ASSUME Typed, Start, UNCHANGED frame,
           \/ toClient' = toClient
           \/ toClient # <<>> /\ toClient' = Tail(toClient)
    PROVE  OrderInv'
<1> SUFFICES ASSUME "stale" \notin flaws' PROVE Ordered'
  BY DEF OrderInv
<1> DEFINE r == GetMessages(FALSE, Latest)
<1>1. r \in Request /\ r.op = "GetMessages" /\ r.newer = FALSE
  BY DEF GetMessages, Request, Latest
<1>2. ~PageOutstanding /\ Ask(r)
  BY DEF Start
<1>3. view' = <<>> /\ loadingOlder' = TRUE /\ loadingNewer' = FALSE
  BY DEF Start
<1> HIDE DEF r
<1>4. /\ OneLoad'
      /\ \A q \in Request : Unread(q)' => Unread(q) \/ q = r
      /\ \A p \in Seq(Message) : PageRead(p)' => PageRead(p)
  BY <1>1, <1>2, AskedPages
<1>5. /\ \A q \in Request : ~Unread(q)
      /\ \A p \in Seq(Message) : ~PageRead(p)
  BY <1>2, UnderWay
<1>6. ToSet(<<>>) = {} /\ DOMAIN <<>> = {}
  BY DEF ToSet
<1>7. Sorted(view') /\ ToSet(view') = {}
  BY <1>3, <1>6 DEF Sorted
<1>8. ASSUME NEW q \in Request, Unread(q)'
      PROVE  q.newer = loadingNewer'
  BY <1>1, <1>3, <1>4, <1>5, <1>8
<1> QED
  BY <1>3, <1>4, <1>5, <1>7, <1>8 DEF Ordered

\* The user scrolls to an end of what is shown.
LEMMA ScrollKeepsOrder ==
    ASSUME Typed, OrderInv, ScrollUp \/ ScrollDown
    PROVE  OrderInv'
<1>0. UNCHANGED <<frame, toClient, view, flaws>> /\ ~loadingOlder /\ ~loadingNewer /\ view # <<>>
  BY DEF ScrollUp, ScrollDown, MayAsk, server, reader
<1> SUFFICES ASSUME flaws \cap {"order", "stale"} = {} PROVE Ordered'
  BY <1>0 DEF OrderInv
<1>1. Ordered /\ ~PageOutstanding
  BY <1>0 DEF OrderInv, Ordered
<1>2. PICK newer \in BOOLEAN, at \in Int :
          /\ Ask(GetMessages(newer, at))
          /\ loadingNewer' = newer /\ loadingOlder' = ~newer
          /\ \A m \in ToSet(view) : IF newer THEN m.at <= at ELSE at <= m.at
  <2>1. view \in Seq(Message) /\ Len(view) \in Nat /\ Len(view) > 0 /\ DOMAIN view = 1..Len(view)
    BY <1>0 DEF Typed, TypedClient
  <2>2. /\ Head(view) = view[1] /\ Last(view) = view[Len(view)]
        /\ view[1] \in Message /\ view[Len(view)] \in Message
    BY <2>1 DEF Last
  <2>3. ASSUME NEW m \in ToSet(view)
        PROVE  view[1].at <= m.at /\ m.at <= view[Len(view)].at
    <3>1. PICK i \in 1..Len(view) : view[i] = m
      BY <2>1, IndexOf
    <3>2. view[1].at \in Int /\ m.at \in Int /\ view[Len(view)].at \in Int
      BY <2>1, <2>2, StampOf DEF Message
    <3>3. 1 \in DOMAIN view /\ Len(view) \in DOMAIN view /\ i \in DOMAIN view
      BY <2>1
    <3>4. i = 1 \/ view[1].at <= view[i].at
      BY <1>1, <2>1, <3>3 DEF Ordered, Sorted
    <3>5. i = Len(view) \/ view[i].at <= view[Len(view)].at
      BY <1>1, <2>1, <3>3 DEF Ordered, Sorted
    <3> QED
      BY <3>1, <3>2, <3>4, <3>5
  <2>4. Head(view).at \in Int /\ Last(view).at \in Int
    BY <2>2 DEF Message
  <2>5. CASE ScrollUp
    <3>1. Ask(GetMessages(FALSE, Head(view).at)) /\ loadingOlder' = TRUE /\ loadingNewer' = FALSE
      <4>1. loadingNewer = FALSE
        BY <1>0 DEF Typed, TypedClient
      <4> QED
        BY <2>5, <4>1 DEF ScrollUp
    <3>2. \A m \in ToSet(view) : Head(view).at <= m.at
      BY <2>2, <2>3
    <3> QED
      BY <2>4, <3>1, <3>2
  <2>6. CASE ScrollDown
    <3>1. Ask(GetMessages(TRUE, Last(view).at)) /\ loadingOlder' = FALSE /\ loadingNewer' = TRUE
      <4>1. loadingOlder = FALSE
        BY <1>0 DEF Typed, TypedClient
      <4> QED
        BY <2>6, <4>1 DEF ScrollDown
    <3>2. \A m \in ToSet(view) : m.at <= Last(view).at
      BY <2>2, <2>3
    <3> QED
      BY <2>4, <3>1, <3>2
  <2> QED
    BY <2>5, <2>6
<1> DEFINE r == GetMessages(newer, at)
<1>3. r \in Request /\ r.op = "GetMessages" /\ r.newer = newer /\ r.at = at
  BY DEF GetMessages, Request
<1>4. Ask(r)
  BY <1>2
<1> HIDE DEF r
<1>5. /\ OneLoad'
      /\ \A q \in Request : Unread(q)' => Unread(q) \/ q = r
      /\ \A p \in Seq(Message) : PageRead(p)' => PageRead(p)
  BY <1>0, <1>1, <1>3, <1>4, AskedPages
<1>6. /\ \A q \in Request : Unread(q)' => q = r
      /\ \A p \in Seq(Message) : ~PageRead(p)'
  BY <1>1, <1>5, UnderWay
<1>7. ASSUME NEW q \in Request, Unread(q)'
      PROVE  /\ q.newer = loadingNewer'
             /\ \A m \in ToSet(view') : IF q.newer THEN m.at <= q.at ELSE q.at <= m.at
  BY <1>0, <1>2, <1>3, <1>6, <1>7
<1>8. loadingOlder' \/ loadingNewer'
  BY <1>2
<1>9. ~(loadingOlder' /\ loadingNewer')
  BY <1>2
<1> QED
  BY <1>0, <1>1, <1>5, <1>6, <1>7, <1>8, <1>9 DEF Ordered

\* What the handling of a live message does.
LEMMA MessageShown ==
    ASSUME Typed, StoredInv, handleMessage, Head(toClient).kind = "RoomMessage"
    PROVE  \E m \in Message :
               /\ Head(toClient).rows[1] = m
               /\ <<m>> \in Seq(Message) /\ ToSet(<<m>>) = {m}
               /\ view' = Fill(<<m>>)
               /\ flaws' = flaws \cup FlawsOf(<<m>>, FALSE)
               /\ UNCHANGED <<frame, toServer, joined>>
               /\ ~loadingOlder' /\ ~loadingNewer'
<1> DEFINE e == Head(toClient)
<1>1. e = toClient[1] /\ e \in Envelope /\ 1 \in DOMAIN toClient
  BY Popped DEF handleMessage, Typed
<1>2. e.rows \in Seq(Message) /\ Len(e.rows) = 1
  BY <1>1 DEF Envelope, StoredInv, NoticesInv
<1>3. PICK m \in Message : e.rows[1] = m /\ e.rows = <<m>>
  <2>1. e.rows[1] \in Message /\ e.rows = <<e.rows[1]>>
    BY <1>2
  <2> QED
    BY <2>1
<1>4. OnMessagesReceived(<<m>>, FALSE) /\ UNCHANGED frame
  BY <1>3 DEF handleMessage, showRoomMessage, server, reader
<1>5. <<m>> # <<>> /\ <<m>> \in Seq(Message)
  OBVIOUS
<1>6. ToSet(<<m>>) = {m}
  BY DEF ToSet
<1> QED
  BY <1>3, <1>4, <1>5, <1>6 DEF OnMessagesReceived

LEMMA LiveFlaws ==
    ASSUME NEW m, flaws' = flaws \cup FlawsOf(<<m>>, FALSE)
    PROVE  /\ flaws \subseteq flaws'
           /\ "stale" \in flaws' => "stale" \in flaws
           /\ "order" \notin flaws' => ~Disorders(m)
           /\ "late" \notin flaws' => ~IsLate(m)
           /\ "cut" \notin flaws' /\ ("order" \in flaws' \/ loadingOlder) => ~(Len(view) + 1 > MaxShown)
<1>1. <<m>>[1] = m /\ Len(<<m>>) = 1
  OBVIOUS
<1> HIDE DEF Disorders, IsLate
<1>2. flaws' = LET late  == IF IsLate(m) THEN {"late"} ELSE {}
                   order == IF Disorders(m) THEN {"order"} ELSE {}
                   isCut == /\ Len(view) + 1 > MaxShown
                            /\ loadingOlder \/ "order" \in flaws \cup order
               IN  flaws \cup (late \cup order \cup IF isCut THEN {"cut"} ELSE {})
  BY <1>1 DEF FlawsOf
<1> QED
  BY <1>2

\* What the handling of a page does.
LEMMA HistoryShown ==
    ASSUME Typed, handleMessage, Head(toClient).kind = "Page"
    PROVE  \E p \in Seq(Message) :
               /\ Head(toClient).rows = p /\ PageRead(p)
               /\ p = <<>> => view' = view /\ flaws' = flaws
               /\ p # <<>> => view' = Fill(p)
               /\ p # <<>> =>
                     flaws' = IF Len(view) + Len(p) > MaxShown /\ (loadingOlder \/ "order" \in flaws)
                              THEN flaws \cup {"cut"} ELSE flaws
               /\ UNCHANGED <<frame, toServer, joined>>
               /\ ~loadingOlder' /\ ~loadingNewer'
<1> DEFINE e == Head(toClient)
<1>1. e = toClient[1] /\ e \in Envelope /\ 1 \in DOMAIN toClient
  BY Popped DEF handleMessage, Typed
<1>2. PICK p \in Seq(Message) : e.rows = p
  BY <1>1 DEF Envelope
<1>3. OnMessagesReceived(p, TRUE) /\ UNCHANGED frame
  BY <1>2 DEF handleMessage, kGetMessagesResponse, server, reader
<1>4. PageRead(p)
  BY <1>1, <1>2 DEF PageRead
<1>5. FlawsOf(p, TRUE) =
          IF Len(view) + Len(p) > MaxShown /\ (loadingOlder \/ "order" \in flaws) THEN {"cut"} ELSE {}
  BY DEF FlawsOf
<1> QED
  BY <1>2, <1>3, <1>4, <1>5 DEF OnMessagesReceived

\* A live message below the others.
LEMMA MessageKeepsOrder ==
    ASSUME Typed, StoredInv, OrderInv, handleMessage, Head(toClient).kind = "RoomMessage"
    PROVE  OrderInv'
<1> SUFFICES ASSUME flaws' \cap {"order", "stale"} = {} PROVE Ordered'
  BY DEF OrderInv
<1>1. PICK m \in Message :
          /\ <<m>> \in Seq(Message) /\ ToSet(<<m>>) = {m}
          /\ view' = Fill(<<m>>)
          /\ flaws' = flaws \cup FlawsOf(<<m>>, FALSE)
          /\ UNCHANGED <<frame, toServer, joined>>
          /\ ~loadingOlder' /\ ~loadingNewer'
  BY MessageShown
<1>2. flaws \subseteq flaws' /\ ~Disorders(m)
  BY <1>1, LiveFlaws
<1>3. Ordered /\ ~loadingOlder /\ ~loadingNewer
  BY <1>2 DEF OrderInv, Disorders
<1>4. ~PageOutstanding /\ toClient # <<>> /\ toClient' = Tail(toClient)
  BY <1>3 DEF Ordered, handleMessage
<1>5. /\ OneLoad' /\ ~PageOutstanding'
      /\ \A q \in Request : ~Unread(q)'
      /\ \A p \in Seq(Message) : ~PageRead(p)'
  BY <1>1, <1>3, <1>4, PoppedPages, UnderWay DEF Ordered
<1>6. Sorted(All(<<m>>))
  <2>1. view \in Seq(Message) /\ Sorted(view)
    BY <1>3 DEF Ordered, Typed, TypedClient
  <2>2. ASSUME NEW x \in ToSet(view)
        PROVE  x # m /\ x.at <= m.at
    <3>1. PICK i \in 1..Len(view) : view[i] = x
      BY <2>1, <2>2, IndexOf
    <3>2. i \in DOMAIN view /\ x.at \in Int /\ m.at \in Int
      <4>1. i \in DOMAIN view /\ m.at \in Int
        BY <2>1 DEF Message
      <4> QED
        BY <2>1, <2>2, <4>1, StampOf
    <3>3. view[i] # m /\ ~(view[i].at > m.at)
      BY <1>2, <3>2 DEF Disorders
    <3> QED
      BY <3>1, <3>2, <3>3
  <2>3. Sorted(<<m>>)
    BY DEF Sorted
  <2>4. Sorted(view \o <<m>>)
    BY <1>1, <2>1, <2>2, <2>3, JoinSorted
  <2> QED
    BY <1>3, <2>4 DEF All
<1>7. Sorted(view')
  BY <1>1, <1>6, FilledPiece DEF Typed
<1> QED
  BY <1>1, <1>5, <1>7 DEF Ordered

\* A page at its end of the view.
LEMMA PageKeepsOrder ==
    ASSUME Typed, OrderInv, handleMessage, Head(toClient).kind = "Page"
    PROVE  OrderInv'
<1> SUFFICES ASSUME flaws' \cap {"order", "stale"} = {} PROVE Ordered'
  BY DEF OrderInv
<1>1. PICK p \in Seq(Message) :
          /\ PageRead(p)
          /\ p = <<>> => view' = view /\ flaws' = flaws
          /\ p # <<>> => view' = Fill(p)
          /\ p # <<>> =>
                flaws' = IF Len(view) + Len(p) > MaxShown /\ (loadingOlder \/ "order" \in flaws)
                         THEN flaws \cup {"cut"} ELSE flaws
          /\ UNCHANGED <<frame, toServer, joined>>
          /\ ~loadingOlder' /\ ~loadingNewer'
  BY HistoryShown
<1>2. Ordered
  BY <1>1 DEF OrderInv
<1>3. Sorted(view')
  <2>1. Sorted(All(p)) /\ Sorted(view)
    BY <1>1, <1>2, PageJoins DEF Ordered
  <2> QED
    BY <1>1, <2>1, FilledPiece DEF Typed
<1>4. toClient # <<>> /\ toClient' = Tail(toClient) /\ IsPage(Head(toClient))
  BY DEF handleMessage, IsPage
<1>5. OneLoad' /\ ~PageOutstanding'
  BY <1>1, <1>2, <1>4, PoppedPages DEF Ordered
<1>6. /\ \A q \in Request : ~Unread(q)'
      /\ \A o \in Seq(Message) : ~PageRead(o)'
  BY <1>5, NoneUnderWay
<1> QED
  BY <1>1, <1>3, <1>5, <1>6 DEF Ordered

\* The other envelopes.
LEMMA OthersKeepOrder ==
    ASSUME Typed, OrderInv, handleMessage, Head(toClient).kind \notin {"RoomMessage", "Page"}
    PROVE  OrderInv'
<1>1. toClient # <<>> /\ toClient' = Tail(toClient) /\ frame' = frame
  BY DEF handleMessage, server, reader
<1>2. CASE Head(toClient).kind = "Joined"
  <2>1. Start
    BY <1>2 DEF handleMessage, ShowChat
  <2> QED
    BY <1>1, <2>1, StartKeepsOrder
<1>3. CASE Head(toClient).kind # "Joined"
  <2>1. /\ toServer' = toServer /\ flaws \subseteq flaws'
        /\ view' = view \/ \E row : view' = RemoveFirst(view, row)
        /\ \/ UNCHANGED <<loadingOlder, loadingNewer>>
           \/ IsPage(Head(toClient)) /\ loadingOlder' = FALSE /\ loadingNewer' = FALSE
    BY <1>3 DEF handleMessage, kGetMessagesResponse, OnNoMessages, removeMessageFromView,
       DeleteMessageById, kRoomDeleted, ShowRooms, client, loading, IsPage
  <2> SUFFICES ASSUME flaws' \cap {"order", "stale"} = {} PROVE Ordered'
    BY DEF OrderInv
  <2>2. Ordered
    BY <2>1 DEF OrderInv
  <2>3. Sorted(view') /\ ToSet(view') \subseteq ToSet(view)
    <3>1. view \in Seq(Message)
      BY DEF Typed, TypedClient
    <3> QED
      BY <2>1, <2>2, <3>1, RemovedSorted, RemovedRows DEF Ordered
  <2>4. /\ OneLoad'
        /\ \A q \in Request : Unread(q)' => Unread(q)
        /\ \A p \in Seq(Message) : PageRead(p)' => PageRead(p)
        /\ PageOutstanding' => PageOutstanding
        /\ IsPage(Head(toClient)) => ~PageOutstanding'
    BY <1>1, <2>1, <2>2, PoppedPages DEF Ordered
  <2>5. CASE UNCHANGED <<loadingOlder, loadingNewer>>
    BY <2>2, <2>3, <2>4, <2>5 DEF Ordered
  <2>6. CASE IsPage(Head(toClient)) /\ loadingOlder' = FALSE /\ loadingNewer' = FALSE
    <3>1. ~PageOutstanding'
      BY <2>4, <2>6
    <3>2. /\ \A q \in Request : ~Unread(q)'
          /\ \A o \in Seq(Message) : ~PageRead(o)'
      BY <3>1, NoneUnderWay
    <3> QED
      BY <2>3, <2>4, <2>6, <3>1, <3>2 DEF Ordered
  <2> QED
    BY <2>1, <2>5, <2>6
<1> QED
  BY <1>2, <1>3

\* A request to join asks for no page.
LEMMA JoinAsked ==
    ASSUME Typed, NEW room \in Room, OnJoin(room)
    PROVE  /\ UNCHANGED <<client, server, toClient>>
           /\ \A q \in Request : Unread(q)' <=> Unread(q)
           /\ \A p \in Seq(Message) : PageRead(p)' <=> PageRead(p)
           /\ Answered({"NoPage"}) => Answered({"NoPage"})'
           /\ OneLoad => OneLoad'
           /\ PageOutstanding' => PageOutstanding
<1>1. JoinRoom(room) \in Request /\ JoinRoom(room).op = "JoinRoom"
  BY DEF JoinRoom, Request
<1>2. PICK r \in Request : r = JoinRoom(room) /\ r.op # "GetMessages"
  BY <1>1
<1>3. Ask(r) /\ UNCHANGED <<client, server, toClient>>
  BY <1>2 DEF OnJoin, MayAsk
<1>4. UNCHANGED frame
  BY <1>3 DEF server, reader
<1> QED
  BY <1>2, <1>3, <1>4, AskedPages

\* Every step keeps OrderInv.
LEMMA NextOrder ==
    ASSUME Typed, RoomsInv, StoredInv, OrderInv, [Next]_vars
    PROVE  OrderInv'
<1>1. CASE ServerStep /\ UNCHANGED client
  BY <1>1, ServerPasses, PassingKeepsOrder, ReadingKeepsOrder
<1>2. CASE handleMessage
  BY <1>2, MessageKeepsOrder, PageKeepsOrder, OthersKeepOrder
<1>3. CASE ScrollUp \/ ScrollDown
  BY <1>3, ScrollKeepsOrder
<1>4. CASE JumpToPresent
  <2>1. Start /\ UNCHANGED <<frame, toClient>>
    BY <1>4 DEF JumpToPresent, MayAsk, server, reader
  <2> QED
    BY <2>1, StartKeepsOrder
<1>5. CASE \E room \in Room : OnJoin(room)
  <2>1. PICK room \in Room : OnJoin(room)
    BY <1>5
  <2>2. UNCHANGED <<view, loadingOlder, loadingNewer, flaws>>
    BY <2>1, JoinAsked DEF client, loading
  <2>3. /\ \A q \in Request : Unread(q)' => Unread(q)
        /\ \A p \in Seq(Message) : PageRead(p)' => PageRead(p)
        /\ PageOutstanding' => PageOutstanding
        /\ OneLoad => OneLoad'
    BY <2>1, JoinAsked
  <2> QED
    BY <2>2, <2>3 DEF OrderInv, Ordered
<1>6. CASE UNCHANGED vars
  <2>1. UNCHANGED <<view, loadingOlder, loadingNewer, flaws, frame, toServer, toClient>>
    BY <1>6 DEF vars, server, reader, network, client, loading
  <2>2. /\ \A q \in Request : Unread(q)' <=> Unread(q)
        /\ \A p \in Seq(Message) : PageRead(p)' <=> PageRead(p)
        /\ PageOutstanding' <=> PageOutstanding
        /\ OneLoad' <=> OneLoad
    BY <2>1 DEF Unread, PageRead, At, PageOutstanding, Asked, Answered, OneLoad, AsksPage
  <2> QED
    BY <2>1, <2>2 DEF OrderInv, Ordered
<1> QED
  BY <1>1, <1>2, <1>3, <1>4, <1>5, <1>6 DEF Next, ClientStep

\* In the beginning.
LEMMA InitOrder == Init => OrderInv
<1> SUFFICES ASSUME Init PROVE Ordered
  BY DEF OrderInv
<1>1. toServer = <<>> /\ toClient = <<>> /\ view = <<>> /\ loadingOlder = FALSE /\ loadingNewer = FALSE
  BY DEF Init
<1>2. \A f \in Frame : frame[f].stage = "free"
  BY DEF Init, Free
<1>3. DOMAIN <<>> = {} /\ ToSet(<<>>) = {}
  BY DEF ToSet
<1>4. ~PageOutstanding
  BY <1>1, <1>2, <1>3 DEF PageOutstanding, Asked, Answered
<1>5. /\ \A q \in Request : ~Unread(q)
      /\ \A p \in Seq(Message) : ~PageRead(p)
  BY <1>4, UnderWay
<1>6. Sorted(view) /\ OneLoad
  BY <1>1, <1>2, <1>3 DEF Sorted, OneLoad, AsksPage
<1> QED
  BY <1>1, <1>4, <1>5, <1>6 DEF Ordered

-----------------------------------------------------------------------------
(* Nothing is left out.                                                    *)

\* The reader is in the room whose history the view shows.
InRoom ==
    /\ joined # None /\ listed = joined /\ ~JoinedAfter(0)
    /\ \A f \in Frame : frame[f].stage \notin JoinStages

\* Rows of a page that the view has yet to show, and all that it shows, or will.
Coming(m) == \E p \in Seq(Message) : PageRead(p) /\ m \in ToSet(p)
Known(m)  == m \in ToSet(view) \/ Coming(m)

\* A stamp from which the history is known, or was asked for.
Mark(b) ==
    \/ \E m \in Message : Known(m) /\ m.at = b
    \/ \E q \in Request : Unread(q) /\ q.at = b

\* What PagesJoinUp and NothingIsMissed excuse, of rows that are to come too.
Stamped(b)   == (\E m \in Message : Known(m) /\ m.at = b) \/ \E m \in gone : m.at = b
Excused(row) == Stamped(row.at) \/ NoticeToCome(row)
Missing(row) == row \in table /\ row.room = joined /\ ~Known(row)

AskedFromKnown == \A q \in Request : Unread(q) => q.at = Latest \/ Stamped(q.at)
NothingBelow   == \A row \in table : \A b \in Int : Missing(row) /\ Mark(b) /\ b < row.at => Excused(row)
NothingBetween == \A row \in table : \A b, c \in Int :
                      Missing(row) /\ Mark(b) /\ Mark(c) /\ b < row.at /\ row.at < c => Excused(row)
Unmarked       == \A b \in Int : ~Mark(b)
NothingAtAll   == \A row \in table : Missing(row) => Excused(row)
AskedFromEnd   == \A q \in Request : Unread(q) => q.newer = FALSE /\ q.at = Latest

Complete ==
    /\ AskedFromKnown
    /\ "cut" \notin flaws /\ ("late" \notin flaws \/ "order" \notin flaws) => NothingBelow
    /\ "order" \notin flaws => NothingBetween
    /\ view = <<>> /\ flaws \cap {"cut", "emptied", "refused"} = {} /\ Unmarked
           /\ ~Answered({"NoPage"}) => NothingAtAll
    /\ view = <<>> /\ "emptied" \notin flaws => AskedFromEnd

CompleteInv ==
    InRoom /\ "stale" \notin flaws /\ ("order" \notin flaws \/ "cut" \notin flaws) => Complete

\* A step that neither asks for, nor shows, anything that was not there before,
\* or is excused.
LEMMA CompleteKept ==
    ASSUME Typed, Typed', Complete, flaws \subseteq flaws',
           \A q \in Request : Unread(q)' => Unread(q) \/ (Stamped(q.at)' /\ view' # <<>>),
           \A b \in Int : /\ Mark(b)' => Mark(b)
                          /\ Stamped(b) => Stamped(b)',
           \A row \in table' : Missing(row)' =>
               Excused(row)' \/ (Missing(row) /\ (NoticeToCome(row) => NoticeToCome(row)')),
           view' = <<>> /\ "emptied" \notin flaws' => view = <<>>,
           view' = <<>> /\ flaws' \cap {"cut", "emptied", "refused"} = {} /\ Unmarked' /\ ~Answered({"NoPage"})'
               => Unmarked /\ ~Answered({"NoPage"})
    PROVE  Complete'
<1>1. /\ \A q \in Request : q.at \in Int
      /\ \A row \in table' : row.at \in Int
  BY RequestParts DEF Typed, TypedStorage, Message
<1>2. AskedFromKnown'
  BY <1>1 DEF Complete, AskedFromKnown
<1>3. ASSUME NEW row \in table', Missing(row)', ~Excused(row)'
      PROVE  Missing(row) /\ row \in table /\ ~Excused(row) /\ row.at \in Int
  BY <1>1, <1>3 DEF Excused, Missing
<1>4. "cut" \notin flaws' /\ ("late" \notin flaws' \/ "order" \notin flaws') => NothingBelow'
  <2> SUFFICES ASSUME "cut" \notin flaws', "late" \notin flaws' \/ "order" \notin flaws' PROVE NothingBelow'
    OBVIOUS
  <2>1. NothingBelow
    BY DEF Complete
  <2> QED
    BY <1>3, <2>1 DEF NothingBelow
<1>5. "order" \notin flaws' => NothingBetween'
  <2> SUFFICES ASSUME "order" \notin flaws' PROVE NothingBetween'
    OBVIOUS
  <2>1. NothingBetween
    BY DEF Complete
  <2> QED
    BY <1>3, <2>1 DEF NothingBetween
<1>6. view' = <<>> /\ flaws' \cap {"cut", "emptied", "refused"} = {} /\ Unmarked'
           /\ ~Answered({"NoPage"})' => NothingAtAll'
  <2> SUFFICES ASSUME view' = <<>>, flaws' \cap {"cut", "emptied", "refused"} = {}, Unmarked',
                      ~Answered({"NoPage"})'
               PROVE  NothingAtAll'
    OBVIOUS
  <2>1. NothingAtAll
    BY DEF Complete
  <2> QED
    BY <1>3, <2>1 DEF NothingAtAll
<1>7. view' = <<>> /\ "emptied" \notin flaws' => AskedFromEnd'
  BY DEF Complete, AskedFromEnd
<1> QED
  BY <1>2, <1>4, <1>5, <1>6, <1>7 DEF Complete

\* A notice is kept until it is sent, and sent to a reader in the row's room;
\* a row that is new has one.
LEMMA WriterNotices ==
    ASSUME Typed, StoredInv, UNCHANGED client, InRoom', NEW w \in Writer,
           \/ BeginSend(w) \/ BeginDelete(w) \/ BeginDeleteRoom(w)
           \/ CommitWrite(w) \/ FailWrite(w) \/ Notify(w) \/ EvictRoom(w)
    PROVE  /\ InRoom /\ gone \subseteq gone'
           /\ \A row \in table' : row.room = joined =>
                 \/ NoticeToCome(row)'
                 \/ row \in table /\ (NoticeToCome(row) => NoticeToCome(row)')
<1>1. /\ writing \in [Writer -> Write \cup {None}] /\ None \notin Write /\ None \notin Room
      /\ joined' = joined /\ frame' = frame /\ gone \subseteq gone'
  BY MessagesAssumption DEF Typed, TypedStorage, BeginSend, BeginDelete, BeginDeleteRoom,
     CommitWrite, FailWrite, Notify, EvictRoom, storage, reader, client
<1>2. \A v \in Writer \ {w} : writing'[v] = writing[v]
  BY <1>1 DEF BeginSend, BeginDelete, BeginDeleteRoom, CommitWrite, FailWrite, Notify, EvictRoom
<1>3. listed = joined /\ joined # None
  <2>1. listed' = joined /\ joined # None
    BY <1>1 DEF InRoom
  <2>2. listed' \in {listed, None}
    BY DEF BeginSend, BeginDelete, BeginDeleteRoom, CommitWrite, FailWrite, Notify, EvictRoom, reader
  <2> QED
    BY <2>1, <2>2
<1>4. toClient' = toClient
      \/ \E n \in Nat, kind \in Kinds, r \in Room, batch \in Seq(Message) :
            /\ Grows(n, kind, r, batch)
            /\ Notify(w) => /\ writing[w].op = "send" => kind = "RoomMessage"
                            /\ batch[1] = writing[w].row
  <2>1. CASE Notify(w)
    <3>1. writing[w] \in Write
      BY <1>1, <2>1 DEF Notify
    <3>2. PICK row \in Message : row = writing[w].row /\ row.room \in Room
      BY <3>1 DEF Write, Message
    <3>3. PICK kind \in Kinds : kind = IF writing[w].op = "send" THEN "RoomMessage" ELSE "MessageDeleted"
      BY DEF Kinds
    <3>4. toClient' = toClient \/ Send(kind, row.room, <<row>>)
      BY <2>1, <3>2, <3>3 DEF Notify
    <3>5. PICK batch \in Seq(Message) : batch = <<row>> /\ batch[1] = row
      <4>1. <<row>> \in Seq(Message) /\ <<row>>[1] = row
        OBVIOUS
      <4> QED
        BY <4>1
    <3>6. ASSUME Send(kind, row.room, batch)
          PROVE  \E n \in Nat : Grows(n, kind, row.room, batch)
      BY <3>2, <3>6, Grown
    <3> QED
      BY <3>2, <3>3, <3>4, <3>5, <3>6
  <2>2. CASE EvictRoom(w)
    <3>1. writing[w] \in Write
      BY <1>1, <2>2 DEF EvictRoom
    <3>2. PICK r \in Room : r = writing[w].row.room
      BY <3>1 DEF Write, Message
    <3>3. <<>> \in Seq(Message) /\ "RoomDeleted" \in Kinds
      BY DEF Kinds
    <3>4. Send("RoomDeleted", r, <<>>)
      BY <2>2, <3>2 DEF EvictRoom
    <3>5. PICK n \in Nat : Grows(n, "RoomDeleted", r, <<>>)
      BY <3>3, <3>4, Grown
    <3>6. ~Notify(w)
      BY <2>2 DEF EvictRoom, Notify
    <3> QED
      BY <3>3, <3>5, <3>6
  <2>3. CASE BeginSend(w) \/ BeginDelete(w) \/ BeginDeleteRoom(w) \/ CommitWrite(w) \/ FailWrite(w)
    BY <2>3 DEF BeginSend, BeginDelete, BeginDeleteRoom, CommitWrite, FailWrite, network
  <2> QED
    BY <2>1, <2>2, <2>3
<1>5. \A i \in DOMAIN toClient : i \in DOMAIN toClient' /\ toClient'[i] = toClient[i]
  BY <1>4 DEF Grows
<1>6. InRoom
  <2>1. JoinedAfter(0) => JoinedAfter(0)'
    BY <1>5 DEF JoinedAfter
  <2> QED
    BY <1>1, <1>3, <2>1 DEF InRoom
<1>7. ASSUME NEW row, row \in table, row.room = joined, NoticeToCome(row)
      PROVE  NoticeToCome(row)'
  <2>1. CASE \E i \in DOMAIN toClient : toClient[i].kind = "RoomMessage" /\ toClient[i].rows[1] = row
    BY <1>5, <2>1 DEF NoticeToCome
  <2>2. ASSUME NEW v \in Writer \ {w}, writing[v] # None, writing[v].op = "send", writing[v].row = row
        PROVE  NoticeToCome(row)'
    BY <1>2, <2>2 DEF NoticeToCome
  <2>3. ASSUME writing[w] # None, writing[w].op = "send", writing[w].row = row
        PROVE  NoticeToCome(row)'
    <3>1. CASE CommitWrite(w)
      <4>1. writing'[w] = [writing[w] EXCEPT !.committed = TRUE] /\ writing[w] \in Write
        BY <1>1, <3>1 DEF CommitWrite, Deciding
      <4>2. writing'[w].op = "send" /\ writing'[w].row = row /\ writing'[w] \in Write
        BY <2>3, <4>1 DEF Write
      <4> QED
        BY <1>1, <4>2 DEF NoticeToCome
    <3>2. CASE Notify(w)
      <4>1. toClient' # toClient
        <5>1. listed = writing[w].row.room
          BY <1>3, <1>7, <2>3
        <5>2. PICK e : toClient' = Append(toClient, e)
          BY <3>2, <5>1 DEF Notify, Send
        <5> QED
          BY <5>2 DEF Typed, TypedNetwork
      <4>2. PICK n \in Nat, kind \in Kinds, r \in Room, batch \in Seq(Message) :
                Grows(n, kind, r, batch) /\ kind = "RoomMessage" /\ batch[1] = row
        BY <1>4, <2>3, <3>2, <4>1
      <4> QED
        BY <4>2 DEF Grows, NoticeToCome
    <3>3. CASE FailWrite(w)
      <4>1. row \notin table
        BY <2>3, <3>3 DEF FailWrite, Deciding, StoredInv, StampInv, Sends
      <4> QED
        BY <1>7, <4>1
    <3>4. ~BeginSend(w) /\ ~BeginDelete(w) /\ ~BeginDeleteRoom(w) /\ ~EvictRoom(w)
      BY <2>3 DEF BeginSend, BeginDelete, BeginDeleteRoom, EvictRoom
    <3> QED
      BY <3>1, <3>2, <3>3, <3>4
  <2> QED
    BY <1>7, <2>1, <2>2, <2>3 DEF NoticeToCome
<1>8. ASSUME NEW row, row \in table', row \notin table
      PROVE  NoticeToCome(row)'
  <2>1. CommitWrite(w) /\ writing[w].op = "send" /\ writing[w].row = row
    BY <1>8 DEF BeginSend, BeginDelete, BeginDeleteRoom, CommitWrite, FailWrite, Notify, EvictRoom,
       storage
  <2>2. writing'[w] = [writing[w] EXCEPT !.committed = TRUE] /\ writing[w] \in Write
    BY <1>1, <2>1 DEF CommitWrite, Deciding
  <2>3. writing'[w].op = "send" /\ writing'[w].row = row /\ writing'[w] \in Write
    BY <2>1, <2>2 DEF Write
  <2> QED
    BY <1>1, <2>3 DEF NoticeToCome
<1> QED
  BY <1>1, <1>6, <1>7, <1>8

\* The coroutines touch no notice; and a join that enters a room is not yet
\* answered.
LEMMA ReaderNotices ==
    ASSUME Typed, RoomsInv, UNCHANGED client, InRoom', NEW f \in Frame,
           \/ Arrive(f) \/ Spin(f) \/ ReadPage(f) \/ SendPage(f) \/ RefusePage(f)
           \/ JoinDepart(f) \/ JoinRefuse(f) \/ JoinSetRoom(f) \/ JoinEnter(f) \/ JoinRespond(f)
    PROVE  /\ InRoom /\ UNCHANGED <<table, gone>>
           /\ \A row \in table' : NoticeToCome(row) => NoticeToCome(row)'
<1>1. /\ frame \in [Frame -> Coroutine] /\ None \notin Room
      /\ frame[f].page \in Seq(Message) /\ <<>> \in Seq(Message)
      /\ frame[f].stage # "free" => frame[f].ask.room \in Room \cup {None}
  <2>1. frame \in [Frame -> Coroutine] /\ frame[f].page \in Seq(Message) /\ <<>> \in Seq(Message)
    BY DEF Typed, TypedReader, Coroutine
  <2>2. frame[f].stage # "free" => frame[f].ask.room \in Room \cup {None}
    BY DEF Typed, TypedReader, Request
  <2> QED
    BY <2>1, <2>2, MessagesAssumption
<1>2. UNCHANGED <<table, gone, writing, joined>>
  BY DEF storage, client, Arrive, Spin, ReadPage, SendPage, RefusePage,
     JoinDepart, JoinRefuse, JoinSetRoom, JoinEnter, JoinRespond
<1>3. /\ joined # None /\ listed' = joined /\ ~JoinedAfter(0)'
      /\ \A g \in Frame : frame'[g].stage \notin JoinStages
  BY <1>2 DEF InRoom
<1>4. \A g \in Frame \ {f} : frame'[g] = frame[g]
  BY <1>1 DEF Arrive, Spin, ReadPage, SendPage, RefusePage,
     JoinDepart, JoinRefuse, JoinSetRoom, JoinEnter, JoinRespond, Go, Answer
<1>5. ~JoinDepart(f) /\ ~JoinRefuse(f)
  BY <1>1, <1>3 DEF JoinDepart, JoinRefuse, At, RoomsInv, PlaceInv
<1>6. ~JoinSetRoom(f) /\ ~JoinEnter(f)
  <2>1. ~Go(f, "entering") /\ ~Go(f, "listing")
    <3>1. ASSUME NEW stage, Go(f, stage)
          PROVE  frame'[f].stage = stage
      BY <1>1, <3>1 DEF Go, Coroutine
    <3> QED
      BY <1>3, <3>1 DEF JoinStages
  <2> QED
    BY <2>1 DEF JoinSetRoom, JoinEnter
<1>7. \/ toClient' = toClient
      \/ \E n \in Nat, kind \in Kinds, r \in Room \cup {None}, batch \in Seq(Message) :
            Grows(n, kind, r, batch) /\ (JoinRespond(f) => kind = "Joined")
  <2>1. CASE Arrive(f) \/ Spin(f) \/ ReadPage(f)
    BY <2>1 DEF network, Arrive, Spin, ReadPage
  <2>2. CASE SendPage(f) \/ RefusePage(f) \/ JoinRespond(f)
    <3>1. frame[f].ask.room \in Room \cup {None}
      BY <1>1, <2>2 DEF At, SendPage, RefusePage, JoinRespond
    <3>2. PICK kind \in Kinds, batch \in Seq(Message) :
              /\ Send(kind, frame[f].ask.room, batch)
              /\ JoinRespond(f) => kind = "Joined"
      <4>1. CASE SendPage(f)
        BY <1>1, <4>1 DEF SendPage, JoinRespond, At, Answer, Kinds
      <4>2. CASE RefusePage(f)
        BY <1>1, <4>2 DEF RefusePage, JoinRespond, At, Answer, Kinds
      <4>3. CASE JoinRespond(f)
        BY <1>1, <4>3 DEF JoinRespond, Answer, Kinds
      <4> QED
        BY <2>2, <4>1, <4>2, <4>3
    <3> QED
      BY <3>1, <3>2, Grown
  <2> QED
    BY <1>5, <1>6, <2>1, <2>2
<1>8. \A i \in DOMAIN toClient : i \in DOMAIN toClient' /\ toClient'[i] = toClient[i]
  BY <1>7 DEF Grows
<1>9. ~JoinRespond(f)
  <2>1. ASSUME JoinRespond(f)
        PROVE  FALSE
    <3>1. toClient' # toClient
      BY <2>1 DEF JoinRespond, Answer, Send, Typed, TypedNetwork
    <3>2. PICK n \in Nat, r \in Room \cup {None}, batch \in Seq(Message) : Grows(n, "Joined", r, batch)
      BY <1>7, <2>1, <3>1
    <3> QED
      BY <1>3, <3>2 DEF Grows, JoinedAfter
  <2> QED
    BY <2>1
<1>10. listed' = listed /\ frame[f].stage \notin JoinStages
  BY <1>5, <1>6, <1>9 DEF Arrive, Spin, ReadPage, SendPage, RefusePage, At, JoinStages
<1>11. JoinedAfter(0) => JoinedAfter(0)'
  BY <1>8 DEF JoinedAfter
<1>12. InRoom
  BY <1>3, <1>4, <1>10, <1>11 DEF InRoom
<1>13. ASSUME NEW row, NoticeToCome(row)
       PROVE  NoticeToCome(row)'
  BY <1>2, <1>8, <1>13 DEF NoticeToCome
<1> QED
  BY <1>2, <1>12, <1>13

\* The two together.
LEMMA ServerNotices ==
    ASSUME Typed, RoomsInv, StoredInv, UNCHANGED client, InRoom', ServerStep
    PROVE  /\ InRoom /\ gone \subseteq gone'
           /\ \A row \in table' : row.room = joined =>
                 \/ NoticeToCome(row)'
                 \/ row \in table /\ (NoticeToCome(row) => NoticeToCome(row)')
<1>1. ASSUME NEW w \in Writer,
             \/ BeginSend(w) \/ BeginDelete(w) \/ BeginDeleteRoom(w)
             \/ CommitWrite(w) \/ FailWrite(w) \/ Notify(w) \/ EvictRoom(w)
      PROVE  /\ InRoom /\ gone \subseteq gone'
             /\ \A row \in table' : row.room = joined =>
                 \/ NoticeToCome(row)'
                 \/ row \in table /\ (NoticeToCome(row) => NoticeToCome(row)')
  BY <1>1, WriterNotices
<1>2. ASSUME NEW f \in Frame,
             \/ Arrive(f) \/ Spin(f) \/ ReadPage(f) \/ SendPage(f) \/ RefusePage(f)
             \/ JoinDepart(f) \/ JoinRefuse(f) \/ JoinSetRoom(f) \/ JoinEnter(f) \/ JoinRespond(f)
      PROVE  /\ InRoom /\ gone \subseteq gone'
             /\ \A row \in table' : row.room = joined =>
                 \/ NoticeToCome(row)'
                 \/ row \in table /\ (NoticeToCome(row) => NoticeToCome(row)')
  <2>1. /\ InRoom /\ UNCHANGED <<table, gone>>
        /\ \A row \in table' : NoticeToCome(row) => NoticeToCome(row)'
    BY <1>2, ReaderNotices
  <2> QED
    BY <2>1
<1> QED
  BY <1>1, <1>2 DEF ServerStep

\* A step of the server that reads no page.
LEMMA PassingKeepsComplete ==
    ASSUME Typed, Typed', RoomsInv, StoredInv, CompleteInv, UNCHANGED client, ServerStep, Passes
    PROVE  CompleteInv'
<1> SUFFICES ASSUME InRoom', "stale" \notin flaws', "order" \notin flaws' \/ "cut" \notin flaws'
             PROVE  Complete'
  BY DEF CompleteInv
<1>1. UNCHANGED <<view, flaws, joined>>
  BY DEF client
<1>2. InRoom /\ gone \subseteq gone'
      /\ \A row \in table' : row.room = joined =>
            \/ NoticeToCome(row)'
            \/ row \in table /\ (NoticeToCome(row) => NoticeToCome(row)')
  BY ServerNotices
<1>3. Complete
  BY <1>1, <1>2 DEF CompleteInv
<1>4. /\ \A q \in Request : /\ Unread(q)' => Unread(q)
                            /\ Unread(q) => Unread(q)' \/ Answered({"NoPage"})'
      /\ \A p \in Seq(Message) : PageRead(p)' <=> PageRead(p)
      /\ Answered({"NoPage"}) => Answered({"NoPage"})'
  BY DEF Passes
<1>5. \A m : Known(m)' <=> Known(m)
  BY <1>1, <1>4 DEF Known, Coming
<1>6. \A b \in Int : /\ Mark(b)' => Mark(b)
                     /\ Stamped(b) => Stamped(b)'
                     /\ Mark(b) /\ ~Answered({"NoPage"})' => Mark(b)'
  BY <1>2, <1>4, <1>5 DEF Mark, Stamped
<1>7. \A row \in table' : Missing(row)' =>
          Excused(row)' \/ (Missing(row) /\ (NoticeToCome(row) => NoticeToCome(row)'))
  BY <1>1, <1>2, <1>5 DEF Missing, Excused
<1>8. view' = <<>> /\ flaws' \cap {"cut", "emptied", "refused"} = {} /\ Unmarked' /\ ~Answered({"NoPage"})'
          => Unmarked /\ ~Answered({"NoPage"})
  BY <1>4, <1>6 DEF Unmarked
<1> QED
  BY <1>1, <1>3, <1>4, <1>6, <1>7, <1>8, CompleteKept

\* No stamp in the table is as late as the latest.
LEMMA BeforeLatest ==
    ASSUME Typed, StoredInv, NEW row \in table
    PROVE  row.at \in Int /\ Latest \in Int /\ row.at < Latest
<1>1. row.at \in Int /\ clock \in Int /\ lastId \in Int /\ MaxRows \in Int /\ MaxRows < Latest
      /\ Latest \in Int
  BY HistoryAssumption DEF Typed, TypedStorage, Message, Latest
<1>2. row.at <= clock /\ clock <= lastId /\ lastId <= MaxRows
  BY DEF StoredInv, StampInv
<1> HIDE DEF Latest
<1> QED
  BY <1>1, <1>2

\* A page is read: whatever it leaves out is beyond it, or was excused.
LEMMA ReadingKeepsComplete ==
    ASSUME Typed, Typed', RoomsInv, StoredInv, CompleteInv, UNCHANGED client,
           NEW f \in Frame, ReadPage(f)
    PROVE  CompleteInv'
<1> SUFFICES ASSUME InRoom', "stale" \notin flaws', "order" \notin flaws' \/ "cut" \notin flaws'
             PROVE  Complete'
  BY DEF CompleteInv
<1>1. UNCHANGED <<view, flaws, joined, toClient>>
  BY DEF client, ReadPage, network
<1>2. InRoom /\ UNCHANGED <<table, gone>>
      /\ \A row \in table' : NoticeToCome(row) => NoticeToCome(row)'
  BY ReaderNotices
<1>3. Complete
  BY <1>1, <1>2 DEF CompleteInv
<1>4. session = joined /\ session \in Room
  BY <1>2, ReadPageReads DEF InRoom, StoredInv, SessionInv
<1>5. PICK q \in Request : \E o \in Pages(joined, q.newer, q.at) : Reads(q, o)
  BY <1>4, ReadPageReads
<1>6. PICK p \in Pages(joined, q.newer, q.at) : Reads(q, p)
  BY <1>5
<1>7. q.newer \in BOOLEAN /\ q.at \in Int
  BY RequestParts
<1>8. /\ p \in Seq(Message)
      /\ ToSet(p) \subseteq Beyond(joined, q.newer, q.at)
      /\ \A m \in Beyond(joined, q.newer, q.at) \ ToSet(p), x \in ToSet(p) :
            IF q.newer THEN x.at <= m.at ELSE m.at <= x.at
      /\ p = <<>> => Beyond(joined, q.newer, q.at) = {}
  BY <1>4, <1>6, <1>7, PageOrder DEF Typed
<1>9. \A m : Known(m)' <=> Known(m) \/ m \in ToSet(p)
  BY <1>1, <1>6, <1>8 DEF Known, Coming, Reads
<1>10. Unread(q) /\ \A r \in Request : Unread(r)' => Unread(r)
  BY <1>6 DEF Reads
<1>11. \A x \in ToSet(p) : x \in Message /\ x.at \in Int
  BY <1>8, StampOf
<1>12. /\ \A b \in Int : Mark(b)' => Mark(b) \/ \E x \in ToSet(p) : x.at = b
       /\ Mark(q.at)
       /\ \A x \in ToSet(p) : Mark(x.at)'
       /\ \A b \in Int : Stamped(b) => Stamped(b)'
  <2>1. \A b \in Int : Mark(b)' => Mark(b) \/ \E x \in ToSet(p) : x.at = b
    BY <1>9, <1>10 DEF Mark
  <2>2. \A b \in Int : Stamped(b) => Stamped(b)'
    BY <1>2, <1>9 DEF Stamped
  <2>3. Mark(q.at) /\ \A x \in ToSet(p) : Mark(x.at)'
    BY <1>9, <1>10, <1>11 DEF Mark
  <2> QED
    BY <2>1, <2>2, <2>3
<1>13. ASSUME NEW row \in table', Missing(row)'
       PROVE  /\ row \in table /\ Missing(row) /\ row \notin ToSet(p)
              /\ Excused(row) => Excused(row)'
              /\ row.at \in Int /\ row.at < Latest /\ Latest \in Int
              /\ (IF q.newer THEN row.at > q.at ELSE row.at < q.at)
                    => row \in Beyond(joined, q.newer, q.at)
              /\ row.at = q.at => Excused(row)
  <2>1. row \in table /\ Missing(row) /\ row \notin ToSet(p)
    BY <1>1, <1>2, <1>9, <1>13 DEF Missing
  <2>2. row.at \in Int /\ row.at < Latest /\ Latest \in Int
    BY <2>1, BeforeLatest
  <2>3. Excused(row) => Excused(row)'
    BY <1>2, <1>12, <2>1, <2>2 DEF Excused
  <2>4. (IF q.newer THEN row.at > q.at ELSE row.at < q.at) => row \in Beyond(joined, q.newer, q.at)
    BY <2>1 DEF Missing, Beyond
  <2>5. row.at = q.at => Excused(row)
    <3>1. q.at = Latest \/ Stamped(q.at)
      BY <1>3, <1>10 DEF Complete, AskedFromKnown
    <3> QED
      BY <2>2, <3>1 DEF Excused
  <2> QED
    BY <2>1, <2>2, <2>3, <2>4, <2>5
<1>14. AskedFromKnown'
  BY <1>3, <1>10, <1>12, RequestParts DEF Complete, AskedFromKnown
<1>15. ASSUME "cut" \notin flaws', "late" \notin flaws' \/ "order" \notin flaws',
              NEW row \in table', NEW b \in Int, Missing(row)', Mark(b)', b < row.at
       PROVE  Excused(row)'
  <2>1. NothingBelow
    BY <1>1, <1>3, <1>15 DEF Complete
  <2>2. /\ row \in table /\ Missing(row) /\ row \notin ToSet(p) /\ row.at \in Int
        /\ Excused(row) => Excused(row)'
        /\ (IF q.newer THEN row.at > q.at ELSE row.at < q.at)
               => row \in Beyond(joined, q.newer, q.at)
        /\ row.at = q.at => Excused(row)
    BY <1>13, <1>15
  <2>3. \A c \in Int : Mark(c) /\ c < row.at => Excused(row)
    BY <2>1, <2>2 DEF NothingBelow
  <2>4. CASE Mark(b)
    BY <1>15, <2>2, <2>3, <2>4
  <2>5. ASSUME NEW x \in ToSet(p), x.at = b
        PROVE  Excused(row)'
    <3>1. IF q.newer THEN x.at > q.at ELSE x.at < q.at
      BY <1>8, <2>5 DEF Beyond
    <3>2. row.at > q.at => Excused(row)
      BY <1>7, <1>12, <2>2, <2>3
    <3>3. CASE q.newer
      BY <1>7, <1>15, <2>2, <2>5, <3>1, <3>2, <3>3
    <3>4. CASE ~q.newer
      <4>1. row.at < q.at => row.at <= x.at
        BY <1>8, <2>2, <3>4
      <4> QED
        BY <1>7, <1>15, <2>2, <2>5, <3>2, <4>1
    <3> QED
      BY <3>3, <3>4
  <2> QED
    BY <1>12, <1>15, <2>4, <2>5
<1>16. ASSUME "order" \notin flaws', NEW row \in table', NEW b \in Int, NEW c \in Int,
              Missing(row)', Mark(b)', Mark(c)', b < row.at, row.at < c
       PROVE  Excused(row)'
  <2>1. NothingBetween
    BY <1>1, <1>3, <1>16 DEF Complete
  <2>2. /\ row \in table /\ Missing(row) /\ row \notin ToSet(p) /\ row.at \in Int
        /\ Excused(row) => Excused(row)'
        /\ (IF q.newer THEN row.at > q.at ELSE row.at < q.at)
               => row \in Beyond(joined, q.newer, q.at)
        /\ row.at = q.at => Excused(row)
    BY <1>13, <1>16
  <2>3. \A i, j \in Int : Mark(i) /\ Mark(j) /\ i < row.at /\ row.at < j => Excused(row)
    BY <2>1, <2>2 DEF NothingBetween
  <2>4. Mark(q.at)
    BY <1>12
  <2>5. CASE q.newer
    <3>1. CASE row.at > q.at
      <4>1. \A x \in ToSet(p) : x.at <= row.at
        BY <1>8, <2>2, <2>5, <3>1
      <4>2. Mark(c)
        BY <1>11, <1>12, <1>16, <2>2, <4>1
      <4> QED
        BY <1>7, <1>16, <2>2, <2>3, <2>4, <3>1, <4>2
    <3>2. CASE row.at < q.at
      <4>1. \A x \in ToSet(p) : x.at > q.at
        BY <1>8, <2>5 DEF Beyond
      <4>2. Mark(b)
        BY <1>7, <1>11, <1>12, <1>16, <2>2, <3>2, <4>1
      <4> QED
        BY <1>7, <1>16, <2>2, <2>3, <2>4, <3>2, <4>2
    <3> QED
      BY <1>7, <2>2, <3>1, <3>2
  <2>6. CASE ~q.newer
    <3>1. CASE row.at < q.at
      <4>1. \A x \in ToSet(p) : row.at <= x.at
        BY <1>8, <2>2, <2>6, <3>1
      <4>2. Mark(b)
        BY <1>11, <1>12, <1>16, <2>2, <4>1
      <4> QED
        BY <1>7, <1>16, <2>2, <2>3, <2>4, <3>1, <4>2
    <3>2. CASE row.at > q.at
      <4>1. \A x \in ToSet(p) : x.at < q.at
        BY <1>8, <2>6 DEF Beyond
      <4>2. Mark(c)
        BY <1>7, <1>11, <1>12, <1>16, <2>2, <3>2, <4>1
      <4> QED
        BY <1>7, <1>16, <2>2, <2>3, <2>4, <3>2, <4>2
    <3> QED
      BY <1>7, <2>2, <3>1, <3>2
  <2> QED
    BY <2>5, <2>6
<1>17. ASSUME view' = <<>>, flaws' \cap {"cut", "emptied", "refused"} = {}, Unmarked',
              NEW row \in table', Missing(row)'
       PROVE  FALSE
  <2>1. q.newer = FALSE /\ q.at = Latest
    BY <1>1, <1>3, <1>10, <1>17 DEF Complete, AskedFromEnd
  <2>2. row \in Beyond(joined, q.newer, q.at)
    BY <1>13, <1>17, <2>1
  <2>3. p # <<>>
    BY <1>8, <2>2
  <2>4. 1 \in DOMAIN p
    BY <1>8, <2>3
  <2>5. p[1] \in ToSet(p)
    BY <2>4 DEF ToSet
  <2> QED
    BY <1>11, <1>12, <1>17, <2>5 DEF Unmarked
<1>18. view' = <<>> /\ "emptied" \notin flaws' => AskedFromEnd'
  BY <1>1, <1>3, <1>10 DEF Complete, AskedFromEnd
<1>19. "cut" \notin flaws' /\ ("late" \notin flaws' \/ "order" \notin flaws') => NothingBelow'
  BY <1>15 DEF NothingBelow
<1>20. "order" \notin flaws' => NothingBetween'
  BY <1>16 DEF NothingBetween
<1>21. view' = <<>> /\ flaws' \cap {"cut", "emptied", "refused"} = {} /\ Unmarked' => NothingAtAll'
  BY <1>17 DEF NothingAtAll
<1> QED
  BY <1>14, <1>18, <1>19, <1>20, <1>21 DEF Complete

\* An envelope is handled: a notice that was to come has come.
LEMMA HandledNotices ==
    ASSUME Typed, handleMessage, Head(toClient).kind # "Joined", InRoom'
    PROVE  /\ InRoom /\ UNCHANGED <<table, gone, joined, frame>>
           /\ \A row : NoticeToCome(row) =>
                 \/ NoticeToCome(row)'
                 \/ Head(toClient).kind = "RoomMessage" /\ Head(toClient).rows[1] = row
<1>1. /\ toClient # <<>> /\ toClient' = Tail(toClient) /\ UNCHANGED server /\ joined' = joined
  BY HandledRows
<1>2. UNCHANGED <<table, gone, joined, listed, frame, writing>>
  BY <1>1 DEF server, storage, reader
<1>3. JoinedAfter(0) => JoinedAfter(0)'
  BY <1>1, PoppedKeeps
<1>4. InRoom
  BY <1>2, <1>3 DEF InRoom
<1>5. /\ Head(toClient) = toClient[1]
      /\ \A i \in DOMAIN toClient \ {1} : i - 1 \in DOMAIN toClient' /\ toClient'[i - 1] = toClient[i]
  BY <1>1, Popped DEF Typed
<1>6. ASSUME NEW row, NoticeToCome(row)
      PROVE  \/ NoticeToCome(row)'
             \/ Head(toClient).kind = "RoomMessage" /\ Head(toClient).rows[1] = row
  <2>1. CASE \E w \in Writer : writing[w] # None /\ writing[w].op = "send" /\ writing[w].row = row
    BY <1>2, <2>1 DEF NoticeToCome
  <2>2. ASSUME NEW i \in DOMAIN toClient, toClient[i].kind = "RoomMessage", toClient[i].rows[1] = row
        PROVE  \/ NoticeToCome(row)'
               \/ Head(toClient).kind = "RoomMessage" /\ Head(toClient).rows[1] = row
    BY <1>5, <2>2 DEF NoticeToCome
  <2> QED
    BY <1>6, <2>1, <2>2 DEF NoticeToCome
<1> QED
  BY <1>2, <1>4, <1>6

\* A live message.  In order, it is the last of the room's, and what is
\* trimmed is above the rest; out of order, nothing is trimmed.
LEMMA MessageKeepsComplete ==
    ASSUME Typed, Typed', StoredInv, OrderInv, CompleteInv, handleMessage,
           Head(toClient).kind = "RoomMessage"
    PROVE  CompleteInv'
<1> SUFFICES ASSUME InRoom', "stale" \notin flaws', "order" \notin flaws' \/ "cut" \notin flaws'
             PROVE  Complete'
  BY DEF CompleteInv
<1>1. PICK m \in Message :
          /\ Head(toClient).rows[1] = m
          /\ <<m>> \in Seq(Message) /\ ToSet(<<m>>) = {m}
          /\ view' = Fill(<<m>>)
          /\ flaws' = flaws \cup FlawsOf(<<m>>, FALSE)
          /\ UNCHANGED <<frame, toServer, joined>>
  BY MessageShown
<1>2. /\ flaws \subseteq flaws'
      /\ "order" \notin flaws' => ~Disorders(m)
      /\ "late" \notin flaws' => ~IsLate(m)
      /\ "cut" \notin flaws' /\ ("order" \in flaws' \/ loadingOlder) => ~(Len(view) + 1 > MaxShown)
  BY <1>1, LiveFlaws
<1>3. /\ InRoom /\ UNCHANGED <<table, gone, joined>>
      /\ \A row : NoticeToCome(row) => NoticeToCome(row)' \/ row = m
  BY <1>1, HandledNotices
<1>4. Complete
  BY <1>2, <1>3 DEF CompleteInv
<1>5. /\ \A q \in Request : Unread(q)' <=> Unread(q)
      /\ \A p \in Seq(Message) : PageRead(p)' <=> PageRead(p)
  <2>1. toClient # <<>> /\ toClient' = Tail(toClient)
    BY DEF handleMessage
  <2> QED
    BY <1>1, <2>1, PoppedPages
<1>6. \A x : Coming(x)' <=> Coming(x)
  BY <1>5 DEF Coming
<1> DEFINE all == All(<<m>>)
<1>7. /\ all \in Seq(Message) /\ ToSet(all) = ToSet(view) \cup {m}
      /\ Len(view) + 1 <= MaxShown => view' = all
      /\ ToSet(view') \subseteq ToSet(all)
      /\ Sorted(all) => \A x \in ToSet(all) \ ToSet(view'), y \in ToSet(view') :
                           IF loadingOlder THEN y.at <= x.at ELSE x.at <= y.at
      /\ view' # <<>> /\ m \in ToSet(view')
  <2>1. Len(<<m>>) = 1 /\ <<m>> # <<>> /\ <<m>>[1] = m
    OBVIOUS
  <2> QED
    BY <1>1, <2>1, AllRows, FilledPiece DEF Typed
<1> HIDE DEF all
<1>8. m.at \in Int /\ Len(view) \in Nat /\ MaxShown \in Nat /\ view \in Seq(Message)
  BY ViewAssumption DEF Typed, TypedClient, Message
<1>9. \A row \in table : row.at \in Int
  BY DEF Typed, TypedStorage, Message
<1>10. \A row \in table : row.room = joined /\ row.at > m.at => IsLate(m)
  BY DEF IsLate
<1>11. CASE "order" \notin flaws'
  <2>1. /\ ~loadingOlder /\ ~loadingNewer /\ "cut" \notin flaws /\ "order" \notin flaws
        /\ "stale" \notin flaws
        /\ \A i \in DOMAIN view : view[i] # m /\ ~(view[i].at > m.at)
        /\ view = <<>> => ~IsLate(m)
    BY <1>2, <1>11 DEF Disorders
  <2>2. Ordered /\ NothingBelow
    BY <1>4, <2>1 DEF OrderInv, Complete
  <2>3. ~PageOutstanding
    BY <2>1, <2>2 DEF Ordered
  <2>4. /\ \A q \in Request : ~Unread(q)
        /\ \A p \in Seq(Message) : ~PageRead(p)
    BY <2>3, UnderWay
  <2>5. ASSUME NEW x \in ToSet(view)
        PROVE  x \in Message /\ x.at \in Int /\ x # m /\ x.at <= m.at
    <3>1. PICK i \in 1..Len(view) : view[i] = x
      BY <1>8, <2>5, IndexOf
    <3>2. x \in Message /\ x.at \in Int
      BY <1>8, <2>5, StampOf
    <3>3. i \in DOMAIN view
      BY <1>8
    <3> QED
      BY <1>8, <2>1, <3>1, <3>2, <3>3
  <2>6. Sorted(all)
    <3>1. Sorted(view) /\ Sorted(<<m>>)
      BY <2>2 DEF Ordered, Sorted
    <3>2. Sorted(view \o <<m>>)
      BY <1>1, <1>8, <2>5, <3>1, JoinSorted
    <3> QED
      BY <2>1, <3>2 DEF All, all
  <2>7. \A x : (Known(x) <=> x \in ToSet(view)) /\ (Known(x)' <=> x \in ToSet(view'))
    BY <1>6, <2>4 DEF Known, Coming
  <2>8. \A x \in ToSet(all) \ ToSet(view'), y \in ToSet(view') : x.at <= y.at
    BY <1>7, <2>1, <2>6
  <2>9. \A x \in ToSet(view') : x \in Message /\ x.at \in Int
    BY <1>7, <1>8, <2>5
  <2>10. ASSUME NEW row \in table', NEW b \in Int, Missing(row)', Mark(b)', b < row.at
         PROVE  Excused(row)'
    <3>1. row \in table /\ row.room = joined /\ row \notin ToSet(view') /\ row.at \in Int
      BY <1>3, <1>9, <2>7, <2>10 DEF Missing
    <3>2. PICK x \in ToSet(view') : x.at = b
      BY <1>5, <2>4, <2>7, <2>10 DEF Mark
    <3>3. row \notin ToSet(view) /\ row # m
      <4>1. row \in ToSet(all) => row.at <= x.at
        BY <2>8, <3>1
      <4> QED
        BY <1>7, <2>10, <3>1, <3>2, <4>1
    <3>4. Missing(row)
      BY <2>7, <3>1, <3>3 DEF Missing
    <3>5. Excused(row)
      <4>1. CASE x \in ToSet(view)
        <5>1. Mark(b)
          BY <2>5, <2>7, <3>2, <4>1 DEF Mark
        <5> QED
          BY <2>2, <2>10, <3>1, <3>4, <5>1 DEF NothingBelow
      <4>2. CASE x = m
        <5>1. IsLate(m)
          BY <1>10, <2>10, <3>1, <3>2, <4>2
        <5>2. view # <<>>
          BY <2>1, <5>1
        <5>3. 1 \in DOMAIN view
          BY <1>8, <5>2
        <5>4. PICK y \in ToSet(view) : y = view[1]
          BY <5>3 DEF ToSet
        <5>5. Mark(y.at)
          BY <2>5, <2>7 DEF Mark
        <5>6. y.at < row.at /\ y.at \in Int
          BY <1>8, <2>5, <2>10, <3>1, <3>2, <4>2
        <5> QED
          BY <2>2, <3>1, <3>4, <5>5, <5>6 DEF NothingBelow
      <4> QED
        BY <1>7, <3>2, <4>1, <4>2
    <3>6. NoticeToCome(row) => NoticeToCome(row)'
      BY <1>3, <3>3
    <3>7. ASSUME Stamped(row.at)
          PROVE  Stamped(row.at)'
      <4>1. CASE \E z \in gone : z.at = row.at
        BY <1>3, <4>1 DEF Stamped
      <4>2. ASSUME NEW z \in ToSet(view), z.at = row.at
            PROVE  Stamped(row.at)'
        <5>1. z \in ToSet(view')
          <6>1. z \in ToSet(all) \ ToSet(view') => z.at <= x.at
            BY <2>8
          <6>2. z \in ToSet(all)
            BY <1>7
          <6> QED
            BY <2>10, <3>1, <3>2, <4>2, <6>1, <6>2
        <5> QED
          BY <2>7, <2>9, <4>2, <5>1 DEF Stamped
      <4> QED
        BY <2>7, <3>7, <4>1, <4>2 DEF Stamped
    <3> QED
      BY <3>5, <3>6, <3>7 DEF Excused
  <2>11. NothingBelow' /\ NothingBetween'
    BY <2>10 DEF NothingBelow, NothingBetween
  <2>12. AskedFromKnown'
    BY <1>5, <2>4 DEF AskedFromKnown
  <2> QED
    BY <1>7, <2>11, <2>12 DEF Complete
<1>12. CASE "order" \in flaws'
  <2>1. "cut" \notin flaws' /\ "cut" \notin flaws
    BY <1>2, <1>12
  <2>2. view' = all
    BY <1>2, <1>7, <1>8, <1>12, <2>1
  <2>3. \A x : Known(x)' <=> Known(x) \/ x = m
    BY <1>6, <1>7, <2>2 DEF Known
  <2>4. /\ \A b \in Int : Stamped(b) => Stamped(b)'
        /\ \A b \in Int : Mark(b)' => Mark(b) \/ b = m.at
    BY <1>3, <1>5, <2>3 DEF Stamped, Mark
  <2>5. AskedFromKnown'
    BY <1>4, <1>5, <2>4, RequestParts DEF Complete, AskedFromKnown
  <2>6. ASSUME "late" \notin flaws', NEW row \in table', NEW b \in Int, Missing(row)', Mark(b)',
               b < row.at
        PROVE  Excused(row)'
    <3>1. Missing(row) /\ row # m /\ row \in table /\ row.at \in Int
      BY <1>3, <1>9, <2>3, <2>6 DEF Missing
    <3>2. ~IsLate(m) /\ "late" \notin flaws
      BY <1>2, <2>6
    <3>3. b # m.at
      BY <1>8, <1>10, <2>6, <3>1, <3>2 DEF Missing
    <3>4. Mark(b)
      BY <2>4, <2>6, <3>3
    <3>5. NothingBelow
      BY <1>4, <2>1, <3>2 DEF Complete
    <3>6. Excused(row)
      BY <2>6, <3>1, <3>4, <3>5 DEF NothingBelow
    <3> QED
      BY <1>3, <2>4, <3>1, <3>6 DEF Excused
  <2>7. "late" \notin flaws' => NothingBelow'
    BY <2>6 DEF NothingBelow
  <2> QED
    BY <1>7, <1>12, <2>5, <2>7 DEF Complete
<1> QED
  BY <1>11, <1>12

\* A page.  It shows what was known to come; what is trimmed is above the rest,
\* or below it, which is a cut.
LEMMA PageKeepsComplete ==
    ASSUME Typed, Typed', OrderInv, CompleteInv, handleMessage, Head(toClient).kind = "Page"
    PROVE  CompleteInv'
<1> SUFFICES ASSUME InRoom', "stale" \notin flaws', "order" \notin flaws' \/ "cut" \notin flaws'
             PROVE  Complete'
  BY DEF CompleteInv
<1>1. PICK p \in Seq(Message) :
          /\ Head(toClient).rows = p /\ PageRead(p)
          /\ p = <<>> => view' = view /\ flaws' = flaws
          /\ p # <<>> => view' = Fill(p)
          /\ p # <<>> =>
                flaws' = IF Len(view) + Len(p) > MaxShown /\ (loadingOlder \/ "order" \in flaws)
                         THEN flaws \cup {"cut"} ELSE flaws
          /\ UNCHANGED <<frame, toServer, joined>>
  BY HistoryShown
<1>2. flaws \subseteq flaws' /\ flaws' \subseteq flaws \cup {"cut"}
  BY <1>1
<1>3. /\ InRoom /\ UNCHANGED <<table, gone, joined>>
      /\ \A row : NoticeToCome(row) => NoticeToCome(row)'
  BY HandledNotices
<1>4. Complete
  BY <1>2, <1>3 DEF CompleteInv
<1>5. toClient # <<>> /\ toClient' = Tail(toClient) /\ IsPage(Head(toClient))
  BY DEF handleMessage, IsPage
<1>6. /\ \A q \in Request : Unread(q)' <=> Unread(q)
      /\ \A o \in Seq(Message) : /\ PageRead(o)' => PageRead(o)
                                 /\ PageRead(o) => PageRead(o)' \/ o = p
      /\ Answered({"NoPage"}) => Answered({"NoPage"})'
      /\ OneLoad => ~PageOutstanding'
  <2>1. /\ \A q \in Request : Unread(q)' <=> Unread(q)
        /\ \A o \in Seq(Message) :
              /\ PageRead(o)' => PageRead(o)
              /\ PageRead(o) => \/ PageRead(o)'
                                \/ Head(toClient).kind = "Page" /\ Head(toClient).rows = o
        /\ Answered({"NoPage"}) => Answered({"NoPage"})' \/ Head(toClient).kind = "NoPage"
        /\ OneLoad /\ IsPage(Head(toClient)) => ~PageOutstanding'
    BY <1>1, <1>5, PoppedPages
  <2> QED
    BY <1>1, <1>5, <2>1
<1>7. \A x : Coming(x) <=> Coming(x)' \/ x \in ToSet(p)
  BY <1>1, <1>6 DEF Coming
<1>8. \A x : Known(x) <=> x \in ToSet(view) \cup ToSet(p) \/ Coming(x)'
  BY <1>7 DEF Known
<1> DEFINE all == All(p)
<1>9. /\ all \in Seq(Message) /\ ToSet(all) = ToSet(view) \cup ToSet(p)
      /\ p # <<>> /\ Len(view) + Len(p) <= MaxShown => view' = all
      /\ p # <<>> /\ Sorted(all) =>
            \A x \in ToSet(all) \ ToSet(view'), y \in ToSet(view') :
                IF loadingOlder THEN y.at <= x.at ELSE x.at <= y.at
      /\ p # <<>> => view' # <<>> /\ ToSet(view') \subseteq ToSet(all)
  BY <1>1, AllRows, FilledPiece DEF Typed
<1> HIDE DEF all
<1>10. CASE p = <<>> \/ Len(view) + Len(p) <= MaxShown
  <2>1. /\ ToSet(view') = ToSet(view) \cup ToSet(p)
        /\ view' = <<>> => view = <<>>
    <3>1. CASE p = <<>>
      <4>1. ToSet(<<>>) = {}
        BY DEF ToSet
      <4> QED
        BY <1>1, <3>1, <4>1
    <3>2. CASE p # <<>>
      BY <1>9, <1>10, <3>2
    <3> QED
      BY <3>1, <3>2
  <2>2. \A x : Known(x)' <=> Known(x)
    BY <1>8, <2>1 DEF Known
  <2>3. \A b \in Int : (Mark(b)' <=> Mark(b)) /\ (Stamped(b) => Stamped(b)')
    BY <1>3, <1>6, <2>2 DEF Mark, Stamped
  <2>4. \A row \in table' : Missing(row)' =>
            Excused(row)' \/ (Missing(row) /\ (NoticeToCome(row) => NoticeToCome(row)'))
    BY <1>3, <2>2 DEF Missing
  <2>5. view' = <<>> /\ flaws' \cap {"cut", "emptied", "refused"} = {} /\ Unmarked'
             /\ ~Answered({"NoPage"})' => Unmarked /\ ~Answered({"NoPage"})
    BY <1>6, <2>3 DEF Unmarked
  <2> QED
    BY <1>2, <1>4, <1>6, <2>1, <2>3, <2>4, <2>5, CompleteKept
<1>11. CASE p # <<>> /\ ~(Len(view) + Len(p) <= MaxShown)
  <2>1. /\ Len(view) + Len(p) > MaxShown
        /\ flaws' = IF loadingOlder \/ "order" \in flaws THEN flaws \cup {"cut"} ELSE flaws
    <3>1. Len(view) \in Nat /\ Len(p) \in Nat /\ MaxShown \in Nat
      BY ViewAssumption DEF Typed, TypedClient
    <3>2. Len(view) + Len(p) > MaxShown
      BY <1>11, <3>1
    <3> QED
      BY <1>1, <1>11, <3>2
  <2>2. "order" \notin flaws /\ "stale" \notin flaws /\ ("cut" \notin flaws' => ~loadingOlder)
    BY <1>2, <2>1
  <2>3. Ordered
    BY <2>2 DEF OrderInv
  <2>4. Sorted(all)
    BY <1>1, <2>3, PageJoins DEF all
  <2>5. \A x \in ToSet(all) \ ToSet(view'), y \in ToSet(view') :
            IF loadingOlder THEN y.at <= x.at ELSE x.at <= y.at
    BY <1>9, <1>11, <2>4
  <2>6. /\ \A q \in Request : ~Unread(q)'
        /\ \A o \in Seq(Message) : ~PageRead(o)'
    BY <1>6, <2>3, NoneUnderWay DEF Ordered
  <2>7. \A x : (Known(x)' <=> x \in ToSet(view')) /\ (Known(x) <=> x \in ToSet(all))
    BY <1>8, <1>9, <2>6 DEF Known, Coming
  <2>8. ToSet(view') \subseteq ToSet(all) /\ \A x \in ToSet(all) : x \in Message /\ x.at \in Int
    BY <1>9, <1>11, StampOf
  <2>9. \A b \in Int : Mark(b)' => \E x \in ToSet(view') : x.at = b
    BY <2>6, <2>7 DEF Mark
  <2>10. ASSUME NEW row \in table', Missing(row)', NEW x \in ToSet(view'), x.at < row.at,
                NEW y \in ToSet(view'), loadingOlder => row.at < y.at
         PROVE  Missing(row) /\ (Excused(row) => Excused(row)')
    <3>1. row \in table /\ row.room = joined /\ row \notin ToSet(view') /\ row.at \in Int
          /\ x.at \in Int /\ y.at \in Int
      <4>1. row.at \in Int
        BY DEF Typed, TypedStorage, Message
      <4> QED
        BY <1>3, <2>7, <2>8, <2>10, <4>1 DEF Missing
    <3>2. \A z \in ToSet(all) : z.at = row.at => z \in ToSet(view')
      <4> SUFFICES ASSUME NEW z \in ToSet(all), z.at = row.at, z \notin ToSet(view') PROVE FALSE
        OBVIOUS
      <4>1. IF loadingOlder THEN y.at <= z.at ELSE z.at <= x.at
        BY <2>5
      <4> QED
        BY <2>10, <3>1, <4>1
    <3>3. Missing(row)
      BY <2>7, <3>1, <3>2 DEF Missing
    <3>4. Stamped(row.at) => Stamped(row.at)'
      BY <1>3, <2>7, <3>2 DEF Stamped
    <3> QED
      BY <1>3, <3>3, <3>4 DEF Excused
  <2>11. \A x \in ToSet(view') : Mark(x.at)
    BY <2>7, <2>8 DEF Mark
  <2>12. "cut" \notin flaws' => NothingBelow'
    <3> SUFFICES ASSUME "cut" \notin flaws', NEW row \in table', NEW b \in Int,
                        Missing(row)', Mark(b)', b < row.at
                 PROVE  Excused(row)'
      BY DEF NothingBelow
    <3>1. PICK x \in ToSet(view') : x.at = b
      BY <2>9
    <3>2. Missing(row) /\ (Excused(row) => Excused(row)')
      BY <2>2, <2>10, <3>1
    <3>3. NothingBelow
      BY <1>2, <1>4, <2>2 DEF Complete
    <3>4. Excused(row)
      BY <2>11, <3>1, <3>2, <3>3 DEF NothingBelow, Missing
    <3> QED
      BY <3>2, <3>4
  <2>13. NothingBetween'
    <3> SUFFICES ASSUME NEW row \in table', NEW b \in Int, NEW c \in Int,
                        Missing(row)', Mark(b)', Mark(c)', b < row.at, row.at < c
                 PROVE  Excused(row)'
      BY DEF NothingBetween
    <3>1. PICK x \in ToSet(view') : x.at = b
      BY <2>9
    <3>2. PICK y \in ToSet(view') : y.at = c
      BY <2>9
    <3>3. Missing(row) /\ (Excused(row) => Excused(row)')
      BY <2>10, <3>1, <3>2
    <3>4. NothingBetween
      BY <1>4, <2>2 DEF Complete
    <3>5. Excused(row)
      BY <2>11, <3>1, <3>2, <3>3, <3>4 DEF NothingBetween, Missing
    <3> QED
      BY <3>3, <3>5
  <2>14. AskedFromKnown'
    BY <2>6 DEF AskedFromKnown
  <2> QED
    BY <1>9, <1>11, <2>12, <2>13, <2>14 DEF Complete
<1> QED
  BY <1>10, <1>11

\* The other envelopes ask for nothing and show nothing; what a deletion takes
\* out of the view is excused.
LEMMA OthersKeepComplete ==
    ASSUME Typed, Typed', StoredInv, CompleteInv, handleMessage,
           Head(toClient).kind \notin {"RoomMessage", "Page", "Joined"}
    PROVE  CompleteInv'
<1> SUFFICES ASSUME InRoom', "stale" \notin flaws', "order" \notin flaws' \/ "cut" \notin flaws'
             PROVE  Complete'
  BY DEF CompleteInv
<1>1. /\ InRoom /\ UNCHANGED <<table, gone, joined, frame>>
      /\ \A row : NoticeToCome(row) => NoticeToCome(row)'
  BY HandledNotices
<1>2. toClient # <<>> /\ toClient' = Tail(toClient) /\ toServer' = toServer
  BY DEF handleMessage, kGetMessagesResponse, OnNoMessages, removeMessageFromView,
     DeleteMessageById, kRoomDeleted, ShowRooms, client
<1>3. PICK row0 :
          /\ flaws \subseteq flaws'
          /\ Head(toClient).kind = "NoPage" => "refused" \in flaws'
          /\ \/ view' = view
             \/ /\ row0 \in gone
                /\ view' = RemoveFirst(view, row0)
                /\ view' = <<>> /\ view # <<>> => "emptied" \in flaws'
  <2>1. CASE Head(toClient).kind = "MessageDeleted"
    <3>1. Head(toClient).rows[1] \in gone
      BY <1>2, <2>1, Popped DEF Typed, StoredInv, NoticesInv
    <3> QED
      BY <2>1, <3>1 DEF handleMessage, removeMessageFromView, DeleteMessageById, client
  <2>2. CASE Head(toClient).kind # "MessageDeleted"
    <3>1. flaws \subseteq flaws' /\ (Head(toClient).kind = "NoPage" => "refused" \in flaws')
          /\ view' = view
      BY <2>2 DEF handleMessage, kGetMessagesResponse, OnNoMessages, kRoomDeleted, ShowRooms, client
    <3> QED
      BY <3>1
  <2> QED
    BY <2>1, <2>2
<1>4. Complete
  BY <1>1, <1>3 DEF CompleteInv
<1>5. /\ \A q \in Request : Unread(q)' <=> Unread(q)
      /\ \A o \in Seq(Message) : PageRead(o)' <=> PageRead(o)
      /\ Answered({"NoPage"}) => Answered({"NoPage"})' \/ Head(toClient).kind = "NoPage"
  BY <1>1, <1>2, PoppedPages
<1>6. ToSet(view') \subseteq ToSet(view)
      /\ \A x \in ToSet(view) : x \in ToSet(view') \/ (x = row0 /\ x \in gone)
  <2>1. CASE view' = view
    BY <2>1
  <2>2. CASE row0 \in gone /\ view' = RemoveFirst(view, row0)
    <3>1. view \in Seq(Message)
      BY DEF Typed, TypedClient
    <3> QED
      BY <2>2, <3>1, RemovedSorted, RemovedRows
  <2> QED
    BY <1>3, <2>1, <2>2
<1>7. \A x : (Known(x)' => Known(x)) /\ (Known(x) => Known(x)' \/ x \in gone)
  BY <1>5, <1>6 DEF Known, Coming
<1>8. \A b \in Int : (Mark(b)' => Mark(b)) /\ (Stamped(b) => Stamped(b)')
  BY <1>1, <1>5, <1>7 DEF Mark, Stamped
<1>9. ASSUME NEW row \in table', Missing(row)'
      PROVE  Excused(row)' \/ (Missing(row) /\ (NoticeToCome(row) => NoticeToCome(row)'))
  <2>1. CASE Known(row)
    <3>1. row \in gone'
      BY <1>1, <1>7, <1>9, <2>1 DEF Missing
    <3> QED
      BY <3>1 DEF Excused, Stamped
  <2>2. CASE ~Known(row)
    BY <1>1, <1>9, <2>2 DEF Missing
  <2> QED
    BY <2>1, <2>2
<1>10. view' = <<>> /\ "emptied" \notin flaws' => view = <<>>
  BY <1>3
<1>11. ASSUME view' = <<>>, flaws' \cap {"cut", "emptied", "refused"} = {}, Unmarked',
              ~Answered({"NoPage"})'
       PROVE  Unmarked /\ ~Answered({"NoPage"})
  <2>1. view = <<>> /\ Head(toClient).kind # "NoPage"
    BY <1>3, <1>11
  <2>2. \A x : Known(x) => Known(x)'
    BY <1>5, <1>11, <2>1 DEF Known, Coming
  <2>3. \A b \in Int : Mark(b) => Mark(b)'
    BY <1>5, <2>2 DEF Mark
  <2> QED
    BY <1>5, <1>11, <2>1, <2>3 DEF Unmarked
<1> QED
  BY <1>3, <1>4, <1>5, <1>8, <1>9, <1>10, <1>11, CompleteKept

\* The view starts over, and asks for the end of the history.
LEMMA StartKeepsComplete ==
    ASSUME Typed, Typed', StoredInv, Start, UNCHANGED <<table, frame>>,
           \/ toClient' = toClient
           \/ toClient # <<>> /\ toClient' = Tail(toClient)
    PROVE  CompleteInv'
<1> SUFFICES ASSUME "stale" \notin flaws' PROVE Complete'
  BY DEF CompleteInv
<1> DEFINE r == GetMessages(FALSE, Latest)
<1>1. r \in Request /\ r.op = "GetMessages" /\ r.newer = FALSE /\ r.at = Latest
  BY DEF GetMessages, Request, Latest
<1>2. ~PageOutstanding /\ Ask(r) /\ view' = <<>>
  BY DEF Start
<1> HIDE DEF r
<1>3. /\ \A q \in Request : Unread(q)' <=> Unread(q) \/ q = r
      /\ \A p \in Seq(Message) : PageRead(p)' => PageRead(p)
  BY <1>1, <1>2, AskedPages
<1>4. /\ \A q \in Request : Unread(q)' <=> q = r
      /\ \A p \in Seq(Message) : ~PageRead(p)'
  BY <1>2, <1>3, UnderWay
<1>5. \A x : ~Known(x)'
  <2>1. ToSet(<<>>) = {}
    BY DEF ToSet
  <2> QED
    BY <1>2, <1>4, <2>1 DEF Known, Coming
<1>6. \A b \in Int : Mark(b)' <=> b = Latest
  BY <1>1, <1>4, <1>5 DEF Mark
<1>7. \A row \in table' : row.at \in Int /\ Latest \in Int /\ row.at < Latest
  BY BeforeLatest
<1>8. NothingBelow' /\ NothingBetween'
  <2>1. \A row \in table', b \in Int : ~(Mark(b)' /\ b < row.at)
    BY <1>6, <1>7
  <2> QED
    BY <2>1 DEF NothingBelow, NothingBetween
<1>9. ~Unmarked'
  BY <1>6 DEF Unmarked, Latest
<1>10. AskedFromKnown' /\ AskedFromEnd'
  BY <1>1, <1>4 DEF AskedFromKnown, AskedFromEnd
<1> QED
  BY <1>8, <1>9, <1>10 DEF Complete

\* The user scrolls, and asks for what is beyond a row of the view.
LEMMA ScrollKeepsComplete ==
    ASSUME Typed, Typed', CompleteInv, ScrollUp \/ ScrollDown
    PROVE  CompleteInv'
<1>1. UNCHANGED <<server, toClient, view, flaws, joined>> /\ view # <<>>
  BY DEF ScrollUp, ScrollDown, MayAsk
<1>2. UNCHANGED <<table, gone, listed, frame, writing>>
  BY <1>1 DEF server, storage, reader
<1>3. (InRoom' <=> InRoom) /\ \A row : NoticeToCome(row)' <=> NoticeToCome(row)
  BY <1>1, <1>2 DEF InRoom, NoticeToCome, JoinedAfter
<1> SUFFICES ASSUME Complete PROVE Complete'
  BY <1>1, <1>3 DEF CompleteInv
<1>4. PICK newer \in BOOLEAN, m \in ToSet(view) : Ask(GetMessages(newer, m.at))
  <2>1. view \in Seq(Message) /\ Len(view) \in Nat /\ Len(view) > 0 /\ DOMAIN view = 1..Len(view)
    BY <1>1 DEF Typed, TypedClient
  <2>2. Head(view) = view[1] /\ Last(view) = view[Len(view)]
    BY <1>1 DEF Last, Typed, TypedClient
  <2>3. Head(view) \in ToSet(view) /\ Last(view) \in ToSet(view)
    <3>1. 1 \in DOMAIN view /\ Len(view) \in DOMAIN view
      BY <2>1
    <3> QED
      BY <2>2, <3>1 DEF ToSet
  <2> QED
    BY <2>3 DEF ScrollUp, ScrollDown
<1>5. m \in Message /\ m.at \in Int /\ Known(m)
  <2>1. view \in Seq(Message)
    BY DEF Typed, TypedClient
  <2> QED
    BY <2>1, StampOf DEF Known
<1>6. PICK r \in Request : r = GetMessages(newer, m.at) /\ r.op = "GetMessages" /\ r.at = m.at
  <2>1. GetMessages(newer, m.at) \in Request
    BY <1>5 DEF GetMessages, Request
  <2> QED
    BY <2>1 DEF GetMessages
<1>7. /\ \A q \in Request : Unread(q)' <=> Unread(q) \/ q = r
      /\ \A p \in Seq(Message) : PageRead(p)' <=> PageRead(p)
      /\ Answered({"NoPage"}) => Answered({"NoPage"})'
  <2>1. Ask(r)
    BY <1>4, <1>6
  <2> QED
    BY <1>1, <1>2, <1>6, <2>1, AskedPages
<1>8. \A x : Known(x)' <=> Known(x)
  BY <1>1, <1>7 DEF Known, Coming
<1>9. \A b \in Int : (Mark(b)' <=> Mark(b)) /\ (Stamped(b)' <=> Stamped(b))
  BY <1>2, <1>5, <1>6, <1>7, <1>8 DEF Mark, Stamped
<1>10. Stamped(r.at)
  BY <1>5, <1>6 DEF Stamped
<1>11. \A row : Missing(row)' => Missing(row) /\ (NoticeToCome(row) => NoticeToCome(row)')
  BY <1>1, <1>2, <1>3, <1>8 DEF Missing
<1>12. \A q \in Request : Unread(q)' => Unread(q) \/ (Stamped(q.at)' /\ view' # <<>>)
  BY <1>1, <1>6, <1>7, <1>9, <1>10, RequestParts
<1> QED
  BY <1>1, <1>9, <1>11, <1>12, CompleteKept

\* A step that leaves alone all but the requests to join.
LEMMA AlikeKeepsComplete ==
    ASSUME Typed, Typed', CompleteInv, UNCHANGED <<client, server, toClient>>,
           \A q \in Request : Unread(q)' <=> Unread(q),
           \A p \in Seq(Message) : PageRead(p)' <=> PageRead(p),
           Answered({"NoPage"}) => Answered({"NoPage"})'
    PROVE  CompleteInv'
<1>1. UNCHANGED <<table, gone, listed, frame, writing, view, flaws, joined, toClient>>
  BY DEF server, storage, reader, client
<1>2. (InRoom' <=> InRoom) /\ \A row : NoticeToCome(row)' <=> NoticeToCome(row)
  BY <1>1 DEF InRoom, NoticeToCome, JoinedAfter
<1> SUFFICES ASSUME Complete PROVE Complete'
  BY <1>1, <1>2 DEF CompleteInv
<1>3. \A x : Known(x)' <=> Known(x)
  BY <1>1 DEF Known, Coming
<1>4. \A b \in Int : (Mark(b)' <=> Mark(b)) /\ (Stamped(b)' <=> Stamped(b))
  BY <1>1, <1>3 DEF Mark, Stamped
<1>5. \A row : Missing(row)' => Missing(row) /\ (NoticeToCome(row) => NoticeToCome(row)')
  BY <1>1, <1>2, <1>3 DEF Missing
<1>6. Unmarked' => Unmarked
  BY <1>4 DEF Unmarked
<1> QED
  BY <1>1, <1>4, <1>5, <1>6, CompleteKept

\* Every step keeps CompleteInv.
LEMMA NextComplete ==
    ASSUME Typed, Typed', RoomsInv, StoredInv, OrderInv, CompleteInv, [Next]_vars
    PROVE  CompleteInv'
<1>1. CASE ServerStep /\ UNCHANGED client
  BY <1>1, ServerPasses, PassingKeepsComplete, ReadingKeepsComplete
<1>2. CASE handleMessage
  <2>1. CASE Head(toClient).kind = "Joined"
    <3>1. Start /\ UNCHANGED <<table, frame>> /\ toClient # <<>> /\ toClient' = Tail(toClient)
      BY <1>2, <2>1 DEF handleMessage, ShowChat, server, storage, reader
    <3> QED
      BY <3>1, StartKeepsComplete
  <2>2. CASE Head(toClient).kind # "Joined"
    BY <1>2, <2>2, MessageKeepsComplete, PageKeepsComplete, OthersKeepComplete
  <2> QED
    BY <2>1, <2>2
<1>3. CASE ScrollUp \/ ScrollDown
  BY <1>3, ScrollKeepsComplete
<1>4. CASE JumpToPresent
  <2>1. Start /\ UNCHANGED <<table, frame, toClient>>
    BY <1>4 DEF JumpToPresent, MayAsk, server, storage, reader
  <2> QED
    BY <2>1, StartKeepsComplete
<1>5. CASE \E room \in Room : OnJoin(room)
  <2>1. PICK room \in Room : OnJoin(room)
    BY <1>5
  <2>2. /\ UNCHANGED <<client, server, toClient>>
        /\ \A q \in Request : Unread(q)' <=> Unread(q)
        /\ \A p \in Seq(Message) : PageRead(p)' <=> PageRead(p)
        /\ Answered({"NoPage"}) => Answered({"NoPage"})'
    BY <2>1, JoinAsked
  <2> QED
    BY <2>2, AlikeKeepsComplete
<1>6. CASE UNCHANGED vars
  <2>1. UNCHANGED <<client, server, toClient, toServer, frame>>
    BY <1>6 DEF vars, server, reader, network
  <2>2. /\ \A q \in Request : Unread(q)' <=> Unread(q)
        /\ \A p \in Seq(Message) : PageRead(p)' <=> PageRead(p)
        /\ Answered({"NoPage"}) => Answered({"NoPage"})'
    BY <2>1 DEF Unread, PageRead, At, Answered
  <2> QED
    BY <2>1, <2>2, AlikeKeepsComplete
<1> QED
  BY <1>1, <1>2, <1>3, <1>4, <1>5, <1>6 DEF Next, ClientStep

\* In the beginning, the reader is in no room.
LEMMA InitComplete == Init => CompleteInv
  BY DEF Init, CompleteInv, InRoom

\* Every step keeps StoredInv.
LEMMA NextStored ==
    ASSUME Typed, RoomsInv, StoredInv, [Next]_vars
    PROVE  StoredInv'
<1>1. CASE ServerStep
  BY <1>1, ServerKeepsStored
<1>2. CASE ClientStep
  BY <1>2, ClientKeepsStored
<1>3. CASE UNCHANGED vars
  <2>1. UNCHANGED <<table, gone, lastId, clock, writing, session, listed, toClient>>
    BY <1>3 DEF vars, server, storage, reader, network
  <2> QED
    BY <2>1 DEF StoredInv, StampInv, NoticesInv, SessionInv, Sends
<1> QED
  BY <1>1, <1>2, <1>3 DEF Next

-----------------------------------------------------------------------------
(* What follows for the view.                                              *)

HistoryInv == Typed /\ RoomsInv /\ StoredInv /\ OrderInv /\ CompleteInv

\* HistoryInv is inductive.
LEMMA InitHistory == Init => HistoryInv
  BY InitTyped, InitRooms, InitStored, InitOrder, InitComplete DEF HistoryInv

LEMMA NextHistory == HistoryInv /\ [Next]_vars => HistoryInv'
  BY NextTyped, NextRooms, NextStored, NextOrder, NextComplete DEF HistoryInv

\* No join under way: the reader is in the room of the last one.
LEMMA SettledIn ==
    ASSUME Typed, RoomsInv, ~Moving, listed = joined, joined # None
    PROVE  InRoom
<1>1. ~JoinedAfter(0)
  BY DEF Moving, JoinedAfter, Answered
<1>2. \A f \in Frame : frame[f].stage \notin JoinStages
  BY DEF RoomsInv, LocksInv, JoinStages, Moving, Asked
<1> QED
  BY <1>1, <1>2 DEF InRoom

\* As long as no live message came out of order, and no page that was asked
\* for before the view was started over, the view is in the order of the
\* stamps, without repetitions and without gaps.
THEOREM PagesJoinUpHolds == Spec => []PagesJoinUp
<1>1. ASSUME HistoryInv
      PROVE  PagesJoinUp
  <2> SUFFICES ASSUME flaws \cap {"order", "stale"} = {}
               PROVE  /\ \A i, j \in DOMAIN view : i < j => view[i] # view[j] /\ view[i].at <= view[j].at
                      /\ ~Moving /\ listed = joined =>
                            \A row \in table \ ToSet(view) :
                                row.room = joined
                                   /\ (\E i, j \in DOMAIN view : view[i].at < row.at /\ row.at < view[j].at)
                                => SharesAStamp(row) \/ NoticeToCome(row)
    BY DEF PagesJoinUp
  <2>1. Typed /\ RoomsInv /\ CompleteInv
    BY <1>1 DEF HistoryInv
  <2>2. Ordered
    BY <1>1 DEF HistoryInv, OrderInv
  <2>3. \A i, j \in DOMAIN view : i < j => view[i] # view[j] /\ view[i].at <= view[j].at
    BY <2>2 DEF Ordered, Sorted
  <2>4. ASSUME ~Moving, listed = joined, NEW row \in table \ ToSet(view), row.room = joined,
               NEW i \in DOMAIN view, NEW j \in DOMAIN view,
               view[i].at < row.at, row.at < view[j].at
        PROVE  SharesAStamp(row) \/ NoticeToCome(row)
    <3>1. row.room \in Room /\ row.at \in Int
      BY <2>1 DEF Typed, TypedStorage, Message
    <3>2. InRoom
      BY <2>1, <2>4, <3>1, SettledIn, MessagesAssumption
    <3>3. NothingBetween
      BY <2>1, <3>2 DEF CompleteInv, Complete
    <3>4. PICK x \in ToSet(view) : x = view[i]
      BY DEF ToSet
    <3>5. PICK y \in ToSet(view) : y = view[j]
      BY DEF ToSet
    <3>6. x \in Message /\ x.at \in Int /\ y \in Message /\ y.at \in Int
      <4>1. view \in Seq(Message)
        BY <2>1 DEF Typed, TypedClient
      <4> QED
        BY <4>1, StampOf
    <3>7. ASSUME NEW m, Coming(m)
          PROVE  m.at # row.at
      <4>1. PICK p \in Seq(Message) : PageRead(p) /\ m \in ToSet(p)
        BY <3>7 DEF Coming
      <4>2. IF loadingNewer THEN y.at < m.at ELSE m.at < x.at
        BY <2>2, <4>1 DEF Ordered
      <4>3. m.at \in Int
        BY <4>1, StampOf
      <4> QED
        BY <2>4, <3>1, <3>4, <3>5, <3>6, <4>2, <4>3
    <3>8. Missing(row)
      BY <2>4, <3>7 DEF Missing, Known
    <3>9. Mark(x.at) /\ Mark(y.at)
      BY <3>6 DEF Mark, Known
    <3>10. Excused(row)
      BY <2>4, <3>1, <3>3, <3>4, <3>5, <3>6, <3>8, <3>9 DEF NothingBetween
    <3> QED
      BY <3>7, <3>10 DEF Excused, Stamped, Known, SharesAStamp
  <2> QED
    BY <2>3, <2>4
<1> QED
  BY <1>1, InitHistory, NextHistory, PTL DEF Spec

\* When everything has been answered, the view reaches down to the last message
\* of the room, unless its end was cut off, or messages came late, or a page
\* that was asked for before the view was started over, or nothing is shown
\* because the page was refused or what it showed was deleted.
THEOREM NothingIsMissedHolds == Spec => []NothingIsMissed
<1>1. ASSUME HistoryInv
      PROVE  NothingIsMissed
  <2> SUFFICES ASSUME Quiet, listed = joined, flaws \cap {"cut", "stale", "late"} = {},
                      view = <<>> => flaws \cap {"emptied", "refused"} = {},
                      NEW row \in table \ ToSet(view), row.room = joined
               PROVE  \/ SharesAStamp(row)
                      \/ view # <<>> /\ \A i \in DOMAIN view : row.at < view[i].at
    BY DEF NothingIsMissed
  <2>1. Typed /\ RoomsInv /\ CompleteInv
    BY <1>1 DEF HistoryInv
  <2>2. row.room \in Room /\ row.at \in Int
    BY <2>1 DEF Typed, TypedStorage, Message
  <2>3. toServer = <<>> /\ DOMAIN toServer = {} /\ toClient = <<>> /\ DOMAIN toClient = {}
        /\ \A f \in Frame : frame[f].stage = "free"
    BY DEF Quiet
  <2>4. ~Moving /\ ~PageOutstanding /\ ~Answered({"NoPage"})
    BY <2>3 DEF Moving, PageOutstanding, Asked, Answered
  <2>5. InRoom
    BY <2>1, <2>2, <2>4, SettledIn, MessagesAssumption
  <2>6. Complete
    BY <2>1, <2>5 DEF CompleteInv
  <2>7. /\ \A q \in Request : ~Unread(q)
        /\ \A p \in Seq(Message) : ~PageRead(p)
    BY <2>4, UnderWay
  <2>8. \A x : Known(x) <=> x \in ToSet(view)
    BY <2>7 DEF Known, Coming
  <2>9. Missing(row) /\ ~NoticeToCome(row)
    BY <2>3, <2>8 DEF Missing, NoticeToCome, Quiet
  <2>10. Excused(row) => SharesAStamp(row)
    BY <2>8, <2>9 DEF Excused, Stamped, SharesAStamp
  <2>11. CASE view = <<>>
    <3>1. ToSet(view) = {}
      BY <2>11 DEF ToSet
    <3>2. Unmarked
      BY <2>7, <2>8, <3>1 DEF Unmarked, Mark
    <3>3. NothingAtAll
      BY <2>4, <2>6, <2>11, <3>2 DEF Complete
    <3> QED
      BY <2>9, <2>10, <3>3 DEF NothingAtAll
  <2>12. CASE view # <<>>
    <3> SUFFICES ASSUME NEW i \in DOMAIN view, ~(row.at < view[i].at) PROVE SharesAStamp(row)
      BY <2>12
    <3>1. PICK x \in ToSet(view) : x = view[i]
      BY DEF ToSet
    <3>2. x \in Message /\ x.at \in Int
      <4>1. view \in Seq(Message)
        BY <2>1 DEF Typed, TypedClient
      <4> QED
        BY <4>1, StampOf
    <3>3. CASE x.at = row.at
      BY <3>3 DEF SharesAStamp
    <3>4. CASE x.at < row.at
      <4>1. Mark(x.at)
        BY <2>8, <3>2 DEF Mark
      <4>2. NothingBelow
        BY <2>6 DEF Complete
      <4> QED
        BY <2>9, <2>10, <3>2, <3>4, <4>1, <4>2 DEF NothingBelow
    <3> QED
      BY <2>2, <3>1, <3>2, <3>3, <3>4
  <2> QED
    BY <2>11, <2>12
<1> QED
  BY <1>1, InitHistory, NextHistory, PTL DEF Spec

=============================================================================
