------------------------------ MODULE Messages ------------------------------
(***************************************************************************)
(* A server's messages and one reader's view of them.                      *)
(***************************************************************************)
EXTENDS MessageView

\* In the beginning, stamps and ids are not later than the sequence and the
\* clock start; and no stamp is ever as late as the latest.
ASSUME HistoryAssumption ==
    /\ MaxRows \in Nat /\ MaxRows < Latest
    /\ \A known \in Rows0 :
          /\ Cardinality(known) <= MaxRows
          /\ \A m \in known : m.id <= Cardinality(known) /\ m.at <= Cardinality(known)

vars == <<server, network, client>>

Init ==
    /\ table \in Rows0
    /\ gone = {} /\ closed = {}
    /\ lastId = Cardinality(table)
    /\ clock = Cardinality(table)
    /\ writing = [w \in Writer |-> None]
    /\ session = None /\ listed = None
    /\ frame = [f \in Frame |-> Free]
    /\ toServer = <<>> /\ toClient = <<>>
    /\ overtaken = {}
    /\ view = <<>>
    /\ loadingOlder = FALSE /\ loadingNewer = FALSE
    /\ shown = FALSE
    /\ joined = None
    /\ flaws = {}

Next == (ServerStep /\ UNCHANGED client) \/ ClientStep

Spec == Init /\ [][Next]_vars

-----------------------------------------------------------------------------
(***************************************************************************)
(* Unless a join is under way, the view shows messages of the room the     *)
(* reader joined last: no page and no notice of the room before comes      *)
(* after the answer to the join.                                           *)
(***************************************************************************)
OnlyThisRoomsMessages ==
    ~Moving => \A i \in DOMAIN view : view[i].room = joined

(***************************************************************************)
(* A load that is under way ends: the view waits for a page only while the *)
(* request or its answer is on its way, so scrolling is never dead.        *)
(***************************************************************************)
LoadingIsAnswered == loadingOlder \/ loadingNewer => PageOutstanding

\* The notice of row has yet to reach the reader.
NoticeToCome(row) ==
    \/ \E w \in Writer : writing[w] # None /\ writing[w].op = "send" /\ writing[w].row = row
    \/ \E i \in DOMAIN toClient :
          toClient[i].kind = "RoomMessage" /\ toClient[i].rows[1] = row

SharesAStamp(row) == \E m \in ToSet(view) \cup gone : m.at = row.at

(***************************************************************************)
(* Pages and live messages join up, unless a message came while a page was *)
(* awaited, out of the order of the stamps, or below a cut: the view is in *)
(* order, shows nothing twice, and leaves out nothing in between but rows  *)
(* that share a stamp with another row, where a page may have ended.       *)
(***************************************************************************)
PagesJoinUp ==
    flaws \cap {"order", "stale"} = {} =>
        /\ \A i, j \in DOMAIN view : i < j => view[i] # view[j] /\ view[i].at <= view[j].at
        /\ ~Moving /\ listed = joined =>
              \A row \in table \ ToSet(view) :
                  row.room = joined
                     /\ (\E i, j \in DOMAIN view : view[i].at < row.at /\ row.at < view[j].at)
                  => SharesAStamp(row) \/ NoticeToCome(row)

Quiet ==
    /\ toServer = <<>> /\ toClient = <<>>
    /\ \A f \in Frame : frame[f].stage = "free"
    /\ \A w \in Writer : writing[w] = None

(***************************************************************************)
(* When everything has been answered, the view reaches down to the last    *)
(* message of the room, also if it was sent while the reader was joining,  *)
(* unless the user scrolled the end away, or messages came in another      *)
(* order than that of their stamps.                                        *)
(***************************************************************************)
NothingIsMissed ==
    Quiet /\ listed = joined /\ flaws \cap {"cut", "stale", "late"} = {}
          /\ (view = <<>> => flaws \cap {"emptied", "refused"} = {}) =>
        \A row \in table \ ToSet(view) :
            row.room = joined =>
                \/ SharesAStamp(row)
                \/ view # <<>> /\ \A i \in DOMAIN view : row.at < view[i].at

(***************************************************************************)
(* When everything has been answered, a deleted message of the reader's    *)
(* room is shown no more, unless its deletion overtook a page or a notice  *)
(* that shows it, or came while it was shown twice.                        *)
(***************************************************************************)
DeletedStayAway ==
    Quiet /\ shown /\ listed = joined /\ joined \notin closed /\ "twice" \notin flaws =>
        ToSet(view) \subseteq table \cup overtaken

=============================================================================
