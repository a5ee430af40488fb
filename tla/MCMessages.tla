----------------------------- MODULE MCMessages -----------------------------
(***************************************************************************)
(* TLC instance of Messages: a room with some history, of which two rows   *)
(* may share a stamp, and another room.  A behaviour is of one of two      *)
(* scenarios: a reader who joins the room and pages through it, or one who *)
(* moves between the rooms, which may be deleted, and does not scroll.     *)
(***************************************************************************)
EXTENDS Messages, TLC

CONSTANTS lobby, den, w1, f1, f2

Row(i, r, at) == [id |-> i, room |-> r, at |-> at]

Histories ==
    {{Row(1, lobby, 1), Row(2, lobby, 2), Row(3, lobby, third), Row(4, den, 1)} : third \in {2, 3}}

Symmetry == Permutations(Frame)

CONSTANT MaxRequests    \* bound: requests the user makes in a scenario
VARIABLES scenario, requests

MCInit ==
    /\ Init
    /\ scenario \in {"paging", "moving"}
    /\ requests = 0

MayAskIn(request) ==
    CASE scenario = "paging" ->
            request.op = "JoinRoom" => request.room = lobby /\ joined = None /\ ~Moving
      [] scenario = "moving" ->
            request.op = "GetMessages" => request.at = Latest

\* A room is deleted only while the reader moves about.
DeletingRoom == \E w \in Writer : writing'[w] # None /\ writing'[w].op = "deleteRoom"

MCNext ==
    /\ Next
    /\ DeletingRoom => scenario = "moving" /\ gone = {} /\ lastId = 4
    /\ Len(toServer') > Len(toServer) => MayAskIn(Last(toServer'))
    /\ requests' = IF Len(toServer') > Len(toServer) THEN requests + 1 ELSE requests
    /\ requests' <= MaxRequests[scenario]
    /\ UNCHANGED scenario

MCSpec == MCInit /\ [][MCNext]_<<vars, scenario, requests>>

Requests == [paging |-> 4, moving |-> 4]

=============================================================================
