----------------------------- MODULE MCSessions -----------------------------
(***************************************************************************)
(* The sessions of connections and their rooms.  The two share no request  *)
(* but log in and log out: a behaviour has the requests of one of them.    *)
(* Which one shows in the database: in that of the rooms carol has an      *)
(* account, which nobody uses.                                             *)
(***************************************************************************)
EXTENDS MCChatServer

AnyRequest == AccountRequests \cup RoomRequests

ScenarioRequests == IF carol \in accounts THEN RoomRequests ELSE AccountRequests

ScenarioNext ==
    \/ \E c \in Conn : handleNewConnection(c)
    \/ \E t \in Task, c \in Conn :
          \/ handleConnectionClosed(t, c)
          \/ \E r \in ScenarioRequests : handleNewMessage(t, c, r)
    \/ \E t \in Task : Handle(t)

ScenarioSpec == Init /\ [][ScenarioNext]_vars

=============================================================================
