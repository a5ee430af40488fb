------------------------------- MODULE MCTables ------------------------------
(***************************************************************************)
(* Two connections at a time, in the scenarios of accounts or in those of  *)
(* rooms: the tables of the two have no column in common.                  *)
(***************************************************************************)
EXTENDS Accounts, Lobby, TLC

CONSTANTS a1, a2

VARIABLES scenario

\* What each connection may do, who is logged in, and the first account's salt.
May == [arriving |-> (a1 :> {"InitialAuth", "InitialRegister"}) @@ (a2 :> {"InitialAuth", "InitialRegister"}),
        settled  |-> (a1 :> {"ChangeUsername", "GetMySalt"}) @@ (a2 :> {"ChangeUsername", "GetMySalt"}),
        meeting  |-> (a1 :> {"InitialAuth", "ChangeUsername", "GetMySalt"}) @@ (a2 :> {"InitialAuth"})]
LoggedIn == IF scenario = "settled" THEN {a1, a2} ELSE {}
Account1 == LET salt == IF scenario = "settled" THEN 0 ELSE NULL
            IN  [username |-> "ann", hash_password |-> hash_password("old", salt), salt |-> salt]

AccountsInit ==
    /\ users = <<Account1>>
    /\ login = [c \in Line |-> IF c \in LoggedIn
           THEN [status |-> "Authenticated", id |-> 1, name |-> "ann", listed |-> TRUE]
           ELSE [status |-> "Unauthenticated", id |-> 0, name |-> "", listed |-> FALSE]]
    /\ InitAccounts

AccountsNext ==
    /\ NextAccounts
    /\ \A c \in Line : \A task \in ToSet(tasks'[c]) :
          task.op \in May[scenario][c] \cup {"Auth", "Register", "ChangePassword"}
    /\ UNCHANGED <<lobbyVars, scenario>>

-----------------------------------------------------------------------------
\* The first connection's user owns the hall.  The users of both, what they
\* may ask for, and who has the hall open.
User == [owners |-> (a1 :> 1) @@ (a2 :> 1), guests |-> (a1 :> 1) @@ (a2 :> 2), latecomer |-> (a1 :> 1) @@ (a2 :> 2)]
Asks == [owners    |-> (a1 :> {"RenameRoom", "AssignRole", "DeleteRoom"}) @@ (a2 :> {"RenameRoom", "AssignRole"}),
         guests    |-> (a1 :> {"CreateRoom", "RenameRoom", "DeleteRoom"}) @@ (a2 :> {"JoinRoom"}),
         latecomer |-> (a1 :> {"CreateRoom", "RenameRoom", "DeleteRoom"}) @@ (a2 :> {})]
Names == [owners |-> RoomName, guests |-> {"den"}, latecomer |-> {"den"}]
InHall == IF scenario = "owners" THEN {a1, a2} ELSE IF scenario \in DOMAIN User THEN {a1} ELSE {}
Hall == Item(1, "hall")

LobbyInit ==
    /\ db = [rooms |-> (1 :> [room_name |-> "hall", owner_id |-> 1]), serial |-> 1,
             membership |-> (<<1, 1>> :> [membership_status |-> "JOINED"]),
             roles |-> IF scenario = "owners" THEN (<<1, 1>> :> [is_moderator |-> FALSE]) ELSE <<>>]
    /\ visit = [v \in Visitor |->
           [user |-> IF scenario \in DOMAIN User THEN User[scenario][v] ELSE 1,
            listed |-> v \in InHall \/ scenario = "guests",
            room |-> IF v \in InHall THEN 1 ELSE 0, owner |-> v \in InHall]]
    /\ lobby = [v \in Visitor |->
           IF v \in InHall THEN ShowChat(Select(UpdateRoomList(NewLobby(1), <<Hall>>, <<>>), "mine", 1))
           ELSE IF scenario = "guests" THEN ShowRooms(UpdateRoomList(NewLobby(2), <<>>, <<Hall>>))
           ELSE NewLobby(0)]
    /\ chores = [v \in Visitor |-> IF scenario = "latecomer" /\ v = a2 THEN <<Chore("Auth")>> ELSE <<>>]
    /\ InitLobby

LobbyNext ==
    /\ NextLobby
    /\ \A v \in Visitor :
          /\ errands' # errands /\ chores'[v] # chores[v] =>
                /\ Last(chores'[v]).op \in Asks[scenario][v]
                /\ Last(chores'[v]).op \in {"CreateRoom", "RenameRoom"} => Last(chores'[v]).name \in Names[scenario]
          /\ chores' = chores /\ notices' = notices /\ lobby'[v] # lobby[v] => "JoinRoom" \in Asks[scenario][v]
    /\ scenario = "latecomer" => errands' < MaxErrands
    /\ UNCHANGED <<accountVars, scenario>>

-----------------------------------------------------------------------------
MCInit == scenario \in DOMAIN May \cup DOMAIN User /\ AccountsInit /\ LobbyInit
MCNext == \/ scenario \in DOMAIN May /\ AccountsNext
          \/ scenario \in DOMAIN User /\ LobbyNext
MCSpec == MCInit /\ [][MCNext]_<<accountVars, lobbyVars, scenario>>

=============================================================================
