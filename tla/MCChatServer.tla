---------------------------- MODULE MCChatServer ----------------------------
(***************************************************************************)
(* TLC instances of ChatServer.  The requests a run enables are chosen per *)
(* run; every request is open to every connection.                         *)
(***************************************************************************)
EXTENDS ChatServer, TLC

CONSTANTS c1, c2, t1, t2, t3, alice, bob, carol, lobby, den

Plain(op)       == [op |-> op, room |-> None, user |-> None, role |-> REGULAR]
For(op, r)      == [op |-> op, room |-> r, user |-> None, role |-> REGULAR]
As(op, u)       == [op |-> op, room |-> None, user |-> u, role |-> REGULAR]
Assign(u, r, k) == [op |-> "AssignRole", room |-> r, user |-> u, role |-> k]

LogIn(users) == {As("AuthInitial", u) : u \in users} \cup {Plain("Auth")}

\* Connections and frames are interchangeable.
Symmetry == Permutations(Task) \cup Permutations(Conn)

\* Who a session is: log in, registration, log out.
AccountRequests ==
    LogIn({alice, bob}) \cup {As("RegisterInitial", bob)}
    \cup {Plain(op) : op \in {"Register", "Logout"}}

\* Rooms that come and go, for two sessions of one user.
RoomRequests ==
    LogIn({alice})
    \cup {Plain(op) : op \in {"Logout", "CreateRoom", "LeaveRoom"}}
    \cup {For("JoinRoom", r) : r \in {lobby, den}} \cup {For("DeleteRoom", den)}

\* A burst over one connection, in a room its owner has to become a member of.
BurstRequests ==
    LogIn({alice})
    \cup {For("BecomeMember", lobby), For("JoinRoom", lobby), Plain("Logout"), Plain("SendMessage"),
          Assign(bob, lobby, MODERATOR), Assign(bob, lobby, OWNER)}

\* What the documentation says about closing and logging out.
LogoutRequests == LogIn({alice}) \cup {For("JoinRoom", lobby), Plain("Logout")}

\* A client that logs in only when it is logged out and waits for nothing.
IsFirstPhase(r) == r.op \in {"AuthInitial", "Auth"}
Patient(c)      == ~Authenticated(c) /\ \A t \in Task : conn[t] # c

PatientNext ==
    \/ \E c \in Conn : handleNewConnection(c)
    \/ \E t \in Task, c \in Conn :
          \/ handleConnectionClosed(t, c)
          \/ \E r \in Request : (IsFirstPhase(r) => Patient(c)) /\ handleNewMessage(t, c, r)
    \/ \E t \in Task : Handle(t)

PatientSpec == Init /\ [][PatientNext]_vars

AliceOwnsLobby == [r \in {lobby} |-> alice]

=============================================================================
