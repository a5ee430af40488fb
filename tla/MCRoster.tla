------------------------------- MODULE MCRoster ------------------------------
(***************************************************************************)
(* TLC instance of Roster: an owner and a second user, who in one scenario *)
(* has two connections, and a third who is a member and stays offline;     *)
(* changes of names and roles and typing are looked at apart.              *)
(***************************************************************************)
EXTENDS Roster

CONSTANTS c1, c2, c3, r1, r2

VARIABLES scenario

Users == (c1 :> 1) @@ (c2 :> 2) @@ (c3 :> 2)

\* What every connection may ask for, and how much in all.
Kinds ==
    [people  |-> (c1 :> {"join"}) @@ (c2 :> {"join"}) @@ (c3 :> {"join"}),
     leaving |-> (c1 :> {}) @@ (c2 :> {"logout"}) @@ (c3 :> {"join", "logout"}),
     titles  |-> (c1 :> {"role", "name"}) @@ (c2 :> {"join"}) @@ (c3 :> {}),
     typing  |-> (c1 :> {}) @@ (c2 :> {"join", "start", "stop"}) @@ (c3 :> {})]
Most  == [people |-> 3, leaving |-> 3, titles |-> 3, typing |-> 3]
Rooms == [people |-> {r1}, leaving |-> {r1}, titles |-> {r1}, typing |-> {r1, r2}]

\* Those who are in r1 in the beginning, and know it, and its members who are not.
Gathered == [people |-> {}, leaving |-> {c1, c2}, titles |-> {c1, c2}, typing |-> {c1, c2}]
Offline  == [people |-> {}, leaving |-> {}, titles |-> {3}, typing |-> {}]

MCInit ==
    /\ scenario \in DOMAIN Kinds
    /\ username = [u \in User |-> u]
    /\ LET inside == Gathered[scenario]
           users == {UserOf[c] : c \in inside}
           role(u) == IF u = FirstOwner THEN OWNER ELSE REGULAR
           entries(us) == SetToSeq({Entry(u, u, role(u)) : u \in us})
           panel(c) == NewPanel(Entry(UserOf[c], UserOf[c], REGULAR))
       IN  /\ members = [room \in Room |->
                  [u \in {FirstOwner} \cup (IF room = r1 THEN users \cup Offline[scenario] ELSE {}) |->
                      role(u)]]
           /\ session = [c \in Conn |-> [online |-> TRUE, name |-> UserOf[c],
                                         rights |-> IF c \in inside THEN role(UserOf[c]) ELSE REGULAR,
                                         room |-> IF c \in inside THEN r1 ELSE NoRoom]]
           /\ registry = [room \in Room |-> IF room = r1 THEN inside ELSE {}]
           /\ client = [c \in Conn |-> IF c \in inside
                  THEN ShowChat(panel(c), entries(users \cup Offline[scenario]), entries(users))
                  ELSE panel(c)]
    /\ handler = [c \in Conn |-> Idle]
    /\ outbox = [c \in Conn |-> <<>>] /\ inbox = [c \in Conn |-> <<>>]
    /\ requests = 0 /\ ghosts = {}
    /\ doubt = [c \in Conn |-> {}] /\ untold = [c \in Conn |-> {}]

MCNext ==
    /\ Next
    /\ \A c \in Conn : \A request \in ToSet(outbox'[c]) :
          /\ request[1] \in Kinds[scenario][c]
          /\ request[1] = "join" => request[2] \in Rooms[scenario]
    /\ requests' <= Most[scenario]
    /\ UNCHANGED scenario

MCSpec == MCInit /\ [][MCNext]_<<vars, scenario>>

=============================================================================
