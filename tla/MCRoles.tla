------------------------------- MODULE MCRoles -------------------------------
(***************************************************************************)
(* Who is registered for whom, and roles in one room.  A behaviour is of   *)
(* one of three scenarios, which shows in the accounts of its database:    *)
(*                                                                         *)
(*   names    log in and out and close, with first phases at any moment    *)
(*   anew     a hand-over, with first phases at any moment until one began *)
(*            anew over a session that was logged in                       *)
(*   contest  the owner and an administrator change roles at once;        *)
(*            they log in once, with nothing else asked                    *)
(***************************************************************************)
EXTENDS MCChatServer, ChatHistory

CONSTANTS
    dave,       \* an account of the second scenario that nobody uses
    MaxStrays   \* bounds the connections that stay registered for another user

NameRequests    == LogIn({alice, bob}) \cup {Plain("Logout")}
Admittance      == {For(op, lobby) : op \in {"JoinRoom", "BecomeMember"}}
AnewRequests    == LogIn({alice, bob}) \cup Admittance \cup {Assign(bob, lobby, OWNER)}
ContestRequests == LogIn({alice, carol}) \cup Admittance
                   \cup {Assign(u, lobby, OWNER) : u \in {alice, bob}}
                   \cup {Assign(alice, lobby, MODERATOR)}
RoleRequests    == NameRequests \cup AnewRequests \cup ContestRequests

MayAsk(c, r) ==
    CASE dave \in accounts  -> /\ r \in AnewRequests
                               /\ IsFirstPhase(r) => strays = {} \/ Patient(c)
      [] carol \in accounts -> /\ r \in ContestRequests
                               /\ IsFirstPhase(r) => Patient(c)
      [] OTHER              -> r \in NameRequests

ScenarioNext ==
    \/ \E c \in Conn : handleNewConnection(c)
    \/ \E t \in Task, c \in Conn :
          \/ dave \notin accounts /\ handleConnectionClosed(t, c)
          \/ \E r \in Request : MayAsk(c, r) /\ handleNewMessage(t, c, r)
    \/ \E t \in Task : Handle(t)

ScenarioSpec ==
    /\ Init /\ strays = {} /\ contested = {}
    /\ [][ScenarioNext /\ Remember /\ Cardinality(strays') <= MaxStrays]_hvars

=============================================================================
