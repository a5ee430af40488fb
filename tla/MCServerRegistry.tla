-------------------------- MODULE MCServerRegistry --------------------------
(***************************************************************************)
(* TLC instance of ServerRegistry and ServerChoice: a host whose server is *)
(* started twice, another host with one server, a chat client, and another *)
(* one that chooses a server.                                              *)
(***************************************************************************)
EXTENDS ServerChoice

CONSTANTS s1, s2, other, client, h1, h2

MCHostOf == [c \in Conn |->
    CASE c \in {s1, s2} -> h1 [] c = other -> h2 [] c = client -> None]

=============================================================================
