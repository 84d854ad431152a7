--------------------------- MODULE LobbyRefinement ---------------------------
(***************************************************************************)
(* The threads of LobbyServer implement Lobby.  A nickname belongs to the  *)
(* owner of its entry in user_map, a session has left from the moment its  *)
(* thread flagged the entry, and it waits while USER_COUNT includes it.    *)
(***************************************************************************)
EXTENDS LobbyServer

Stage(c) == IF pc[c] \in NamedPcs THEN "inside"
            ELSE IF pc[c] \in {"close", "done"} THEN "left" ELSE "outside"

L == INSTANCE Lobby WITH
       open <- ~Stopped,
       holder <- [n \in Nick |-> user_map[n].owner],
       stage <- [c \in Conn |-> Stage(c)],
       room <- room,
       waiting <- {c \in Conn : Counted(c)},
       count <- USER_COUNT

\* Nicknames are exclusive, counts follow the sessions that wait, and a name is
\* given back after its session left and not before: the threads of
\* aocf_server.cpp do nothing the lobby's promise does not allow, and keep it.
LobbyPromise == L!LobbySpec

=============================================================================
