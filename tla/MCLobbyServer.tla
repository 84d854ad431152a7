---------------------------- MODULE MCLobbyServer ----------------------------
(* LobbyServer on small sets, for TLC. *)
EXTENDS LobbyServer, TLC

\* Connections, nicknames and rooms are interchangeable; used by runs that
\* check safety only.
Symmetry == Permutations(Conn \ Slow) \union Permutations(Nick) \union Permutations(Room)

=============================================================================
