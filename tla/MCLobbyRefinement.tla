-------------------------- MODULE MCLobbyRefinement --------------------------
(* LobbyRefinement on small sets, for TLC. *)
EXTENDS LobbyRefinement, TLC

=============================================================================
