------------------------------ MODULE MCP2PChat ------------------------------
(* One caller's calls to one host. *)
EXTENDS P2PChat
=============================================================================
