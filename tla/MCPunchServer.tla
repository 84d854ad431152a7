---------------------------- MODULE MCPunchServer ----------------------------
(* PunchServer on small sets, for TLC. *)
EXTENDS PunchServer

=============================================================================
