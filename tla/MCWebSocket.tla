----------------------------- MODULE MCWebSocket -----------------------------
(* Records in two pieces and more, and a buffer for two of them and a half. *)
EXTENDS WebSocket
=============================================================================
