--------------------------- MODULE MessageChannel ---------------------------
(***************************************************************************)
(* What a game may expect of the messages of a WebSocket server: each one  *)
(* it is given was sent, none is given twice, and they come one at a time. *)
(* A broken channel may lose messages, but it never makes one up and never *)
(* becomes whole again.                                                    *)
(***************************************************************************)
EXTENDS Naturals

VARIABLES
  in,       \* messages sent, the answer to the upgrade included
  out,      \* messages given to the game
  broken    \* a message may have been lost

channelVars == <<in, out, broken>>

ChannelInit == in = 0 /\ out = 0 /\ broken = FALSE

Write == in' = in + 1 /\ UNCHANGED <<out, broken>>

Read == out < in /\ out' = out + 1 /\ UNCHANGED <<in, broken>>

Break == ~broken /\ broken' = TRUE /\ UNCHANGED <<in, out>>

ChannelSpec == ChannelInit /\ [][Write \/ Read \/ Break]_channelVars

=============================================================================
