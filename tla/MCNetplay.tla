------------------------------ MODULE MCNetplay ------------------------------
(* Both builds, packets of each kind the hooks tell apart, and two values of *)
(* each half of a timestamp.                                                 *)
EXTENDS Netplay
=============================================================================
