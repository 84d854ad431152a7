----------------------------- MODULE MCAllocMan -----------------------------
(* A few blocks and a ring of less than the code's eight frames, up to the     *)
(* first step after which the code promises nothing.                          *)
EXTENDS AllocMan

Sane == health = "good"
=============================================================================
