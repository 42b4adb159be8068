---------------------------- MODULE MCLinkState ----------------------------
(* Instances of LinkState for TLC. *)
EXTENDS LinkState
=============================================================================
