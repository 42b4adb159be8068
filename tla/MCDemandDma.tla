---------------------------- MODULE MCDemandDma ----------------------------
(* Instances of DemandDma for TLC. *)
EXTENDS DemandDma
=============================================================================
