---------------------------- MODULE MCLifecycle ----------------------------
(* Instances of Lifecycle; the constants are given in the configuration.   *)
EXTENDS Lifecycle
=============================================================================
