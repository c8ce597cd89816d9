--------------------------- MODULE MCEventSocket ---------------------------
(* EventSocket for TLC: the bounds are in the configurations.              *)
EXTENDS EventSocket
=============================================================================
