--------------------------- MODULE MCEventIdWindow ---------------------------
(* EventIdWindow on a small instance.                                       *)
EXTENDS EventIdWindow, TLC

Perms == Permutations(Ids)
=============================================================================
