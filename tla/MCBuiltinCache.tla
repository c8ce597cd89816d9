--------------------------- MODULE MCBuiltinCache ---------------------------
(* BuiltinCache for TLC.                                                   *)
EXTENDS BuiltinCache, TLC

Perms == Permutations(Threads) \cup Permutations(Keys) \cup Permutations(Values)

(* Never, and sooner or later.                                             *)
ThreeTtls == {0, 1, 2}
=============================================================================
