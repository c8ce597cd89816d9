---------------------------- MODULE MCRedisCache ----------------------------
(* RedisCache for TLC.                                                     *)
EXTENDS RedisCache, TLC

Perms == Permutations(Clients) \cup Permutations(Users) \cup Permutations(Kinds)

(* A time of the call's own or the default, which may not be valid.        *)
SomeOwnTtls == {None, 60}
SomeDefaultTtls == {0, 300}
=============================================================================
