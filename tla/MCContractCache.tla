--------------------------- MODULE MCContractCache ---------------------------
(* ContractCache on small instances.                                       *)
EXTENDS ContractCache, TLC

CONSTANTS u1, u2, u3, f1, f2, f3, t1, t2, t3, h1, h2, h3

Perms ==
  Permutations({u1, u2}) \cup Permutations({f1, f2}) \cup Permutations({t1, t2})
    \cup Permutations({h1, h2})

(* Two threads, one user: what is stored by the one and invalidated by the *)
(* other, while the contract changes twice and the socket drops.           *)
Threads == Setting(TRUE, {u3}, {}, {t1, t2}, {h3}, {"read", "replace"})

(* The same while one of them may consume.                                 *)
Spenders == Setting(TRUE, {u3}, {f3}, {t1, t2}, {h3}, {"read", "replace", "spend"})

(* Two socket handlers at a time, connect handlers among them, and the     *)
(* socket drops before the first of them has ended.                        *)
Overlaps == Setting(TRUE, {u3}, {f3}, {t3}, {h1, h2}, {"read"})

(* One task of an event loop, two users and two features: every kind of    *)
(* call.                                                                   *)
Loop ==
  Setting(FALSE, {u1, u2}, {f1, f2}, {t3}, {h3}, {"read", "replace", "remove", "conflict", "spend"})

ThreadsAndLoop ==
  [threads |-> Threads, spenders |-> Spenders, overlaps |-> Overlaps, loop |-> Loop]
SmallBounds == [threads |-> [calls |-> 2, terms |-> 2, drops |-> 1],
                spenders |-> [calls |-> 2, terms |-> 1, drops |-> 0],
                overlaps |-> [calls |-> 2, terms |-> 1, drops |-> 1],
                loop |-> [calls |-> 3, terms |-> 1, drops |-> 0]]
=============================================================================
