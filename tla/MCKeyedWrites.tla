---------------------------- MODULE MCKeyedWrites ----------------------------
(* KeyedWrites on small instances.                                          *)
EXTENDS KeyedWrites, TLC

Perms == Permutations(Calls)

(* Writes whose calls may repeat one another: after a restart, or from     *)
(* another worker, with the same key of the caller. A revert_consumption   *)
(* with the caller's key goes beside a consumption with a key of its own,  *)
(* and one call at least has the caller's key.  Space has, or lacks,       *)
(* atomic-usage-limits where a call requires it, and lacks it elsewhere.   *)
KeyedInit ==
  /\ Init
  /\ \E c \in Calls : operation[c].explicit
  /\ AtomicUsageLimits \in space => \E c \in Calls : operation[c].requires # {}
  /\ \A c \in Calls :
       /\ operation[c].key \in CallerKeys \cup {c}
       /\ operation[c].requires # {} =>
            operation[c].explicit /\ \A other \in Calls \ {c} : ~ operation[other].explicit
KeyedSpec == KeyedInit /\ [][Next]_vars

(* A consumption, with Space about to learn of Idempotency-Keys.           *)
UpgradeInit ==
  /\ Init
  /\ \A c \in Calls : operation[c] = [key |-> c, explicit |-> FALSE, requires |-> {}]
  /\ IdempotencyKey \notin space
UpgradeSpec == UpgradeInit /\ [][Next]_vars
=============================================================================
