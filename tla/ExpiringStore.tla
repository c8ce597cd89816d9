--------------------------- MODULE ExpiringStore ---------------------------
(***************************************************************************)
(* What a cache provider promises (cache_provider.py): a value is read as  *)
(* it was last stored, or not at all, and what is lost is not found again. *)
(* The provider may lose any value at any time.                            *)
(***************************************************************************)
CONSTANTS Keys, Values, None

VARIABLES
  held,         (* What each key holds, None for nothing.                  *)
  answer        (* What the last get returned.                             *)

vars == <<held, answer>>

Init == held = [k \in Keys |-> None] /\ answer = None

Get(k) == answer' = held[k] /\ UNCHANGED held

(* The value is lost by the time it is read.                               *)
GetNothing(k) == answer' = None /\ held' = [held EXCEPT ![k] = None]

Set(k, v) == held' = [held EXCEPT ![k] = v] /\ UNCHANGED answer

Lose(lost) ==
  /\ held' = [k \in Keys |-> IF k \in lost THEN None ELSE held[k]]
  /\ UNCHANGED answer

Next ==
  \/ \E k \in Keys : Get(k) \/ GetNothing(k) \/ \E v \in Values : Set(k, v)
  \/ \E lost \in SUBSET Keys : Lose(lost)

Spec == Init /\ [][Next]_vars
=============================================================================
