-------------------------- MODULE AtMostOnceWrites --------------------------
(***************************************************************************)
(* What a caller of the client is promised about its writes, whatever is   *)
(* lost, delayed, retried or restarted on the way: Space applies each      *)
(* write at most once, and a call that succeeds was applied.  KeyedWrites  *)
(* implements it.                                                          *)
(***************************************************************************)
EXTENDS Naturals

CONSTANTS
  Calls,        (* Calls to the client.                                    *)
  Writes,       (* What they ask for: a call may repeat another one's.     *)
  Results       (* What a call can return or raise.                        *)

VARIABLES
  wanted,       (* The write each call asks for.                           *)
  applied,      (* How often Space applied each write.                     *)
  outcome       (* What each call returned or raised, "none" before.       *)

vars == <<wanted, applied, outcome>>

Apply(w) ==
  /\ applied[w] = 0
  /\ applied' = [applied EXCEPT ![w] = 1]
  /\ UNCHANGED <<wanted, outcome>>

Return(c, result) ==
  /\ outcome[c] = "none"
  /\ result = "ok" => applied[wanted[c]] = 1
  /\ outcome' = [outcome EXCEPT ![c] = result]
  /\ UNCHANGED <<wanted, applied>>

(* The process stops: some calls never return.                             *)
Crash(lost) ==
  /\ \A c \in lost : outcome[c] = "none"
  /\ outcome' = [c \in Calls |-> IF c \in lost THEN "crashed" ELSE outcome[c]]
  /\ UNCHANGED <<wanted, applied>>

Init ==
  /\ wanted \in [Calls -> Writes]
  /\ applied = [w \in Writes |-> 0]
  /\ outcome = [c \in Calls |-> "none"]

Next ==
  \/ \E w \in Writes : Apply(w)
  \/ \E c \in Calls, result \in Results : Return(c, result)
  \/ \E lost \in SUBSET Calls : Crash(lost)

Spec == Init /\ [][Next]_vars
=============================================================================
