---------------------------- MODULE EventIdWindow ----------------------------
(***************************************************************************)
(* EventIdWindow (event_id_window.py): the bounded memory of eventIds that *)
(* drops the second copy of an event.  The ordered dictionary is a         *)
(* sequence of ids with the time each was first seen, oldest first.        *)
(* accept() and clear() each run under the lock, the clock is read inside  *)
(* it, so each is one step.                                                *)
(***************************************************************************)
EXTENDS Integers, Sequences

CONSTANTS
  Ids,          (* eventIds that can arrive.                               *)
  MaxEntries,   (* max_entries.                                            *)
  Window,       (* window_seconds, in units of the clock.                  *)
  MaxTime,      (* Bound on the clock.                                     *)
  MaxDelivered  (* Bound on the deliveries between two calls of clear().   *)

(* What __init__ accepts.                                                  *)
ASSUME WindowAssumption ==
  /\ MaxEntries \in Nat \ {0}
  /\ Window \in Nat \ {0}
  /\ MaxTime \in Nat
  /\ MaxDelivered \in Nat

VARIABLES
  seen,         (* _seen: the ids held, oldest first.                      *)
  now,          (* What _clock() answers.                                  *)
  delivered,    (* History: what was accepted since the last clear().      *)
  verdict       (* What the last accept() answered.                        *)

vars == <<seen, now, delivered, verdict>>

Sighting == [id : Ids, at : Nat]

-----------------------------------------------------------------------------
(* Bug: an id exactly window_seconds old is forgotten.                     *)
ExpiredPrefixEarly(n) ==
  /\ \A i \in 1..n : now - seen[i].at >= Window
  /\ n < Len(seen) => now - seen[n + 1].at < Window

(* Bug: nothing expires.                                                   *)
ExpiredPrefixNone(n) == n = 0

(* The first loop of accept(): the n oldest ids are out of the window, and *)
(* the loop stopped because the next one is not or none is left.           *)
ExpiredPrefix(n) ==
  /\ \A i \in 1..n : now - seen[i].at > Window
  /\ n < Len(seen) => now - seen[n + 1].at <= Window

Holds(s, id) == \E i \in DOMAIN s : s[i].id = id

(* Bug: no limit on the entries.                                           *)
TrimNothing(s) == s

(* Bug: one entry too few is kept.                                         *)
TrimTooMuch(s) ==
  IF Len(s) >= MaxEntries THEN SubSeq(s, Len(s) - MaxEntries + 2, Len(s)) ELSE s

(* The second loop: the oldest go first while more than MaxEntries remain. *)
Trim(s) ==
  IF Len(s) > MaxEntries THEN SubSeq(s, Len(s) - MaxEntries + 1, Len(s)) ELSE s

Record(kept, id) ==
  /\ Len(delivered) < MaxDelivered
  /\ seen' = Trim(Append(kept, [id |-> id, at |-> now]))
  /\ delivered' = Append(delivered, [id |-> id, at |-> now])
  /\ verdict' = TRUE

Refuse(kept) ==
  /\ seen' = kept
  /\ verdict' = FALSE
  /\ UNCHANGED delivered

Accept(id) ==
  /\ \E n \in 0..Len(seen) :
       /\ ExpiredPrefix(n)
       /\ LET kept == SubSeq(seen, n + 1, Len(seen))
          IN \/ ~ Holds(kept, id) /\ Record(kept, id)
             \/ Holds(kept, id) /\ Refuse(kept)
  /\ UNCHANGED now

Clear ==
  /\ seen' = <<>>
  /\ delivered' = <<>>
  /\ UNCHANGED <<now, verdict>>

Tick ==
  /\ now < MaxTime
  /\ now' = now + 1
  /\ UNCHANGED <<seen, delivered, verdict>>

Init ==
  /\ seen = <<>>
  /\ now = 0
  /\ delivered = <<>>
  /\ verdict = TRUE

Next == (\E id \in Ids : Accept(id)) \/ Clear \/ Tick

Spec == Init /\ [][Next]_vars

-----------------------------------------------------------------------------
(* Every variable holds a value of its type, and after every call at most  *)
(* MaxEntries ids are held, whatever arrived.                              *)
TypeOK ==
  /\ seen \in Seq(Sighting)
  /\ Len(seen) <= MaxEntries
  /\ now \in Nat
  /\ delivered \in Seq(Sighting)
  /\ verdict \in BOOLEAN

(* Time never runs backwards along the deliveries.                         *)
InOrder ==
  /\ \A i \in DOMAIN delivered : delivered[i].at <= now
  /\ \A i, j \in DOMAIN delivered : i <= j => delivered[i].at <= delivered[j].at

(* How many of the deliveries are no longer held.                          *)
Gone == Len(delivered) - Len(seen)

(* What is held is exactly the latest deliveries, and a delivery that is   *)
(* no longer held had left the window or had MaxEntries newer ones: the    *)
(* two loops of accept() never forget an id that still counts, even when   *)
(* expiry and the limit on entries act in the same call.                   *)
HoldsTheRecent ==
  /\ Len(seen) <= Len(delivered)
  /\ \A i \in DOMAIN seen : seen[i] = delivered[Gone + i]
  /\ \A i \in 1..Gone :
       \/ now - delivered[i].at > Window
       \/ Len(delivered) - i >= MaxEntries

(* No event is delivered twice: two deliveries of one eventId are more     *)
(* than Window apart, or more than MaxEntries deliveries apart ("Remembers *)
(* recent eventIds so that a second copy of an event is dropped").         *)
NeverTwice ==
  \A i, j \in DOMAIN delivered :
    i < j /\ delivered[i].id = delivered[j].id =>
      \/ delivered[j].at - delivered[i].at > Window
      \/ j - i > MaxEntries

(* accept() answers as EventDelivery does: it drops a copy exactly when    *)
(* one is remembered, so it neither delivers twice nor loses an event.     *)
Promise == INSTANCE EventDelivery
KeepsThePromise == Promise!Spec
=============================================================================
