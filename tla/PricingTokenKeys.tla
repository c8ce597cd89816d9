-------------------------- MODULE PricingTokenKeys --------------------------
(***************************************************************************)
(* PricingTokenVerifier and AsyncPricingTokenVerifier                      *)
(* (pricing_token_verifier.py): the cached JWKS of Space, its max-age, the *)
(* refetch for an unknown kid with its cooldown, and the lock that several *)
(* verifications share.  Keys are published and removed at Space at any    *)
(* time.  Of a token only the key it names and whether its signature and   *)
(* claims are in order are told apart.                                     *)
(***************************************************************************)
EXTENDS Integers

CONSTANTS
  Verifiers,    (* Threads or tasks that verify.                           *)
  Kids,         (* Key ids that tokens name and Space may publish.         *)
  None,
  Cooldown,     (* refetch_cooldown.                                       *)
  Timeout,      (* timeout: a fetch takes no longer.                       *)
  MaxAges,      (* What cache_max_age makes of the answers' headers.       *)
  MaxTime,      (* Bound on the clock.                                     *)
  MaxCalls,     (* Bound on the verifications.                             *)
  MaxClears     (* Bound on the calls of clear_cache().                    *)

ASSUME KeysAssumption ==
  /\ {Cooldown, Timeout, MaxTime, MaxCalls, MaxClears} \cup MaxAges \subseteq Nat
  /\ None \notin Verifiers
  /\ None \notin [keys : SUBSET Kids, expires : Int] \cup [keys : SUBSET Kids, age : MaxAges]

(* A time that has not come.                                               *)
Never == MaxTime + 1

VARIABLES
  threaded,     (* PricingTokenVerifier (TRUE) or the asynchronous one.    *)
  now,          (* The monotonic clock.                                    *)
  born,         (* When each key was published.                            *)
  died,         (* When each key was removed.                              *)
  keySet,       (* _key_set.                                               *)
  lastFetch,    (* _last_fetch.                                            *)
  failed,       (* Whether that fetch brought no key set.                  *)
  lock,         (* Who holds _lock.                                        *)
  pc,
  kid,          (* The key each verification's token names.                *)
  local,        (* The key_set of _key_set_for.                            *)
  readAt,       (* When the verification found the cached set in date.     *)
  flight,       (* What Space answered to the fetch.                       *)
  result,       (* How the last verification ended.                        *)
  calls,
  clears

clock == <<threaded, now, born, died>>
shared == <<keySet, lastFetch, failed, lock>>
private == <<pc, kid, local, readAt, flight, result>>
vars == <<clock, shared, private, calls, clears>>

Goto(v, place) == pc' = [pc EXCEPT ![v] = place]

Published == {k \in Kids : born[k] # Never /\ died[k] = Never}

(* The verification ends, and its local variables with it.                 *)
End(v, outcome) ==
  /\ Goto(v, "idle")
  /\ kid' = [kid EXCEPT ![v] = None]
  /\ local' = [local EXCEPT ![v] = None]
  /\ readAt' = [readAt EXCEPT ![v] = 0]
  /\ flight' = [flight EXCEPT ![v] = None]
  /\ result' = outcome

(* It leaves _key_set_for, and releases the lock.                          *)
Leave(v, outcome) == lock' = None /\ End(v, outcome)

NoResult == [kind |-> "none", kid |-> None, at |-> 0, failed |-> FALSE]

Raise(v, kind) == Leave(v, [NoResult EXCEPT !.kind = kind])

(* _decode raises if the signature or a claim is wrong.                    *)
Decode(v, valid, fail) ==
  \/ Leave(v, [kind |-> "accepted", kid |-> kid[v], at |-> valid, failed |-> fail])
  \/ Raise(v, "raised")

(* The key named by the token is taken from the set, or is unknown.  A key *)
(* is trusted on the strength of the set, found in date at time valid; it  *)
(* is unknown because no fetch was allowed at time at.                     *)
Hand(v, set, valid, at, fail) ==
  \/ /\ kid[v] \in set.keys
     /\ Decode(v, valid, fail)
  \/ /\ kid[v] \notin set.keys
     /\ Leave(v, [kind |-> "unknown", kid |-> kid[v], at |-> at, failed |-> fail])

-----------------------------------------------------------------------------
Begin(v, k) ==
  /\ pc[v] = "idle"
  /\ calls < MaxCalls
  /\ calls' = calls + 1
  /\ kid' = [kid EXCEPT ![v] = k]
  /\ Goto(v, "locking")
  /\ UNCHANGED <<clock, shared, local, readAt, flight, result, clears>>

(* _check_header: a token that is malformed or names no key.               *)
Reject(v) ==
  /\ pc[v] = "idle"
  /\ calls < MaxCalls
  /\ calls' = calls + 1
  /\ result' = [NoResult EXCEPT !.kind = "raised"]
  /\ UNCHANGED <<clock, shared, pc, kid, local, readAt, flight, clears>>

(* A bug: verifications do not wait for each other.                        *)
AcquireAnyway(v) ==
  /\ pc[v] = "locking"
  /\ lock' = v
  /\ Goto(v, "peeking")
  /\ UNCHANGED <<clock, keySet, lastFetch, failed, kid, local, readAt, flight, result,
                 calls, clears>>

Acquire(v) ==
  /\ pc[v] = "locking"
  /\ lock = None
  /\ lock' = v
  /\ Goto(v, "peeking")
  /\ UNCHANGED <<clock, keySet, lastFetch, failed, kid, local, readAt, flight, result,
                 calls, clears>>

(* _cached reads _key_set three times, and clear_cache() takes no lock.    *)
Peek(v) ==
  /\ pc[v] = "peeking"
  /\ Goto(v, IF keySet = None THEN "calling" ELSE "comparing")
  /\ UNCHANGED <<clock, shared, kid, local, readAt, flight, result, calls, clears>>

(* A bug: the age of the cached set does not matter.                       *)
InDateAlways == TRUE

InDate == now < keySet.expires

Compare(v) ==
  /\ pc[v] = "comparing"
  /\ IF keySet = None
     THEN Raise(v, "crashed")
     ELSE /\ Goto(v, IF InDate THEN "taking" ELSE "calling")
          /\ readAt' = [readAt EXCEPT ![v] = now]
          /\ UNCHANGED <<lock, kid, local, flight, result>>
  /\ UNCHANGED <<clock, keySet, lastFetch, failed, calls, clears>>

Take(v) ==
  /\ pc[v] = "taking"
  /\ local' = [local EXCEPT ![v] = keySet]
  /\ Goto(v, IF keySet = None THEN "calling" ELSE "deciding")
  /\ UNCHANGED <<clock, shared, kid, readAt, flight, result, calls, clears>>

(* A bug: a refetch is allowed only after twice the cooldown.              *)
MayRefetchLate == now - lastFetch >= 2 * Cooldown

(* A bug: a refetch is allowed at any time.                                *)
MayRefetchAlways == TRUE

MayRefetch == now - lastFetch >= Cooldown

Decide(v) ==
  /\ pc[v] = "deciding"
  /\ IF kid[v] \in local[v].keys \/ ~ MayRefetch
     THEN Hand(v, local[v], readAt[v], now, failed)
     ELSE Goto(v, "calling") /\ UNCHANGED <<lock, kid, local, readAt, flight, result>>
  /\ UNCHANGED <<clock, keySet, lastFetch, failed, calls, clears>>

(* _fetch: the request is sent, still under the lock.                      *)
Call(v) ==
  /\ pc[v] = "calling"
  /\ Goto(v, "fetching")
  /\ lastFetch' = now
  /\ failed' = TRUE
  /\ UNCHANGED <<clock, keySet, lock, kid, local, readAt, flight, result, calls, clears>>

(* Space answers with the keys it publishes at that moment.                *)
Serve(v) ==
  /\ pc[v] = "fetching"
  /\ flight[v] = None
  /\ \E age \in MaxAges :
       flight' = [flight EXCEPT ![v] = [keys |-> Published, age |-> age]]
  /\ UNCHANGED <<clock, shared, pc, kid, local, readAt, result, calls, clears>>

(* _key_set_from: the answer becomes the cached set, from now on.          *)
Receive(v) ==
  /\ pc[v] = "fetching"
  /\ flight[v] # None
  /\ LET set == [keys |-> flight[v].keys, expires |-> now + flight[v].age]
     IN keySet' = set /\ Hand(v, set, now, now, FALSE)
  /\ failed' = FALSE
  /\ UNCHANGED <<clock, lastFetch, calls, clears>>

(* A bug: the lock is released only when there is a key set to return.     *)
GiveUpHolding(v) ==
  /\ pc[v] = "fetching"
  /\ End(v, [NoResult EXCEPT !.kind = "raised"])
  /\ UNCHANGED <<clock, shared, calls, clears>>

(* No answer in time, one of a Space that publishes no keys, one without   *)
(* keys, or the task is cancelled: what was cached stays.                  *)
GiveUp(v) ==
  /\ pc[v] = "fetching"
  /\ Raise(v, "raised")
  /\ UNCHANGED <<clock, keySet, lastFetch, failed, calls, clears>>

-----------------------------------------------------------------------------
(* clear_cache(): at any time from another thread, between two awaits on   *)
(* an event loop.                                                          *)
ClearCache ==
  /\ clears < MaxClears
  /\ threaded \/ \A v \in Verifiers : pc[v] \notin {"comparing", "taking", "deciding", "calling"}
  /\ clears' = clears + 1
  /\ keySet' = None
  /\ UNCHANGED <<clock, lastFetch, failed, lock, private, calls>>

Publish(k) ==
  /\ born[k] = Never
  /\ born' = [born EXCEPT ![k] = now]
  /\ UNCHANGED <<threaded, now, died, shared, private, calls, clears>>

Remove(k) ==
  /\ k \in Published
  /\ died' = [died EXCEPT ![k] = now]
  /\ UNCHANGED <<threaded, now, born, shared, private, calls, clears>>

(* Time passes, but no fetch takes longer than its timeout.                *)
Tick ==
  /\ now < MaxTime
  /\ \A v \in Verifiers : pc[v] = "fetching" => now - lastFetch < Timeout
  /\ now' = now + 1
  /\ UNCHANGED <<threaded, born, died, shared, private, calls, clears>>

Init ==
  /\ threaded \in BOOLEAN
  /\ now = 0
  /\ born = [k \in Kids |-> Never]
  /\ died = [k \in Kids |-> Never]
  /\ keySet = None
  /\ lastFetch = - Cooldown
  /\ failed = FALSE
  /\ lock = None
  /\ pc = [v \in Verifiers |-> "idle"]
  /\ kid = [v \in Verifiers |-> None]
  /\ local = [v \in Verifiers |-> None]
  /\ readAt = [v \in Verifiers |-> 0]
  /\ flight = [v \in Verifiers |-> None]
  /\ result = NoResult
  /\ calls = 0
  /\ clears = 0

Step(v) ==
  \/ Acquire(v) \/ Peek(v) \/ Compare(v) \/ Take(v) \/ Decide(v)
  \/ Call(v) \/ Receive(v) \/ GiveUp(v)

Next ==
  \/ \E v \in Verifiers, k \in Kids : Begin(v, k)
  \/ \E v \in Verifiers : Reject(v) \/ Step(v) \/ Serve(v)
  \/ \E k \in Kids : Publish(k) \/ Remove(k)
  \/ ClearCache
  \/ Tick

(* A verification that can go on goes on; its fetch ends, if need be       *)
(* because httpx gives up.  Nothing is asked of Space.                     *)
Spec == Init /\ [][Next]_vars /\ \A v \in Verifiers : WF_vars(Step(v))

-----------------------------------------------------------------------------
Inside == {"peeking", "comparing", "taking", "deciding", "calling", "fetching"}

(* The variables have their types, and the lock is held by the one         *)
(* verification that is inside _key_set_for, if any.                       *)
TypeOK ==
  /\ threaded \in BOOLEAN
  /\ now \in 0 .. MaxTime
  /\ born \in [Kids -> 0 .. Never]
  /\ died \in [Kids -> 0 .. Never]
  /\ keySet # None => keySet.keys \subseteq Kids
  /\ lastFetch \in (- Cooldown) .. MaxTime
  /\ failed \in BOOLEAN
  /\ pc \in [Verifiers -> {"idle", "locking"} \cup Inside]
  /\ \A v \in Verifiers : (lock = v) <=> (pc[v] \in Inside)
  /\ kid \in [Verifiers -> Kids \cup {None}]
  /\ calls \in 0 .. MaxCalls
  /\ clears \in 0 .. MaxClears

(* A key that Space removed stops verifying: a verification that accepts   *)
(* it read the clock no later than the largest max-age and one fetch after *)
(* the removal, though the fetch that brought the key may have been on its *)
(* way when the key was removed.                                           *)
RemovedKeyStops ==
  result.kind = "accepted" =>
    \E age \in MaxAges : result.at - died[result.kid] <= age + Timeout

(* "Key rotations need nothing on your side": a token is refused for an    *)
(* unknown key only if Space does not publish it, has published it for     *)
(* less than the cooldown (or since the fetch), or could not be asked at   *)
(* the last attempt.                                                       *)
RotationNoticed ==
  result.kind = "unknown" =>
    \/ born[result.kid] > result.at - Cooldown
    \/ born[result.kid] >= result.at - Timeout
    \/ died[result.kid] <= result.at
    \/ result.failed

(* While the cached set is in date, a fetch starts only for an unknown kid *)
(* and no sooner than the cooldown after the one before, however many      *)
(* verifications meet unknown keys at once.                                *)
RefetchCoolsDown ==
  [][\A v \in Verifiers :
       /\ pc[v] = "calling" /\ pc'[v] = "fetching"
       /\ keySet # None /\ now < keySet.expires
       => now - lastFetch >= Cooldown /\ kid[v] \notin keySet.keys]_vars

(* Every verification ends, with a payload or an error: a failed fetch     *)
(* does not keep the others waiting.                                       *)
EveryVerificationEnds ==
  \A v \in Verifiers : pc[v] = "locking" ~> pc[v] = "idle"

(* What the verifier says: "It can be used from several threads" - a       *)
(* verification ends as documented, whoever calls clear_cache().           *)
OnlyDocumentedErrors == result.kind # "crashed"
=============================================================================
