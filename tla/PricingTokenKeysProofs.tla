----------------------- MODULE PricingTokenKeysProofs -----------------------
(***************************************************************************)
(* Theorems about PricingTokenKeys, for all verifiers, keys, cooldowns,    *)
(* timeouts, max-ages and bounds: how long a removed key is trusted and a  *)
(* published one unknown, and when fetches start.                          *)
(***************************************************************************)
EXTENDS PricingTokenKeys, TLAPS

LEMMA Numbers ==
  /\ Cooldown \in Nat /\ Timeout \in Nat /\ MaxTime \in Nat
  /\ MaxCalls \in Nat /\ MaxClears \in Nat /\ MaxAges \subseteq Nat
BY KeysAssumption

(* The absence of a verifier, a key set or an answer is none of them.      *)
LEMMA Absent ==
  /\ None \notin Verifiers
  /\ None \notin [keys : SUBSET Kids, expires : Int]
  /\ None \notin [keys : SUBSET Kids, age : MaxAges]
BY KeysAssumption

USE Numbers, Absent

KeySets == [keys : SUBSET Kids, expires : Int]
Answers == [keys : SUBSET Kids, age : MaxAges]

Types ==
  /\ TypeOK
  /\ keySet \in KeySets \cup {None}
  /\ lock \in Verifiers \cup {None}
  /\ local \in [Verifiers -> KeySets \cup {None}]
  /\ readAt \in [Verifiers -> 0 .. MaxTime]
  /\ flight \in [Verifiers -> Answers \cup {None}]

(* Times that have passed.                                                 *)
Passed ==
  /\ lastFetch <= now
  /\ \A k \in Kids : died[k] = Never \/ died[k] <= now
  /\ \A v \in Verifiers : readAt[v] <= now

(* No key of a set outlives its removal by more than a max-age and a       *)
(* fetch.                                                                  *)
Sound(set) ==
  \E age \in MaxAges :
    /\ set.expires <= now + age
    /\ \A k \in set.keys : set.expires <= died[k] + age + Timeout

(* The keys that the last fetch did not bring were published since, or had *)
(* been removed.                                                           *)
Complete(keys) == \A k \in Kids \ keys : born[k] >= lastFetch \/ died[k] <= now

(* What holds of the cached set.                                           *)
CacheInv == keySet # None => Sound(keySet) /\ (failed \/ Complete(keySet.keys))

(* What holds of the verification that is inside _key_set_for.             *)
Inv(v) ==
  /\ pc[v] # "idle" => kid[v] \in Kids
  /\ pc[v] = "taking" /\ keySet # None => readAt[v] < keySet.expires
  /\ pc[v] = "deciding" =>
       /\ local[v] # None /\ Sound(local[v]) /\ readAt[v] < local[v].expires
       /\ failed \/ Complete(local[v].keys)
       /\ keySet # None => local[v] = keySet
  /\ pc[v] = "calling" /\ keySet # None =>
       now >= keySet.expires \/ (now - lastFetch >= Cooldown /\ kid[v] \notin keySet.keys)
  /\ pc[v] = "fetching" => now - lastFetch <= Timeout
  /\ pc[v] # "fetching" => flight[v] = None
  /\ flight[v] # None =>
       (\A k \in flight[v].keys : died[k] >= lastFetch) /\ Complete(flight[v].keys)

ResultInv ==
  /\ result.kind \in {"accepted", "unknown"} => result.kid \in Kids /\ result.at \in 0 .. now
  /\ RemovedKeyStops
  /\ RotationNoticed

IInv == Types /\ Passed /\ CacheInv /\ ResultInv /\ \A v \in Verifiers : Inv(v)

-----------------------------------------------------------------------------
(* No two verifications are inside.                                        *)
LEMMA Alone ==
  ASSUME Types, NEW v \in Verifiers, NEW w \in Verifiers, pc[v] \in Inside, pc[w] \in Inside
  PROVE  v = w
BY DEF Types, TypeOK

(* Nothing is asked of a verification outside.                             *)
LEMMA Outside ==
  ASSUME NEW w \in Verifiers, pc'[w] \notin Inside, flight'[w] = None,
         pc'[w] # "idle" => kid'[w] \in Kids
  PROVE  Inv(w)'
BY DEF Inv, Inside

LEMMA OthersOutside ==
  ASSUME IInv, NEW v \in Verifiers, pc[v] \in Inside,
         \A w \in Verifiers \ {v} : pc'[w] = pc[w] /\ flight'[w] = flight[w] /\ kid'[w] = kid[w]
  PROVE  \A w \in Verifiers \ {v} : Inv(w)'
<1> SUFFICES ASSUME NEW w \in Verifiers \ {v} PROVE Inv(w)'
  OBVIOUS
<1>1. pc[w] \notin Inside
  BY Alone DEF IInv
<1>2. flight[w] = None
  BY <1>1 DEF IInv, Inv, Inside
<1>3. pc[w] # "idle" => kid[w] \in Kids
  BY DEF IInv, Inv
<1> QED  BY <1>1, <1>2, <1>3, Outside

(* The result says what it said.                                           *)
LEMMA SameResult ==
  ASSUME ResultInv, UNCHANGED <<now, born, died, result>>
  PROVE  ResultInv'
BY DEF ResultInv, RemovedKeyStops, RotationNoticed

(* A verification that leaves leaves nobody inside.                        *)
LEMMA LeaveInv ==
  ASSUME IInv, NEW v \in Verifiers, pc[v] \in Inside, NEW outcome, Leave(v, outcome),
         UNCHANGED <<clock, calls, clears, lastFetch>>,
         failed' \in BOOLEAN, keySet' \in KeySets \cup {None}, CacheInv', ResultInv'
  PROVE  IInv'
<1> USE DEF IInv, Leave, End, Goto, clock
<1>1. Types'
  <2>1. \A w \in Verifiers : (lock' = w) <=> (pc'[w] \in Inside)
    <3> SUFFICES ASSUME NEW w \in Verifiers PROVE (lock' = w) <=> (pc'[w] \in Inside)
      OBVIOUS
    <3>1. CASE w = v
      BY <3>1 DEF Types, TypeOK, Inside
    <3>2. CASE w # v
      BY <3>2, Alone DEF Types, TypeOK, Inside
    <3> QED  BY <3>1, <3>2
  <2>2. pc' \in [Verifiers -> {"idle", "locking"} \cup Inside] /\ kid' \in [Verifiers -> Kids \cup {None}]
    BY DEF Types, TypeOK
  <2>3. keySet' # None => keySet'.keys \subseteq Kids
    BY DEF KeySets
  <2>4. TypeOK'
    BY <2>1, <2>2, <2>3 DEF Types, TypeOK
  <2>5. /\ local' \in [Verifiers -> KeySets \cup {None}]
        /\ readAt' \in [Verifiers -> 0 .. MaxTime]
        /\ flight' \in [Verifiers -> Answers \cup {None}]
    BY DEF Types
  <2> QED  BY <2>4, <2>5 DEF Types
<1>2. Passed'
  BY DEF Passed, Types, TypeOK
<1>3. \A w \in Verifiers :
        pc'[w] \notin Inside /\ flight'[w] = None /\ (pc'[w] # "idle" => kid'[w] \in Kids)
  <2> SUFFICES ASSUME NEW w \in Verifiers
               PROVE  /\ pc'[w] \notin Inside /\ flight'[w] = None
                      /\ pc'[w] # "idle" => kid'[w] \in Kids
    OBVIOUS
  <2>1. CASE w = v
    BY <2>1 DEF Types, TypeOK, Inside
  <2>2. CASE w # v
    <3>1. pc[w] \notin Inside
      BY <2>2, Alone
    <3> QED  BY <2>2, <3>1 DEF Types, TypeOK, Inv, Inside
  <2> QED  BY <2>1, <2>2
<1>4. \A w \in Verifiers : Inv(w)'
  BY <1>3, Outside
<1> QED  BY <1>1, <1>2, <1>4

(* A verification that raises says nothing of a key.                       *)
LEMMA RaiseInv ==
  ASSUME IInv, NEW v \in Verifiers, pc[v] \in Inside, NEW kind \in {"raised", "crashed"},
         Raise(v, kind), UNCHANGED <<clock, calls, clears, keySet, lastFetch, failed>>
  PROVE  IInv'
<1>1. result'.kind = kind
  BY DEF Raise, Leave, End, NoResult
<1>2. ResultInv'
  BY <1>1 DEF ResultInv, RemovedKeyStops, RotationNoticed
<1>3. CacheInv' /\ failed' \in BOOLEAN /\ keySet' \in KeySets \cup {None}
  BY DEF IInv, CacheInv, Sound, Complete, clock, Types, TypeOK, Never
<1> QED  BY <1>2, <1>3, LeaveInv DEF Raise

(* What is handed out of a set that is sound and complete is justified.    *)
LEMMA HandInv ==
  ASSUME IInv, NEW v \in Verifiers, pc[v] \in Inside, kid[v] \in Kids,
         NEW set \in KeySets, NEW valid \in 0 .. now, NEW fail \in BOOLEAN,
         Hand(v, set, valid, now, fail),
         \A k \in set.keys : \E age \in MaxAges : valid - died[k] <= age + Timeout,
         fail \/ Complete(set.keys),
         lastFetch > now - Cooldown \/ lastFetch >= now - Timeout \/ kid[v] \in set.keys,
         UNCHANGED <<clock, calls, clears, lastFetch>>,
         failed' \in BOOLEAN, keySet' \in KeySets \cup {None}, CacheInv'
  PROVE  IInv'
<1> now \in Int /\ lastFetch \in Int /\ born[kid[v]] \in Int
  BY DEF IInv, Types, TypeOK, Never
<1>1. CASE kid[v] \in set.keys /\ Leave(v, [kind |-> "accepted", kid |-> kid[v], at |-> valid, failed |-> fail])
  <2>1. ResultInv'
    BY <1>1 DEF ResultInv, RemovedKeyStops, RotationNoticed, Leave, End, clock
  <2> QED  BY <1>1, <2>1, LeaveInv
<1>2. CASE Raise(v, "raised")
  <2>1. result'.kind = "raised"
    BY <1>2 DEF Raise, Leave, End, NoResult
  <2>2. ResultInv'
    BY <2>1 DEF ResultInv, RemovedKeyStops, RotationNoticed
  <2> QED  BY <1>2, <2>2, LeaveInv DEF Raise
<1>3. CASE kid[v] \notin set.keys /\ Leave(v, [kind |-> "unknown", kid |-> kid[v], at |-> now, failed |-> fail])
  <2>1. fail \/ born[kid[v]] > now - Cooldown \/ born[kid[v]] >= now - Timeout \/ died[kid[v]] <= now
    BY <1>3 DEF Complete, KeysAssumption
  <2>2. ResultInv'
    BY <1>3, <2>1 DEF ResultInv, RemovedKeyStops, RotationNoticed, Leave, End, clock
  <2> QED  BY <1>3, <2>2, LeaveInv
<1> QED  BY <1>1, <1>2, <1>3 DEF Hand, Decode

-----------------------------------------------------------------------------
LEMMA InitInv == Init => IInv
<1> SUFFICES ASSUME Init PROVE IInv
  OBVIOUS
<1> USE DEF Init
<1>1. Types
  <2>1. born \in [Kids -> 0 .. Never] /\ died \in [Kids -> 0 .. Never]
    BY DEF Never
  <2>2. now \in 0 .. MaxTime /\ lastFetch \in (- Cooldown) .. MaxTime
    BY Numbers
  <2>3. \A v \in Verifiers : (lock = v) <=> (pc[v] \in Inside)
    BY DEF Inside
  <2>4. /\ pc \in [Verifiers -> {"idle", "locking"} \cup Inside]
        /\ kid \in [Verifiers -> Kids \cup {None}]
    OBVIOUS
  <2>5. calls \in 0 .. MaxCalls /\ clears \in 0 .. MaxClears
    BY Numbers
  <2>6. TypeOK
    BY <2>1, <2>2, <2>3, <2>4, <2>5 DEF TypeOK
  <2>7. readAt \in [Verifiers -> 0 .. MaxTime]
    BY Numbers
  <2> QED  BY <2>6, <2>7 DEF Types
<1>2. Passed /\ CacheInv /\ ResultInv
  BY DEF Passed, CacheInv, ResultInv, RemovedKeyStops, RotationNoticed, NoResult
<1>3. \A v \in Verifiers : Inv(v)
  BY DEF Inv
<1> QED  BY <1>1, <1>2, <1>3 DEF IInv

(* Steps that move one verification and leave the cached set, the clock    *)
(* and the result as they are.                                             *)
LEMMA MoveInv ==
  ASSUME IInv, NEW v \in Verifiers, pc[v] \in Inside, NEW place \in Inside, Goto(v, place),
         UNCHANGED <<clock, keySet, lock, kid, result, calls, clears>>,
         lastFetch' \in (- Cooldown) .. now, failed' \in BOOLEAN,
         failed' \/ (failed' = failed /\ lastFetch' = lastFetch),
         local' \in [Verifiers -> KeySets \cup {None}],
         readAt' \in [Verifiers -> 0 .. now],
         flight' \in [Verifiers -> Answers \cup {None}],
         \A w \in Verifiers \ {v} : flight'[w] = flight[w],
         Inv(v)'
  PROVE  IInv'
<1> USE DEF IInv, Goto, clock
<1>1. Types'
  <2>1. \A w \in Verifiers : (lock' = w) <=> (pc'[w] \in Inside)
    BY DEF Types, TypeOK
  <2>2. pc' \in [Verifiers -> {"idle", "locking"} \cup Inside]
    BY DEF Types, TypeOK
  <2>3. TypeOK'
    BY <2>1, <2>2 DEF Types, TypeOK
  <2> QED  BY <2>3 DEF Types, TypeOK
<1>2. Passed'
  <2>1. lastFetch' <= now'
    BY DEF Types, TypeOK
  <2>2. \A k \in Kids : died'[k] = Never' \/ died'[k] <= now'
    BY DEF Passed, Never
  <2>3. ASSUME NEW w \in Verifiers PROVE readAt'[w] <= now'
    <3>1. now' = now /\ readAt'[w] \in 0 .. now
      OBVIOUS
    <3>2. now \in Int
      BY DEF Types, TypeOK
    <3> QED  BY <3>1, <3>2
  <2> QED  BY <2>1, <2>2, <2>3 DEF Passed, Never
<1>3. CacheInv'
  BY DEF CacheInv, Sound, Complete, Never
<1>4. ResultInv'
  BY SameResult
<1>5. \A w \in Verifiers \ {v} : Inv(w)'
  BY OthersOutside DEF Types, TypeOK
<1> QED  BY <1>1, <1>2, <1>3, <1>4, <1>5

LEMMA BeginInv ==
  ASSUME IInv, NEW v \in Verifiers, NEW k \in Kids, Begin(v, k)
  PROVE  IInv'
<1> USE DEF IInv, Begin, Goto, clock, shared
<1>1. Types'
  <2>1. \A w \in Verifiers : (lock' = w) <=> (pc'[w] \in Inside)
    BY DEF Types, TypeOK, Inside
  <2>2. /\ pc' \in [Verifiers -> {"idle", "locking"} \cup Inside]
        /\ kid' \in [Verifiers -> Kids \cup {None}]
        /\ calls' \in 0 .. MaxCalls
    BY DEF Types, TypeOK
  <2> QED  BY <2>1, <2>2 DEF Types, TypeOK
<1>2. Passed' /\ CacheInv'
  BY DEF Passed, CacheInv, Sound, Complete, Never
<1>3. ResultInv'
  BY SameResult
<1>4. \A w \in Verifiers : Inv(w)'
  <2> SUFFICES ASSUME NEW w \in Verifiers PROVE Inv(w)'
    OBVIOUS
  <2>1. CASE w = v
    BY <2>1, Outside DEF Types, TypeOK, Inv, Inside
  <2>2. CASE w # v
    BY <2>2 DEF Inv, Types, TypeOK, Sound, Complete, Never
  <2> QED  BY <2>1, <2>2
<1> QED  BY <1>1, <1>2, <1>3, <1>4

LEMMA RejectInv ==
  ASSUME IInv, NEW v \in Verifiers, Reject(v)
  PROVE  IInv'
<1> USE DEF IInv, Reject, clock, shared
<1>1. Types'
  BY DEF Types, TypeOK, Never
<1>2. Passed' /\ CacheInv'
  BY DEF Passed, CacheInv, Sound, Complete, Never
<1>3. ResultInv'
  BY DEF ResultInv, RemovedKeyStops, RotationNoticed, NoResult
<1>4. \A w \in Verifiers : Inv(w)'
  BY DEF Inv, Sound, Complete, Never
<1> QED  BY <1>1, <1>2, <1>3, <1>4

LEMMA AcquireInv ==
  ASSUME IInv, NEW v \in Verifiers, Acquire(v)
  PROVE  IInv'
<1> USE DEF IInv, Acquire, Goto, clock
<1>1. Types'
  <2>1. \A w \in Verifiers : (lock' = w) <=> (pc'[w] \in Inside)
    BY DEF Types, TypeOK, Inside
  <2>2. pc' \in [Verifiers -> {"idle", "locking"} \cup Inside]
    BY DEF Types, TypeOK, Inside
  <2> QED  BY <2>1, <2>2 DEF Types, TypeOK
<1>2. Passed' /\ CacheInv'
  BY DEF Passed, CacheInv, Sound, Complete, Never
<1>3. ResultInv'
  BY SameResult
<1>4. \A w \in Verifiers : Inv(w)'
  <2> SUFFICES ASSUME NEW w \in Verifiers PROVE Inv(w)'
    OBVIOUS
  <2>1. CASE w = v
    BY <2>1 DEF Inv, Types, TypeOK
  <2>2. CASE w # v
    BY <2>2 DEF Inv, Types, TypeOK, Sound, Complete, Never
  <2> QED  BY <2>1, <2>2
<1> QED  BY <1>1, <1>2, <1>3, <1>4

LEMMA PeekInv ==
  ASSUME IInv, NEW v \in Verifiers, Peek(v)
  PROVE  IInv'
<1> DEFINE place == IF keySet = None THEN "calling" ELSE "comparing"
<1>1. pc[v] \in Inside /\ place \in Inside /\ Goto(v, place)
  BY DEF Peek, Inside
<1>2. Inv(v)'
  BY DEF Inv, IInv, Types, TypeOK, Peek, Goto, shared
<1> HIDE DEF place
<1> QED  BY <1>1, <1>2, MoveInv DEF IInv, Types, TypeOK, Passed, Peek, shared

LEMMA CompareInv ==
  ASSUME IInv, NEW v \in Verifiers, Compare(v)
  PROVE  IInv'
<1>1. pc[v] \in Inside
  BY DEF Compare, Inside
<1>2. CASE keySet = None
  BY <1>1, <1>2, RaiseInv DEF Compare
<1>3. CASE keySet # None
  <2> DEFINE place == IF InDate THEN "taking" ELSE "calling"
  <2>1. place \in Inside /\ Goto(v, place)
    BY <1>3 DEF Compare, Inside
  <2>2. Inv(v)'
    BY <1>3 DEF Inv, IInv, Types, TypeOK, Compare, Goto, InDate, clock, KeySets
  <2>3. readAt' \in [Verifiers -> 0 .. now]
    BY <1>3 DEF Compare, IInv, Types, TypeOK, Passed
  <2> HIDE DEF place
  <2> QED  BY <1>1, <1>3, <2>1, <2>2, <2>3, MoveInv DEF IInv, Types, TypeOK, Passed, Compare
<1> QED  BY <1>2, <1>3

LEMMA TakeInv ==
  ASSUME IInv, NEW v \in Verifiers, Take(v)
  PROVE  IInv'
<1> DEFINE place == IF keySet = None THEN "calling" ELSE "deciding"
<1>1. pc[v] \in Inside /\ place \in Inside /\ Goto(v, place)
  BY DEF Take, Inside
<1>2. Inv(v)'
  <2>1. CASE keySet = None
    BY <2>1 DEF Inv, IInv, Types, TypeOK, Take, Goto, shared
  <2>2. CASE keySet # None
    BY <2>2 DEF Inv, IInv, Types, TypeOK, Take, Goto, shared, clock, CacheInv, Sound, Complete
  <2> QED  BY <2>1, <2>2
<1>3. local' \in [Verifiers -> KeySets \cup {None}]
  BY DEF IInv, Types, Take
<1> HIDE DEF place
<1> QED  BY <1>1, <1>2, <1>3, MoveInv DEF IInv, Types, TypeOK, Passed, Take, shared

LEMMA DecideInv ==
  ASSUME IInv, NEW v \in Verifiers, Decide(v)
  PROVE  IInv'
<1>1. pc[v] \in Inside /\ kid[v] \in Kids /\ local[v] \in KeySets /\ readAt[v] \in 0 .. now
  BY DEF Decide, Inside, IInv, Inv, Types, TypeOK, Passed
<1>2. CASE kid[v] \in local[v].keys \/ ~ MayRefetch
  <2>1. Hand(v, local[v], readAt[v], now, failed)
    BY <1>2 DEF Decide
  <2>2. \A k \in local[v].keys : \E age \in MaxAges : readAt[v] - died[k] <= age + Timeout
    <3>1. Sound(local[v]) /\ readAt[v] < local[v].expires
      BY DEF Decide, IInv, Inv
    <3>2. PICK age \in MaxAges : \A k \in local[v].keys : local[v].expires <= died[k] + age + Timeout
      BY <3>1 DEF Sound
    <3>3. \A k \in local[v].keys : died[k] \in Int
      BY <1>1 DEF IInv, Types, TypeOK, KeySets, Never
    <3>4. local[v].expires \in Int
      BY <1>1 DEF KeySets
    <3>5. \A k \in local[v].keys : readAt[v] - died[k] <= age + Timeout
      BY <1>1, <3>1, <3>2, <3>3, <3>4 DEF IInv, Types, TypeOK
    <3> QED  BY <3>5
  <2>3. failed \/ Complete(local[v].keys)
    BY DEF Decide, IInv, Inv
  <2>4. lastFetch > now - Cooldown \/ kid[v] \in local[v].keys
    BY <1>2 DEF MayRefetch, IInv, Types, TypeOK
  <2>5. CacheInv'
    BY DEF Decide, IInv, CacheInv, Sound, Complete, clock
  <2>6. /\ UNCHANGED <<clock, calls, clears, lastFetch>>
        /\ failed \in BOOLEAN /\ failed' \in BOOLEAN /\ keySet' \in KeySets \cup {None}
    BY DEF Decide, IInv, Types, TypeOK
  <2> QED  BY <1>1, <2>1, <2>2, <2>3, <2>4, <2>5, <2>6, HandInv
<1>3. CASE ~ (kid[v] \in local[v].keys \/ ~ MayRefetch)
  <2>1. "calling" \in Inside /\ Goto(v, "calling")
    BY <1>3 DEF Decide, Inside
  <2>2. Inv(v)'
    BY <1>3 DEF Inv, IInv, Types, TypeOK, Decide, Goto, MayRefetch, clock
  <2> QED  BY <1>1, <1>3, <2>1, <2>2, MoveInv DEF IInv, Types, TypeOK, Passed, Decide
<1> QED  BY <1>2, <1>3

LEMMA CallInv ==
  ASSUME IInv, NEW v \in Verifiers, Call(v)
  PROVE  IInv'
<1>1. pc[v] \in Inside /\ "fetching" \in Inside /\ Goto(v, "fetching")
  BY DEF Call, Inside
<1>2. Inv(v)'
  BY DEF Inv, IInv, Types, TypeOK, Call, Goto, clock
<1>3. lastFetch' \in (- Cooldown) .. now
  BY DEF Call, IInv, Types, TypeOK
<1> QED  BY <1>1, <1>2, <1>3, MoveInv DEF IInv, Types, TypeOK, Passed, Call

LEMMA ServeInv ==
  ASSUME IInv, NEW v \in Verifiers, Serve(v)
  PROVE  IInv'
<1>1. pc[v] \in Inside /\ "fetching" \in Inside /\ Goto(v, "fetching")
  BY DEF Serve, Inside, Goto, IInv, Types, TypeOK
<1>2. PICK age \in MaxAges : flight' = [flight EXCEPT ![v] = [keys |-> Published, age |-> age]]
  BY DEF Serve
<1>3. [keys |-> Published, age |-> age] \in Answers
  BY DEF Published, Answers
<1>4. flight' \in [Verifiers -> Answers \cup {None}]
  BY <1>2, <1>3 DEF IInv, Types
<1>5. \A k \in Published : died[k] >= lastFetch
  BY DEF Published, IInv, Types, TypeOK, Never
<1>6. Complete(Published)
  <2> SUFFICES ASSUME NEW k \in Kids \ Published PROVE born[k] >= lastFetch \/ died[k] <= now
    BY DEF Complete
  <2>1. CASE born[k] = Never
    BY <2>1 DEF IInv, Types, TypeOK, Never
  <2>2. CASE died[k] # Never
    BY <2>2 DEF IInv, Passed
  <2> QED  BY <2>1, <2>2 DEF Published
<1>7. flight'[v].keys = Published
  BY <1>2 DEF IInv, Types
<1>8. (\A k \in flight'[v].keys : died'[k] >= lastFetch') /\ Complete(flight[v].keys)'
  BY <1>5, <1>6, <1>7 DEF Complete, Serve, clock, shared
<1>9. Inv(v)'
  BY <1>8 DEF Inv, IInv, Serve, clock, shared
<1> QED  BY <1>1, <1>2, <1>4, <1>9, MoveInv DEF IInv, Types, TypeOK, Passed, Serve, shared

LEMMA ReceiveInv ==
  ASSUME IInv, NEW v \in Verifiers, Receive(v)
  PROVE  IInv'
<1>1. /\ pc[v] \in Inside /\ kid[v] \in Kids /\ flight[v] \in Answers
      /\ now \in 0 .. MaxTime /\ lastFetch \in Int /\ now - lastFetch <= Timeout
  BY DEF Receive, Inside, IInv, Inv, Types, TypeOK
<1>2. PICK age \in MaxAges : age = flight[v].age
  BY <1>1 DEF Answers
<1>3. PICK set \in KeySets : set = [keys |-> flight[v].keys, expires |-> now + flight[v].age]
  <2>1. flight[v].keys \subseteq Kids
    BY <1>1 DEF Answers
  <2>2. now + flight[v].age \in Int
    BY <1>1, <1>2
  <2> QED  BY <2>1, <2>2 DEF KeySets
<1>4. set.keys = flight[v].keys /\ set.expires = now + age
  BY <1>2, <1>3
<1>5. keySet' = set /\ Hand(v, set, now, now, FALSE) /\ failed' = FALSE
  BY <1>3 DEF Receive
<1>6. /\ \A k \in set.keys : died[k] >= lastFetch
      /\ Complete(set.keys)
  BY <1>4 DEF Receive, IInv, Inv
<1>7. \A k \in set.keys : set.expires <= died[k] + age + Timeout /\ now - died[k] <= age + Timeout
  <2> SUFFICES ASSUME NEW k \in set.keys
               PROVE  set.expires <= died[k] + age + Timeout /\ now - died[k] <= age + Timeout
    OBVIOUS
  <2>1. k \in Kids
    BY DEF KeySets
  <2>2. died[k] \in Int /\ died[k] >= lastFetch
    BY <1>6, <2>1 DEF IInv, Types, TypeOK, Never
  <2>3. age \in Nat /\ Timeout \in Nat /\ now \in Int
    BY <1>1
  <2> QED  BY <1>1, <1>4, <2>2, <2>3
<1>8. CacheInv'
  <2>1. Sound(set)'
    BY <1>1, <1>4, <1>7 DEF Sound, Receive, clock
  <2>2. Complete(set.keys)'
    BY <1>6 DEF Complete, Receive, clock
  <2> QED  BY <1>5, <2>1, <2>2 DEF CacheInv
<1>9. /\ UNCHANGED <<clock, calls, clears, lastFetch>>
      /\ failed' \in BOOLEAN /\ keySet' \in KeySets \cup {None}
  BY <1>5 DEF Receive
<1>10. lastFetch >= now - Timeout /\ now \in 0 .. now
  BY <1>1
<1>11. \A k \in set.keys : \E a \in MaxAges : now - died[k] <= a + Timeout
  BY <1>7
<1> QED  BY <1>1, <1>5, <1>6, <1>8, <1>9, <1>11, <1>10, HandInv

LEMMA GiveUpInv ==
  ASSUME IInv, NEW v \in Verifiers, GiveUp(v)
  PROVE  IInv'
<1>1. pc[v] \in Inside
  BY DEF GiveUp, Inside
<1> QED  BY <1>1, RaiseInv DEF GiveUp

LEMMA ClearCacheInv ==
  ASSUME IInv, ClearCache
  PROVE  IInv'
<1> USE DEF IInv, ClearCache, clock, private
<1>1. Types'
  BY DEF Types, TypeOK, Never
<1>2. Passed' /\ CacheInv'
  BY DEF Passed, CacheInv, Never
<1>3. ResultInv'
  BY SameResult
<1>4. \A w \in Verifiers : Inv(w)'
  BY DEF Inv, Sound, Complete
<1> QED  BY <1>1, <1>2, <1>3, <1>4

LEMMA PublishInv ==
  ASSUME IInv, NEW k \in Kids, Publish(k)
  PROVE  IInv'
<1> USE DEF IInv, Publish, shared, private
<1>1. Types' /\ Passed'
  <2>1. born' \in [Kids -> 0 .. Never]
    BY DEF Types, TypeOK, Never
  <2> QED  BY <2>1 DEF Types, TypeOK, Passed, Never
<1>2. \A j \in Kids : born'[j] = born[j] \/ born'[j] = now
  BY DEF Types, TypeOK
<1>3. \A keys : Complete(keys) => Complete(keys)'
  BY <1>2 DEF Complete, Passed, Types, TypeOK
<1>4. CacheInv'
  BY <1>3 DEF CacheInv, Sound
<1>5. ResultInv'
  BY <1>2 DEF ResultInv, RemovedKeyStops, RotationNoticed, Types, TypeOK
<1>6. \A w \in Verifiers : Inv(w)'
  BY <1>3 DEF Inv, Sound
<1> QED  BY <1>1, <1>4, <1>5, <1>6

LEMMA RemoveInv ==
  ASSUME IInv, NEW k \in Kids, Remove(k)
  PROVE  IInv'
<1> USE DEF IInv, Remove, shared, private
<1>1. Types' /\ Passed'
  <2>1. died' \in [Kids -> 0 .. Never]
    BY DEF Types, TypeOK, Never
  <2>2. \A j \in Kids : died'[j] = died[j] \/ died'[j] = now
    BY DEF Types, TypeOK
  <2> QED  BY <2>1, <2>2 DEF Types, TypeOK, Passed, Never
<1>2. \A j \in Kids : died'[j] = died[j] \/ (died[j] = Never /\ died'[j] = now)
  BY DEF Published, Types, TypeOK
<1>3. \A keys : Complete(keys) => Complete(keys)'
  BY <1>2 DEF Complete, Types, TypeOK
<1>4. \A set \in KeySets : Sound(set) => Sound(set)'
  <2> SUFFICES ASSUME NEW set \in KeySets, Sound(set) PROVE Sound(set)'
    OBVIOUS
  <2>1. PICK age \in MaxAges : /\ set.expires <= now + age
                               /\ \A j \in set.keys : set.expires <= died[j] + age + Timeout
    BY DEF Sound
  <2>2. set.keys \subseteq Kids /\ set.expires \in Int /\ now \in Int
    BY DEF KeySets, Types, TypeOK
  <2>3. \A j \in set.keys : set.expires <= died'[j] + age + Timeout
    BY <1>2, <2>1, <2>2
  <2> QED  BY <2>1, <2>3 DEF Sound
<1>5. CacheInv'
  BY <1>3, <1>4 DEF CacheInv, Types
<1>6. ResultInv'
  <2>1. RemovedKeyStops'
    <3> SUFFICES ASSUME result.kind = "accepted"
                 PROVE  \E age \in MaxAges : result.at - died'[result.kid] <= age + Timeout
      BY DEF RemovedKeyStops
    <3>1. result.kid \in Kids /\ result.at \in 0 .. now
      BY DEF ResultInv
    <3>2. PICK age \in MaxAges : result.at - died[result.kid] <= age + Timeout
      BY DEF ResultInv, RemovedKeyStops
    <3>3. now \in Int /\ age \in Nat
      BY DEF Types, TypeOK
    <3>4. result.at - now <= age + Timeout
      BY <3>1, <3>3
    <3> QED  BY <1>2, <3>1, <3>2, <3>4
  <2>2. RotationNoticed'
    BY <1>2 DEF ResultInv, RotationNoticed, Types, TypeOK, Never
  <2> QED  BY <2>1, <2>2 DEF ResultInv
<1>7. \A w \in Verifiers : Inv(w)'
  <2> SUFFICES ASSUME NEW w \in Verifiers PROVE Inv(w)'
    OBVIOUS
  <2>1. flight[w] # None => \A j \in flight[w].keys : died'[j] >= lastFetch
    BY <1>2 DEF Inv, Types, TypeOK, Passed, Answers
  <2> QED  BY <1>3, <1>4, <2>1 DEF Inv, Types
<1> QED  BY <1>1, <1>5, <1>6, <1>7

LEMMA TickInv ==
  ASSUME IInv, Tick
  PROVE  IInv'
<1> USE DEF IInv, Tick, shared, private
<1>1. Types' /\ Passed'
  BY DEF Types, TypeOK, Passed, Never
<1>2. \A keys : Complete(keys) => Complete(keys)'
  BY DEF Complete, Types, TypeOK, Never
<1>3. \A set \in KeySets : Sound(set) => Sound(set)'
  BY DEF Sound, Types, TypeOK, KeySets
<1>4. CacheInv'
  BY <1>2, <1>3 DEF CacheInv, Types
<1>5. ResultInv'
  BY DEF ResultInv, RemovedKeyStops, RotationNoticed, Types, TypeOK
<1>6. \A w \in Verifiers : Inv(w)'
  <2> SUFFICES ASSUME NEW w \in Verifiers PROVE Inv(w)'
    OBVIOUS
  <2>1. pc[w] = "fetching" => now' - lastFetch <= Timeout
    BY DEF Types, TypeOK
  <2>2. pc[w] = "calling" /\ keySet # None =>
          now' >= keySet.expires \/ (now' - lastFetch >= Cooldown /\ kid[w] \notin keySet.keys)
    BY DEF Inv, Types, TypeOK, KeySets
  <2> QED  BY <1>2, <1>3, <2>1, <2>2 DEF Inv, Types
<1> QED  BY <1>1, <1>4, <1>5, <1>6

(* Nothing happens.                                                        *)
LEMMA StutterInv == ASSUME IInv, UNCHANGED vars PROVE IInv'
BY DEF IInv, Types, TypeOK, Passed, CacheInv, ResultInv, RemovedKeyStops, RotationNoticed,
       Inv, Sound, Complete, vars, clock, shared, private

LEMMA StepInv == IInv /\ [Next]_vars => IInv'
<1> SUFFICES ASSUME IInv, [Next]_vars PROVE IInv'
  OBVIOUS
<1>1. ASSUME NEW v \in Verifiers, Step(v) PROVE IInv'
  BY <1>1, AcquireInv, PeekInv, CompareInv, TakeInv, DecideInv, CallInv, ReceiveInv,
     GiveUpInv DEF Step
<1>2. CASE \E v \in Verifiers, k \in Kids : Begin(v, k)
  BY <1>2, BeginInv
<1>3. CASE \E v \in Verifiers : Reject(v) \/ Step(v) \/ Serve(v)
  BY <1>1, <1>3, RejectInv, ServeInv
<1>4. CASE \E k \in Kids : Publish(k) \/ Remove(k)
  BY <1>4, PublishInv, RemoveInv
<1> QED  BY <1>2, <1>3, <1>4, ClearCacheInv, TickInv, StutterInv DEF Next

LEMMA Invariance == Spec => []IInv
BY InitInv, StepInv, PTL DEF Spec

-----------------------------------------------------------------------------
(* The lock is held by the one verification that is inside _key_set_for,   *)
(* however many wait for it.                                               *)
THEOREM OneFetchAtATime == Spec => []TypeOK
<1>1. IInv => TypeOK
  BY DEF IInv, Types
<1> QED  BY <1>1, Invariance, PTL

(* No verification accepts a key on a clock reading later than the largest *)
(* max-age and one fetch after Space removed it.                           *)
THEOREM RemovedKeysStop == Spec => []RemovedKeyStops
<1>1. IInv => RemovedKeyStops
  BY DEF IInv, ResultInv
<1> QED  BY <1>1, Invariance, PTL

(* A key is refused as unknown only if it was published within a cooldown  *)
(* or during the fetch, is not published, or the last attempt to fetch     *)
(* failed.                                                                 *)
THEOREM RotationsAreNoticed == Spec => []RotationNoticed
<1>1. IInv => RotationNoticed
  BY DEF IInv, ResultInv
<1> QED  BY <1>1, Invariance, PTL

(* However many verifications meet unknown keys, a cached set in date is   *)
(* fetched again no sooner than the cooldown after the fetch before.       *)
THEOREM RefetchesCoolDown == Spec => RefetchCoolsDown
<1> DEFINE A(v) == /\ pc[v] = "calling" /\ pc'[v] = "fetching"
                   /\ keySet # None /\ now < keySet.expires
                   => now - lastFetch >= Cooldown /\ kid[v] \notin keySet.keys
<1>1. IInv /\ [Next]_vars => [\A v \in Verifiers : A(v)]_vars
  <2> SUFFICES ASSUME IInv, NEW v \in Verifiers PROVE A(v)
    OBVIOUS
  <2> QED  BY DEF IInv, Inv, Types, TypeOK, KeySets
<1> QED  BY <1>1, Invariance, PTL DEF Spec, RefetchCoolsDown
=============================================================================
