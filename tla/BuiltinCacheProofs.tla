------------------------- MODULE BuiltinCacheProofs -------------------------
(***************************************************************************)
(* Theorems about BuiltinCache, for all threads, keys, values, times to    *)
(* live and bounds: an entry once missing stays missing whatever the wall  *)
(* clock does, and the provider keeps the promise of ExpiringStore.        *)
(***************************************************************************)
EXTENDS BuiltinCache, TLAPS

USE CacheAssumption

(* Purging keeps the types, and only removes.                              *)
LEMMA PurgedType ==
  ASSUME TypeOK, NEW keys \in SUBSET Keys
  PROVE  /\ Purged(keys) \in [Keys -> Entry \cup {None}]
         /\ \A k \in Keys : entries[k] = None => Purged(keys)[k] = None
         /\ \A k \in keys : ~ Live(k) => Purged(keys)[k] = None
BY DEF TypeOK, Purged

-----------------------------------------------------------------------------
(* The variables keep their types: an entry is stamped with a time of the  *)
(* clock.                                                                  *)
THEOREM Typed == Spec => []TypeOK
<1>1. Init => TypeOK
  BY DEF Init, TypeOK
<1>2. TypeOK /\ [Next]_vars => TypeOK'
  <2> SUFFICES ASSUME TypeOK, [Next]_vars PROVE TypeOK'
    OBVIOUS
  <2> USE DEF TypeOK
  <2>1. ASSUME NEW t \in Threads, Enter(t) PROVE TypeOK'
    BY <2>1 DEF Enter
  <2>2. ASSUME NEW t \in Threads, Hold(t) PROVE TypeOK'
    BY <2>2 DEF Hold
  <2>3. ASSUME NEW t \in Threads, Clear(t) PROVE TypeOK'
    BY <2>3 DEF Clear, Locked
  <2>4. ASSUME NEW t \in Threads, NEW k \in Keys, Get(t, k) PROVE TypeOK'
    <3>1. Purged({k}) \in [Keys -> Entry \cup {None}]
      BY PurgedType
    <3>2. Live(k) => entries[k].value \in Values
      BY DEF Live, Entry
    <3> QED  BY <2>4, <3>1, <3>2 DEF Get, Locked
  <2>5. ASSUME NEW t \in Threads, NEW k \in Keys, Delete(t, k) PROVE TypeOK'
    BY <2>5 DEF Delete, Locked
  <2>6. ASSUME NEW t \in Threads, NEW k \in Keys, Has(t, k) PROVE TypeOK'
    BY <2>6, PurgedType DEF Has, Locked
  <2>7. ASSUME NEW t \in Threads, NEW k \in Keys, NEW v \in Values, NEW ttl \in Ttls,
               Set(t, k, v, ttl)
        PROVE  TypeOK'
    BY <2>7 DEF Set, Locked, Entry
  <2>8. ASSUME NEW t \in Threads, NEW matching \in SUBSET Keys, ListKeys(t, matching)
        PROVE  TypeOK'
    BY <2>8, PurgedType DEF ListKeys, Locked
  <2>9. CASE Close
    BY <2>9 DEF Close, CloseProvider, DropProvider, Disable
  <2>10. CASE Tick
    BY <2>10 DEF Tick
  <2>11. CASE SetBack
    BY <2>11 DEF SetBack
  <2>12. CASE UNCHANGED vars
    BY <2>12 DEF vars
  <2> QED
    BY <2>1, <2>2, <2>3, <2>4, <2>5, <2>6, <2>7, <2>8, <2>9, <2>10, <2>11, <2>12
    DEF Next, Operation
<1> QED  BY <1>1, <1>2, PTL DEF Spec

(* An entry found missing or expired stays missing until it is set again,  *)
(* although is_expired() could deny it once the wall clock is set back:    *)
(* whoever finds it missing has removed it.                                *)
THEOREM MissingStaysMissing == Spec => []GoneStaysGone
<1>1. Init => GoneStaysGone
  BY DEF Init, GoneStaysGone
<1>2. TypeOK /\ GoneStaysGone /\ [Next]_vars => GoneStaysGone'
  <2> SUFFICES ASSUME TypeOK, GoneStaysGone, [Next]_vars PROVE GoneStaysGone'
    OBVIOUS
  <2> USE DEF TypeOK, GoneStaysGone
  <2>1. ASSUME NEW t \in Threads, NEW k \in Keys, Get(t, k) \/ Has(t, k)
        PROVE  GoneStaysGone'
    <3>1. entries' = Purged({k}) /\ gone' \subseteq gone \cup {k} /\ (k \in gone' => k \in gone \/ ~ Live(k))
      BY <2>1 DEF Get, Has
    <3>2. ~ Live(k) => Purged({k})[k] = None
      BY PurgedType
    <3>3. \A j \in gone : Purged({k})[j] = None
      BY PurgedType
    <3> QED  BY <3>1, <3>2, <3>3
  <2>2. ASSUME NEW t \in Threads, NEW matching \in SUBSET Keys, ListKeys(t, matching)
        PROVE  GoneStaysGone'
    <3>1. entries' = Purged(Keys) /\ gone' = gone \cup {k \in matching : ~ Live(k)}
      BY <2>2 DEF ListKeys
    <3>2. \A k \in gone' : Purged(Keys)[k] = None
      BY <3>1, PurgedType
    <3> QED  BY <3>1, <3>2
  <2>3. ASSUME NEW t \in Threads, NEW k \in Keys, NEW v \in Values, NEW ttl \in Ttls,
               Set(t, k, v, ttl)
        PROVE  GoneStaysGone'
    BY <2>3 DEF Set
  <2>4. ASSUME NEW t \in Threads, NEW k \in Keys, Delete(t, k) PROVE GoneStaysGone'
    BY <2>4 DEF Delete
  <2>5. ASSUME NEW t \in Threads, Enter(t) \/ Hold(t) \/ Clear(t) PROVE GoneStaysGone'
    BY <2>5 DEF Enter, Hold, Clear
  <2>6. CASE Close \/ Tick \/ SetBack \/ UNCHANGED vars
    BY <2>6 DEF Close, CloseProvider, DropProvider, Disable, Tick, SetBack, vars
  <2> QED  BY <2>1, <2>2, <2>3, <2>4, <2>5, <2>6 DEF Next, Operation
<1> QED  BY <1>1, <1>2, Typed, PTL DEF Spec

-----------------------------------------------------------------------------
(* Every built-in provider keeps the promise of every cache provider: it   *)
(* returns what was last stored or nothing, and what it did not find it    *)
(* does not find again, whatever the wall clock does and though it may be  *)
(* closed at any time.                                                     *)
THEOREM ImplementsStore == Spec => KeepsTheStore
<1> DEFINE held == [k \in Keys |-> IF entries[k] = None THEN None ELSE entries[k].value]
<1>1. Init => Store!Init
  BY DEF Init, Store!Init
<1>2. TypeOK /\ [Next]_vars => [Store!Next]_(Store!vars)
  <2> SUFFICES ASSUME TypeOK, [Next]_vars PROVE Store!Next \/ UNCHANGED <<held, answer>>
    BY DEF Store!vars
  <2>1. ASSUME NEW t \in Threads, NEW k \in Keys, Get(t, k)
        PROVE  Store!Get(k) \/ Store!GetNothing(k)
    <3>1. CASE Live(k)
      BY <2>1, <3>1 DEF Get, Live, Purged, TypeOK, Store!Get
    <3>2. CASE ~ Live(k)
      BY <2>1, <3>2 DEF Get, Live, Purged, TypeOK, Store!GetNothing
    <3> QED  BY <3>1, <3>2
  <2>2. ASSUME NEW keys \in SUBSET Keys, entries' = Purged(keys), UNCHANGED answer
        PROVE  Store!Next
    <3> DEFINE lost == {k \in keys : ~ Live(k)}
    <3>1. lost \in SUBSET Keys /\ Store!Lose(lost)
      BY <2>2 DEF Purged, TypeOK, Store!Lose
    <3> HIDE DEF lost
    <3> QED  BY <3>1 DEF Store!Next, Store!Lose
  <2>3. ASSUME NEW t \in Threads, NEW k \in Keys, Has(t, k) PROVE Store!Next
    <3>1. entries' = Purged({k}) /\ UNCHANGED answer
      BY <2>3 DEF Has
    <3> QED  BY <3>1, <2>2
  <2>4. ASSUME NEW t \in Threads, NEW matching \in SUBSET Keys, ListKeys(t, matching)
        PROVE  Store!Next
    <3>1. entries' = Purged(Keys) /\ UNCHANGED answer
      BY <2>4 DEF ListKeys
    <3> QED  BY <3>1, <2>2
  <2>5. ASSUME NEW t \in Threads, NEW k \in Keys, NEW v \in Values, NEW ttl \in Ttls,
               Set(t, k, v, ttl)
        PROVE  Store!Set(k, v)
    <3> DEFINE e == [value |-> v, ttl |-> ttl, at |-> now]
    <3>1. e # None /\ e.value = v
      <4>1. e \in [value : Values, ttl : Ttls, at : Int]
        BY DEF TypeOK
      <4> QED  BY <4>1
    <3>2. entries' = [entries EXCEPT ![k] = e] /\ UNCHANGED answer
      BY <2>5 DEF Set
    <3> HIDE DEF e
    <3> QED  BY <3>1, <3>2 DEF TypeOK, Store!Set
  <2>6. ASSUME NEW t \in Threads, NEW k \in Keys, Delete(t, k) PROVE Store!Lose({k})
    BY <2>6 DEF Delete, TypeOK, Store!Lose
  <2>7. ASSUME entries' = [k \in Keys |-> None], UNCHANGED answer PROVE Store!Lose(Keys)
    BY <2>7 DEF Store!Lose
  <2>8. ASSUME NEW t \in Threads, Clear(t) PROVE Store!Lose(Keys)
    BY <2>7, <2>8 DEF Clear
  <2>9. CASE CloseProvider
    BY <2>7, <2>9 DEF CloseProvider, Store!Next
  <2>10. ASSUME NEW t \in Threads, Enter(t) \/ Hold(t) PROVE UNCHANGED <<held, answer>>
    BY <2>10 DEF Enter, Hold
  <2>11. CASE DropProvider \/ Disable \/ Tick \/ SetBack \/ UNCHANGED vars
    BY <2>11 DEF DropProvider, Disable, Tick, SetBack, vars
  <2>12. ASSUME NEW t \in Threads, Operation(t) PROVE Store!Next \/ UNCHANGED <<held, answer>>
    <3>1. CASE Enter(t) \/ Hold(t) \/ Clear(t)
      BY <2>8, <2>10, <3>1 DEF Store!Next
    <3>2. CASE \E k \in Keys : Get(t, k) \/ Delete(t, k) \/ Has(t, k)
      BY <2>1, <2>3, <2>6, <3>2 DEF Store!Next
    <3>3. CASE \E k \in Keys, v \in Values, ttl \in Ttls : Set(t, k, v, ttl)
      BY <2>5, <3>3 DEF Store!Next
    <3>4. CASE \E matching \in SUBSET Keys : ListKeys(t, matching)
      BY <2>4, <3>4
    <3> QED  BY <2>12, <3>1, <3>2, <3>3, <3>4 DEF Operation
  <2> HIDE DEF held
  <2> QED  BY <2>9, <2>11, <2>12 DEF Next, Close
<1> QED  BY <1>1, <1>2, Typed, PTL DEF Spec, KeepsTheStore, Store!Spec
=============================================================================
