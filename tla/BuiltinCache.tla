---------------------------- MODULE BuiltinCache ----------------------------
(***************************************************************************)
(* The built-in cache provider (builtin_cache_provider.py, cache_entry.py) *)
(* behind CacheModule: entries with a time to live by the wall clock,      *)
(* purged when they are looked at, and a cache that one thread closes      *)
(* while others use it. A provider that was dropped lives on as long as a  *)
(* thread that holds it.                                                   *)
(***************************************************************************)
EXTENDS Integers

CONSTANTS
  Threads,
  Keys,
  Values,
  None,
  Ttls,         (* Times to live, the provider's default among them.       *)
  MaxTime,      (* Bound on the clock.                                     *)
  MaxBack       (* Bound on the times the wall clock is set back.          *)

ASSUME CacheAssumption ==
  /\ Ttls \subseteq Int
  /\ MaxTime \in Nat /\ MaxBack \in Nat
  /\ None \notin Values
  /\ None \notin [value : Values, ttl : Ttls, at : Int]

VARIABLES
  now,          (* time().                                                 *)
  back,         (* How often it was set back.                              *)
  entries,      (* _cache.                                                 *)
  closing,      (* How far close() has come.                               *)
  pc,           (* Where a thread's operation is.                          *)
  answer,       (* What the provider's last get returned.                  *)
  gone          (* History: keys found missing since they were last set.   *)

vars == <<now, back, entries, closing, pc, answer, gone>>

Entry == [value : Values, ttl : Ttls, at : 0 .. MaxTime]

Provided == closing \notin {"dropped", "done"}

(* CacheEntry.is_expired: not at all without a positive time to live.      *)
IsExpired(e) == e.ttl > 0 /\ now - e.at >= e.ttl

Live(k) == entries[k] # None /\ ~ IsExpired(entries[k])

Purged(keys) == [k \in Keys |-> IF k \in keys /\ ~ Live(k) THEN None ELSE entries[k]]

-----------------------------------------------------------------------------
(* is_enabled(), with which every operation of CacheModule begins: if it   *)
(* is not, nothing happens.                                                *)
Enter(t) ==
  /\ pc[t] = "idle"
  /\ Provided
  /\ pc' = [pc EXCEPT ![t] = "enabled"]
  /\ UNCHANGED <<now, back, entries, closing, answer, gone>>

(* self._provider is read, and may be gone since is_enabled():             *)
(* AssertionError.                                                         *)
Hold(t) ==
  /\ pc[t] = "enabled"
  /\ pc' = [pc EXCEPT ![t] = IF Provided THEN "holding" ELSE "idle"]
  /\ UNCHANGED <<now, back, entries, closing, answer, gone>>

(* The provider's lock is held for the whole operation.                    *)
Locked(t) ==
  /\ pc[t] = "holding"
  /\ pc' = [pc EXCEPT ![t] = "idle"]
  /\ UNCHANGED <<now, back, closing>>

(* A bug: an expired entry is not returned, but kept.                      *)
GetKeeping(t, k) ==
  /\ Locked(t)
  /\ answer' = IF Live(k) THEN entries[k].value ELSE None
  /\ gone' = IF Live(k) THEN gone ELSE gone \cup {k}
  /\ UNCHANGED entries

(* A bug: an expired entry is returned one last time.                      *)
GetOnceMore(t, k) ==
  /\ Locked(t)
  /\ entries' = Purged({k})
  /\ answer' = IF entries[k] # None THEN entries[k].value ELSE None
  /\ gone' = IF entries[k] # None THEN gone ELSE gone \cup {k}

Get(t, k) ==
  /\ Locked(t)
  /\ entries' = Purged({k})
  /\ answer' = IF Live(k) THEN entries[k].value ELSE None
  /\ gone' = IF Live(k) THEN gone ELSE gone \cup {k}

(* A bug: entries are stamped with the time they expire.                   *)
SetExpiry(t, k, v, ttl) ==
  /\ Locked(t)
  /\ entries' = [entries EXCEPT ![k] = [value |-> v, ttl |-> ttl, at |-> now + ttl]]
  /\ gone' = gone \ {k}
  /\ UNCHANGED answer

Set(t, k, v, ttl) ==
  /\ Locked(t)
  /\ entries' = [entries EXCEPT ![k] = [value |-> v, ttl |-> ttl, at |-> now]]
  /\ gone' = gone \ {k}
  /\ UNCHANGED answer

Delete(t, k) ==
  /\ Locked(t)
  /\ entries' = [entries EXCEPT ![k] = None]
  /\ UNCHANGED <<answer, gone>>

Has(t, k) ==
  /\ Locked(t)
  /\ entries' = Purged({k})
  /\ gone' = IF Live(k) THEN gone ELSE gone \cup {k}
  /\ UNCHANGED answer

(* keys() with a pattern that some keys match: it purges all.              *)
ListKeys(t, matching) ==
  /\ Locked(t)
  /\ entries' = Purged(Keys)
  /\ gone' = gone \cup {k \in matching : ~ Live(k)}
  /\ UNCHANGED answer

Clear(t) ==
  /\ Locked(t)
  /\ entries' = [k \in Keys |-> None]
  /\ UNCHANGED <<answer, gone>>

-----------------------------------------------------------------------------
(* close(): the provider's close(), then _provider, then _enabled.         *)
CloseProvider ==
  /\ closing = "no"
  /\ closing' = "cleared"
  /\ entries' = [k \in Keys |-> None]
  /\ UNCHANGED <<now, back, pc, answer, gone>>

DropProvider ==
  /\ closing = "cleared"
  /\ closing' = "dropped"
  /\ UNCHANGED <<now, back, entries, pc, answer, gone>>

Disable ==
  /\ closing = "dropped"
  /\ closing' = "done"
  /\ UNCHANGED <<now, back, entries, pc, answer, gone>>

Tick ==
  /\ now < MaxTime
  /\ now' = now + 1
  /\ UNCHANGED <<back, entries, closing, pc, answer, gone>>

(* The wall clock is set back.                                             *)
SetBack ==
  /\ back < MaxBack
  /\ back' = back + 1
  /\ now' \in 0 .. (now - 1)
  /\ UNCHANGED <<entries, closing, pc, answer, gone>>

Init ==
  /\ now = 0
  /\ back = 0
  /\ entries = [k \in Keys |-> None]
  /\ closing = "no"
  /\ pc = [t \in Threads |-> "idle"]
  /\ answer = None
  /\ gone = {}

Operation(t) ==
  \/ Enter(t) \/ Hold(t) \/ Clear(t)
  \/ \E k \in Keys : Get(t, k) \/ Delete(t, k) \/ Has(t, k)
  \/ \E k \in Keys, v \in Values, ttl \in Ttls : Set(t, k, v, ttl)
  \/ \E matching \in SUBSET Keys : ListKeys(t, matching)

Close == CloseProvider \/ DropProvider \/ Disable

Next == (\E t \in Threads : Operation(t)) \/ Close \/ Tick \/ SetBack

Spec == Init /\ [][Next]_vars

-----------------------------------------------------------------------------
(* The variables have their types: created_at is a time of the clock.      *)
TypeOK ==
  /\ now \in 0 .. MaxTime
  /\ back \in 0 .. MaxBack
  /\ entries \in [Keys -> Entry \cup {None}]
  /\ closing \in {"no", "cleared", "dropped", "done"}
  /\ pc \in [Threads -> {"idle", "enabled", "holding"}]
  /\ answer \in Values \cup {None}
  /\ gone \subseteq Keys

(* An entry that was found missing or expired stays missing until it is    *)
(* set again, even if the wall clock is set back: whoever reads nothing    *)
(* and asks Space is not followed by a reader of the old entry.            *)
GoneStaysGone == \A k \in gone : entries[k] = None

(* The provider does what providers promise, whatever the wall clock does: *)
(* what expires is lost when it is looked at, in the same step.            *)
Store == INSTANCE ExpiringStore WITH
  held <- [k \in Keys |-> IF entries[k] = None THEN None ELSE entries[k].value]
KeepsTheStore == Store!Spec
=============================================================================
