----------------------------- MODULE RedisCache -----------------------------
(***************************************************************************)
(* The Redis cache provider (redis_cache_provider.py) behind CacheModule,  *)
(* of several clients, say the replicas of one backend, that share a Redis *)
(* and a key prefix. Every command is atomic at Redis, but an invalidation *)
(* and clear() take many. A command that raises was executed or not, which *)
(* only a loop of them can tell from one never made. has() only reads.     *)
(* Other threads of a client are like other clients, but that each of them *)
(* may close it.                                                           *)
(***************************************************************************)
EXTENDS Integers

CONSTANTS
  Clients,
  Users,
  Kinds,        (* Of keys a user has: contract, feature, pricing-token.   *)
  Values,
  None,
  OwnTtls,      (* The times to live that calls of set() ask for, or None. *)
  DefaultTtls   (* Those that clients are configured with.                 *)

ASSUME RedisAssumption ==
  /\ DefaultTtls \subseteq Int
  /\ None \notin Int
  /\ None \notin [value : Values, expires : BOOLEAN]
  /\ OwnTtls \subseteq {None} \cup {ttl \in Int : ttl > 0}

VARIABLES
  default,      (* CacheOptions.ttl of each client.                        *)
  enabled,      (* is_enabled() of each client.                            *)
  store,        (* What Redis holds under the prefix.                      *)
  place,        (* Where each client is.                                   *)
  scope,        (* The keys its loop is to forget.                         *)
  unlisted,     (* Those KEYS or SCAN have still to list.                  *)
  doomed,       (* Those they listed, and it has still to delete.          *)
  since,        (* History: those that were set since its loop began.      *)
  reply         (* What the last get returned.                             *)

loop == <<place, scope, unlisted, doomed>>
vars == <<default, enabled, store, loop, since, reply>>

Keys == [user : Users, kind : Kinds]

Held == {k \in Keys : store[k] # None}

Looping(c) == place[c] \in {"invalidating", "clearing"}

Forgetting(c) == Looping(c) \/ place[c] = "forgotten"

-----------------------------------------------------------------------------
(* A bug: any time to live is good enough.                                 *)
ValidAlways(c) == TRUE

(* CacheProviderFactory.validate.                                          *)
Valid(c) == default[c] > 0

(* initialize() pings Redis. It raises if there is no answer or the option *)
(* is not valid, and the client goes on without a cache.                   *)
Initialize(c) ==
  /\ place[c] = "new"
  /\ \E answers \in BOOLEAN :
       enabled' = [enabled EXCEPT ![c] = Valid(c) /\ answers]
  /\ place' = [place EXCEPT ![c] = "idle"]
  /\ UNCHANGED <<default, store, scope, unlisted, doomed, since, reply>>

(* Without a cache, or after close(), a call does nothing.                 *)
Ready(c) == place[c] = "idle" /\ enabled[c]

Get(c, k) ==
  /\ Ready(c)
  /\ reply' = IF store[k] = None THEN None ELSE store[k].value
  /\ UNCHANGED <<default, enabled, store, loop, since>>

(* SETEX with the time asked for or the default, SET if it is not positive.*)
Seconds(c, ttl) == IF ttl = None THEN default[c] ELSE ttl

Set(c, k, v, ttl) ==
  /\ Ready(c)
  /\ store' = [store EXCEPT ![k] = [value |-> v, expires |-> Seconds(c, ttl) > 0]]
  /\ since' = [d \in Clients |-> IF Forgetting(d) THEN since[d] \cup {k} ELSE since[d]]
  /\ UNCHANGED <<default, enabled, loop, reply>>

(* These keys are gone: SCAN need not list them.                           *)
Gone(keys) ==
  /\ store' = [k \in Keys |-> IF k \in keys THEN None ELSE store[k]]
  /\ unlisted' = [c \in Clients |-> IF place[c] = "clearing" THEN unlisted[c] \ keys
                                                             ELSE unlisted[c]]

Delete(c, k) ==
  /\ Ready(c)
  /\ Gone({k})
  /\ UNCHANGED <<default, enabled, place, scope, doomed, since, reply>>

-----------------------------------------------------------------------------
Begin(c, what, keys, untold) ==
  /\ Ready(c)
  /\ place' = [place EXCEPT ![c] = what]
  /\ scope' = [scope EXCEPT ![c] = keys]
  /\ unlisted' = [unlisted EXCEPT ![c] = untold]
  /\ UNCHANGED <<default, enabled, store, doomed, since, reply>>

(* invalidate_user() for one user, invalidate_all_users() for all.         *)
Invalidate(c, users) ==
  LET theirs == {k \in Keys : k.user \in users} IN Begin(c, "invalidating", theirs, theirs)

Clear(c) == Begin(c, "clearing", Keys, Held)

ToDelete(c, listed) ==
  /\ doomed[c] = {}
  /\ doomed' = [doomed EXCEPT ![c] = listed]
  /\ UNCHANGED <<default, enabled, store, place, scope, since, reply>>

(* KEYS with the next pattern: a kind of keys, of one user or of all. Once *)
(* the client is closed, no key is found.                                  *)
ListKind(c, kind) ==
  LET matching == {k \in unlisted[c] : k.kind = kind} IN
  /\ place[c] = "invalidating"
  /\ matching # {}
  /\ ToDelete(c, IF enabled[c] THEN matching \cap Held ELSE {})
  /\ unlisted' = [unlisted EXCEPT ![c] = @ \ matching]

(* A page of SCAN. What is there all along is in some page.                *)
ListPage(c) ==
  /\ place[c] = "clearing"
  /\ unlisted[c] # {}
  /\ \E page \in SUBSET Held :
       /\ ToDelete(c, page)
       /\ unlisted' = [unlisted EXCEPT ![c] = @ \ page]

(* An invalidation deletes nothing once the client is closed, and goes on. *)
(* clear() asks no more: it is a loop of the provider.                     *)
Remove(c) ==
  \E k \in doomed[c] :
    /\ IF place[c] = "clearing" \/ enabled[c] THEN Gone({k}) ELSE UNCHANGED <<store, unlisted>>
    /\ doomed' = [doomed EXCEPT ![c] = @ \ {k}]
    /\ UNCHANGED <<default, enabled, place, scope, since, reply>>

(* A bug: it is over when the first list of keys is deleted.               *)
OverAfterOneList(c) == Looping(c) /\ doomed[c] = {} /\ unlisted[c] # scope[c]

Over(c) == Looping(c) /\ doomed[c] = {} /\ unlisted[c] = {}

(* Closed while it ran, an invalidation comes to its end like any other.   *)
Finish(c) ==
  /\ Over(c)
  /\ place' = [place EXCEPT ![c] =
                 IF place[c] = "clearing" \/ enabled[c] THEN "forgotten" ELSE "cut short"]
  /\ UNCHANGED <<default, enabled, store, scope, unlisted, doomed, since, reply>>

Leave(c) ==
  /\ place' = [place EXCEPT ![c] = "idle"]
  /\ scope' = [scope EXCEPT ![c] = {}]
  /\ unlisted' = [unlisted EXCEPT ![c] = {}]
  /\ doomed' = [doomed EXCEPT ![c] = {}]
  /\ since' = [since EXCEPT ![c] = {}]
  /\ UNCHANGED <<default, enabled, store, reply>>

Return(c) == place[c] \in {"forgotten", "cut short"} /\ Leave(c)

(* A command of the loop raises, and with it the loop.                     *)
Raise(c) == Looping(c) /\ Leave(c)

(* close() ends the connection and leaves what Redis holds, also while     *)
(* another thread of the client is in a loop.                              *)
Close(c) ==
  /\ enabled[c]
  /\ enabled' = [enabled EXCEPT ![c] = FALSE]
  /\ UNCHANGED <<default, store, loop, since, reply>>

-----------------------------------------------------------------------------
(* Redis drops an entry when its time is over, and all when it restarts.   *)
Expire(k) ==
  /\ k \in Held
  /\ store[k].expires
  /\ Gone({k})
  /\ UNCHANGED <<default, enabled, place, scope, doomed, since, reply>>

Restart ==
  /\ Gone(Keys)
  /\ UNCHANGED <<default, enabled, place, scope, doomed, since, reply>>

Init ==
  /\ default \in [Clients -> DefaultTtls]
  /\ enabled = [c \in Clients |-> FALSE]
  /\ store = [k \in Keys |-> None]
  /\ place = [c \in Clients |-> "new"]
  /\ scope = [c \in Clients |-> {}]
  /\ unlisted = [c \in Clients |-> {}]
  /\ doomed = [c \in Clients |-> {}]
  /\ since = [c \in Clients |-> {}]
  /\ reply = None

Operation(c) ==
  \/ \E k \in Keys : Get(c, k) \/ Delete(c, k)
  \/ \E k \in Keys, v \in Values, ttl \in OwnTtls : Set(c, k, v, ttl)
  \/ \E users \in {Users} \cup {{u} : u \in Users} : Invalidate(c, users)
  \/ \E kind \in Kinds : ListKind(c, kind)
  \/ Clear(c) \/ ListPage(c)
  \/ Remove(c) \/ Finish(c) \/ Return(c) \/ Raise(c)

Next ==
  \/ \E c \in Clients : Initialize(c) \/ Operation(c) \/ Close(c)
  \/ \E k \in Keys : Expire(k)
  \/ Restart

Spec == Init /\ [][Next]_vars

-----------------------------------------------------------------------------
(* The variables have their types. Whatever a client is configured with,   *)
(* every entry expires: what an invalidation missed does not stay for good.*)
TypeOK ==
  /\ default \in [Clients -> DefaultTtls]
  /\ store \in [Keys -> [value : Values, expires : {TRUE}] \cup {None}]
  /\ enabled \in [Clients -> BOOLEAN]
  /\ place \in
       [Clients -> {"new", "idle", "invalidating", "clearing", "forgotten", "cut short"}]
  /\ scope \in [Clients -> SUBSET Keys]
  /\ unlisted \in [Clients -> SUBSET Keys]
  /\ doomed \in [Clients -> SUBSET Keys]
  /\ since \in [Clients -> SUBSET Keys]
  /\ reply \in Values \cup {None}

(* An invalidation or a clear() that returned has forgotten every key it   *)
(* was to forget that was not set again while it ran, though other clients *)
(* set and delete, entries expire and Redis restarts between its commands. *)
(* Excepted is an invalidation whose client is closed by another thread    *)
(* while it runs: it returns as if it were done, and leaves what it had    *)
(* not deleted by then (cache_module.py, is_enabled() in keys, delete).    *)
ForgottenIsGone ==
  \A c \in Clients : place[c] = "forgotten" => Held \cap scope[c] \subseteq since[c]
=============================================================================
