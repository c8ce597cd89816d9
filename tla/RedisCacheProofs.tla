-------------------------- MODULE RedisCacheProofs --------------------------
(***************************************************************************)
(* Theorems about RedisCache, for all clients, users, kinds of keys,       *)
(* values and times to live: every entry expires, and an invalidation that *)
(* returned has forgotten what was there when it began, if its client was  *)
(* not closed under it.                                                    *)
(***************************************************************************)
EXTENDS RedisCache, TLAPS

USE RedisAssumption

(* A client with a cache was configured with a time to live that is one.   *)
ValidClient == \A c \in Clients : enabled[c] => Valid(c)

(* The loops that do what they are for: an invalidation does as long as    *)
(* its client is not closed.                                               *)
Whole(c) ==
  \/ place[c] \in {"clearing", "forgotten"}
  \/ place[c] = "invalidating" /\ enabled[c]

(* What such a loop has yet to forget it has yet to list or to delete,     *)
(* unless it was set since.                                                *)
Accounted ==
  \A c \in Clients :
    /\ Whole(c) => Held \cap scope[c] \subseteq unlisted[c] \cup doomed[c] \cup since[c]
    /\ place[c] = "forgotten" => unlisted[c] = {} /\ doomed[c] = {}

IInv == TypeOK /\ ValidClient /\ Accounted

-----------------------------------------------------------------------------
(* Keys that go are not held, whatever else is, and only SCAN is spared    *)
(* listing them.                                                           *)
LEMMA GoneGoes ==
  ASSUME TypeOK, NEW keys \in SUBSET Keys, Gone(keys)
  PROVE  /\ store' \in [Keys -> [value : Values, expires : {TRUE}] \cup {None}]
         /\ unlisted' \in [Clients -> SUBSET Keys]
         /\ Held' = Held \ keys
         /\ \A c \in Clients : /\ unlisted'[c] \subseteq unlisted[c]
                               /\ unlisted[c] \ keys \subseteq unlisted'[c]
BY DEF TypeOK, Gone, Held, Keys

(* What goes takes nothing from the account: it is held no more.           *)
LEMMA GoneAccounted ==
  ASSUME IInv, NEW keys \in SUBSET Keys, Gone(keys),
         UNCHANGED <<default, enabled, place, scope, since, reply>>,
         doomed' \in [Clients -> SUBSET Keys],
         \A c \in Clients : doomed'[c] \subseteq doomed[c] /\ doomed[c] \ keys \subseteq doomed'[c]
  PROVE  IInv'
<1>0. /\ store' \in [Keys -> [value : Values, expires : {TRUE}] \cup {None}]
      /\ unlisted' \in [Clients -> SUBSET Keys]
      /\ Held' = Held \ keys
      /\ \A c \in Clients : /\ unlisted'[c] \subseteq unlisted[c]
                            /\ unlisted[c] \ keys \subseteq unlisted'[c]
  BY GoneGoes DEF IInv
<1>1. TypeOK'
  BY <1>0 DEF IInv, TypeOK, Keys
<1>2. ValidClient'
  BY DEF IInv, ValidClient, Valid
<1>3. Accounted'
  <2> SUFFICES ASSUME NEW c \in Clients
               PROVE  /\ Whole(c)' => (Held \cap scope[c] \subseteq unlisted[c] \cup doomed[c] \cup since[c])'
                      /\ place'[c] = "forgotten" => unlisted'[c] = {} /\ doomed'[c] = {}
    BY DEF Accounted
  <2>1. Whole(c)' => Whole(c)
    BY DEF Whole
  <2>2. Whole(c) => Held \cap scope[c] \subseteq unlisted[c] \cup doomed[c] \cup since[c]
    BY DEF IInv, Accounted
  <2>3. Whole(c)' => (Held \cap scope[c] \subseteq unlisted[c] \cup doomed[c] \cup since[c])'
    BY <1>0, <2>1, <2>2
  <2>4. place'[c] = "forgotten" => unlisted'[c] = {} /\ doomed'[c] = {}
    BY <1>0 DEF IInv, Accounted
  <2> QED  BY <2>3, <2>4
<1> QED  BY <1>1, <1>2, <1>3 DEF IInv

(* A step that begins a loop, or leaves one.                               *)
LEMMA BeginAccounted ==
  ASSUME IInv, NEW c \in Clients, NEW what \in {"invalidating", "clearing"},
         NEW keys \in SUBSET Keys, NEW untold \in SUBSET Keys,
         Begin(c, what, keys, untold), Held \cap keys \subseteq untold
  PROVE  IInv'
<1> USE DEF IInv, TypeOK, Begin, Ready
<1>1. TypeOK'
  OBVIOUS
<1>2. ValidClient'
  BY DEF ValidClient, Valid
<1>3. Held' = Held
  BY DEF Held
<1>4. Accounted'
  BY <1>3 DEF Accounted, Whole
<1> QED  BY <1>1, <1>2, <1>4

LEMMA LeaveAccounted ==
  ASSUME IInv, NEW c \in Clients, Leave(c)
  PROVE  IInv'
<1> USE DEF IInv, TypeOK, Leave
<1>1. TypeOK'
  OBVIOUS
<1>2. ValidClient'
  BY DEF ValidClient, Valid
<1>3. Held' = Held
  BY DEF Held
<1>4. Accounted'
  BY <1>3 DEF Accounted, Whole
<1> QED  BY <1>1, <1>2, <1>4

(* Every list of keys is taken from the ones yet to list.                  *)
LEMMA ListAccounted ==
  ASSUME IInv, NEW c \in Clients, Whole(c), Looping(c), NEW listed \in SUBSET Keys,
         ToDelete(c, listed), NEW covered \in SUBSET Keys,
         unlisted' = [unlisted EXCEPT ![c] = @ \ covered],
         Held \cap covered \subseteq listed
  PROVE  IInv'
<1> USE DEF IInv, TypeOK, ToDelete
<1>1. TypeOK'
  OBVIOUS
<1>2. ValidClient'
  BY DEF ValidClient, Valid
<1>3. Held' = Held
  BY DEF Held
<1>4. Accounted'
  BY <1>3 DEF Accounted, Whole, Looping
<1> QED  BY <1>1, <1>2, <1>4

-----------------------------------------------------------------------------
(* The initial states and every step keep the account.                     *)
LEMMA InitInv == Init => IInv
BY DEF Init, IInv, TypeOK, ValidClient, Accounted, Whole

(* An entry is set with a time to live: the call's own, or the valid       *)
(* default of a client that has a cache.                                   *)
LEMMA SetInv ==
  ASSUME IInv, NEW c \in Clients, NEW k \in Keys, NEW v \in Values, NEW ttl \in OwnTtls,
         Set(c, k, v, ttl)
  PROVE  IInv'
<1> USE DEF IInv, TypeOK, Set, Ready, loop
<1>1. Seconds(c, ttl) > 0
  BY DEF ValidClient, Valid, Seconds
<1>2. TypeOK'
  <2>1. store' \in [Keys -> [value : Values, expires : {TRUE}] \cup {None}]
    BY <1>1
  <2>2. since' \in [Clients -> SUBSET Keys]
    OBVIOUS
  <2> QED  BY <2>1, <2>2
<1>3. ValidClient'
  BY DEF ValidClient, Valid
<1>4. Held' \subseteq Held \cup {k}
  BY DEF Held, Keys
<1>5. Accounted'
  BY <1>4 DEF Accounted, Whole, Forgetting, Looping
<1> QED  BY <1>2, <1>3, <1>5

LEMMA StepInv == IInv /\ [Next]_vars => IInv'
<1> SUFFICES ASSUME IInv, [Next]_vars PROVE IInv'
  OBVIOUS
<1> USE DEF IInv, TypeOK
<1>1. ASSUME NEW c \in Clients, Initialize(c) PROVE IInv'
  <2>1. Held' = Held
    BY <1>1 DEF Initialize, Held
  <2> QED  BY <1>1, <2>1 DEF Initialize, ValidClient, Valid, Accounted, Whole
<1>2. ASSUME NEW c \in Clients, NEW k \in Keys, Get(c, k) PROVE IInv'
  <2>1. Held' = Held /\ UNCHANGED <<default, enabled, store, place, scope, unlisted, doomed, since>>
    BY <1>2 DEF Get, Held, loop
  <2>2. reply' \in Values \cup {None}
    BY <1>2 DEF Get
  <2> QED  BY <2>1, <2>2 DEF ValidClient, Valid, Accounted, Whole
<1>3. ASSUME NEW c \in Clients, NEW k \in Keys, Delete(c, k) PROVE IInv'
  BY <1>3, GoneAccounted DEF Delete
<1>4. ASSUME NEW c \in Clients, NEW k \in Keys, NEW v \in Values, NEW ttl \in OwnTtls,
             Set(c, k, v, ttl)
      PROVE  IInv'
  BY <1>4, SetInv
<1>5. ASSUME NEW c \in Clients, NEW users, Invalidate(c, users) PROVE IInv'
  <2> DEFINE theirs == {k \in Keys : k.user \in users}
  <2>1. theirs \in SUBSET Keys /\ Held \cap theirs \subseteq theirs
    OBVIOUS
  <2>2. Begin(c, "invalidating", theirs, theirs)
    BY <1>5 DEF Invalidate
  <2> HIDE DEF theirs
  <2> QED  BY <2>1, <2>2, BeginAccounted
<1>6. ASSUME NEW c \in Clients, Clear(c) PROVE IInv'
  <2>1. Held \in SUBSET Keys /\ Keys \in SUBSET Keys
    BY DEF Held
  <2>2. Held \cap Keys \subseteq Held
    OBVIOUS
  <2> QED  BY <1>6, <2>1, <2>2, BeginAccounted DEF Clear
<1>7. ASSUME NEW c \in Clients, NEW kind \in Kinds, ListKind(c, kind) PROVE IInv'
  <2> DEFINE matching == {k \in unlisted[c] : k.kind = kind}
  <2> matching \in SUBSET Keys /\ matching \cap Held \in SUBSET Keys
    BY DEF Held
  <2> HIDE DEF matching
  <2>1. /\ place[c] = "invalidating" /\ Looping(c)
        /\ ToDelete(c, IF enabled[c] THEN matching \cap Held ELSE {})
        /\ unlisted' = [unlisted EXCEPT ![c] = @ \ matching]
    BY <1>7 DEF ListKind, Looping, matching
  <2>2. CASE enabled[c]
    BY <2>1, <2>2, ListAccounted DEF Whole
  <2>3. CASE ~ enabled[c]
    <3>1. Held' = Held
      BY <2>1 DEF ToDelete, Held
    <3> QED  BY <2>1, <2>3, <3>1 DEF ToDelete, ValidClient, Valid, Accounted, Whole
  <2> QED  BY <2>2, <2>3
<1>8. ASSUME NEW c \in Clients, ListPage(c) PROVE IInv'
  <2>1. PICK page \in SUBSET Held : /\ ToDelete(c, page)
                                    /\ unlisted' = [unlisted EXCEPT ![c] = @ \ page]
    BY <1>8 DEF ListPage
  <2>2. page \in SUBSET Keys /\ Looping(c) /\ Whole(c)
    BY <1>8 DEF ListPage, Held, Looping, Whole
  <2> QED  BY <2>1, <2>2, ListAccounted
<1>9. ASSUME NEW c \in Clients, Remove(c) PROVE IInv'
  <2>1. PICK k \in doomed[c] :
          /\ IF place[c] = "clearing" \/ enabled[c] THEN Gone({k}) ELSE UNCHANGED <<store, unlisted>>
          /\ doomed' = [doomed EXCEPT ![c] = @ \ {k}]
          /\ UNCHANGED <<default, enabled, place, scope, since, reply>>
    BY <1>9 DEF Remove
  <2>2. CASE Gone({k})
    BY <2>1, <2>2, GoneAccounted
  <2>3. CASE UNCHANGED <<store, unlisted>> /\ place[c] # "clearing" /\ ~ enabled[c]
    <3>1. Held' = Held
      BY <2>3 DEF Held
    <3> QED  BY <2>1, <2>3, <3>1 DEF ValidClient, Valid, Accounted, Whole
  <2> QED  BY <2>1, <2>2, <2>3
<1>10. ASSUME NEW c \in Clients, Finish(c) PROVE IInv'
  <2>1. Held' = Held
    BY <1>10 DEF Finish, Held
  <2> QED  BY <1>10, <2>1 DEF Finish, Over, ValidClient, Valid, Accounted, Whole, Forgetting, Looping
<1>11. ASSUME NEW c \in Clients, Return(c) \/ Raise(c) PROVE IInv'
  BY <1>11, LeaveAccounted DEF Return, Raise
<1>12. ASSUME NEW c \in Clients, Close(c) PROVE IInv'
  <2>1. Held' = Held
    BY <1>12 DEF Close, Held
  <2> QED  BY <1>12, <2>1 DEF Close, loop, ValidClient, Valid, Accounted, Whole
<1>13. ASSUME NEW k \in Keys, Expire(k) PROVE IInv'
  BY <1>13, GoneAccounted DEF Expire
<1>14. CASE Restart
  BY <1>14, GoneAccounted DEF Restart
<1>15. CASE UNCHANGED vars
  <2>1. Held' = Held
    BY <1>15 DEF vars, Held
  <2> QED  BY <1>15, <2>1 DEF vars, loop, ValidClient, Valid, Accounted, Whole
<1> QED
  BY <1>1, <1>2, <1>3, <1>4, <1>5, <1>6, <1>7, <1>8, <1>9, <1>10, <1>11, <1>12, <1>13, <1>14, <1>15
  DEF Next, Operation

-----------------------------------------------------------------------------
(* The variables keep their types: every entry expires, since a client     *)
(* whose default is no time to live goes without a cache.                  *)
THEOREM EntriesExpire == Spec => []TypeOK
<1>1. IInv => TypeOK
  BY DEF IInv
<1> QED  BY <1>1, InitInv, StepInv, PTL DEF Spec

(* An invalidation that returned, its client still open when it was over,  *)
(* has forgotten what it was to forget and nobody set again, however many  *)
(* clients share the Redis; so has a clear().                              *)
THEOREM Forgotten == Spec => []ForgottenIsGone
<1>1. IInv => ForgottenIsGone
  BY DEF IInv, Accounted, ForgottenIsGone, Whole
<1> QED  BY <1>1, InitInv, StepInv, PTL DEF Spec
=============================================================================
