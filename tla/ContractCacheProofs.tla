------------------------- MODULE ContractCacheProofs -------------------------
(***************************************************************************)
(* Theorems about ContractCache, for any users, features, processes and    *)
(* bounds: what the invalidations of calls and of the socket's handlers    *)
(* leave in the cache, however their steps interleave.                     *)
(***************************************************************************)
EXTENDS ContractCache, TLAPS

(* What is assumed of the setting there is.                                *)
LEMMA SettingFacts ==
  ASSUME setting \in DOMAIN Settings
  PROVE  /\ threaded \in BOOLEAN
         /\ Callers \subseteq Processes /\ Handlers \subseteq Processes
         /\ \A p \in Processes : p \in Callers <=> p \notin Handlers
         /\ Keys = KeysOf(Users, Features)
         /\ Settings[setting].operations \subseteq OperationsOf(Users, Features)
         /\ MaxCalls \in Nat /\ MaxTerms \in Nat /\ MaxDrops \in Nat /\ MaxUsage \in Nat
         /\ None \notin OperationsOf(Users, Features)
         /\ None \notin Told(Users) /\ None \notin News(Users) /\ None \notin [Users -> Nat]
         /\ None # [kind |-> "handle"]
BY ContractCacheAssumption
   DEF threaded, Callers, Handlers, Processes, Keys, Users, Features, MaxCalls, MaxTerms, MaxDrops

LEMMA SameSetting ==
  ASSUME setting' = setting
  PROVE  /\ threaded' = threaded /\ Users' = Users /\ Features' = Features
         /\ Callers' = Callers /\ Handlers' = Handlers /\ Processes' = Processes /\ Keys' = Keys
         /\ MaxCalls' = MaxCalls /\ MaxTerms' = MaxTerms /\ MaxDrops' = MaxDrops
BY DEF threaded, Users, Features, Callers, Handlers, Keys, Processes, MaxCalls, MaxTerms, MaxDrops

(* A key names a user, and only evaluations name a feature.                *)
LEMMA KeyShape ==
  ASSUME setting \in DOMAIN Settings
  PROVE  /\ \A k \in Keys : k[1] \in {"contract", "feature", "pricing-token"} /\ k[2] \in Users
         /\ \A u \in Users : <<"contract", u>> \in Keys /\ <<"pricing-token", u>> \in Keys
         /\ \A u \in Users, f \in Features : <<"feature", u, f>> \in Keys
         /\ \A k \in Keys, u \in Users, f \in Features :
              k[2] = u /\ (k[1] # "feature" \/ k = <<"feature", k[2], f>>) => k \in Spoiled(u, f)
BY SettingFacts DEF KeysOf, Spoiled

(* Every kind of key is listed by one of the patterns.                     *)
LEMMA PatternsCover ==
  ASSUME setting \in DOMAIN Settings
  PROVE  /\ Len(Patterns) = 4
         /\ \A k \in Keys : \E j \in 1 .. 4 : Patterns[j] = k[1]
<1>1. Patterns[1] = "contract" /\ Patterns[2] = "feature" /\ Patterns[4] = "pricing-token"
  BY DEF Patterns
<1> QED  BY <1>1, KeyShape DEF Patterns

(* What operations name.                                                   *)
LEMMA OperationShape ==
  ASSUME setting \in DOMAIN Settings, NEW op \in Settings[setting].operations
  PROVE  /\ op.kind \in {"read", "replace", "remove", "conflict", "spend"}
         /\ op # None
         /\ op.kind = "read" => op.key \in Keys
         /\ op.kind # "read" =>
              op.users \in Seq(Users) /\ Named(op) \subseteq Users /\ op.users[1] \in Users
         /\ op.kind = "spend" => op.feature \in Features /\ Named(op) = {op.users[1]}
<1>1. op \in OperationsOf(Users, Features) /\ op # None
  BY SettingFacts
<1> DEFINE single == {<<u>> : u \in Users}
           double == {uv \in Users \X Users : uv[1] # uv[2]}
<1>6. ASSUME NEW us \in single
      PROVE  us \in Seq(Users) /\ DOMAIN us = {1} /\ us[1] \in Users
  <2>1. PICK u \in Users : us = <<u>>
    BY <1>6
  <2>2. <<u>> \in Seq(Users) /\ DOMAIN <<u>> = {1} /\ <<u>>[1] = u
    OBVIOUS
  <2> QED  BY <2>1, <2>2
<1>7. ASSUME NEW us \in double
      PROVE  us \in Seq(Users) /\ DOMAIN us = {1, 2} /\ us[1] \in Users /\ us[2] \in Users
  <2>1. PICK u \in Users, v \in Users : us = <<u, v>>
    BY <1>7
  <2>2. /\ <<u, v>> \in Seq(Users) /\ DOMAIN <<u, v>> = {1, 2}
        /\ <<u, v>>[1] = u /\ <<u, v>>[2] = v
    OBVIOUS
  <2> QED  BY <2>1, <2>2
<1> HIDE DEF single, double
<1>2. CASE op \in [kind : {"read"}, key : KeysOf(Users, Features)]
  BY <1>1, <1>2, SettingFacts
<1>3. CASE op \in [kind : {"replace"}, users : single \cup double]
  <2>1. op.kind = "replace" /\ op.users \in single \cup double
    BY <1>3
  <2> QED  BY <1>1, <1>6, <1>7, <2>1 DEF Named
<1>4. CASE op \in [kind : {"remove", "conflict"}, users : single]
  <2>1. op.kind \in {"remove", "conflict"} /\ op.users \in single
    BY <1>4
  <2> QED  BY <1>1, <1>6, <2>1 DEF Named
<1>5. CASE op \in [kind : {"spend"}, users : single, feature : Features]
  <2>1. op.kind = "spend" /\ op.users \in single /\ op.feature \in Features
    BY <1>5
  <2> QED  BY <1>1, <1>6, <2>1 DEF Named
<1> QED  BY <1>1, <1>2, <1>3, <1>4, <1>5 DEF OperationsOf, single, double

-----------------------------------------------------------------------------
(* TypeOK in parts.                                                        *)
Places == {"idle", "greeting", "looking", "asking", "answered", "applying"}
Answers == [terms : [Users -> 0 .. MaxTerms], usage : [Users -> 0 .. MaxUsage]]
Kinds == {"event", "resync", "first resync"}
Tidings == [user : Users, terms : 0 .. MaxTerms, kind : Kinds]
Handling == [kind |-> "handle"]

Operations ==
  Settings[setting].operations \cup {Handling} \cup [kind : {"read"}, key : Keys] \cup {None}

AtSpace ==
  /\ terms \in [Users -> 0 .. MaxTerms]
  /\ usage \in [Users -> 0 .. MaxUsage]
  /\ baseline \in [Users -> 0 .. MaxTerms] \cup {None}
  /\ events \subseteq [user : Users, terms : 1 .. MaxTerms]
  /\ news \in [Processes -> Tidings \cup {None}]
  /\ calls \in 0 .. MaxCalls
  /\ drops \in 0 .. MaxDrops

InCache == cache \in [Keys -> Entries \cup {None}]

Histories ==
  /\ written \in [Users -> 0 .. MaxTerms]
  /\ spent \in [Users -> [Features -> 0 .. MaxUsage]]

Locals ==
  /\ pc \in [Processes -> Places]
  /\ call \in [Processes -> Operations]
  /\ answer \in [Processes -> Answers \cup {None}]
  /\ scopes \in [Processes -> Seq(SUBSET Users)]
  /\ stage \in [Processes -> 1 .. 5]
  /\ doomed \in [Processes -> SUBSET Keys]

(* What a process is about where it is.                                    *)
About(p) ==
  /\ (pc[p] = "idle") <=> (call[p] = None)
  /\ pc[p] = "looking" => call[p].kind = "read"
  /\ pc[p] = "answered" \/ (pc[p] = "applying" /\ p \in Callers) => answer[p] # None
  /\ pc[p] # "applying" => scopes[p] = <<>> /\ doomed[p] = {}
  /\ scopes[p] = <<>> => stage[p] = 1
  /\ p \in Callers => /\ call[p] \in Settings[setting].operations \cup {None}
                      /\ news[p] = None /\ pc[p] # "greeting"
  /\ pc[p] = "applying" /\ p \in Callers => call[p].kind # "read"
  /\ pc[p] \in {"greeting", "applying"} /\ p \in Handlers => call[p] = Handling
  /\ p \in Handlers /\ pc[p] \in {"looking", "asking", "answered"} =>
       threaded /\ call[p] = [kind |-> "read", key |-> <<"contract", news[p].user>>]
  /\ p \in Handlers => ((news[p] = None) <=> (pc[p] \in {"idle", "greeting"}))

Types ==
  /\ setting \in DOMAIN Settings
  /\ AtSpace /\ InCache /\ Histories /\ Locals
  /\ \A p \in Processes : About(p)

(* The process p takes a step.                                             *)
Acts(p) ==
  \/ p \in Callers /\ \E op \in Settings[setting].operations : Begin(p, op)
  \/ Run(p) \/ Serve(p) \/ Lose(p)
  \/ p \in Handlers /\ (Connect(p) \/ Greet(p) \/ Message(p) \/ Callback(p))

(* Nothing of another process changes.                                     *)
Rests(p) ==
  /\ answer'[p] = answer[p] /\ scopes'[p] = scopes[p] /\ stage'[p] = stage[p]
  /\ doomed'[p] = doomed[p] /\ news'[p] = news[p]

Waits(p) == pc'[p] = pc[p] /\ call'[p] = call[p] /\ Rests(p)

(* The connect handler that p was to run is lost with the connection.      *)
Forgets(p) == pc[p] = "greeting" /\ pc'[p] = "idle" /\ call'[p] = None /\ Rests(p)

LEMMA OthersWait ==
  ASSUME Types, NEW p \in Processes, Acts(p), NEW q \in Processes \ {p}
  PROVE  Waits(q)
<1> USE DEF Types, Locals, AtSpace, Waits, Rests, Goto, Return
<1>1. ASSUME NEW op, Begin(p, op) PROVE Waits(q)
  BY <1>1 DEF Begin, work
<1>2. CASE Look(p) \/ Store(p)
  BY <1>2 DEF Look, Store, work
<1>3. CASE Apply(p)
  BY <1>3 DEF Apply
<1>4. CASE List(p) \/ Delete(p) \/ Replace(p)
  BY <1>4 DEF List, Delete, Replace, FromTheTop
<1>5. CASE Finish(p)
  BY <1>5 DEF Finish, work
<1>6. CASE Serve(p) \/ Lose(p)
  BY <1>6 DEF Serve, Lose, work
<1>7. CASE Connect(p) \/ Greet(p) \/ Message(p)
  BY <1>7 DEF Connect, Greet, Message, work
<1>8. CASE Callback(p)
  BY <1>8 DEF Callback, work
<1> QED  BY <1>1, <1>2, <1>3, <1>4, <1>5, <1>6, <1>7, <1>8 DEF Acts, Run

(* Steps of no process.                                                    *)
Around == Disconnect \/ (\E u \in Users : Elsewhere(u)) \/ (\E k \in Keys : Expire(k))

LEMMA NobodyActs ==
  ASSUME Types, Around \/ UNCHANGED vars
  PROVE  /\ \A p \in Processes : Rests(p) /\ (Waits(p) \/ Forgets(p))
         /\ \A c \in Callers : Waits(c)
         /\ ~ Disconnect => \A p \in Processes : Waits(p)
<1> USE DEF Waits, Rests
<1>1. CASE ~ Disconnect
  <2>1. UNCHANGED <<pc, call, answer, scopes, stage, doomed, news>>
    BY <1>1 DEF Around, Elsewhere, Expire, work, vars
  <2> QED  BY <2>1, SettingFacts DEF Types
<1>2. CASE Disconnect
  <2>1. UNCHANGED <<answer, scopes, stage, doomed, news>>
    BY <1>2 DEF Disconnect, work
  <2>2. PICK lost \in SUBSET {p \in Handlers : pc[p] = "greeting"} :
          /\ pc' = [p \in Processes |-> IF p \in lost THEN "idle" ELSE pc[p]]
          /\ call' = [p \in Processes |-> IF p \in lost THEN None ELSE call[p]]
    BY <1>2 DEF Disconnect
  <2>3. \A c \in Callers : c \in Processes /\ c \notin lost
    BY SettingFacts DEF Types
  <2> QED  BY <1>2, <2>1, <2>2, <2>3 DEF Forgets
<1> QED  BY <1>1, <1>2

LEMMA SomebodyActs ==
  ASSUME Next
  PROVE  setting' = setting /\ (Around \/ \E p \in Processes : Acts(p))
BY DEF Next, Around, Acts, Processes

-----------------------------------------------------------------------------
(* Types, one part after the other.                                        *)
LEMMA ChangeTypes ==
  ASSUME Types, setting' = setting, NEW changed \in SUBSET Users, Change(changed),
         \A u \in changed : terms[u] < MaxTerms
  PROVE  /\ terms' \in [Users -> 0 .. MaxTerms]
         /\ events' \subseteq [user : Users, terms : 1 .. MaxTerms]
<1>1. MaxTerms \in Nat /\ terms \in [Users -> 0 .. MaxTerms]
      /\ events \subseteq [user : Users, terms : 1 .. MaxTerms]
  BY SettingFacts DEF Types, AtSpace
<1>2. /\ terms' = [u \in Users |-> IF u \in changed THEN terms[u] + 1 ELSE terms[u]]
      /\ \A e \in events' : e \in events \/ \E u \in changed : e = [user |-> u, terms |-> terms'[u]]
  BY DEF Change
<1>3. \A u \in changed : terms'[u] \in 1 .. MaxTerms
  BY <1>1, <1>2
<1> QED  BY <1>1, <1>2, <1>3

LEMMA ServeFacts ==
  ASSUME Types, setting' = setting, NEW p \in Processes, Serve(p)
  PROVE  /\ terms' \in [Users -> 0 .. MaxTerms] /\ usage' \in [Users -> 0 .. MaxUsage]
         /\ events' \subseteq [user : Users, terms : 1 .. MaxTerms]
         /\ UNCHANGED <<terms, events>> \/ Change(Named(call[p]))
         /\ \A u \in Users : terms'[u] >= terms[u] /\ usage'[u] >= usage[u]
         /\ answer' = [answer EXCEPT ![p] = [terms |-> terms', usage |-> usage']]
         /\ pc[p] = "asking" /\ pc' = [pc EXCEPT ![p] = "answered"]
         /\ UNCHANGED <<cache, call, scopes, stage, doomed, joined, baseline, connected, news,
                        reread, written, spent, calls, drops>>
<1>1. MaxTerms \in Nat /\ MaxUsage \in Nat
  BY SettingFacts DEF Types
<1>2. /\ answer' = [answer EXCEPT ![p] = [terms |-> terms', usage |-> usage']]
      /\ pc[p] = "asking" /\ pc' = [pc EXCEPT ![p] = "answered"]
      /\ UNCHANGED <<cache, call, scopes, stage, doomed, joined, baseline, connected, news,
                     reread, written, spent, calls, drops>>
  BY DEF Serve, Goto, work, ghosts
<1>3. CASE UNCHANGED <<terms, usage, events>>
  BY <1>1, <1>2, <1>3 DEF Types, AtSpace
<1>4. ASSUME call[p].kind # "read", call[p].kind # "handle"
      PROVE  Named(call[p]) \subseteq Users
  <2>1. call[p] \in Settings[setting].operations
    BY <1>2, <1>4, SettingFacts DEF Types, Locals, About, Handling
  <2> QED  BY <2>1, <1>4, OperationShape DEF Types
<1>5. CASE /\ call[p].kind \in {"replace", "remove"}
           /\ \A u \in Named(call[p]) : terms[u] < MaxTerms
           /\ Change(Named(call[p]))
           /\ UNCHANGED usage
  <2>1. Named(call[p]) \subseteq Users
    BY <1>4, <1>5
  <2>2. /\ terms' \in [Users -> 0 .. MaxTerms]
        /\ events' \subseteq [user : Users, terms : 1 .. MaxTerms]
    BY <1>5, <2>1, ChangeTypes
  <2>3. \A u \in Users : terms'[u] >= terms[u] /\ usage'[u] >= usage[u]
    BY <1>1, <1>5 DEF Change, Types, AtSpace
  <2> QED  BY <1>2, <1>5, <2>2, <2>3 DEF Types, AtSpace
<1>6. CASE /\ \A u \in Named(call[p]) : usage[u] < MaxUsage
           /\ usage' = [u \in Users |-> IF u \in Named(call[p]) THEN usage[u] + 1 ELSE usage[u]]
           /\ UNCHANGED <<terms, events>>
  BY <1>1, <1>2, <1>6 DEF Types, AtSpace
<1> QED  BY <1>3, <1>5, <1>6 DEF Serve

LEMMA AtSpaceStep ==
  ASSUME Types, setting' = setting, Around \/ \E p \in Processes : Acts(p)
  PROVE  AtSpace'
<1> USE DEF Types
<1>1. /\ MaxCalls \in Nat /\ MaxTerms \in Nat /\ MaxDrops \in Nat
      /\ MaxCalls' = MaxCalls /\ MaxTerms' = MaxTerms /\ MaxDrops' = MaxDrops /\ Users' = Users
      /\ Processes' = Processes /\ Tidings' = Tidings
  BY SettingFacts, SameSetting DEF Tidings
<1>2. AtSpace
  OBVIOUS
<1> USE DEF AtSpace
<1>3. CASE Disconnect \/ \E k \in Keys : Expire(k)
  BY <1>1, <1>2, <1>3 DEF Disconnect, Expire, space, link
<1>4. ASSUME NEW u \in Users, Elsewhere(u) PROVE AtSpace'
  <2>1. /\ terms' \in [Users -> 0 .. MaxTerms]
        /\ events' \subseteq [user : Users, terms : 1 .. MaxTerms]
    BY <1>4, ChangeTypes DEF Elsewhere
  <2> QED  BY <1>1, <1>2, <1>4, <2>1 DEF Elsewhere
<1>5. ASSUME NEW p \in Processes, NEW op, Begin(p, op) PROVE AtSpace'
  BY <1>1, <1>2, <1>5 DEF Begin, space, link
<1>6. ASSUME NEW p \in Processes, Run(p) \/ Lose(p) PROVE AtSpace'
  <2>1. UNCHANGED <<terms, usage, baseline, events, calls, drops>>
    BY <1>6 DEF Run, Look, Store, Apply, List, Delete, Replace, Finish, Lose, space, link
  <2>2. news' = news \/ news' = [news EXCEPT ![p] = None]
    BY <1>6 DEF Run, Look, Store, Apply, List, Delete, Replace, Finish, Lose, Return
  <2> QED  BY <1>1, <1>2, <2>1, <2>2
<1>7. ASSUME NEW p \in Processes, Serve(p) PROVE AtSpace'
  BY <1>1, <1>2, <1>7, ServeFacts
<1>8. ASSUME NEW p \in Handlers, Connect(p) PROVE AtSpace'
  <2>1. UNCHANGED <<terms, usage, events, news, calls, drops>> /\ baseline' \in {baseline, terms}
    BY <1>8 DEF Connect, space
  <2> QED  BY <1>1, <1>2, <2>1
<1>9. ASSUME NEW p \in Handlers, Greet(p) \/ Message(p) PROVE AtSpace'
  <2>1. UNCHANGED <<terms, usage, baseline, calls, drops>> /\ events' \subseteq events
    BY <1>9 DEF Greet, Message, space, link
  <2>2. PICK n \in Tidings : news' = [news EXCEPT ![p] = n]
    <3>1. CASE Greet(p)
      <4>1. PICK u \in Users :
              news' = [news EXCEPT ![p] = [user |-> u, terms |-> terms[u],
                                           kind |-> IF connected THEN "resync" ELSE "first resync"]]
        BY <3>1 DEF Greet
      <4>2. [user |-> u, terms |-> terms[u],
             kind |-> IF connected THEN "resync" ELSE "first resync"] \in Tidings
        BY <1>2 DEF Kinds, Tidings
      <4> QED  BY <4>1, <4>2
    <3>2. CASE Message(p)
      <4>1. PICK e \in events :
              news' = [news EXCEPT ![p] = [user |-> e.user, terms |-> e.terms, kind |-> "event"]]
        BY <3>2 DEF Message
      <4>2. e.user \in Users /\ e.terms \in 0 .. MaxTerms
        BY <1>1, <1>2
      <4>3. [user |-> e.user, terms |-> e.terms, kind |-> "event"] \in Tidings
        BY <4>2 DEF Kinds, Tidings
      <4> QED  BY <4>1, <4>3
    <3> QED  BY <1>9, <3>1, <3>2
  <2> QED  BY <1>1, <1>2, <2>1, <2>2
<1>10. ASSUME NEW p \in Handlers, Callback(p) PROVE AtSpace'
  <2>1. /\ UNCHANGED <<terms, usage, baseline, events, calls, drops>>
        /\ news' = news \/ news' = [news EXCEPT ![p] = None]
    BY <1>10 DEF Callback, Return, space, link
  <2> QED  BY <1>1, <1>2, <2>1
<1> QED  BY <1>3, <1>4, <1>5, <1>6, <1>7, <1>8, <1>9, <1>10 DEF Around, Acts

(* What is stored is an answer, stored now.                                *)
Stores(p, k) ==
  /\ UNCHANGED <<terms, usage>>
  /\ answer[p] \in Answers /\ pc[p] \in {"answered", "applying"} /\ (p \in Handlers => threaded)
  /\ cache'[k] \in Entries
  /\ cache'[k].terms = answer[p].terms[k[2]] /\ cache'[k].usage = answer[p].usage[k[2]]
  /\ cache'[k].storedAt.terms = terms[k[2]] /\ cache'[k].storedAt.usage = usage[k[2]]

LEMMA EntryStored ==
  ASSUME Types, NEW p \in Processes, NEW k \in Keys, pc[p] \in {"answered", "applying"},
         p \in Handlers => pc[p] = "answered",
         cache' = [cache EXCEPT ![k] = Entry(p, k[2])], UNCHANGED <<terms, usage>>
  PROVE  Stores(p, k) /\ cache'[k] = Entry(p, k[2])
<1>1. k[2] \in Users
  BY KeyShape DEF Types
<1>2. answer[p] \in Answers /\ (p \in Handlers => threaded)
  <2>1. About(p) /\ answer[p] \in Answers \cup {None} /\ (p \in Callers <=> p \notin Handlers)
    BY SettingFacts DEF Types, Locals
  <2> QED  BY <2>1 DEF About
<1>3. terms[k[2]] \in 0 .. MaxTerms /\ usage[k[2]] \in 0 .. MaxUsage
  BY <1>1 DEF Types, AtSpace
<1>4. Entry(p, k[2]) \in Entries
  BY <1>1, <1>2, <1>3 DEF Entry, Entries, Counts, Answers
<1>5. cache'[k] = Entry(p, k[2])
  BY DEF Types, InCache
<1> QED  BY <1>2, <1>4, <1>5 DEF Stores, Entry

(* An entry stays, goes, or is stored anew.                                *)
LEMMA CacheActs ==
  ASSUME Types, NEW p \in Processes, Acts(p)
  PROVE  /\ DOMAIN cache' = Keys /\ cache' = [k \in Keys |-> cache'[k]]
         /\ \A k \in Keys : cache'[k] \in {cache[k], None} \/ Stores(p, k)
<1> DEFINE Goal == /\ DOMAIN cache' = Keys /\ cache' = [k \in Keys |-> cache'[k]]
                   /\ \A k \in Keys : cache'[k] \in {cache[k], None} \/ Stores(p, k)
<1>0. cache \in [Keys -> Entries \cup {None}]
  BY DEF Types, InCache
<1>1. CASE UNCHANGED cache
  BY <1>0, <1>1
<1>2. ASSUME NEW k \in Keys, cache' = [cache EXCEPT ![k] = None]
      PROVE  Goal
  BY <1>0, <1>2
<1>3. ASSUME NEW k \in Keys, cache' = [cache EXCEPT ![k] = Entry(p, k[2])], Stores(p, k)
      PROVE  Goal
  BY <1>0, <1>3
<1>4. CASE Store(p)
  <2>1. call[p].key \in Keys
    <3>1. CASE p \in Handlers
      <4>1. pc[p] = "answered" /\ About(p) /\ news[p] \in Tidings \cup {None}
        BY <1>4 DEF Store, Types, AtSpace
      <4>2. call[p] = [kind |-> "read", key |-> <<"contract", news[p].user>>] /\ news[p] \in Tidings
        BY <3>1, <4>1 DEF About
      <4>3. call[p].key = <<"contract", news[p].user>>
        BY <4>2
      <4> QED  BY <4>2, <4>3, KeyShape DEF Types, Tidings
    <3>2. CASE p \notin Handlers
      BY <1>4, <3>2, OperationShape, SettingFacts DEF Store, Types, About
    <3> QED  BY <3>1, <3>2
  <2>2. /\ pc[p] = "answered" /\ UNCHANGED <<terms, usage>>
        /\ cache' = [cache EXCEPT ![call[p].key] = Entry(p, call[p].key[2])]
    BY <1>4 DEF Store, space
  <2>3. Stores(p, call[p].key)
    BY <2>1, <2>2, EntryStored
  <2> QED  BY <1>3, <2>1, <2>2, <2>3
<1>5. CASE Replace(p)
  <2>1. CASE call[p].kind = "replace"
    <3>1. /\ pc[p] = "applying" /\ UNCHANGED <<terms, usage>> /\ scopes[p] # <<>>
      BY <1>5 DEF Replace, space
    <3>2. PICK u \in Head(scopes[p]) : cache' = [cache EXCEPT ![<<"contract", u>>] = Entry(p, u)]
      BY <1>5, <2>1 DEF Replace
    <3>3. scopes[p] \in Seq(SUBSET Users) /\ Head(scopes[p]) \in SUBSET Users
      BY <3>1 DEF Types, Locals
    <3> DEFINE k == <<"contract", u>>
    <3>4. k \in Keys /\ k[2] = u
      BY <3>2, <3>3, KeyShape DEF Types
    <3>5. p \notin Handlers
      <4>1. About(p)
        BY DEF Types
      <4> QED  BY <2>1, <3>1, <4>1 DEF About, Handling
    <3>6. cache' = [cache EXCEPT ![k] = Entry(p, k[2])]
      BY <3>2, <3>4
    <3> HIDE DEF k
    <3>7. Stores(p, k)
      BY <3>1, <3>4, <3>5, <3>6, EntryStored
    <3> QED  BY <1>3, <3>4, <3>6, <3>7
  <2>2. CASE call[p].kind # "replace"
    BY <1>1, <1>5, <2>2 DEF Replace
  <2> QED  BY <2>1, <2>2
<1>6. CASE Delete(p)
  <2>1. doomed[p] \subseteq Keys
    BY DEF Types, Locals
  <2> QED  BY <1>2, <1>6, <2>1 DEF Delete
<1>7. ASSUME NEW op, Begin(p, op) PROVE UNCHANGED cache
  BY <1>7 DEF Begin
<1>8. CASE \/ Look(p) \/ Apply(p) \/ List(p) \/ Finish(p) \/ Serve(p) \/ Lose(p)
           \/ Connect(p) \/ Greet(p) \/ Message(p) \/ Callback(p)
  BY <1>1, <1>8 DEF Look, Apply, List, Finish, Serve, Lose, Connect, Greet, Message, Callback
<1> QED  BY <1>1, <1>4, <1>5, <1>6, <1>7, <1>8 DEF Acts, Run

LEMMA CacheAround ==
  ASSUME Types, Around
  PROVE  /\ DOMAIN cache' = Keys /\ cache' = [k \in Keys |-> cache'[k]]
         /\ \A k \in Keys : cache'[k] \in {cache[k], None}
BY DEF Types, InCache, Around, Disconnect, Elsewhere, Expire

LEMMA InCacheStep ==
  ASSUME Types, setting' = setting, Around \/ \E p \in Processes : Acts(p)
  PROVE  InCache'
<1>1. Keys' = Keys /\ Entries' = Entries
  BY SameSetting DEF Entries, Counts
<1>2. \A k \in Keys : cache'[k] \in Entries \cup {None}
  BY CacheActs, CacheAround DEF Types, InCache, Stores
<1>3. cache' = [k \in Keys |-> cache'[k]]
  BY CacheActs, CacheAround
<1> QED  BY <1>1, <1>2, <1>3 DEF InCache

(* The facts a step leaves about its process, and about who waits.         *)
LEMMA Returns ==
  ASSUME Types, NEW p \in Processes, Return(p), UNCHANGED <<scopes, stage, doomed>>,
         pc[p] = "applying" => scopes[p] = <<>> /\ doomed[p] = {}
  PROVE  /\ pc' \in [Processes -> Places] /\ pc'[p] = "idle"
         /\ call' = [call EXCEPT ![p] = None] /\ answer' = [answer EXCEPT ![p] = None]
         /\ call'[p] = None /\ answer'[p] = None
         /\ scopes'[p] = <<>> /\ doomed'[p] = {} /\ stage'[p] = 1
         /\ news'[p] = None
BY DEF Return, Goto, Types, Locals, AtSpace, About, Places

LEMMA LocalsReturn ==
  ASSUME Types, setting' = setting, NEW p \in Processes, Return(p), UNCHANGED <<scopes, stage, doomed>>,
         pc[p] = "applying" => scopes[p] = <<>> /\ doomed[p] = {}
  PROVE  Locals' /\ About(p)'
<1>1. /\ pc' \in [Processes -> Places] /\ pc'[p] = "idle"
      /\ call' = [call EXCEPT ![p] = None] /\ answer' = [answer EXCEPT ![p] = None]
      /\ call'[p] = None /\ answer'[p] = None
      /\ scopes'[p] = <<>> /\ doomed'[p] = {} /\ stage'[p] = 1
      /\ news'[p] = None
  BY Returns
<1>2. /\ Processes' = Processes /\ Keys' = Keys /\ Users' = Users /\ Answers' = Answers
      /\ Operations' = Operations /\ None \in Operations
      /\ Callers' = Callers /\ Handlers' = Handlers
  BY SameSetting DEF Answers, Operations
<1>3. Locals'
  BY <1>1, <1>2 DEF Types, Locals
<1> QED  BY <1>1, <1>3 DEF About

(* A process that goes on, with new values of its variables.               *)
Goes(p, place, op, reply, wider, n, listed) ==
  /\ place \in Places /\ op \in Operations /\ reply \in Answers \cup {None}
  /\ wider \in Seq(SUBSET Users) /\ n \in 1 .. 5 /\ listed \in SUBSET Keys
  /\ pc' = [pc EXCEPT ![p] = place]
  /\ call' = [call EXCEPT ![p] = op]
  /\ answer' = [answer EXCEPT ![p] = reply]
  /\ scopes' = [scopes EXCEPT ![p] = wider]
  /\ stage' = [stage EXCEPT ![p] = n]
  /\ doomed' = [doomed EXCEPT ![p] = listed]

LEMMA GoesOn ==
  ASSUME Types, setting' = setting, NEW p \in Processes, NEW place, NEW op, NEW reply, NEW wider,
         NEW n, NEW listed, Goes(p, place, op, reply, wider, n, listed)
  PROVE  /\ Locals'
         /\ pc'[p] = place /\ call'[p] = op /\ answer'[p] = reply
         /\ scopes'[p] = wider /\ stage'[p] = n /\ doomed'[p] = listed
<1>1. /\ Processes' = Processes /\ Keys' = Keys /\ Users' = Users /\ Answers' = Answers
      /\ Operations' = Operations
  BY SameSetting DEF Answers, Operations
<1> QED  BY <1>1 DEF Types, Locals, Goes

LEMMA LocalsBegin ==
  ASSUME Types, setting' = setting, NEW p \in Callers, NEW op \in Settings[setting].operations, Begin(p, op)
  PROVE  Locals' /\ About(p)'
<1> DEFINE place == IF op.kind = "read" THEN "looking" ELSE "asking"
<1>1. /\ p \in Processes /\ p \notin Handlers /\ pc[p] = "idle" /\ op # None /\ news'[p] = None
      /\ scopes[p] = <<>> /\ doomed[p] = {} /\ stage[p] = 1
  BY SettingFacts, OperationShape DEF Begin, Types, About, Processes
<1>2. place \in Places
  BY DEF Places
<1>4. answer[p] \in Answers \cup {None} /\ <<>> \in Seq(SUBSET Users) /\ op \in Operations
  BY <1>1 DEF Types, Locals, Operations
<1>3. Goes(p, place, op, answer[p], <<>>, 1, {})
  BY <1>1, <1>2, <1>4 DEF Goes, Begin, Goto, work, Types, Locals
<1> HIDE DEF place
<1>5. /\ Locals'
      /\ pc'[p] = place /\ call'[p] = op /\ answer'[p] = answer[p]
      /\ scopes'[p] = <<>> /\ stage'[p] = 1 /\ doomed'[p] = {}
  BY <1>1, <1>3, GoesOn
<1>6. place \in {"looking", "asking"} /\ (place = "looking" => op.kind = "read")
  BY DEF place
<1> QED  BY <1>1, <1>5, <1>6, SameSetting DEF About

LEMMA LocalsLook ==
  ASSUME Types, setting' = setting, NEW p \in Processes, Look(p)
  PROVE  Locals' /\ About(p)'
<1>1. pc[p] = "looking" /\ UNCHANGED <<scopes, stage, doomed>>
  BY DEF Look, work
<1>2. CASE Return(p)
  BY <1>1, <1>2, LocalsReturn
<1>3. CASE Goto(p, "asking") /\ UNCHANGED <<call, answer, news>>
  <2>1. scopes[p] = <<>> /\ doomed[p] = {} /\ stage[p] = 1
    BY <1>1 DEF Types, About
  <2>2. /\ "asking" \in Places /\ <<>> \in Seq(SUBSET Users)
        /\ call[p] \in Operations /\ answer[p] \in Answers \cup {None}
    BY DEF Places, Types, Locals
  <2>3. Goes(p, "asking", call[p], answer[p], <<>>, 1, {})
    BY <1>1, <1>3, <2>1, <2>2 DEF Goes, Goto, Types, Locals
  <2>4. /\ Locals'
        /\ pc'[p] = "asking" /\ call'[p] = call[p] /\ answer'[p] = answer[p]
        /\ scopes'[p] = <<>> /\ stage'[p] = 1 /\ doomed'[p] = {}
    BY <2>3, GoesOn
  <2>5. threaded' = threaded /\ Callers' = Callers /\ Handlers' = Handlers
    BY SameSetting
  <2> QED  BY <1>1, <1>3, <2>4, <2>5 DEF Types, About
<1> QED  BY <1>2, <1>3 DEF Look

LEMMA LocalsServe ==
  ASSUME Types, setting' = setting, NEW p \in Processes, Serve(p)
  PROVE  Locals' /\ About(p)'
<1> DEFINE reply == [terms |-> terms', usage |-> usage']
<1>1. /\ terms' \in [Users -> 0 .. MaxTerms] /\ usage' \in [Users -> 0 .. MaxUsage]
      /\ answer' = [answer EXCEPT ![p] = reply]
      /\ pc[p] = "asking" /\ pc' = [pc EXCEPT ![p] = "answered"]
      /\ UNCHANGED <<call, scopes, stage, doomed, news>>
  BY ServeFacts
<1>2. scopes[p] = <<>> /\ doomed[p] = {} /\ stage[p] = 1
  BY <1>1 DEF Types, About
<1>3. reply \in Answers /\ reply \in Told(Users)
  <2>1. MaxTerms \in Nat /\ MaxUsage \in Nat
    BY SettingFacts DEF Types
  <2> QED  BY <1>1, <2>1 DEF Answers, Told
<1>4. reply # None
  BY <1>3, SettingFacts DEF Types
<1>5. "answered" \in Places /\ <<>> \in Seq(SUBSET Users) /\ call[p] \in Operations
  BY DEF Places, Types, Locals
<1> HIDE DEF reply
<1>6. Goes(p, "answered", call[p], reply, <<>>, 1, {})
  BY <1>1, <1>2, <1>3, <1>5 DEF Goes, Types, Locals
<1>7. /\ Locals'
      /\ pc'[p] = "answered" /\ call'[p] = call[p] /\ answer'[p] = reply
      /\ scopes'[p] = <<>> /\ stage'[p] = 1 /\ doomed'[p] = {}
  BY <1>6, GoesOn
<1>8. threaded' = threaded /\ Callers' = Callers /\ Handlers' = Handlers
  BY SameSetting
<1> QED  BY <1>1, <1>4, <1>7, <1>8 DEF Types, About

LEMMA LocalsReturned ==
  ASSUME Types, setting' = setting, NEW p \in Processes, Store(p) \/ Finish(p) \/ Lose(p)
  PROVE  Locals' /\ About(p)'
<1>1. Return(p) /\ UNCHANGED <<scopes, stage, doomed>>
  BY DEF Store, Finish, Lose, work
<1>2. pc[p] = "applying" => scopes[p] = <<>> /\ doomed[p] = {}
  BY DEF Store, Finish, Lose
<1> QED  BY <1>1, <1>2, LocalsReturn

(* Only a call that wrote, or was refused, invalidates.                    *)
LEMMA LocalsApply ==
  ASSUME Types, setting' = setting, NEW p \in Processes, Apply(p)
  PROVE  /\ Locals' /\ About(p)' /\ p \in Callers /\ call[p] \in Settings[setting].operations
         /\ pc[p] = "answered" /\ pc'[p] = "applying" /\ call'[p] = call[p] /\ answer'[p] = answer[p]
         /\ call[p].kind = "spend" => doomed'[p] = Spoiled(call[p].users[1], call[p].feature)
         /\ call[p].kind # "spend" =>
              scopes'[p] = [i \in DOMAIN call[p].users |-> {call[p].users[i]}] /\ stage'[p] = 1
<1> DEFINE op == call[p]
           wider == IF op.kind = "spend" THEN <<>> ELSE [i \in DOMAIN op.users |-> {op.users[i]}]
           listed == IF op.kind = "spend" THEN Spoiled(op.users[1], op.feature) ELSE {}
<1>1. /\ pc[p] = "answered" /\ op.kind # "read" /\ scopes[p] = <<>> /\ doomed[p] = {} /\ stage[p] = 1
      /\ answer[p] # None
  BY DEF Apply, Types, About
<1>2. p \notin Handlers /\ p \in Callers /\ op # None /\ news'[p] = None
  <2>1. p \notin Handlers /\ op # None
    <3>1. About(p)
      BY DEF Types
    <3> QED  BY <1>1, <3>1 DEF About
  <2>2. p \in Callers
    BY <2>1, SettingFacts DEF Types
  <2> QED  BY <2>1, <2>2 DEF Apply, Types, About
<1>3. op \in Settings[setting].operations
  BY <1>2 DEF Types, About
<1>4. op.users \in Seq(Users) /\ op.users[1] \in Users /\ (op.kind = "spend" => op.feature \in Features)
  BY <1>1, <1>3, OperationShape DEF Types
<1>5. wider \in Seq(SUBSET Users)
  BY <1>4
<1>6. listed \in SUBSET Keys
  BY <1>4, KeyShape DEF Spoiled, Types
<1>7. /\ pc' = [pc EXCEPT ![p] = "applying"] /\ UNCHANGED <<call, answer, stage>>
      /\ scopes' = [scopes EXCEPT ![p] = wider] /\ doomed' = [doomed EXCEPT ![p] = listed]
  <2>1. scopes = [scopes EXCEPT ![p] = <<>>] /\ doomed = [doomed EXCEPT ![p] = {}]
    BY <1>1 DEF Types, Locals
  <2> QED  BY <2>1 DEF Apply, Goto
<1> HIDE DEF wider, listed
<1>8. Goes(p, "applying", op, answer[p], wider, 1, listed)
  BY <1>1, <1>5, <1>6, <1>7 DEF Goes, Types, Locals, Places
<1>9. /\ Locals'
      /\ pc'[p] = "applying" /\ call'[p] = op /\ answer'[p] = answer[p]
      /\ scopes'[p] = wider /\ stage'[p] = 1 /\ doomed'[p] = listed
  BY <1>8, GoesOn
<1>10. About(p)'
  BY <1>1, <1>2, <1>3, <1>9, SameSetting DEF About
<1> QED  BY <1>1, <1>2, <1>3, <1>9, <1>10 DEF wider, listed

LEMMA LocalsInvalidate ==
  ASSUME Types, setting' = setting, NEW p \in Processes, List(p) \/ Delete(p) \/ Replace(p)
  PROVE  Locals' /\ About(p)'
<1>1. pc[p] = "applying" /\ UNCHANGED <<pc, call, answer, news>>
  BY DEF List, Delete, Replace
<1>2. /\ pc[p] \in Places /\ call[p] \in Operations /\ answer[p] \in Answers \cup {None}
      /\ scopes[p] \in Seq(SUBSET Users) /\ stage[p] \in 1 .. 5 /\ doomed[p] \subseteq Keys
  BY DEF Types, Locals
<1>3. threaded' = threaded /\ Callers' = Callers /\ Handlers' = Handlers
  BY SameSetting
<1>4. ASSUME NEW wider, NEW n, NEW listed, Goes(p, pc[p], call[p], answer[p], wider, n, listed),
             wider = <<>> => n = 1
      PROVE  Locals' /\ About(p)'
  <2>1. /\ Locals'
        /\ pc'[p] = pc[p] /\ call'[p] = call[p] /\ answer'[p] = answer[p]
        /\ scopes'[p] = wider /\ stage'[p] = n /\ doomed'[p] = listed
    BY <1>4, GoesOn
  <2> QED  BY <1>1, <1>3, <1>4, <2>1 DEF Types, About
<1>5. CASE List(p)
  <2> DEFINE listed == {k \in Matching(Patterns[stage[p]], Head(scopes[p])) : cache[k] # None}
  <2>1. listed \subseteq Keys
    BY DEF Matching
  <2>2. stage[p] + 1 \in 1 .. 5 /\ scopes[p] # <<>>
    <3>1. Len(Patterns) = 4
      BY PatternsCover DEF Types
    <3>2. stage[p] <= 4 /\ scopes[p] # <<>>
      BY <1>5, <3>1 DEF List
    <3> QED  BY <1>2, <3>2
  <2>3. /\ doomed' = [doomed EXCEPT ![p] = listed] /\ stage' = [stage EXCEPT ![p] = stage[p] + 1]
        /\ scopes' = scopes
    BY <1>5 DEF List, Types, Locals
  <2> HIDE DEF listed
  <2>4. Goes(p, pc[p], call[p], answer[p], scopes[p], stage[p] + 1, listed)
    BY <1>1, <1>2, <2>1, <2>2, <2>3 DEF Goes, Types, Locals
  <2> QED  BY <1>4, <2>2, <2>4
<1>6. CASE Delete(p)
  <2>1. PICK k \in doomed[p] : doomed' = [doomed EXCEPT ![p] = doomed[p] \ {k}]
    BY <1>6 DEF Delete, Types, Locals
  <2>2. UNCHANGED <<scopes, stage>> /\ (scopes[p] = <<>> => stage[p] = 1)
    BY <1>6 DEF Delete, Types, About
  <2>3. Goes(p, pc[p], call[p], answer[p], scopes[p], stage[p], doomed[p] \ {k})
    BY <1>1, <1>2, <2>1, <2>2 DEF Goes, Types, Locals
  <2> QED  BY <1>4, <2>2, <2>3
<1>7. CASE Replace(p)
  <2>1. /\ scopes' = [scopes EXCEPT ![p] = Tail(scopes[p])] /\ stage' = [stage EXCEPT ![p] = 1]
        /\ doomed' = doomed /\ scopes[p] # <<>>
    BY <1>7 DEF Replace, FromTheTop
  <2>2. Tail(scopes[p]) \in Seq(SUBSET Users)
    BY <1>2, <2>1
  <2>3. Goes(p, pc[p], call[p], answer[p], Tail(scopes[p]), 1, doomed[p])
    BY <1>1, <1>2, <2>1, <2>2 DEF Goes, Types, Locals
  <2> QED  BY <1>4, <2>3
<1> QED  BY <1>5, <1>6, <1>7

(* The handlers of the socket.                                             *)
LEMMA LocalsConnect ==
  ASSUME Types, setting' = setting, NEW p \in Handlers, Connect(p)
  PROVE  Locals' /\ About(p)' /\ pc'[p] = "greeting"
<1>1. /\ p \in Processes /\ p \notin Callers
      /\ Handlers' = Handlers /\ Callers' = Callers /\ Handling # None
  BY SettingFacts, SameSetting DEF Types, Handling
<1>2. pc[p] = "idle" /\ scopes[p] = <<>> /\ doomed[p] = {} /\ stage[p] = 1 /\ news[p] = None
  BY <1>1 DEF Connect, Types, About
<1>3. Goes(p, "greeting", Handling, answer[p], scopes[p], stage[p], doomed[p])
  <2>1. /\ pc' = [pc EXCEPT ![p] = "greeting"] /\ call' = [call EXCEPT ![p] = Handling]
        /\ UNCHANGED <<answer, scopes, stage, doomed>>
    BY DEF Connect, Goto, Handling, work
  <2> QED  BY <1>1, <2>1 DEF Goes, Types, Locals, Places, Operations
<1>4. /\ Locals'
      /\ pc'[p] = "greeting" /\ call'[p] = Handling
      /\ scopes'[p] = scopes[p] /\ stage'[p] = stage[p] /\ doomed'[p] = doomed[p]
  BY <1>1, <1>3, GoesOn
<1>5. news'[p] = None
  BY <1>2 DEF Connect
<1>6. About(p)'
  BY <1>1, <1>2, <1>4, <1>5 DEF About
<1> QED  BY <1>4, <1>6

LEMMA LocalsHandle ==
  ASSUME Types, setting' = setting, NEW p \in Handlers, Greet(p) \/ Message(p)
  PROVE  /\ Locals' /\ About(p)' /\ pc'[p] = "applying" /\ news'[p] # None
         /\ Greet(p) => scopes'[p] = Missed /\ stage'[p] = 1
         /\ \A e \in events : scopes' = [scopes EXCEPT ![p] = Announced(e)] =>
              scopes'[p] = <<{e.user}>> /\ stage'[p] = 1
<1>1. /\ p \in Processes /\ p \notin Callers
      /\ Handlers' = Handlers /\ Callers' = Callers
  BY SettingFacts, SameSetting DEF Types
<1>2. PICK wider \in Seq(SUBSET Users) : scopes' = [scopes EXCEPT ![p] = wider]
  <2>1. Users \in SUBSET Users /\ Missed \in Seq(SUBSET Users)
    <3>1. <<Users>> \in Seq(SUBSET Users) /\ <<>> \in Seq(SUBSET Users)
      OBVIOUS
    <3> QED  BY <3>1 DEF Missed
  <2>2. \A e \in events : Announced(e) \in Seq(SUBSET Users)
    BY DEF Announced, Types, AtSpace
  <2> QED  BY <2>1, <2>2 DEF Greet, Message
<1>3. Goes(p, "applying", Handling, answer[p], wider, 1, {})
  <2>1. pc[p] \in {"idle", "greeting"} /\ doomed[p] = {} /\ stage[p] = 1
    BY <1>1 DEF Greet, Message, Types, About
  <2>2. /\ pc' = [pc EXCEPT ![p] = "applying"] /\ UNCHANGED <<answer, stage, doomed>>
        /\ call' = [call EXCEPT ![p] = Handling]
    <3>1. CASE Message(p)
      BY <3>1 DEF Message, Goto, Handling
    <3>2. CASE Greet(p)
      <4>1. call[p] = Handling
        BY <1>1, <3>2 DEF Greet, Types, About
      <4> QED  BY <1>1, <3>2, <4>1 DEF Greet, Goto, Types, Locals
    <3> QED  BY <3>1, <3>2
  <2> QED  BY <1>1, <1>2, <2>1, <2>2 DEF Goes, Types, Locals, Places, Operations
<1>4. /\ Locals'
      /\ pc'[p] = "applying" /\ call'[p] = Handling
      /\ scopes'[p] = wider /\ stage'[p] = 1 /\ doomed'[p] = {}
  BY <1>1, <1>3, GoesOn
<1>5. news'[p] # None
  <2>1. \A n \in News(Users) : n # None
    BY SettingFacts DEF Types
  <2>2. MaxTerms \in Nat /\ news \in [Processes -> Tidings \cup {None}]
    BY SettingFacts DEF Types, AtSpace
  <2>3. ASSUME Greet(p) PROVE news'[p] \in News(Users)
    <3>1. PICK u \in Users :
            news' = [news EXCEPT ![p] = [user |-> u, terms |-> terms[u],
                                         kind |-> IF connected THEN "resync" ELSE "first resync"]]
      BY <2>3 DEF Greet
    <3>2. terms[u] \in Nat
      BY <2>2 DEF Types, AtSpace
    <3> QED  BY <1>1, <2>2, <3>1, <3>2 DEF News
  <2>4. ASSUME Message(p) PROVE news'[p] \in News(Users)
    <3>1. PICK e \in events :
            news' = [news EXCEPT ![p] = [user |-> e.user, terms |-> e.terms, kind |-> "event"]]
      BY <2>4 DEF Message
    <3>2. e.user \in Users /\ e.terms \in Nat
      BY <2>2 DEF Types, AtSpace
    <3> QED  BY <1>1, <2>2, <3>1, <3>2 DEF News
  <2> QED  BY <2>1, <2>3, <2>4
<1>6. Handling # None
  BY SettingFacts DEF Handling, Types
<1>7. About(p)'
  BY <1>1, <1>4, <1>5, <1>6 DEF About
<1>8. Greet(p) => wider = Missed
  BY <1>1, <1>2 DEF Greet, Types, Locals
<1>9. \A e \in events : scopes' = [scopes EXCEPT ![p] = Announced(e)] => wider = <<{e.user}>>
  BY <1>1, <1>2 DEF Announced, Types, Locals
<1> QED  BY <1>4, <1>5, <1>7, <1>8, <1>9

LEMMA LocalsCallback ==
  ASSUME Types, setting' = setting, NEW p \in Handlers, Callback(p)
  PROVE  Locals' /\ About(p)'
<1>1. /\ p \in Processes /\ p \notin Callers
      /\ Handlers' = Handlers /\ Callers' = Callers
  BY SettingFacts, SameSetting DEF Types
<1>2. /\ pc[p] = "applying" /\ UNCHANGED <<scopes, stage, doomed>>
      /\ scopes[p] = <<>> /\ doomed[p] = {} /\ stage[p] = 1
  BY <1>1 DEF Callback, Types, About, work
<1>3. CASE Return(p)
  BY <1>1, <1>2, <1>3, LocalsReturn
<1>4. CASE /\ threaded
           /\ Goto(p, "looking")
           /\ call' = [call EXCEPT ![p] = [kind |-> "read", key |-> <<"contract", news[p].user>>]]
           /\ UNCHANGED <<answer, news>>
  <2> DEFINE op == [kind |-> "read", key |-> <<"contract", news[p].user>>]
  <2>1. news[p] # None /\ news[p].user \in Users
    BY <1>1, <1>2 DEF Types, About, AtSpace, Tidings
  <2>2. <<"contract", news[p].user>> \in Keys
    BY <2>1, KeyShape DEF Types
  <2>3. op \in OperationsOf(Users, Features)
    BY <2>2, SettingFacts DEF OperationsOf, Types
  <2>4. op # None /\ op \in Operations
    BY <2>2, <2>3, SettingFacts DEF Types, Operations
  <2>5. op.kind = "read" /\ op = [kind |-> "read", key |-> <<"contract", news'[p].user>>]
    BY <1>4
  <2>6. call' = [call EXCEPT ![p] = op]
    BY <1>4
  <2> HIDE DEF op
  <2>7. Goes(p, "looking", op, answer[p], <<>>, 1, {})
    <3>1. pc' = [pc EXCEPT ![p] = "looking"] /\ UNCHANGED <<answer, scopes, stage, doomed>>
      BY <1>2, <1>4 DEF Goto
    <3>2. Locals
      BY DEF Types
    <3> QED  BY <1>1, <1>2, <2>4, <2>6, <3>1, <3>2 DEF Goes, Locals, Places
  <2>8. /\ Locals'
        /\ pc'[p] = "looking" /\ call'[p] = op
        /\ scopes'[p] = <<>> /\ stage'[p] = 1 /\ doomed'[p] = {}
    BY <1>1, <2>7, GoesOn
  <2>9. threaded' /\ news' = news
    BY <1>4, SameSetting
  <2> QED  BY <1>1, <2>1, <2>4, <2>5, <2>8, <2>9 DEF About
<1> QED  BY <1>3, <1>4 DEF Callback

LEMMA LocalsStep ==
  ASSUME Types, setting' = setting, NEW p \in Processes, Acts(p)
  PROVE  Locals' /\ About(p)'
BY LocalsBegin, LocalsLook, LocalsServe, LocalsReturned, LocalsApply, LocalsInvalidate,
   LocalsConnect, LocalsHandle, LocalsCallback DEF Acts, Run

(* What a call that returns has written.                                   *)
LEMMA FinishFacts ==
  ASSUME Types, NEW p \in Processes, Finish(p)
  PROVE  /\ p \in Callers /\ call[p] \in Settings[setting].operations /\ answer[p] \in Answers
         /\ pc[p] = "applying" /\ scopes[p] = <<>> /\ doomed[p] = {} /\ call[p].kind # "read"
         /\ written' = IF call[p].kind \in {"replace", "remove"}
                       THEN [u \in Users |-> IF u \in Named(call[p])
                                             THEN Newest(written[u], answer[p].terms[u])
                                             ELSE written[u]]
                       ELSE written
         /\ spent' = IF call[p].kind = "spend"
                     THEN [spent EXCEPT ![call[p].users[1]] =
                             [spent[call[p].users[1]] EXCEPT ![call[p].feature] =
                                Newest(spent[call[p].users[1]][call[p].feature],
                                       answer[p].usage[call[p].users[1]])]]
                     ELSE spent
         /\ UNCHANGED <<cache, terms, usage>>
<1>1. p \in Callers /\ pc[p] = "applying" /\ scopes[p] = <<>> /\ doomed[p] = {}
  BY DEF Finish
<1>2. p \in Callers /\ call[p] # None /\ call[p].kind # "read" /\ answer[p] \in Answers
  BY <1>1 DEF Types, Locals, About, Processes
<1>3. call[p] \in Settings[setting].operations
  BY <1>1, <1>2 DEF Types, About
<1> QED  BY <1>1, <1>2, <1>3 DEF Finish, space

LEMMA NewestOf ==
  ASSUME NEW m \in Nat, NEW a \in 0 .. m, NEW b \in 0 .. m
  PROVE  Newest(a, b) \in 0 .. m /\ Newest(a, b) >= a /\ Newest(a, b) >= b /\ Newest(a, b) \in {a, b}
BY DEF Newest

LEMMA HistoriesStep ==
  ASSUME Types, setting' = setting, Around \/ \E p \in Processes : Acts(p)
  PROVE  Histories'
<1>1. /\ MaxTerms \in Nat /\ MaxUsage \in Nat
      /\ MaxTerms' = MaxTerms /\ Users' = Users /\ Features' = Features
  BY SettingFacts, SameSetting DEF Types
<1>2. Histories
  BY DEF Types
<1>3. CASE UNCHANGED <<written, spent>>
  BY <1>1, <1>2, <1>3 DEF Histories
<1>4. ASSUME NEW p \in Processes, Finish(p) PROVE Histories'
  <2>1. /\ call[p] \in Settings[setting].operations /\ answer[p] \in Answers /\ call[p].kind # "read"
        /\ written' = IF call[p].kind \in {"replace", "remove"}
                      THEN [u \in Users |-> IF u \in Named(call[p])
                                            THEN Newest(written[u], answer[p].terms[u])
                                            ELSE written[u]]
                      ELSE written
        /\ spent' = IF call[p].kind = "spend"
                    THEN [spent EXCEPT ![call[p].users[1]] =
                            [spent[call[p].users[1]] EXCEPT ![call[p].feature] =
                               Newest(spent[call[p].users[1]][call[p].feature],
                                      answer[p].usage[call[p].users[1]])]]
                    ELSE spent
    BY <1>4, FinishFacts
  <2>2. \A u \in Users : Newest(written[u], answer[p].terms[u]) \in 0 .. MaxTerms
    BY <1>1, <1>2, <2>1, NewestOf DEF Histories, Answers
  <2>3. written' \in [Users -> 0 .. MaxTerms]
    BY <1>2, <2>1, <2>2 DEF Histories
  <2>4. CASE call[p].kind = "spend"
    <3> DEFINE u == call[p].users[1]
               f == call[p].feature
    <3>1. u \in Users /\ f \in Features
      BY <2>1, <2>4, OperationShape DEF Types
    <3>2. Newest(spent[u][f], answer[p].usage[u]) \in 0 .. MaxUsage
      BY <1>1, <1>2, <2>1, <3>1, NewestOf DEF Histories, Answers
    <3>3. spent' \in [Users -> [Features -> 0 .. MaxUsage]]
      BY <1>2, <2>1, <2>4, <3>1, <3>2 DEF Histories
    <3> QED  BY <1>1, <2>3, <3>3 DEF Histories
  <2>5. CASE call[p].kind # "spend"
    BY <1>1, <1>2, <2>1, <2>3, <2>5 DEF Histories
  <2> QED  BY <2>4, <2>5
<1>5. ASSUME NEW p \in Processes, Acts(p), ~ Finish(p) PROVE UNCHANGED <<written, spent>>
  BY <1>5 DEF Acts, Run, Begin, Look, Store, Apply, List, Delete, Replace, Serve, Lose, Connect, Greet,
              Message, Callback, ghosts
<1>6. Around => UNCHANGED <<written, spent>>
  BY DEF Around, Disconnect, Elsewhere, Expire, ghosts
<1> QED  BY <1>3, <1>4, <1>5, <1>6

LEMMA StillAbout ==
  ASSUME Types, setting' = setting, NEW p \in Processes, Waits(p) \/ Forgets(p)
  PROVE  About(p)'
<1>1. /\ threaded' = threaded /\ Callers' = Callers /\ Handlers' = Handlers
      /\ p \in Callers <=> p \notin Handlers
  BY SettingFacts, SameSetting DEF Types
<1>2. CASE Waits(p)
  BY <1>1, <1>2 DEF Types, About, Waits, Rests
<1>3. CASE Forgets(p)
  <2>1. p \in Handlers /\ news[p] = None
    BY <1>1, <1>3 DEF Types, About, Forgets
  <2> QED  BY <1>1, <1>3, <2>1 DEF Types, About, Forgets, Rests
<1> QED  BY <1>2, <1>3

LEMMA AboutStep ==
  ASSUME Types, setting' = setting, Around \/ \E p \in Processes : Acts(p)
  PROVE  Locals' /\ \A q \in Processes : About(q)'
<1>1. /\ Processes' = Processes /\ Keys' = Keys /\ Users' = Users /\ Answers' = Answers
      /\ Operations' = Operations
  BY SameSetting DEF Answers, Operations
<1>2. CASE Around
  <2>1. /\ UNCHANGED <<answer, scopes, stage, doomed, news>>
        /\ DOMAIN pc' = Processes /\ pc' = [p \in Processes |-> pc'[p]]
        /\ DOMAIN call' = Processes /\ call' = [p \in Processes |-> call'[p]]
    BY <1>2 DEF Around, Disconnect, Elsewhere, Expire, work, Types, Locals
  <2>2. \A p \in Processes : pc'[p] \in Places /\ call'[p] \in Operations
    BY <1>2, NobodyActs DEF Waits, Forgets, Types, Locals, Places, Operations
  <2>3. Locals'
    BY <1>1, <2>1, <2>2 DEF Types, Locals
  <2> QED  BY <1>2, <2>3, NobodyActs, StillAbout
<1>3. ASSUME NEW p \in Processes, Acts(p) PROVE Locals' /\ \A q \in Processes : About(q)'
  BY <1>3, LocalsStep, OthersWait, StillAbout
<1> QED  BY <1>2, <1>3

LEMMA TypesStep ==
  ASSUME Types, Next
  PROVE  Types'
<1>1. setting' = setting /\ (Around \/ \E p \in Processes : Acts(p))
  BY SomebodyActs
<1>2. setting' \in DOMAIN Settings /\ Processes' = Processes
  BY <1>1, SameSetting DEF Types
<1> QED  BY <1>1, <1>2, AtSpaceStep, InCacheStep, HistoriesStep, AboutStep DEF Types

LEMMA InitTypes == Init => Types
<1> SUFFICES ASSUME Init PROVE Types
  OBVIOUS
<1>1. setting \in DOMAIN Settings
  BY DEF Init
<1>2. MaxCalls \in Nat /\ MaxTerms \in Nat /\ MaxDrops \in Nat /\ MaxUsage \in Nat
  BY <1>1, SettingFacts
<1>3. AtSpace /\ InCache /\ Histories
  BY <1>2 DEF Init, AtSpace, InCache, Histories
<1>4. Locals
  BY DEF Init, Locals, Places, Operations
<1>5. \A p \in Processes : About(p)
  BY <1>1, SettingFacts DEF Init, About
<1> QED  BY <1>1, <1>3, <1>4, <1>5 DEF Types

LEMMA AlwaysTyped == Spec => []Types
<1>1. Types /\ UNCHANGED vars => Types'
  <2> SUFFICES ASSUME Types, UNCHANGED vars PROVE Types'
    OBVIOUS
  <2>1. setting' = setting
    BY DEF vars
  <2>2. /\ Processes' = Processes /\ Keys' = Keys /\ Users' = Users /\ Features' = Features
        /\ MaxCalls' = MaxCalls /\ MaxTerms' = MaxTerms /\ MaxDrops' = MaxDrops
        /\ Answers' = Answers /\ Operations' = Operations /\ Entries' = Entries
        /\ Tidings' = Tidings
    BY <2>1, SameSetting DEF Answers, Operations, Entries, Counts, Tidings
  <2>3. AtSpace' /\ InCache' /\ Histories' /\ Locals'
    BY <2>2 DEF Types, AtSpace, InCache, Histories, Locals, vars, space, link, ghosts, work
  <2>4. \A p \in Processes : About(p)'
    BY <2>1, NobodyActs, StillAbout DEF vars
  <2> QED  BY <2>1, <2>2, <2>3, <2>4 DEF Types
<1> QED  BY <1>1, InitTypes, TypesStep, PTL DEF Spec

(* The variables have their types, and no invalidation is left half done.  *)
THEOREM TypeCorrect == Spec => []TypeOK
<1>1. Types => TypeOK
  <2> SUFFICES ASSUME Types PROVE TypeOK
    OBVIOUS
  <2>1. Len(Patterns) + 1 = 5
    <3>1. Len(Patterns) = 4
      BY PatternsCover DEF Types
    <3> QED  BY <3>1
  <2>2. ASSUME NEW p \in Processes
        PROVE  /\ stage[p] \in 1 .. (Len(Patterns) + 1)
               /\ doomed[p] \subseteq Keys
               /\ pc[p] # "applying" => scopes[p] = <<>> /\ doomed[p] = {} /\ stage[p] = 1
               /\ pc[p] \in {"answered"} => answer[p] # None
               /\ (pc[p] = "idle") <=> (call[p] = None)
    BY <2>1 DEF Types, Locals, About
  <2>3. \A p \in Processes :
          (news[p] = None) <=> (p \in Callers \/ pc[p] \in {"idle", "greeting"})
    BY SettingFacts DEF Types, About
  <2>4. pc \in [Processes -> {"idle", "greeting", "looking", "asking", "answered", "applying"}]
    BY DEF Types, Locals, Places
  <2> QED  BY <2>2, <2>3, <2>4 DEF TypeOK, Types, AtSpace, InCache
<1> QED  BY <1>1, AlwaysTyped, PTL

-----------------------------------------------------------------------------
(* The invalidation that p is in has still to come to k.                   *)
Targeted(p, k) ==
  \/ k \in doomed[p]
  \/ \E i \in DOMAIN scopes[p] :
       /\ k[2] \in scopes[p][i]
       /\ i = 1 => \E j \in stage[p] .. 4 : Patterns[j] = k[1]

(* Only deleting an entry ends that: listing the keys of a pattern dooms   *)
(* those that are there, and the next users start at the first pattern.    *)
LEMMA StillTargeted ==
  ASSUME Types, NEW p \in Processes, Acts(p), NEW k \in Keys, cache[k] # None, Targeted(p, k)
  PROVE  Targeted(p, k)' \/ cache'[k] = None
<1> USE DEF Types, Locals
<1>1. pc[p] = "applying" /\ (scopes[p] # <<>> \/ doomed[p] # {})
  BY DEF Targeted, About
<1>2. CASE List(p)
  <2>1. /\ doomed[p] = {} /\ scopes[p] # <<>>
        /\ doomed'[p] = {l \in Matching(Patterns[stage[p]], Head(scopes[p])) : cache[l] # None}
        /\ stage'[p] = stage[p] + 1 /\ scopes' = scopes
    BY <1>2 DEF List
  <2>2. PICK i \in DOMAIN scopes[p] :
          k[2] \in scopes[p][i] /\ (i = 1 => \E j \in stage[p] .. 4 : Patterns[j] = k[1])
    BY <2>1 DEF Targeted
  <2>3. CASE i # 1
    BY <2>1, <2>2, <2>3 DEF Targeted
  <2>4. CASE i = 1
    <3>1. PICK j \in stage[p] .. 4 : Patterns[j] = k[1]
      BY <2>2, <2>4
    <3>2. stage[p] \in 1 .. 5
      OBVIOUS
    <3>3. CASE j = stage[p]
      <4>1. Head(scopes[p]) = scopes[p][1]
        BY <2>1
      <4>2. k \in doomed'[p]
        BY <2>1, <2>2, <2>4, <3>1, <3>3, <4>1 DEF Matching
      <4> QED  BY <4>2 DEF Targeted
    <3>4. CASE j # stage[p]
      <4>1. j \in stage'[p] .. 4
        BY <2>1, <3>1, <3>2, <3>4
      <4> QED  BY <2>1, <2>2, <2>4, <3>1, <4>1 DEF Targeted
    <3> QED  BY <3>3, <3>4
  <2> QED  BY <2>3, <2>4
<1>3. CASE Delete(p)
  <2>1. PICK l \in doomed[p] : cache' = [cache EXCEPT ![l] = None] /\ doomed'[p] = doomed[p] \ {l}
    BY <1>3 DEF Delete
  <2>2. UNCHANGED <<scopes, stage>>
    BY <1>3 DEF Delete
  <2>3. CASE k = l
    BY <2>1, <2>3 DEF InCache
  <2>4. CASE k # l
    BY <2>1, <2>2, <2>4 DEF Targeted
  <2> QED  BY <2>3, <2>4
<1>4. CASE Replace(p)
  <2>1. /\ doomed[p] = {} /\ scopes[p] # <<>> /\ scopes[p] \in Seq(SUBSET Users)
        /\ scopes'[p] = Tail(scopes[p]) /\ stage'[p] = 1 /\ stage[p] > 4
    <3>1. Len(Patterns) = 4
      BY PatternsCover
    <3> QED  BY <1>4, <3>1 DEF Replace, FromTheTop
  <2>2. PICK i \in DOMAIN scopes[p] :
          k[2] \in scopes[p][i] /\ (i = 1 => \E j \in stage[p] .. 4 : Patterns[j] = k[1])
    BY <2>1 DEF Targeted
  <2>3. stage[p] \in 1 .. 5 /\ i # 1
    BY <2>1, <2>2
  <2>4. i - 1 \in DOMAIN scopes'[p] /\ scopes'[p][i - 1] = scopes[p][i]
    BY <2>1, <2>2, <2>3
  <2>5. \E j \in stage'[p] .. 4 : Patterns[j] = k[1]
    BY <2>1, PatternsCover
  <2> QED  BY <2>2, <2>4, <2>5 DEF Targeted
<1>5. ASSUME NEW op, Begin(p, op) PROVE FALSE
  BY <1>1, <1>5 DEF Begin
<1>6. ~ Look(p) /\ ~ Store(p) /\ ~ Apply(p) /\ ~ Finish(p) /\ ~ Serve(p) /\ ~ Lose(p)
  BY <1>1 DEF Look, Store, Apply, Finish, Serve, Lose
<1>7. ~ Connect(p) /\ ~ Greet(p) /\ ~ Message(p) /\ ~ Callback(p)
  BY <1>1 DEF Connect, Greet, Message, Callback
<1> QED  BY <1>2, <1>3, <1>4, <1>5, <1>6, <1>7 DEF Acts, Run

LEMMA OthersTarget ==
  ASSUME NEW p, NEW k, Rests(p)
  PROVE  Targeted(p, k)' = Targeted(p, k)
BY DEF Targeted, Rests

(* An entry that is there after a step was stored by it, or was there and  *)
(* is still to be deleted by whoever was to delete it.                     *)
LEMMA EntryStep ==
  ASSUME Types, Around \/ (\E p \in Processes : Acts(p)), NEW k \in Keys, cache'[k] # None
  PROVE  \/ /\ cache'[k] = cache[k]
            /\ \A q \in Processes : Targeted(q, k) => Targeted(q, k)'
         \/ \E p \in Processes : Acts(p) /\ Stores(p, k)
<1>1. CASE Around
  <2>1. cache'[k] = cache[k]
    BY <1>1, CacheAround
  <2> QED  BY <1>1, <2>1, NobodyActs, OthersTarget
<1>2. ASSUME NEW p \in Processes, Acts(p), ~ Stores(p, k)
      PROVE  cache'[k] = cache[k] /\ \A q \in Processes : Targeted(q, k) => Targeted(q, k)'
  <2>1. cache'[k] = cache[k]
    BY <1>2, CacheActs
  <2>2. \A q \in Processes \ {p} : Targeted(q, k) => Targeted(q, k)'
    BY <1>2, OthersWait, OthersTarget DEF Waits
  <2>3. Targeted(p, k) => Targeted(p, k)'
    BY <1>2, <2>1, StillTargeted
  <2> QED  BY <2>1, <2>2, <2>3
<1> QED  BY <1>1, <1>2

-----------------------------------------------------------------------------
(* Nobody knows of a change that Space has not made.                       *)
Past ==
  /\ \A p \in Processes : answer[p] # None =>
       \A u \in Users : answer[p].terms[u] <= terms[u] /\ answer[p].usage[u] <= usage[u]
  /\ \A e \in events : e.terms <= terms[e.user]
  /\ \A p \in Processes : news[p] # None => news[p].terms <= terms[news[p].user]
  /\ \A u \in Users : written[u] <= terms[u] /\ \A f \in Features : spent[u][f] <= usage[u]

LEMMA Counting ==
  ASSUME Types
  PROVE  /\ \A u \in Users : terms[u] \in Nat /\ usage[u] \in Nat /\ written[u] \in Nat
         /\ \A u \in Users, f \in Features : spent[u][f] \in Nat
         /\ \A p \in Processes : answer[p] # None =>
              \A u \in Users : answer[p].terms[u] \in Nat /\ answer[p].usage[u] \in Nat
         /\ \A k \in Keys : cache[k] # None =>
              /\ cache[k].terms \in Nat /\ cache[k].usage \in Nat
              /\ cache[k].storedAt.terms \in Nat /\ cache[k].storedAt.usage \in Nat
         /\ \A e \in events : e.terms \in Nat /\ e.user \in Users
         /\ \A p \in Processes : news[p] # None => news[p].terms \in Nat /\ news[p].user \in Users
         /\ \A k \in Keys : k[2] \in Users
<1>1. MaxTerms \in Nat /\ MaxUsage \in Nat
  BY SettingFacts DEF Types
<1>2. \A k \in Keys : k[2] \in Users
  BY KeyShape DEF Types
<1>3. /\ \A u \in Users : terms[u] \in Nat /\ usage[u] \in Nat /\ written[u] \in Nat
      /\ \A u \in Users, f \in Features : spent[u][f] \in Nat
      /\ \A e \in events : e.terms \in Nat /\ e.user \in Users
      /\ \A p \in Processes : news[p] # None => news[p].terms \in Nat /\ news[p].user \in Users
  BY <1>1 DEF Types, AtSpace, Histories, Tidings
<1>4. \A p \in Processes : answer[p] # None =>
        \A u \in Users : answer[p].terms[u] \in Nat /\ answer[p].usage[u] \in Nat
  BY <1>1 DEF Types, Locals, Answers
<1>5. \A k \in Keys : cache[k] # None =>
        /\ cache[k].terms \in Nat /\ cache[k].usage \in Nat
        /\ cache[k].storedAt.terms \in Nat /\ cache[k].storedAt.usage \in Nat
  BY <1>1 DEF Types, InCache, Entries, Counts
<1> QED  BY <1>2, <1>3, <1>4, <1>5

(* Space only goes forward.                                                *)
LEMMA Forward ==
  ASSUME Types, setting' = setting, Around \/ \E p \in Processes : Acts(p)
  PROVE  \A u \in Users : terms'[u] >= terms[u] /\ usage'[u] >= usage[u]
<1>1. CASE UNCHANGED <<terms, usage>>
  BY <1>1, Counting
<1>2. ASSUME NEW p \in Processes, Serve(p) PROVE \A u \in Users : terms'[u] >= terms[u] /\ usage'[u] >= usage[u]
  BY <1>2, ServeFacts
<1>3. ASSUME NEW u \in Users, Elsewhere(u)
      PROVE  \A v \in Users : terms'[v] >= terms[v] /\ usage'[v] >= usage[v]
  BY <1>3, Counting DEF Elsewhere, Change
<1>4. ASSUME NEW p \in Processes, Acts(p), ~ Serve(p) PROVE UNCHANGED <<terms, usage>>
  BY <1>4 DEF Acts, Run, Begin, Look, Store, Apply, List, Delete, Replace, Finish, Lose, Connect, Greet,
              Message, Callback, space
<1>5. Disconnect \/ (\E k \in Keys : Expire(k)) => UNCHANGED <<terms, usage>>
  BY DEF Disconnect, Expire, space
<1> QED  BY <1>1, <1>2, <1>3, <1>4, <1>5 DEF Around

(* Where events, news and answers come from.                               *)
LEMMA EventSources ==
  ASSUME Types, setting' = setting, Around \/ \E p \in Processes : Acts(p), NEW e \in events'
  PROVE  e \in events \/ (e.user \in Users /\ e.terms = terms'[e.user])
<1>1. ASSUME NEW changed \in SUBSET Users, Change(changed) PROVE e \in events \/ (e.user \in Users /\ e.terms = terms'[e.user])
  BY <1>1 DEF Change
<1>2. ASSUME NEW p \in Processes, Serve(p)
      PROVE  e \in events \/ (e.user \in Users /\ e.terms = terms'[e.user])
  <2>1. CASE UNCHANGED <<terms, events>>
    BY <2>1
  <2>2. CASE Change(Named(call[p]))
    <3>1. e \in events \/ e.terms = terms'[e.user]
      BY <2>2 DEF Change
    <3>2. e.user \in Users
      BY <1>2, ServeFacts
    <3> QED  BY <3>1, <3>2
  <2> QED  BY <1>2, <2>1, <2>2, ServeFacts
<1>3. ASSUME NEW u \in Users, Elsewhere(u)
      PROVE  e \in events \/ (e.user \in Users /\ e.terms = terms'[e.user])
  BY <1>1, <1>3 DEF Elsewhere
<1>4. ASSUME NEW p \in Processes, Acts(p), ~ Serve(p) PROVE events' \subseteq events
  BY <1>4 DEF Acts, Run, Begin, Look, Store, Apply, List, Delete, Replace, Finish, Lose, Connect, Greet,
              Message, Callback, link
<1>5. Disconnect \/ (\E k \in Keys : Expire(k)) => events' \subseteq events
  BY DEF Disconnect, Expire, link
<1> QED  BY <1>2, <1>3, <1>4, <1>5 DEF Around

LEMMA NewsSources ==
  ASSUME Types, Around \/ (\E q \in Processes : Acts(q)), NEW p \in Processes
  PROVE  \/ news'[p] = news[p] \/ news'[p] = None
         \/ /\ p \in Handlers /\ Greet(p)
            /\ news'[p].user \in Users /\ news'[p].terms = terms[news'[p].user]
            /\ news'[p].kind = IF connected THEN "resync" ELSE "first resync"
         \/ \E e \in events : /\ p \in Handlers /\ Message(p)
                               /\ news'[p].user = e.user /\ news'[p].terms = e.terms
                               /\ news'[p].kind = "event" /\ events' = events \ {e}
                               /\ scopes' = [scopes EXCEPT ![p] = Announced(e)]
<1>0. news \in [Processes -> Tidings \cup {None}]
  BY DEF Types, AtSpace
<1>1. CASE Around
  BY <1>1, NobodyActs DEF Rests
<1>2. ASSUME NEW q \in Processes \ {p}, Acts(q) PROVE news'[p] = news[p]
  BY <1>2, OthersWait DEF Waits, Rests
<1>3. CASE Acts(p) /\ ~ (p \in Handlers /\ (Greet(p) \/ Message(p)))
  <2>1. news' = news \/ news' = [news EXCEPT ![p] = None]
    BY <1>3 DEF Acts, Run, Begin, Look, Store, Apply, List, Delete, Replace, Finish, Serve, Lose, Return,
                Connect, Callback
  <2> QED  BY <1>0, <2>1
<1>4. CASE p \in Handlers /\ Greet(p)
  <2>1. PICK u \in Users :
          news' = [news EXCEPT ![p] = [user |-> u, terms |-> terms[u],
                                       kind |-> IF connected THEN "resync" ELSE "first resync"]]
    BY <1>4 DEF Greet
  <2> QED  BY <1>0, <1>4, <2>1
<1>5. CASE p \in Handlers /\ Message(p)
  <2>1. PICK e \in events :
          /\ news' = [news EXCEPT ![p] = [user |-> e.user, terms |-> e.terms, kind |-> "event"]]
          /\ events' = events \ {e}
          /\ scopes' = [scopes EXCEPT ![p] = Announced(e)]
    BY <1>5 DEF Message
  <2> QED  BY <1>0, <1>5, <2>1
<1> QED  BY <1>1, <1>2, <1>3, <1>4, <1>5

LEMMA AnswerSources ==
  ASSUME Types, Around \/ (\E p \in Processes : Acts(p)), NEW p \in Processes
  PROVE  \/ answer'[p] = answer[p] \/ answer'[p] = None
         \/ Serve(p) /\ answer'[p].terms = terms' /\ answer'[p].usage = usage'
<1>1. CASE Around
  BY <1>1, NobodyActs DEF Rests
<1>2. ASSUME NEW q \in Processes \ {p}, Acts(q) PROVE answer'[p] = answer[p]
  BY <1>2, OthersWait DEF Waits, Rests
<1>3. ASSUME Serve(p) PROVE answer'[p].terms = terms' /\ answer'[p].usage = usage'
  BY <1>3 DEF Serve, Types, Locals
<1>4. ASSUME Acts(p), ~ Serve(p) PROVE answer'[p] \in {answer[p], None}
  BY <1>4 DEF Acts, Run, Begin, Look, Store, Apply, List, Delete, Replace, Finish, Lose, Return, Connect,
              Greet, Message, Callback, Types, Locals
<1> QED  BY <1>1, <1>2, <1>3, <1>4

LEMMA PastStep ==
  ASSUME Types, Past, setting' = setting, Around \/ \E p \in Processes : Acts(p)
  PROVE  Past'
<1>1. Types'
  BY AtSpaceStep, InCacheStep, HistoriesStep, AboutStep, SameSetting DEF Types
<1>2. Processes' = Processes /\ Users' = Users /\ Features' = Features
  BY SameSetting
<1>3. \A u \in Users : /\ terms[u] \in Nat /\ usage[u] \in Nat
                       /\ terms'[u] \in Nat /\ usage'[u] \in Nat
                       /\ terms'[u] >= terms[u] /\ usage'[u] >= usage[u]
  <2>1. MaxTerms \in Nat /\ MaxUsage \in Nat /\ MaxTerms' = MaxTerms
    BY SettingFacts, SameSetting DEF Types
  <2>2. \A u \in Users : terms'[u] \in Nat /\ usage'[u] \in Nat
    BY <1>1, <1>2, <2>1 DEF Types, AtSpace
  <2> QED  BY <2>2, Counting, Forward
<1>4. ASSUME NEW p \in Processes, answer'[p] # None, NEW u \in Users
      PROVE  answer'[p].terms[u] <= terms'[u] /\ answer'[p].usage[u] <= usage'[u]
  <2>1. CASE answer'[p] = answer[p]
    BY <1>3, <1>4, <2>1, Counting DEF Past
  <2>2. CASE answer'[p].terms = terms' /\ answer'[p].usage = usage'
    BY <1>3, <2>2
  <2> QED  BY <1>4, <2>1, <2>2, AnswerSources
<1>5. ASSUME NEW e \in events' PROVE e.terms <= terms'[e.user]
  <2>1. CASE e \in events
    BY <1>3, <2>1, Counting DEF Past
  <2>2. CASE e.user \in Users /\ e.terms = terms'[e.user]
    BY <1>3, <2>2
  <2> QED  BY <2>1, <2>2, EventSources
<1>6. ASSUME NEW p \in Processes, news'[p] # None PROVE news'[p].terms <= terms'[news'[p].user]
  <2>1. CASE news'[p] = news[p]
    BY <1>3, <1>6, <2>1, Counting DEF Past
  <2>2. CASE news'[p].user \in Users /\ news'[p].terms = terms[news'[p].user]
    BY <1>3, <2>2
  <2>3. ASSUME NEW e \in events, news'[p].user = e.user, news'[p].terms = e.terms
        PROVE  news'[p].terms <= terms'[news'[p].user]
    BY <1>3, <2>3, Counting DEF Past
  <2> QED  BY <1>6, <2>1, <2>2, <2>3, NewsSources
<1>7. \A u \in Users : written'[u] <= terms'[u] /\ \A f \in Features : spent'[u][f] <= usage'[u]
  <2>1. CASE UNCHANGED <<written, spent>>
    BY <1>3, <2>1, Counting DEF Past
  <2>2. ASSUME NEW p \in Processes, Finish(p)
        PROVE  \A u \in Users : written'[u] <= terms'[u] /\ \A f \in Features : spent'[u][f] <= usage'[u]
    <3>1. /\ call[p] \in Settings[setting].operations /\ answer[p] # None
          /\ UNCHANGED <<terms, usage>>
      <4>1. p \in Callers /\ pc[p] = "applying"
        BY <2>2, FinishFacts
      <4>2. answer[p] # None
        BY <4>1 DEF Types, About
      <4> QED  BY <2>2, <4>2, FinishFacts
    <3>2. \A u \in Users : answer[p].terms[u] <= terms[u] /\ answer[p].usage[u] <= usage[u]
      BY <3>1 DEF Past
    <3>3. \A u \in Users : written'[u] \in {written[u], answer[p].terms[u]}
      BY <2>2, FinishFacts DEF Newest
    <3>4. \A u \in Users, f \in Features : spent'[u][f] \in {spent[u][f], answer[p].usage[u]}
      <4>1. CASE call[p].kind = "spend"
        <5>1. spent' = [spent EXCEPT ![call[p].users[1]] =
                         [spent[call[p].users[1]] EXCEPT ![call[p].feature] =
                            Newest(spent[call[p].users[1]][call[p].feature],
                                   answer[p].usage[call[p].users[1]])]]
          BY <2>2, <4>1, FinishFacts
        <5> QED  BY <5>1 DEF Newest, Types, Histories
      <4>2. CASE call[p].kind # "spend"
        BY <2>2, <4>2, FinishFacts
      <4> QED  BY <4>1, <4>2
    <3> QED  BY <3>1, <3>2, <3>3, <3>4 DEF Past
  <2>3. ASSUME NEW p \in Processes, Acts(p), ~ Finish(p) PROVE UNCHANGED <<written, spent>>
    BY <2>3 DEF Acts, Run, Begin, Look, Store, Apply, List, Delete, Replace, Serve, Lose, Connect, Greet,
                Message, Callback, ghosts
  <2>4. Around => UNCHANGED <<written, spent>>
    BY DEF Around, Disconnect, Elsewhere, Expire, ghosts
  <2> QED  BY <2>1, <2>2, <2>3, <2>4
<1> QED  BY <1>2, <1>4, <1>5, <1>6, <1>7 DEF Past

-----------------------------------------------------------------------------
(* Before the first join there is nothing that a handler could do.         *)
Linked ==
  baseline = None => ~ joined /\ ~ connected /\ \A p \in Handlers : pc[p] = "idle"

(* An entry of a user whose contract changed is still to be deleted by a   *)
(* handler that runs or is going to, or an event of the user is on its     *)
(* way; what changes while the client is not joined is left to the next    *)
(* connect handler, or to the baseline if that one will invalidate nothing.*)
Covered(k) ==
  \/ cache[k].storedAt.terms = terms[k[2]]
  \/ terms[k[2]] = baseline[k[2]]
  \/ \E e \in events : e.user = k[2]
  \/ \E p \in Handlers : Targeted(p, k) \/ (connected /\ pc[p] = "greeting")

CoveredInv == Linked /\ (joined => \A k \in Keys : cache[k] # None => Covered(k))

LEMMA LinkedStep ==
  ASSUME Types, Linked, setting' = setting, Around \/ \E p \in Processes : Acts(p)
  PROVE  Linked'
<1>1. Handlers' = Handlers /\ Callers \subseteq Processes /\ Handlers \subseteq Processes
      /\ \A p \in Processes : p \in Callers <=> p \notin Handlers
  BY SettingFacts, SameSetting DEF Types
<1>2. SUFFICES ASSUME baseline' = None
               PROVE  ~ joined' /\ ~ connected' /\ \A p \in Handlers : pc'[p] = "idle"
  BY <1>1 DEF Linked
<1>3. ASSUME NEW p \in Handlers, Connect(p) PROVE FALSE
  <2>1. terms # None
    <3>1. MaxTerms \in Nat /\ None \notin [Users -> Nat]
      BY SettingFacts DEF Types
    <3>2. terms \in [Users -> Nat]
      BY <3>1 DEF Types, AtSpace
    <3> QED  BY <3>1, <3>2
  <2> QED  BY <1>2, <1>3, <2>1 DEF Connect, Linked
<1>4. baseline' = baseline
  <2>1. CASE Around
    BY <2>1 DEF Around, Disconnect, Elsewhere, Expire, link
  <2>2. ASSUME NEW p \in Processes, Acts(p) PROVE baseline' = baseline
    BY <1>3, <2>2 DEF Acts, Run, Begin, Look, Store, Apply, List, Delete, Replace, Finish, Serve,
                            Lose, Greet, Message, Callback, link
  <2> QED  BY <2>1, <2>2
<1>5. ~ joined /\ ~ connected /\ \A p \in Handlers : pc[p] = "idle"
  BY <1>2, <1>4 DEF Linked
<1>6. CASE Around
  <2>1. ~ Disconnect
    BY <1>5 DEF Disconnect
  <2>2. UNCHANGED <<joined, connected>>
    BY <1>6, <2>1 DEF Around, Elsewhere, Expire, link
  <2> QED  BY <1>1, <1>5, <1>6, <2>1, <2>2, NobodyActs DEF Waits
<1>7. ASSUME NEW p \in Processes, Acts(p)
      PROVE  ~ joined' /\ ~ connected' /\ \A q \in Handlers : pc'[q] = "idle"
  <2>1. p \notin Handlers
    <3>1. ASSUME p \in Handlers PROVE FALSE
      <4>1. pc[p] = "idle" /\ p \notin Callers
        BY <1>1, <1>5, <3>1
      <4>2. ~ Run(p) /\ ~ Serve(p) /\ ~ Lose(p) /\ ~ Greet(p) /\ ~ Message(p) /\ ~ Callback(p)
        BY <1>5, <4>1 DEF Run, Look, Store, Apply, List, Delete, Replace, Finish, Serve, Lose, Greet, Message,
                          Callback
      <4> QED  BY <1>3, <1>7, <3>1, <4>1, <4>2 DEF Acts
    <3> QED  BY <3>1
  <2>2. UNCHANGED <<joined, connected>>
    BY <1>7, <2>1 DEF Acts, Run, Begin, Look, Store, Apply, List, Delete, Replace, Finish, Serve, Lose, link
  <2>3. ASSUME NEW q \in Handlers PROVE pc'[q] = "idle"
    <3>1. q \in Processes \ {p}
      BY <1>1, <2>1
    <3> QED  BY <1>5, <1>7, <3>1, OthersWait DEF Waits
  <2> QED  BY <1>5, <2>2, <2>3
<1> QED  BY <1>6, <1>7

LEMMA SpaceSteps ==
  ASSUME Types, Around \/ \E p \in Processes : Acts(p)
  PROVE  \/ \E p \in Handlers : Connect(p) \/ Message(p)
         \/ Disconnect
         \/ UNCHANGED <<joined, baseline, terms, events>>
         \/ UNCHANGED <<joined, baseline>> /\ \E changed : Change(changed)
<1>1. ASSUME NEW p \in Processes, Serve(p)
      PROVE  UNCHANGED <<joined, baseline>> /\ (UNCHANGED <<terms, events>> \/ Change(Named(call[p])))
  BY <1>1 DEF Serve
<1>2. ASSUME NEW u \in Users, Elsewhere(u) PROVE UNCHANGED <<joined, baseline>> /\ Change({u})
  BY <1>2 DEF Elsewhere
<1>3. ASSUME NEW p \in Processes, Acts(p), ~ Serve(p), ~ (p \in Handlers /\ (Connect(p) \/ Message(p)))
      PROVE  UNCHANGED <<joined, baseline, terms, events>>
  BY <1>3 DEF Acts, Run, Begin, Look, Store, Apply, List, Delete, Replace, Finish, Lose, Greet, Callback,
              link, space
<1>4. ASSUME NEW k \in Keys, Expire(k) PROVE UNCHANGED <<joined, baseline, terms, events>>
  BY <1>4 DEF Expire, link, space
<1> QED  BY <1>1, <1>2, <1>3, <1>4 DEF Around

(* A handler that is going to invalidate waits until it starts.            *)
LEMMA StillGreeting ==
  ASSUME Types, Around \/ (\E p \in Processes : Acts(p)), ~ Disconnect,
         NEW q \in Handlers, connected, pc[q] = "greeting", ~ Greet(q)
  PROVE  connected' /\ pc'[q] = "greeting"
<1>1. q \in Processes /\ q \notin Callers
  BY SettingFacts DEF Types
<1>2. connected'
  <2>1. CASE Around
    BY <2>1 DEF Around, Disconnect, Elsewhere, Expire
  <2>2. ASSUME NEW p \in Processes, Acts(p) PROVE connected'
    BY <2>2 DEF Acts, Run, Begin, Look, Store, Apply, List, Delete, Replace, Finish, Serve, Lose, Connect,
                Greet, Message, Callback
  <2> QED  BY <2>1, <2>2
<1>3. ~ Acts(q)
  BY <1>1 DEF Acts, Run, Look, Store, Apply, List, Delete, Replace, Finish, Serve, Lose, Connect, Message,
              Callback
<1>4. Waits(q)
  BY <1>1, <1>3, OthersWait, NobodyActs
<1> QED  BY <1>2, <1>4 DEF Waits

(* All of a user's keys are targeted by a handler that begins.             *)
LEMMA TargetedAtFirst ==
  ASSUME Types, NEW p, NEW k \in Keys, NEW i \in DOMAIN scopes'[p], k[2] \in scopes'[p][i],
         stage'[p] = 1
  PROVE  Targeted(p, k)'
BY PatternsCover DEF Targeted, Types

LEMMA CoveredStep ==
  ASSUME Types, CoveredInv, setting' = setting, Around \/ \E p \in Processes : Acts(p)
  PROVE  CoveredInv'
<1>1. Linked'
  BY LinkedStep DEF CoveredInv
<1>2. Keys' = Keys
  BY SameSetting
<1>3. SUFFICES ASSUME joined', NEW k \in Keys, cache'[k] # None PROVE Covered(k)'
  BY <1>1, <1>2 DEF CoveredInv
<1>4. k[2] \in Users /\ Handlers \subseteq Processes /\ Handlers' = Handlers
  BY KeyShape, SettingFacts, SameSetting DEF Types
<1>5. ASSUME NEW p \in Processes, Stores(p, k) PROVE Covered(k)'
  BY <1>5 DEF Stores, Covered
<1>6. CASE cache'[k] = cache[k] /\ \A q \in Processes : Targeted(q, k) => Targeted(q, k)'
  <2>1. joined => Covered(k)
    BY <1>3, <1>6 DEF CoveredInv
  <2>2. ASSUME NEW p \in Handlers, Connect(p) PROVE Covered(k)'
    <3>1. terms' = terms /\ connected' = connected /\ baseline' = IF connected THEN baseline ELSE terms
      BY <2>2 DEF Connect, space
    <3>2. pc'[p] = "greeting"
      BY <2>2, LocalsConnect
    <3> QED  BY <1>4, <3>1, <3>2 DEF Covered
  <2>3. ASSUME NEW p \in Handlers, Greet(p), connected PROVE Covered(k)'
    <3>1. scopes'[p] = <<Users>> /\ stage'[p] = 1
      BY <2>3, LocalsHandle DEF Missed
    <3>2. 1 \in DOMAIN scopes'[p] /\ k[2] \in scopes'[p][1]
      BY <1>4, <3>1
    <3>3. Targeted(p, k)'
      BY <3>1, <3>2, TargetedAtFirst
    <3> QED  BY <1>4, <3>3 DEF Covered
  <2>4. ASSUME NEW p \in Handlers, Targeted(p, k) \/ (connected /\ pc[p] = "greeting"), ~ Disconnect
         PROVE  Covered(k)'
    <3>1. CASE Targeted(p, k)
      BY <1>4, <1>6, <3>1 DEF Covered
    <3>2. CASE connected /\ pc[p] = "greeting" /\ ~ Greet(p)
      <4>1. connected' /\ pc'[p] = "greeting"
        BY <2>4, <3>2, StillGreeting
      <4> QED  BY <1>4, <4>1 DEF Covered
    <3> QED  BY <2>3, <2>4, <3>1, <3>2
  <2>5. ASSUME NEW p \in Handlers, Message(p) PROVE Covered(k)'
    <3>1. joined /\ UNCHANGED <<terms, baseline>> /\ ~ Disconnect
      BY <1>3, <2>5 DEF Message, space, Disconnect
    <3>2. PICK e \in events : events' = events \ {e} /\ scopes' = [scopes EXCEPT ![p] = Announced(e)]
      BY <2>5 DEF Message
    <3>3. CASE e.user = k[2]
      <4>1. scopes'[p] = <<{e.user}>> /\ stage'[p] = 1
        BY <2>5, <3>2, LocalsHandle
      <4>2. 1 \in DOMAIN scopes'[p] /\ k[2] \in scopes'[p][1]
        BY <3>3, <4>1
      <4>3. Targeted(p, k)'
        BY <4>1, <4>2, TargetedAtFirst
      <4> QED  BY <1>4, <4>3 DEF Covered
    <3>4. CASE e.user # k[2]
      <4>1. ASSUME ~ \E q \in Handlers : Targeted(q, k) \/ (connected /\ pc[q] = "greeting")
            PROVE  Covered(k)'
        BY <1>6, <2>1, <3>1, <3>2, <3>4, <4>1 DEF Covered
      <4> QED  BY <2>4, <3>1, <4>1
    <3> QED  BY <3>3, <3>4
  <2>6. ~ Disconnect
    BY <1>3 DEF Disconnect
  <2>7. CASE UNCHANGED <<joined, baseline, terms, events>>
    <3>1. ASSUME ~ \E q \in Handlers : Targeted(q, k) \/ (connected /\ pc[q] = "greeting")
          PROVE  Covered(k)'
      BY <1>3, <1>6, <2>1, <2>7, <3>1 DEF Covered
    <3> QED  BY <2>6, <2>4, <3>1
  <2>8. ASSUME UNCHANGED <<joined, baseline>>, NEW changed, Change(changed) PROVE Covered(k)'
    <3>1. Covered(k)
      BY <1>3, <2>1, <2>8
    <3>2. CASE k[2] \in changed
      <4>1. events' = events \cup {[user |-> u, terms |-> terms'[u]] : u \in changed}
        BY <1>3, <2>8 DEF Change
      <4>2. [user |-> k[2], terms |-> terms'[k[2]]] \in events'
        BY <3>2, <4>1
      <4>3. \E e \in events' : e.user = k[2]
        BY <4>2
      <4> QED  BY <4>3 DEF Covered
    <3>3. CASE k[2] \notin changed
      <4>1. terms'[k[2]] = terms[k[2]] /\ events \subseteq events'
        BY <1>4, <2>8, <3>3 DEF Change
      <4>2. ASSUME ~ \E q \in Handlers : Targeted(q, k) \/ (connected /\ pc[q] = "greeting")
            PROVE  Covered(k)'
        BY <1>6, <2>8, <3>1, <4>1, <4>2 DEF Covered
      <4> QED  BY <2>6, <2>4, <4>2
    <3> QED  BY <3>2, <3>3
  <2> QED  BY <2>2, <2>5, <2>6, <2>7, <2>8, SpaceSteps
<1> QED  BY <1>3, <1>4, <1>5, <1>6, EntryStep

-----------------------------------------------------------------------------
(* What is cached of the user a handler tells of is as recent as its news, *)
(* or still to be deleted by that handler.                                 *)
Newsworthy(p, k) ==
  news[p] # None /\ news[p].kind # "first resync" /\ k[2] = news[p].user =>
    cache[k].storedAt.terms >= news[p].terms \/ Targeted(p, k)

NewsInv ==
  RereadIsRecent /\ \A p \in Handlers, k \in Keys : cache[k] # None => Newsworthy(p, k)

LEMMA NewsworthyStep ==
  ASSUME Types, Past, NewsInv, setting' = setting, Around \/ (\E q \in Processes : Acts(q)),
         NEW p \in Handlers, NEW k \in Keys, cache'[k] # None
  PROVE  Newsworthy(p, k)'
<1>1. k[2] \in Users /\ p \in Processes /\ Processes' = Processes
  BY KeyShape, SettingFacts, SameSetting DEF Types
<1>2. ASSUME NEW q \in Processes, Stores(q, k) PROVE Newsworthy(p, k)'
  <2>1. Past'
    BY PastStep
  <2>2. news'[p] # None => news'[p].terms <= terms'[news'[p].user]
    BY <1>1, <2>1 DEF Past
  <2>3. cache'[k].storedAt.terms = terms'[k[2]]
    BY <1>2 DEF Stores
  <2> QED  BY <2>2, <2>3 DEF Newsworthy
<1>3. CASE cache'[k] = cache[k] /\ (Targeted(p, k) => Targeted(p, k)')
  <2>1. CASE news'[p] = news[p] \/ news'[p] = None
    BY <1>3, <2>1 DEF NewsInv, Newsworthy
  <2>2. CASE Greet(p) /\ news'[p].kind = IF connected THEN "resync" ELSE "first resync"
    <3>1. CASE connected
      <4>1. scopes'[p] = <<Users>> /\ stage'[p] = 1
        BY <2>2, <3>1, LocalsHandle DEF Missed
      <4>2. 1 \in DOMAIN scopes'[p] /\ k[2] \in scopes'[p][1]
        BY <1>1, <4>1
      <4> QED  BY <4>1, <4>2, TargetedAtFirst DEF Newsworthy
    <3>2. CASE ~ connected
      BY <2>2, <3>2 DEF Newsworthy
    <3> QED  BY <3>1, <3>2
  <2>3. ASSUME NEW e \in events, Message(p), news'[p].user = e.user,
               scopes' = [scopes EXCEPT ![p] = Announced(e)]
        PROVE  Newsworthy(p, k)'
    <3>1. scopes'[p] = <<{e.user}>> /\ stage'[p] = 1
      BY <2>3, LocalsHandle
    <3>2. k[2] = e.user => 1 \in DOMAIN scopes'[p] /\ k[2] \in scopes'[p][1]
      BY <3>1
    <3> QED  BY <2>3, <3>1, <3>2, TargetedAtFirst DEF Newsworthy
  <2> QED  BY <1>1, <2>1, <2>2, <2>3, NewsSources
<1> QED  BY <1>1, <1>2, <1>3, EntryStep

(* A handler's re-read finds what was stored after the news, for by then   *)
(* that handler has deleted what was older.                                *)
LEMMA RereadStep ==
  ASSUME Types, Past, NewsInv, setting' = setting, Around \/ (\E p \in Processes : Acts(p))
  PROVE  RereadIsRecent'
<1>1. ASSUME NEW p \in Handlers, Look(p) \/ Store(p) PROVE RereadIsRecent'
  <2> DEFINE key == <<"contract", news[p].user>>
  <2>1. /\ news[p] # None /\ key \in Keys /\ key[2] = news[p].user /\ call[p].key = key
        /\ ~ Targeted(p, key) /\ p \in Processes
    <3>1. p \in Processes /\ About(p) /\ pc[p] \in {"looking", "answered"}
      BY <1>1, SettingFacts DEF Types, Look, Store
    <3>2. /\ news[p] # None /\ call[p].key = key
          /\ scopes[p] = <<>> /\ doomed[p] = {}
      BY <3>1 DEF About
    <3>3. news[p].user \in Users
      BY <3>1, <3>2, Counting
    <3>4. key \in Keys /\ key[2] = news[p].user
      BY <3>3, KeyShape DEF Types
    <3> HIDE DEF key
    <3>5. ~ Targeted(p, key)
      BY <3>2 DEF Targeted
    <3> QED  BY <3>1, <3>2, <3>4, <3>5
  <2>2. CASE Look(p) /\ cache[key] = None
    <3>1. reread' = reread
      BY <2>1, <2>2 DEF Look
    <3> QED  BY <3>1 DEF NewsInv, RereadIsRecent
  <2>3. CASE Look(p) /\ cache[key] # None
    <3>1. Note(p, cache[key])
      BY <2>1, <2>3 DEF Look
    <3>2. Newsworthy(p, key)
      BY <2>1, <2>3 DEF NewsInv
    <3>3. news[p].kind # "first resync" => cache[key].storedAt.terms >= news[p].terms
      BY <2>1, <3>2 DEF Newsworthy
    <3>4. reread' = [recent |-> cache[key].storedAt.terms >= news[p].terms, news |-> news[p].kind]
      BY <3>1 DEF Note
    <3> HIDE DEF key
    <3> QED  BY <3>3, <3>4 DEF RereadIsRecent
  <2>4. CASE Store(p)
    <3>1. Note(p, Entry(p, news[p].user))
      BY <2>1, <2>4 DEF Store
    <3>2. Entry(p, news[p].user).storedAt.terms = terms[news[p].user]
      BY DEF Entry
    <3>3. terms[news[p].user] >= news[p].terms
      BY <2>1, Counting DEF Past
    <3>4. reread' = [recent |-> terms[news[p].user] >= news[p].terms, news |-> news[p].kind]
      BY <3>1, <3>2 DEF Note
    <3> QED  BY <3>3, <3>4 DEF RereadIsRecent
  <2> QED  BY <1>1, <2>2, <2>3, <2>4
<1>2. ASSUME NEW p \in Processes, Acts(p), ~ (p \in Handlers /\ (Look(p) \/ Store(p)))
      PROVE  reread' = reread
  <2>1. CASE Look(p)
    <3>1. CASE cache[call[p].key] = None
      BY <2>1, <3>1 DEF Look
    <3>2. CASE cache[call[p].key] # None
      BY <1>2, <2>1, <3>2 DEF Look, Note
    <3> QED  BY <3>1, <3>2
  <2>2. CASE Store(p)
    BY <1>2, <2>2 DEF Store, Note
  <2>3. CASE ~ Look(p) /\ ~ Store(p)
    BY <1>2, <2>3 DEF Acts, Run, Begin, Apply, List, Delete, Replace, Finish, Serve, Lose, Connect, Greet,
                      Message, Callback, ghosts
  <2> QED  BY <2>1, <2>2, <2>3
<1>3. CASE Around
  BY <1>3 DEF Around, Disconnect, Elsewhere, Expire, ghosts, NewsInv, RereadIsRecent
<1>4. CASE reread' = reread
  BY <1>4 DEF NewsInv, RereadIsRecent
<1> QED  BY <1>1, <1>2, <1>3, <1>4

-----------------------------------------------------------------------------
(* Whether k is an entry that a write, or a consumption of f, shows in.    *)
Shows(k, f) == k[1] # "feature" \/ k = <<"feature", k[2], f>>
Writes(op, k) == op.kind \in {"replace", "remove"} /\ k[2] \in Named(op)
Spends(op, k) == op.kind = "spend" /\ k[2] = op.users[1] /\ Shows(k, op.feature)

(* An entry of age t and n is not older than what was returned to callers. *)
Since(k, t, n) ==
  t >= written[k[2]] /\ \A f \in Features : Shows(k, f) => n >= spent[k[2]][f]

(* Nor is it older than what c is about to return, or c will delete it.    *)
Awaiting(c, k, t, n) ==
  pc[c] = "applying" =>
    /\ Writes(call[c], k) => t >= answer[c].terms[k[2]] \/ Targeted(c, k)
    /\ Spends(call[c], k) => n >= answer[c].usage[k[2]] \/ Targeted(c, k)

Recent(k, t, n) == Since(k, t, n) /\ \A c \in Callers : Awaiting(c, k, t, n)

(* What a caller that invalidates has done before.                         *)
LEMMA Applying ==
  ASSUME Types, setting' = setting, NEW c \in Callers, Acts(c), pc'[c] = "applying"
  PROVE  \/ Apply(c)
         \/ pc[c] = "applying" /\ call'[c] = call[c] /\ answer'[c] = answer[c]
<1>1. c \in Processes /\ c \notin Handlers
  BY SettingFacts DEF Types, Processes
<1> USE DEF Types, Locals, Goto, Return
<1>2. ASSUME NEW op, Begin(c, op) PROVE FALSE
  BY <1>1, <1>2 DEF Begin
<1>3. ~ Look(c) /\ ~ Store(c) /\ ~ Finish(c) /\ ~ Serve(c) /\ ~ Lose(c)
  BY <1>1 DEF Look, Store, Finish, Serve, Lose
<1>4. CASE List(c) \/ Delete(c) \/ Replace(c)
  BY <1>4 DEF List, Delete, Replace
<1> QED  BY <1>1, <1>2, <1>3, <1>4 DEF Acts, Run

LEMMA HistoryActs ==
  ASSUME Types, NEW p \in Processes, Acts(p)
  PROVE  \/ UNCHANGED <<written, spent>>
         \/ /\ Finish(p) /\ p \in Callers /\ answer[p] # None
            /\ \A u \in Users : \/ written'[u] = written[u]
                                \/ /\ written'[u] = answer[p].terms[u] /\ u \in Named(call[p])
                                   /\ call[p].kind \in {"replace", "remove"}
            /\ \A u \in Users, f \in Features :
                 \/ spent'[u][f] = spent[u][f]
                 \/ /\ spent'[u][f] = answer[p].usage[u] /\ call[p].kind = "spend"
                    /\ u = call[p].users[1] /\ f = call[p].feature
<1>1. CASE Finish(p)
  <2>1. p \in Callers /\ answer[p] # None
    <3>1. p \in Callers /\ pc[p] = "applying"
      BY <1>1, FinishFacts
    <3> QED  BY <3>1 DEF Types, About
  <2>2. \A u \in Users : \/ written'[u] = written[u]
                         \/ /\ written'[u] = answer[p].terms[u] /\ u \in Named(call[p])
                            /\ call[p].kind \in {"replace", "remove"}
    BY <1>1, FinishFacts DEF Newest
  <2>3. \A u \in Users, f \in Features :
          \/ spent'[u][f] = spent[u][f]
          \/ /\ spent'[u][f] = answer[p].usage[u] /\ call[p].kind = "spend"
             /\ u = call[p].users[1] /\ f = call[p].feature
    <3>1. CASE call[p].kind = "spend"
      <4>1. spent' = [spent EXCEPT ![call[p].users[1]] =
                       [spent[call[p].users[1]] EXCEPT ![call[p].feature] =
                          Newest(spent[call[p].users[1]][call[p].feature],
                                 answer[p].usage[call[p].users[1]])]]
        BY <1>1, <3>1, FinishFacts
      <4> QED  BY <3>1, <4>1 DEF Newest, Types, Histories
    <3>2. CASE call[p].kind # "spend"
      BY <1>1, <3>2, FinishFacts
    <3> QED  BY <3>1, <3>2
  <2> QED  BY <1>1, <2>1, <2>2, <2>3
<1>2. CASE ~ Finish(p)
  BY <1>2 DEF Acts, Run, Begin, Look, Store, Apply, List, Delete, Replace, Serve, Lose, Connect, Greet,
              Message, Callback, ghosts
<1> QED  BY <1>1, <1>2

(* When a write begins on the cache, it targets every entry it shows in.   *)
LEMMA ApplyTargets ==
  ASSUME Types, setting' = setting, NEW c \in Callers, Apply(c), NEW k \in Keys,
         Writes(call'[c], k) \/ Spends(call'[c], k)
  PROVE  Targeted(c, k)'
<1>1. /\ c \in Processes /\ call[c] \in Settings[setting].operations /\ call'[c] = call[c]
      /\ call[c].kind = "spend" => doomed'[c] = Spoiled(call[c].users[1], call[c].feature)
      /\ call[c].kind # "spend" =>
           scopes'[c] = [i \in DOMAIN call[c].users |-> {call[c].users[i]}] /\ stage'[c] = 1
  BY LocalsApply DEF Processes
<1>2. CASE Writes(call[c], k)
  <2>1. PICK i \in DOMAIN call[c].users : k[2] = call[c].users[i]
    BY <1>2 DEF Writes, Named
  <2>2. call[c].kind # "spend"
    BY <1>2 DEF Writes
  <2>3. i \in DOMAIN scopes'[c] /\ k[2] \in scopes'[c][i] /\ stage'[c] = 1
    BY <1>1, <2>1, <2>2
  <2> QED  BY <2>3, TargetedAtFirst
<1>3. CASE Spends(call[c], k)
  <2>1. call[c].kind = "spend" /\ k[2] = call[c].users[1] /\ Shows(k, call[c].feature)
    BY <1>3 DEF Spends
  <2>2. call[c].users[1] \in Users /\ call[c].feature \in Features
    BY <1>1, <2>1, OperationShape DEF Types
  <2>3. k \in Spoiled(call[c].users[1], call[c].feature)
    BY <2>1, <2>2, KeyShape DEF Shows, Types
  <2> QED  BY <1>1, <2>1, <2>3 DEF Targeted
<1> QED  BY <1>1, <1>2, <1>3

(* An entry that a step leaves alone does not become too old by it.        *)
LEMMA StillRecent ==
  ASSUME Types, setting' = setting, Around \/ (\E p \in Processes : Acts(p)),
         NEW k \in Keys, NEW t, NEW n, Recent(k, t, n),
         \A q \in Processes : Targeted(q, k) => Targeted(q, k)'
  PROVE  /\ t >= written'[k[2]] /\ \A f \in Features : Shows(k, f) => n >= spent'[k[2]][f]
         /\ \A c \in Callers : pc'[c] = "applying" =>
              /\ Writes(call'[c], k) => t >= answer'[c].terms[k[2]] \/ Targeted(c, k)'
              /\ Spends(call'[c], k) => n >= answer'[c].usage[k[2]] \/ Targeted(c, k)'
<1>1. k[2] \in Users
  BY KeyShape DEF Types
<1>2. t >= written'[k[2]] /\ \A f \in Features : Shows(k, f) => n >= spent'[k[2]][f]
  <2>1. CASE UNCHANGED <<written, spent>>
    BY <2>1 DEF Recent, Since
  <2>2. ASSUME NEW p \in Processes, Finish(p), Acts(p), ~ UNCHANGED <<written, spent>>
        PROVE  t >= written'[k[2]] /\ \A f \in Features : Shows(k, f) => n >= spent'[k[2]][f]
    <3>1. p \in Callers /\ pc[p] = "applying" /\ ~ Targeted(p, k)
      <4>1. p \in Callers /\ pc[p] = "applying" /\ scopes[p] = <<>> /\ doomed[p] = {}
        BY <2>2, FinishFacts
      <4>2. ~ Targeted(p, k)
        BY <4>1 DEF Targeted
      <4> QED  BY <4>1, <4>2
    <3>2. Writes(call[p], k) => t >= answer[p].terms[k[2]]
      BY <3>1 DEF Recent, Awaiting
    <3>3. Spends(call[p], k) => n >= answer[p].usage[k[2]]
      BY <3>1 DEF Recent, Awaiting
    <3>4. written'[k[2]] = written[k[2]] \/ (Writes(call[p], k) /\ written'[k[2]] = answer[p].terms[k[2]])
      BY <1>1, <2>2, HistoryActs DEF Writes
    <3>5. ASSUME NEW f \in Features, Shows(k, f)
          PROVE  \/ spent'[k[2]][f] = spent[k[2]][f]
                 \/ Spends(call[p], k) /\ spent'[k[2]][f] = answer[p].usage[k[2]]
      BY <1>1, <2>2, <3>5, HistoryActs DEF Spends
    <3> QED  BY <3>2, <3>3, <3>4, <3>5 DEF Recent, Since
  <2>3. Around => UNCHANGED <<written, spent>>
    BY DEF Around, Disconnect, Elsewhere, Expire, ghosts
  <2> QED  BY <2>1, <2>2, <2>3, HistoryActs
<1>3. ASSUME NEW c \in Callers, pc'[c] = "applying"
      PROVE  /\ Writes(call'[c], k) => t >= answer'[c].terms[k[2]] \/ Targeted(c, k)'
             /\ Spends(call'[c], k) => n >= answer'[c].usage[k[2]] \/ Targeted(c, k)'
  <2>1. c \in Processes
    BY DEF Processes
  <2>2. CASE pc[c] = "applying" /\ call'[c] = call[c] /\ answer'[c] = answer[c]
    BY <2>1, <2>2 DEF Recent, Awaiting
  <2>3. CASE Apply(c)
    BY <2>3, ApplyTargets
  <2>4. CASE Waits(c)
    BY <1>3, <2>2, <2>4 DEF Waits, Rests
  <2>5. CASE Acts(c)
    BY <1>3, <2>2, <2>3, <2>5, Applying
  <2> QED  BY <2>1, <2>4, <2>5, OthersWait, NobodyActs
<1> QED  BY <1>2, <1>3

-----------------------------------------------------------------------------
(* Judged by when an entry was stored, all of them are recent.             *)
StoredInv == \A k \in Keys : cache[k] # None =>
  Recent(k, cache[k].storedAt.terms, cache[k].storedAt.usage)

(* Judged by what an entry says, they are if calls do not overlap: then an *)
(* answer that is not stored yet is not older than what was returned.      *)
SaidInv == OneAtATime =>
  /\ \A c \in Callers : pc[c] \in {"answered", "applying"} =>
       \A u \in Users : /\ answer[c].terms[u] >= written[u]
                       /\ \A f \in Features : answer[c].usage[u] >= spent[u][f]
  /\ \A k \in Keys : cache[k] # None => Recent(k, cache[k].terms, cache[k].usage)

LEMMA StoredStep ==
  ASSUME Types, Past, StoredInv, setting' = setting, Around \/ \E p \in Processes : Acts(p)
  PROVE  StoredInv'
<1>1. Keys' = Keys /\ Callers' = Callers /\ Features' = Features /\ Users' = Users /\ Processes' = Processes
  BY SameSetting
<1>2. SUFFICES ASSUME NEW k \in Keys, cache'[k] # None
               PROVE  Recent(k, cache[k].storedAt.terms, cache[k].storedAt.usage)'
  BY <1>1 DEF StoredInv
<1>3. k[2] \in Users /\ Callers \subseteq Processes
  BY KeyShape, SettingFacts DEF Types, Processes
<1>4. ASSUME NEW p \in Processes, Stores(p, k)
      PROVE  Recent(k, cache[k].storedAt.terms, cache[k].storedAt.usage)'
  <2>1. Past' /\ \A c \in Callers : About(c)'
    BY <1>3, PastStep, AboutStep
  <2>2. cache'[k].storedAt.terms = terms'[k[2]] /\ cache'[k].storedAt.usage = usage'[k[2]]
    BY <1>4 DEF Stores
  <2>3. Since(k, cache[k].storedAt.terms, cache[k].storedAt.usage)'
    BY <1>1, <1>3, <2>1, <2>2 DEF Past, Since
  <2>4. ASSUME NEW c \in Callers PROVE Awaiting(c, k, cache[k].storedAt.terms, cache[k].storedAt.usage)'
    <3>1. pc'[c] = "applying" => answer'[c] # None
      BY <1>1, <1>3, <2>1 DEF About
    <3>2. answer'[c] # None => answer'[c].terms[k[2]] <= terms'[k[2]] /\ answer'[c].usage[k[2]] <= usage'[k[2]]
      BY <1>1, <1>3, <2>1 DEF Past
    <3> QED  BY <1>1, <1>3, <2>2, <3>1, <3>2 DEF Awaiting
  <2> QED  BY <1>1, <2>3, <2>4 DEF Recent
<1>5. CASE cache'[k] = cache[k] /\ \A q \in Processes : Targeted(q, k) => Targeted(q, k)'
  <2>1. Recent(k, cache[k].storedAt.terms, cache[k].storedAt.usage)
    BY <1>2, <1>5 DEF StoredInv
  <2> DEFINE t == cache[k].storedAt.terms
             n == cache[k].storedAt.usage
  <2>2. /\ t >= written'[k[2]] /\ \A f \in Features : Shows(k, f) => n >= spent'[k[2]][f]
        /\ \A c \in Callers : pc'[c] = "applying" =>
              /\ Writes(call'[c], k) => t >= answer'[c].terms[k[2]] \/ Targeted(c, k)'
              /\ Spends(call'[c], k) => n >= answer'[c].usage[k[2]] \/ Targeted(c, k)'
    BY <1>5, <2>1, StillRecent
  <2>3. t = cache'[k].storedAt.terms /\ n = cache'[k].storedAt.usage
    BY <1>5
  <2> HIDE DEF t, n
  <2> QED  BY <1>1, <2>2, <2>3 DEF Recent, Since, Awaiting
<1> QED  BY <1>2, <1>4, <1>5, EntryStep

(* Who has an answer was served by this step, or had it before.            *)
LEMMA Answered ==
  ASSUME Types, setting' = setting, NEW c \in Callers, Acts(c), pc'[c] \in {"answered", "applying"}
  PROVE  \/ Serve(c)
         \/ /\ pc[c] \in {"answered", "applying"} /\ answer'[c] = answer[c]
            /\ UNCHANGED <<written, spent>>
<1>1. c \in Processes /\ c \notin Handlers
  BY SettingFacts DEF Types, Processes
<1> USE DEF Types, Locals, Goto, Return
<1>2. ASSUME NEW op, Begin(c, op) PROVE FALSE
  BY <1>1, <1>2 DEF Begin
<1>3. ~ Look(c) /\ ~ Store(c) /\ ~ Finish(c) /\ ~ Lose(c)
  BY <1>1 DEF Look, Store, Finish, Lose
<1>4. CASE Apply(c) \/ List(c) \/ Delete(c) \/ Replace(c)
  BY <1>4 DEF Apply, List, Delete, Replace, ghosts
<1> QED  BY <1>1, <1>2, <1>3, <1>4 DEF Acts, Run

LEMMA SaidStep ==
  ASSUME Types, Past, SaidInv, setting' = setting, Around \/ \E p \in Processes : Acts(p)
  PROVE  SaidInv'
<1>1. /\ Keys' = Keys /\ Callers' = Callers /\ Features' = Features /\ Users' = Users
      /\ Processes' = Processes /\ threaded' = threaded
  BY SameSetting
<1>2. SUFFICES ASSUME OneAtATime PROVE SaidInv'
  BY <1>1 DEF SaidInv, OneAtATime
<1>3. /\ Callers \subseteq Processes /\ \A p \in Processes : p \in Callers <=> p \notin Handlers
      /\ ~ threaded /\ \A c, d \in Callers : c = d
  BY <1>2, SettingFacts DEF Types, Processes, OneAtATime
<1>4. Past' /\ \A c \in Callers : About(c)'
  BY <1>3, PastStep, AboutStep
<1>5. ASSUME NEW c \in Callers, pc'[c] \in {"answered", "applying"}, NEW u \in Users
      PROVE  answer'[c].terms[u] >= written'[u] /\ \A f \in Features : answer'[c].usage[u] >= spent'[u][f]
  <2>1. CASE Serve(c)
    <3>1. answer'[c].terms = terms' /\ answer'[c].usage = usage'
      BY <1>3, <2>1 DEF Serve, Types, Locals
    <3>2. terms'[u] >= written'[u] /\ \A f \in Features : usage'[u] >= spent'[u][f]
      <4>1. written'[u] <= terms'[u] /\ \A f \in Features : spent'[u][f] <= usage'[u]
        BY <1>1, <1>4 DEF Past
      <4> QED  BY <4>1
    <3> QED  BY <3>1, <3>2
  <2>2. CASE /\ pc[c] \in {"answered", "applying"} /\ answer'[c] = answer[c]
             /\ UNCHANGED <<written, spent>>
    BY <1>2, <2>2 DEF SaidInv
  <2>3. CASE Acts(c)
    BY <1>5, <2>1, <2>2, <2>3, Answered
  <2>4. ASSUME Waits(c), UNCHANGED <<written, spent>>
        PROVE  answer'[c].terms[u] >= written'[u] /\ \A f \in Features : answer'[c].usage[u] >= spent'[u][f]
    BY <1>5, <2>2, <2>4 DEF Waits, Rests
  <2>5. Around => Waits(c) /\ UNCHANGED <<written, spent>>
    BY <1>3, NobodyActs DEF Around, Disconnect, Elsewhere, Expire, ghosts
  <2>6. ASSUME NEW p \in Processes \ {c}, Acts(p) PROVE Waits(c) /\ UNCHANGED <<written, spent>>
    <3>1. Waits(c)
      BY <1>3, <2>6, OthersWait
    <3>2. p \notin Callers
      BY <1>3, <2>6
    <3> QED  BY <2>6, <3>1, <3>2, HistoryActs
  <2> QED  BY <2>3, <2>4, <2>5, <2>6
<1>6. ASSUME NEW k \in Keys, cache'[k] # None PROVE Recent(k, cache[k].terms, cache[k].usage)'
  <2>1. k[2] \in Users
    BY KeyShape DEF Types
  <2>2. ASSUME NEW p \in Processes, Acts(p), Stores(p, k)
        PROVE  Recent(k, cache[k].terms, cache[k].usage)'
    <3>1. p \in Callers /\ pc[p] \in {"answered", "applying"} /\ ~ Serve(p)
      BY <1>3, <2>2 DEF Stores, Processes, Serve
    <3>2. cache'[k].terms = answer[p].terms[k[2]] /\ cache'[k].usage = answer[p].usage[k[2]]
      BY <2>2 DEF Stores
    <3>3. answer[p].terms[k[2]] >= written[k[2]] /\ \A f \in Features : answer[p].usage[k[2]] >= spent[k[2]][f]
      BY <1>2, <2>1, <3>1 DEF SaidInv
    <3>4. /\ answer[p].terms[k[2]] >= answer[p].terms[k[2]]
          /\ answer[p].usage[k[2]] >= answer[p].usage[k[2]]
      BY <2>1, <2>2, <3>1, Counting, SettingFacts DEF Stores, Answers, Types
    <3>5. /\ answer[p].terms[k[2]] >= written'[k[2]]
          /\ \A f \in Features : answer[p].usage[k[2]] >= spent'[k[2]][f]
      BY <2>1, <2>2, <3>3, <3>4, HistoryActs
    <3>6. Since(k, cache[k].terms, cache[k].usage)'
      BY <1>1, <3>2, <3>5 DEF Since
    <3>7. ASSUME NEW c \in Callers PROVE Awaiting(c, k, cache[k].terms, cache[k].usage)'
      <4>1. c = p
        BY <1>3, <3>1
      <4>2. pc'[c] = "applying" => answer'[c] = answer[p]
        BY <2>2, <3>1, <4>1, Answered
      <4> QED  BY <3>2, <3>4, <4>2 DEF Awaiting
    <3> QED  BY <1>1, <3>6, <3>7 DEF Recent
  <2>3. CASE cache'[k] = cache[k] /\ \A q \in Processes : Targeted(q, k) => Targeted(q, k)'
    <3>1. Recent(k, cache[k].terms, cache[k].usage)
      BY <1>2, <1>6, <2>3 DEF SaidInv
    <3> DEFINE t == cache[k].terms
               n == cache[k].usage
    <3>2. /\ t >= written'[k[2]] /\ \A f \in Features : Shows(k, f) => n >= spent'[k[2]][f]
          /\ \A c \in Callers : pc'[c] = "applying" =>
                /\ Writes(call'[c], k) => t >= answer'[c].terms[k[2]] \/ Targeted(c, k)'
                /\ Spends(call'[c], k) => n >= answer'[c].usage[k[2]] \/ Targeted(c, k)'
      BY <2>3, <3>1, StillRecent
    <3>3. t = cache'[k].terms /\ n = cache'[k].usage
      BY <2>3
    <3> HIDE DEF t, n
    <3> QED  BY <1>1, <3>2, <3>3 DEF Recent, Since, Awaiting
  <2> QED  BY <1>6, <2>2, <2>3, EntryStep
<1> QED  BY <1>1, <1>5, <1>6 DEF SaidInv

-----------------------------------------------------------------------------
(* The invariant that every theorem below is part of.                      *)
IInv == Past /\ CoveredInv /\ NewsInv /\ StoredInv /\ SaidInv

LEMMA InitIInv == Init => IInv
<1> SUFFICES ASSUME Init PROVE IInv
  OBVIOUS
<1>1. \A k \in Keys : cache[k] = None
  BY DEF Init
<1>2. Past
  <2>1. \A p \in Processes : answer[p] = None
    BY DEF Init
  <2>2. \A u \in Users : terms[u] = 0 /\ usage[u] = 0 /\ written[u] = 0 /\ \A f \in Features : spent[u][f] = 0
    BY DEF Init
  <2>3. events = {} /\ \A p \in Processes : news[p] = None
    BY DEF Init
  <2> QED  BY <2>1, <2>2, <2>3 DEF Past
<1>3. CoveredInv
  BY <1>1 DEF Init, CoveredInv, Linked, Processes
<1>4. NewsInv
  BY <1>1 DEF Init, NewsInv, RereadIsRecent
<1>5. StoredInv
  BY <1>1 DEF StoredInv
<1>6. SaidInv
  BY <1>1 DEF Init, SaidInv, Processes
<1> QED  BY <1>2, <1>3, <1>4, <1>5, <1>6 DEF IInv

LEMMA StutterIInv ==
  ASSUME IInv, UNCHANGED vars
  PROVE  IInv'
<1>1. /\ UNCHANGED <<setting, cache, pc, call, answer, scopes, stage, doomed, terms, usage>>
      /\ UNCHANGED <<joined, baseline, events, connected, news, reread, written, spent, calls, drops>>
  BY DEF vars, work, space, link, ghosts
<1>2. /\ Keys' = Keys /\ Callers' = Callers /\ Features' = Features /\ Users' = Users
      /\ Processes' = Processes /\ threaded' = threaded /\ Handlers' = Handlers
  BY <1>1, SameSetting
<1>3. \A p, k : Targeted(p, k)' = Targeted(p, k)
  BY <1>1 DEF Targeted
<1>4. Past'
  BY <1>1, <1>2 DEF IInv, Past
<1>5. CoveredInv'
  BY <1>1, <1>2, <1>3 DEF IInv, CoveredInv, Linked, Covered
<1>6. NewsInv'
  BY <1>1, <1>2, <1>3 DEF IInv, NewsInv, Newsworthy, RereadIsRecent
<1>7. StoredInv'
  BY <1>1, <1>2, <1>3 DEF IInv, StoredInv, Recent, Since, Awaiting
<1>8. SaidInv'
  BY <1>1, <1>2, <1>3 DEF IInv, SaidInv, OneAtATime, Recent, Since, Awaiting
<1> QED  BY <1>4, <1>5, <1>6, <1>7, <1>8 DEF IInv

LEMMA Invariant == Spec => []IInv
<1>1. Types /\ IInv /\ [Next]_vars => IInv'
  <2> SUFFICES ASSUME Types, IInv, [Next]_vars PROVE IInv'
    OBVIOUS
  <2>1. CASE UNCHANGED vars
    BY <2>1, StutterIInv
  <2>2. CASE Next
    <3>1. setting' = setting /\ (Around \/ \E p \in Processes : Acts(p))
      BY <2>2, SomebodyActs
    <3>2. Past' /\ CoveredInv' /\ StoredInv' /\ SaidInv'
      BY <3>1, PastStep, CoveredStep, StoredStep, SaidStep DEF IInv
    <3>3. RereadIsRecent' /\ \A p \in Handlers, k \in Keys : cache'[k] # None => Newsworthy(p, k)'
      BY <3>1, RereadStep, NewsworthyStep DEF IInv
    <3>4. NewsInv'
      BY <3>1, <3>3, SameSetting DEF NewsInv
    <3> QED  BY <3>2, <3>4 DEF IInv
  <2> QED  BY <2>1, <2>2
<1> QED  BY <1>1, InitIInv, AlwaysTyped, PTL DEF Spec

-----------------------------------------------------------------------------
(* Joined, with every event handled, the client has nothing cached that a  *)
(* change of the contract has overtaken - announced or missed - except     *)
(* what was there when Space last joined it with no connection noted, and  *)
(* has not changed since: however many handlers overlap.                   *)
THEOREM RestIsFresh == Spec => []FreshAtRest
<1>1. Types /\ IInv => FreshAtRest
  <2> SUFFICES ASSUME Types, IInv, joined, events = {}, \A p \in Handlers : pc[p] = "idle", NEW k \in Cached
               PROVE  cache[k].storedAt.terms = terms[k[2]] \/ terms[k[2]] = baseline[k[2]]
    BY DEF FreshAtRest
  <2>1. Covered(k)
    BY DEF IInv, CoveredInv, Cached
  <2>2. \A p \in Handlers : scopes[p] = <<>> /\ doomed[p] = {} /\ pc[p] # "greeting"
    BY DEF Types, About, Processes
  <2>3. \A p \in Handlers : ~ Targeted(p, k)
    BY <2>2 DEF Targeted
  <2> QED  BY <2>1, <2>2, <2>3 DEF Covered
<1> QED  BY <1>1, AlwaysTyped, Invariant, PTL

(* A callback that reads its contract again gets what was stored after the *)
(* change it is told of.                                                   *)
THEOREM CallbackReadsTheNews == Spec => []RereadIsRecent
BY Invariant, PTL DEF IInv, NewsInv

(* Whatever is stored by overtaken answers of other threads, an entry that *)
(* is there was stored after every write that returned.                    *)
THEOREM NothingOutlivesAWrite == Spec => []NothingFromBefore
<1>1. IInv => NothingFromBefore
  BY DEF IInv, StoredInv, Recent, Since, Shows, NothingFromBefore, Cached
<1> QED  BY <1>1, Invariant, PTL

(* One task at a time reads what it wrote.                                 *)
THEOREM OwnWritesAreRead == Spec => []ReadYourWrites
<1>1. IInv => ReadYourWrites
  BY DEF IInv, SaidInv, Recent, Since, Shows, ReadYourWrites, Cached
<1> QED  BY <1>1, Invariant, PTL
=============================================================================
