---------------------------- MODULE ContractCache ----------------------------
(***************************************************************************)
(* The client's cache of contracts, evaluations and pricing tokens, shared *)
(* by the calls of the application (parse in _operations.py) and by the    *)
(* handlers of the /contracts namespace (_base_client.py).                 *)
(*                                                                         *)
(* Every access to the cache provider is a step of its own, which is how   *)
(* threads of the synchronous client interleave, each socket handler on a  *)
(* thread of its own; in the asynchronous one a parse or a handler runs to *)
(* its end first, as a callback of the event loop does.  Space is as old   *)
(* as the number of changes it made: terms counts those of a user's        *)
(* contract, usage those of a user's consumption.                          *)
(***************************************************************************)
EXTENDS Naturals, Sequences

CONSTANTS
  Settings,     (* Which clients there are, and who uses each for what.    *)
  Bounds,       (* Bounds on the calls of the application, the changes of  *)
                (* one contract and the times the socket drops, of each.   *)
  None,         (* Nothing cached, or no operation.                        *)
  MaxUsage      (* Bound on the consumptions of one user.                  *)

(* The cache keys; nothing is ever stored under a subscription key.        *)
KeysOf(users, features) ==
  ({"contract", "pricing-token"} \X users) \cup ({"feature"} \X users \X features)

(* The calls that use the cache: the reads, the writes that answer with a  *)
(* user's new contract (one user or a group), the ones that remove it or   *)
(* find that it changed (412), and consumptions and their reverts.         *)
OperationsOf(users, features) ==
  [kind : {"read"}, key : KeysOf(users, features)]
    \cup [kind : {"replace"}, users : {<<u>> : u \in users}
                                        \cup {uv \in users \X users : uv[1] # uv[2]}]
    \cup [kind : {"remove", "conflict"}, users : {<<u>> : u \in users}]
    \cup [kind : {"spend"}, users : {<<u>> : u \in users}, feature : features]

(* A setting with its keys, the operations its application makes and the   *)
(* threads that may run socket handlers, so many at a time.                *)
Setting(threads, users, features, callers, handlers, kinds) ==
  [threaded |-> threads, users |-> users, features |-> features,
   callers |-> callers, handlers |-> handlers,
   keys |-> KeysOf(users, features),
   operations |-> {op \in OperationsOf(users, features) : op.kind \in kinds}]

(* What an answer of Space, and a message, says.                           *)
Told(users) == [terms : [users -> Nat], usage : [users -> Nat]]
News(users) == [user : users, terms : Nat, kind : {"event", "resync", "first resync"}]

ASSUME ContractCacheAssumption ==
  /\ \A name \in DOMAIN Settings :
       LET users == Settings[name].users
           features == Settings[name].features
       IN /\ Settings[name].threaded \in BOOLEAN
          /\ Settings[name].callers \cap Settings[name].handlers = {}
          /\ Settings[name].keys = KeysOf(users, features)
          /\ Settings[name].operations \subseteq OperationsOf(users, features)
          /\ Bounds[name] \in [calls : Nat, terms : Nat, drops : Nat]
          /\ None \notin OperationsOf(users, features) \cup Told(users) \cup News(users)
          /\ None \notin [users -> Nat]
  /\ None # [kind |-> "handle"]
  /\ MaxUsage \in Nat

VARIABLES
  setting,      (* Which of the settings it is.                            *)
  cache,        (* What each key holds.                                    *)
  pc,           (* Where each process is.                                  *)
  call,         (* The operation each process runs.                        *)
  answer,       (* What Space answered to it.                              *)
  scopes,       (* Invalidations a process has still to make.              *)
  stage,        (* The pattern it lists next.                              *)
  doomed,       (* The keys it listed and has still to delete.             *)
  terms,        (* Changes of each contract so far.                        *)
  usage,        (* Consumptions of each user so far.                       *)
  joined,       (* Whether Space sends this client contract events.        *)
  connected,    (* _connected_before["contracts"].                         *)
  baseline,     (* Changes of each contract when Space last joined it with *)
                (* no connection noted: see Connect.                       *)
  events,       (* Contract events on their way, in no order.              *)
  news,         (* What each socket handler is telling its listener.       *)
  reread,       (* What the listener's last re-read found.                 *)
  written,      (* The last change of each contract a call returned from.  *)
  spent,        (* The same of each consumption of a feature.              *)
  calls,
  drops

threaded == Settings[setting].threaded   (* SpaceClient or AsyncSpaceClient. *)
Users == Settings[setting].users
Features == Settings[setting].features
Callers == Settings[setting].callers     (* Threads or tasks of the application. *)
Handlers == Settings[setting].handlers   (* Those that run a socket handler. *)
Keys == Settings[setting].keys

MaxCalls == Bounds[setting].calls
MaxTerms == Bounds[setting].terms
MaxDrops == Bounds[setting].drops

Processes == Callers \cup Handlers

(* A bug: the evaluations of the user are not among the patterns.          *)
PatternsWithoutFeatures == <<"contract", "subscription", "pricing-token">>

(* The patterns of invalidate_user, in its order.                          *)
Patterns == <<"contract", "feature", "subscription", "pricing-token">>

space == <<terms, usage>>
link == <<joined, baseline, events>>
ghosts == <<reread, written, spent>>
work == <<scopes, stage, doomed>>
vars == <<setting, cache, pc, call, answer, work, space, link, connected, news,
          ghosts, calls, drops>>

Goto(p, place) == pc' = [pc EXCEPT ![p] = place]

(* On the event loop a parse or a handler is never interrupted.            *)
MayRun(p) == threaded \/ \A q \in Processes \ {p} : pc[q] # "applying"

(* What a process stores: what Space answered, and when it is stored.      *)
Entry(p, u) ==
  [terms |-> answer[p].terms[u], usage |-> answer[p].usage[u],
   storedAt |-> [terms |-> terms[u], usage |-> usage[u]]]

-----------------------------------------------------------------------------
(* A call of the application.                                              *)

Begin(c, op) ==
  /\ pc[c] = "idle"
  /\ calls < MaxCalls
  /\ calls' = calls + 1
  /\ call' = [call EXCEPT ![c] = op]
  /\ Goto(c, IF op.kind = "read" THEN "looking" ELSE "asking")
  /\ UNCHANGED <<cache, answer, work, space, link, connected, news,
                 ghosts, drops>>

(* The listener reads the contract again to see what changed: whether what *)
(* it gets was stored as late as the news.                                 *)
Note(p, entry) ==
  reread' = IF p \in Handlers
            THEN [recent |-> entry.storedAt.terms >= news[p].terms, news |-> news[p].kind]
            ELSE reread

(* The call is over.                                                       *)
Return(p) ==
  /\ Goto(p, "idle")
  /\ call' = [call EXCEPT ![p] = None]
  /\ answer' = [answer EXCEPT ![p] = None]
  /\ news' = [news EXCEPT ![p] = None]

(* cache_hit: answered from the cache, or Space is asked.                  *)
Look(p) ==
  /\ pc[p] = "looking"
  /\ MayRun(p)
  /\ LET entry == cache[call[p].key]
     IN IF entry = None
        THEN Goto(p, "asking") /\ UNCHANGED <<call, answer, news, reread>>
        ELSE Return(p) /\ Note(p, entry)
  /\ UNCHANGED <<cache, work, space, link, connected, written, spent, calls, drops>>

(* The contracts in changed change at Space, which announces each to those *)
(* who joined.                                                             *)
Change(changed) ==
  /\ terms' = [u \in Users |-> IF u \in changed THEN terms[u] + 1 ELSE terms[u]]
  /\ events' = IF joined
               THEN events \cup {[user |-> u, terms |-> terms'[u]] : u \in changed}
               ELSE events

Named(op) == {op.users[i] : i \in DOMAIN op.users}

(* Space serves the call.                                                  *)
Serve(p) ==
  /\ pc[p] = "asking"
  /\ LET op == call[p]
     IN \/ /\ op.kind \in {"read", "conflict"}
           /\ UNCHANGED <<terms, usage, events>>
        \/ /\ op.kind \in {"replace", "remove"}
           /\ \A u \in Named(op) : terms[u] < MaxTerms
           /\ Change(Named(op))
           /\ UNCHANGED usage
        \/ /\ op.kind = "spend"
           /\ \A u \in Named(op) : usage[u] < MaxUsage
           /\ usage' = [u \in Users |-> IF u \in Named(op) THEN usage[u] + 1 ELSE usage[u]]
           /\ UNCHANGED <<terms, events>>
  /\ answer' = [answer EXCEPT ![p] = [terms |-> terms', usage |-> usage']]
  /\ Goto(p, "answered")
  /\ UNCHANGED <<cache, call, work, joined, baseline, connected, news, ghosts, calls, drops>>

(* No answer arrives, though a write may have been applied: an error is    *)
(* raised and parse does not run.                                          *)
Lose(p) ==
  /\ pc[p] \in {"asking", "answered"}
  /\ Return(p)
  /\ UNCHANGED <<cache, work, space, link, connected, ghosts, calls, drops>>

(* parse of a read: the answer is stored under the key that was missed.    *)
Store(p) ==
  /\ pc[p] = "answered"
  /\ call[p].kind = "read"
  /\ MayRun(p)
  /\ LET k == call[p].key
     IN /\ cache' = [cache EXCEPT ![k] = Entry(p, k[2])]
        /\ Note(p, Entry(p, k[2]))
  /\ Return(p)
  /\ UNCHANGED <<work, space, link, connected, written, spent, calls, drops>>

(* A bug: only the evaluation goes.                                        *)
SpoiledFeature(u, f) == {<<"feature", u, f>>}

(* The entries a consumption shows in.                                     *)
Spoiled(u, f) == {<<"feature", u, f>>, <<"contract", u>>, <<"pricing-token", u>>}

(* parse of a write, or the refusal with 412, starts on the cache: every   *)
(* entry of the users named goes, or those a consumption shows in (in no   *)
(* order: Delete takes any of them).                                       *)
Apply(p) ==
  /\ pc[p] = "answered"
  /\ call[p].kind # "read"
  /\ MayRun(p)
  /\ Goto(p, "applying")
  /\ LET op == call[p]
     IN IF op.kind = "spend"
        THEN /\ doomed' = [doomed EXCEPT ![p] = Spoiled(op.users[1], op.feature)]
             /\ UNCHANGED scopes
        ELSE /\ scopes' = [scopes EXCEPT ![p] =
                             [i \in DOMAIN op.users |-> {op.users[i]}]]
             /\ UNCHANGED doomed
  /\ UNCHANGED <<cache, call, answer, stage, space, link, connected, news,
                 ghosts, calls, drops>>

-----------------------------------------------------------------------------
(* invalidate_user and invalidate_all_users.                               *)

Matching(pattern, users) == {k \in Keys : k[1] = pattern /\ k[2] \in users}

(* keys(pattern).                                                          *)
List(p) ==
  /\ pc[p] = "applying"
  /\ scopes[p] # <<>>
  /\ doomed[p] = {}
  /\ stage[p] <= Len(Patterns)
  /\ doomed' = [doomed EXCEPT ![p] =
                  {k \in Matching(Patterns[stage[p]], Head(scopes[p])) : cache[k] # None}]
  /\ stage' = [stage EXCEPT ![p] = @ + 1]
  /\ UNCHANGED <<cache, pc, call, answer, scopes, space, link, connected,
                 news, ghosts, calls, drops>>

(* delete(key), present or not.                                            *)
Delete(p) ==
  /\ pc[p] = "applying"
  /\ \E k \in doomed[p] :
       /\ cache' = [cache EXCEPT ![k] = None]
       /\ doomed' = [doomed EXCEPT ![p] = @ \ {k}]
  /\ UNCHANGED <<pc, call, answer, scopes, stage, space, link, connected,
                 news, ghosts, calls, drops>>

(* A bug: the loop over the patterns does not start again.                 *)
FromTheTopNever(p) == stage

FromTheTop(p) == [stage EXCEPT ![p] = 1]

(* One invalidation is over; the answer of a write then becomes the user's *)
(* cached contract.                                                        *)
Replace(p) ==
  /\ pc[p] = "applying"
  /\ scopes[p] # <<>>
  /\ doomed[p] = {}
  /\ stage[p] > Len(Patterns)
  /\ IF call[p].kind = "replace"
     THEN \E u \in Head(scopes[p]) :
            cache' = [cache EXCEPT ![<<"contract", u>>] = Entry(p, u)]
     ELSE UNCHANGED cache
  /\ scopes' = [scopes EXCEPT ![p] = Tail(scopes[p])]
  /\ stage' = FromTheTop(p)
  /\ UNCHANGED <<pc, call, answer, doomed, space, link, connected, news,
                 ghosts, calls, drops>>

Newest(a, b) == IF a > b THEN a ELSE b

(* The call returns what its write did.                                    *)
Finish(p) ==
  /\ pc[p] = "applying"
  /\ p \in Callers
  /\ scopes[p] = <<>>
  /\ doomed[p] = {}
  /\ LET op == call[p]
     IN /\ written' = IF op.kind \in {"replace", "remove"}
                      THEN [u \in Users |-> IF u \in Named(op)
                                            THEN Newest(written[u], answer[p].terms[u])
                                            ELSE written[u]]
                      ELSE written
        /\ spent' = IF op.kind = "spend"
                    THEN [spent EXCEPT ![op.users[1]][op.feature] =
                            Newest(@, answer[p].usage[op.users[1]])]
                    ELSE spent
  /\ Return(p)
  /\ UNCHANGED <<cache, work, space, link, connected, reread, calls, drops>>

-----------------------------------------------------------------------------
(* The socket's handlers for /contracts.                                   *)

(* A bug: events missed while disconnected are of no consequence.          *)
MissedNone == <<>>

(* Who may have changed while disconnected.                                *)
Missed == IF connected THEN <<Users>> ELSE <<>>

(* A bug: the event is delivered, but nothing is invalidated.              *)
AnnouncedNone(e) == <<>>

Announced(e) == <<{e.user}>>

(* Space joins this client to its namespace, and the connect handler is    *)
(* called.  As long as no handler has noted a connection, the baseline     *)
(* moves with every join: nothing before it is going to be invalidated.    *)
Connect(p) ==
  /\ pc[p] = "idle"
  /\ ~ joined
  /\ joined' = TRUE
  /\ baseline' = IF connected THEN baseline ELSE terms
  /\ Goto(p, "greeting")
  /\ call' = [call EXCEPT ![p] = [kind |-> "handle"]]
  /\ UNCHANGED <<cache, answer, work, space, events, connected, news,
                 ghosts, calls, drops>>

(* The connect handler starts: if a connection was noted before this one,  *)
(* it invalidates all users first.  By now the connection may be lost, and *)
(* another handler may be running.                                         *)
Greet(p) ==
  /\ pc[p] = "greeting"
  /\ MayRun(p)
  /\ Goto(p, "applying")
  /\ scopes' = [scopes EXCEPT ![p] = Missed]
  /\ \E u \in Users :
       news' = [news EXCEPT ![p] =
                  [user |-> u, terms |-> terms[u],
                   kind |-> IF connected THEN "resync" ELSE "first resync"]]
  /\ UNCHANGED <<cache, call, answer, stage, doomed, space, link, connected,
                 ghosts, calls, drops>>

(* The message handler: the user of the event is invalidated.              *)
Message(p) ==
  /\ pc[p] = "idle"
  /\ joined
  /\ MayRun(p)
  /\ \E e \in events :
       /\ events' = events \ {e}
       /\ scopes' = [scopes EXCEPT ![p] = Announced(e)]
       /\ news' = [news EXCEPT ![p] = [user |-> e.user, terms |-> e.terms, kind |-> "event"]]
  /\ Goto(p, "applying")
  /\ call' = [call EXCEPT ![p] = [kind |-> "handle"]]
  /\ UNCHANGED <<cache, answer, stage, doomed, space, joined, baseline, connected,
                 ghosts, calls, drops>>

(* The callback, after the invalidation and after _emit_resync has noted   *)
(* the connection: it reads the contract again, or does not care.          *)
Callback(p) ==
  /\ p \in Handlers
  /\ pc[p] = "applying"
  /\ scopes[p] = <<>>
  /\ doomed[p] = {}
  /\ connected' = (connected \/ news[p].kind # "event")
  /\ \/ /\ threaded
        /\ Goto(p, "looking")
        /\ call' = [call EXCEPT ![p] =
                      [kind |-> "read", key |-> <<"contract", news[p].user>>]]
        /\ UNCHANGED <<answer, news>>
     \/ Return(p)
  /\ UNCHANGED <<cache, work, space, link, ghosts, calls, drops>>

(* The connection is lost, and what Space sent or sends on it with it,     *)
(* joins whose handlers were not called yet among it.                      *)
Disconnect ==
  /\ joined
  /\ drops < MaxDrops
  /\ drops' = drops + 1
  /\ joined' = FALSE
  /\ events' = {}
  /\ \E lost \in SUBSET {p \in Handlers : pc[p] = "greeting"} :
       /\ pc' = [p \in Processes |-> IF p \in lost THEN "idle" ELSE pc[p]]
       /\ call' = [p \in Processes |-> IF p \in lost THEN None ELSE call[p]]
  /\ UNCHANGED <<cache, answer, work, space, baseline, connected, news,
                 ghosts, calls>>

-----------------------------------------------------------------------------
(* Another client changes a contract.                                      *)
Elsewhere(u) ==
  /\ terms[u] < MaxTerms
  /\ Change({u})
  /\ UNCHANGED <<cache, pc, call, answer, work, usage, joined, baseline, connected, news,
                 ghosts, calls, drops>>

(* The time to live of an entry is over.                                   *)
Expire(k) ==
  /\ cache[k] # None
  /\ cache' = [cache EXCEPT ![k] = None]
  /\ UNCHANGED <<pc, call, answer, work, space, link, connected, news,
                 ghosts, calls, drops>>

Init ==
  /\ setting \in DOMAIN Settings
  /\ cache = [k \in Keys |-> None]
  /\ pc = [p \in Processes |-> "idle"]
  /\ call = [p \in Processes |-> None]
  /\ answer = [p \in Processes |-> None]
  /\ scopes = [p \in Processes |-> <<>>]
  /\ stage = [p \in Processes |-> 1]
  /\ doomed = [p \in Processes |-> {}]
  /\ terms = [u \in Users |-> 0]
  /\ usage = [u \in Users |-> 0]
  /\ joined = FALSE
  /\ connected = FALSE
  /\ baseline = None
  /\ events = {}
  /\ news = [p \in Processes |-> None]
  /\ reread = [recent |-> TRUE, news |-> "event"]
  /\ written = [u \in Users |-> 0]
  /\ spent = [u \in Users |-> [f \in Features |-> 0]]
  /\ calls = 0
  /\ drops = 0

Run(p) == Look(p) \/ Store(p) \/ Apply(p) \/ List(p) \/ Delete(p) \/ Replace(p) \/ Finish(p)

Next ==
  /\ \/ \E c \in Callers, op \in Settings[setting].operations : Begin(c, op)
     \/ \E p \in Processes : Run(p) \/ Serve(p) \/ Lose(p)
     \/ \E p \in Handlers : Connect(p) \/ Greet(p) \/ Message(p) \/ Callback(p)
     \/ Disconnect
     \/ \E u \in Users : Elsewhere(u)
     \/ \E k \in Keys : Expire(k)
  /\ UNCHANGED setting

Spec == Init /\ [][Next]_vars

-----------------------------------------------------------------------------
Counts == [terms : 0 .. MaxTerms, usage : 0 .. MaxUsage]
Entries == [terms : 0 .. MaxTerms, usage : 0 .. MaxUsage, storedAt : Counts]

(* The variables have their types, and a call that is over leaves no       *)
(* invalidation behind: every loop of invalidate_user ends where it began. *)
TypeOK ==
  /\ setting \in DOMAIN Settings
  /\ cache \in [Keys -> Entries \cup {None}]
  /\ pc \in [Processes -> {"idle", "greeting", "looking", "asking", "answered", "applying"}]
  /\ \A p \in Processes :
       /\ stage[p] \in 1 .. (Len(Patterns) + 1)
       /\ doomed[p] \subseteq Keys
       /\ pc[p] # "applying" =>
            scopes[p] = <<>> /\ doomed[p] = {} /\ stage[p] = 1
       /\ pc[p] \in {"answered"} => answer[p] # None
       /\ (pc[p] = "idle") <=> (call[p] = None)
  /\ terms \in [Users -> 0 .. MaxTerms]
  /\ usage \in [Users -> 0 .. MaxUsage]
  /\ events \subseteq [user : Users, terms : 1 .. MaxTerms]
  /\ \A p \in Processes :
       (news[p] = None) <=> (p \in Callers \/ pc[p] \in {"idle", "greeting"})
  /\ calls \in 0 .. MaxCalls
  /\ drops \in 0 .. MaxDrops

Cached == {k \in Keys : cache[k] # None}

(* Once the client is joined to /contracts, has handled every event and    *)
(* runs no handler, whatever the cache holds for a user was stored since   *)
(* the last change of the user's contract - by whoever, and whether it was *)
(* announced or missed while disconnected (_base_client.py, the handlers   *)
(* of /contracts).  Excepted is what was cached before the last join made  *)
(* with no connection noted and did not change since: the first join, but  *)
(* for threads whose connection is lost and made again while the first     *)
(* connect handler is still to reach _emit_resync.                         *)
FreshAtRest ==
  joined /\ events = {} /\ (\A p \in Handlers : pc[p] = "idle") =>
    \A k \in Cached :
      \/ cache[k].storedAt.terms = terms[k[2]]
      \/ terms[k[2]] = baseline[k[2]]

(* A listener that reads the contract again in its callback gets, from the *)
(* cache or from Space, what was stored after the change it is told of, or *)
(* after a reconnection: the invalidation comes before the callback.  Only *)
(* a resync whose connect handler started with no connection noted has     *)
(* invalidated nothing, and promises nothing: the first one and, when two  *)
(* connect handlers overlap, perhaps the second, though _emit_resync tells *)
(* that one's listener of a reconnection.                                  *)
RereadIsRecent == reread.recent \/ reread.news = "first resync"

(* A write or a consumption that returned to its caller leaves nothing     *)
(* cached from before it: every entry it shows in was stored since, though *)
(* another thread may have stored an answer that had been overtaken.       *)
NothingFromBefore ==
  \A k \in Cached :
    /\ cache[k].storedAt.terms >= written[k[2]]
    /\ \A f \in Features :
         k[1] # "feature" \/ k = <<"feature", k[2], f>> =>
           cache[k].storedAt.usage >= spent[k[2]][f]

(* The application makes one call at a time, and no handler reads.         *)
OneAtATime == ~ threaded /\ \A c, d \in Callers : c = d

(* With one task at a time - no other thread, no handler that reads - an   *)
(* application reads what it wrote: no cached entry is older than a write  *)
(* or a consumption that returned.                                         *)
ReadYourWrites ==
  OneAtATime => \A k \in Cached :
    /\ cache[k].terms >= written[k[2]]
    /\ \A f \in Features :
         k[1] # "feature" \/ k = <<"feature", k[2], f>> =>
           cache[k].usage >= spent[k[2]][f]
=============================================================================
