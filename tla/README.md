# Verification of space-python-client

space-python-client is the Python client of Space, a service that keeps
contracts, pricings and usage levels.  This directory models the parts of it
that keep state or run concurrently, checks them with TLC and proves the most
important results with TLAPS.  Paths below are relative to
`src/src/space_client/`; "README" means the repository's `src/README.md`.

The claims are about the client.  Space, the network, python-socketio and the
clocks appear as what the client may meet, and are marked external in
`PROJECT.json`.

## 1. Inventory

| Component | State | Operations | What makes it correct |
|---|---|---|---|
| Event id window, `event_id_window.py` | ordered ids with the time first seen | `accept`, `clear` | an event is delivered once within the window; no id that still counts is forgotten, none is kept too long |
| Request runner, `modules/_runner.py`, `_base_client.py` 317-366 | cached capabilities (60 s), per call: attempt, key, last failure | `_run_one`, `_supports`, `_probe_capabilities`, `_next_delay` | a write is applied at most once, a refusal leaves nothing behind, nothing is sent to a Space that lacks what it needs, every call ends |
| Contract and evaluation cache, `_operations.py`, `modules/cache_module.py` 188-222, `_base_client.py` 160-191 | entries by user and feature | `cache_hit`, `parse` and `on_refusal` of each operation, `invalidate_user`, `invalidate_all_users`, the `/contracts` handlers | nothing from before a call's own write or an announced change stays cached |
| Guarded novations and previews, `_operations.py` 226-490 | the client's capabilities, the contract's version and period at Space | probe, early version check, PUT with `If-Match`, search of the answer for ignored options | a contract that is returned has the guarantees that were asked for; an error says correctly whether something was written |
| Pricing token verifier, `pricing_token_verifier.py` (threaded and asynchronous) | JWKS with expiry, time of the last fetch, a lock | `verify` (header, key, signature and claims), `clear_cache` | a removed key stops verifying, a new one is noticed, fetches are limited, nobody waits for ever |
| Socket and its handlers, `space_client.py`, `async_space_client.py`, `_base_client.py` 53-315 | namespaces, `_connected_before`, listeners, the shared event id window | `on`, `remove_listener`, `connect`, `disconnect`, `close`, connect and message handlers | no event twice, losses announced, contract listeners joined to `/contracts`, a client closed while nothing connects stays closed |
| Cache providers and facade, `cache/*`, `modules/cache_module.py` | entries with a time to live, enabled, provider | `get`, `set`, `delete`, `has`, `keys`, `clear`, `close` | a read returns what was last stored, or nothing, and then nothing until the next store |
| Redis provider, `cache/redis_cache_provider.py` | a Redis that several clients share | `initialize`, `get`, `set`, `delete`, `clear`, `close`; `clear` and an invalidation take many commands | every entry expires; what a loop that returned was to forget is gone |
| Module facades, `modules/*_module.py` | none | one operation for the runner each | the operation's |
| Pricing and service reads, models, options, errors, factory | none | parsing and validation | data without behaviour; not modelled |

How they interact: a facade method (`modules/*_module.py`) makes an `Operation`
and hands it to the runner, which looks in the cache, sends the request through
httpx, retries, remembers the capabilities of every answer and applies the
operation's `parse` to the cache.  The capability cache is shared by all calls
of one client.  Contract events arrive on the socket's own thread (or task);
their handlers pass the event id window, invalidate the cache and then call the
application's listeners, which may call the client again.  The synchronous
client is used from several threads; the asynchronous one runs everything on one
event loop, so that what happens between two awaits is one step.

What is hard to test here: which thread reads or writes the caches and the
capabilities between two steps of another; answers that were overtaken by other
writes; timeouts that say nothing about whether a write was applied; restarts in
the middle of a write; connections that break, with events lost or repeated;
Space upgraded or rolled back behind a cached capability; and clocks.  Each such
point is listed with its line under `hazards` in `PROJECT.json`, with the
properties that watch it, or with the reason none does yet.

## 2. Modules

Abstract specifications, each stating a promise and no mechanism:

* `EventDelivery`: an event is delivered unless a copy of it is remembered.
* `AtMostOnceWrites`: a write is applied at most once; success means applied.
* `ExpiringStore`: a read returns what was last stored, or nothing; what is lost
  is not found again.

Detailed ones, each of which follows the code:

* `EventIdWindow`, `KeyedWrites`, `BuiltinCache` implement the three above, each
  by `INSTANCE` and a refinement mapping, checked as a PROPERTY.
* `ContractCache`, `GuardedNovation`, `PricingTokenKeys`, `EventSocket` and
  `RedisCache` have their properties in the module.

Each of these eight has its theorems in a module of the same name with `Proofs`
after it.  `MC*` modules give TLC its constants and symmetries.  Definitions that
begin with a comment `Bug:` or `A bug:` belong to no specification: each is a
plausible slip in the definition that follows, and `PROJECT.json` (`mutants`)
names the property that finds it.

### EventIdWindow
`seen` is `_seen`; `Accept` is all of `accept()` under its lock: the loop that
drops expired ids, the test, the record, the loop that keeps `max_entries`.
`Clear` is `clear()`.  The clock is monotonic and is read under the lock.  The
class's docstring promises that several threads may use it, which is what the
lock is for: each operation is one step.

### KeyedWrites
One process per call.  `pc` follows `_run_one`: `Begin` validates the key and
sets what must be confirmed (`need`); `Supports`, `Probe` and `Read` are the
separate accesses to the capability cache, because any other call's answer may
come between; `Send`, `Receive`, `TimeOut`, `Fail`, `Wake` are the attempt and
the except clause.  Only keyed operations are retried.  Space is modelled from
what the README says of idempotency keys: `Start`, `Apply`, `Refuse`, `Break`,
`Replay` and the record `store` of each key; `ProxyAnswers` is an answer by
someone else.  A 404 that `revert_consumption` accepts as "nothing to revert"
counts as a refusal, because nothing is applied.  `Crash` ends the process's
calls and not their requests; a call repeated after it is another call with the
same key of the caller.  `Cancel` is an asyncio task that is cancelled in one of
its awaits: `CancelledError` passes every `except` of the runner, and the request
goes on without its caller.  `Healthcheck` is any other request of the client
that learns capabilities while a call runs.  `clear_capabilities()` and the end
of their 60 s are both `Forget`.

### ContractCache
Every access to the provider is a step, which is the granularity at which the
synchronous client's threads interleave; in a setting of the asynchronous client
(`threaded` is false) a `parse` or a handler runs to its end. `Settings` names the
clients to check and what their applications call; `Init` chooses one. `List`,
`Delete`, `Replace` are `invalidate_user` pattern by pattern. An entry is as old
as the number of changes Space had made when it answered, which is all the
properties need of a contract. The order in which the keys found are deleted is
left open. Each of `Handlers` is a thread that may run a socket handler, so any
number of handlers overlap. `Connect` is Space joining the client to `/contracts`,
`Greet` the start of the connect handler, which reads `_connected_before`;
`Callback` sets it, and by then the connection may be gone and another handler at
work. Until one has set it no join invalidates anything: `baseline` remembers how
old the contracts were at the last such join. `Message` is the message handler,
`news` what each handler tells its listener.

### GuardedNovation
One call with every combination of options, while `ServeOther`/`Learn` are the
answers of other calls of the same client, `Elsewhere` other clients and
`Switch` upgrades and roll-backs.  `Begin`, `Confirm`, `ParseProbe`,
`ReceiveWrite` follow `_guarded_novation`, `_novation_probe` and `_novation_put`;
`ParsePreview` reads the client's capabilities, as the code does, and not those
of the answer it parses.  `threaded` is chosen in `Init`: in the synchronous
client other threads act between any two steps, on an event loop only while the
call awaits an answer.  Space's answer to a write has a contract, a billing period
and a history: where one is missing `_ignored_option` looks no further and lets the
answer pass (`_operations.py` 415-422), which is not modelled.  Calls do not retry (the default `retries = 0`); retries
are in `KeyedWrites`, the effects on the cache in `ContractCache`.

### PricingTokenKeys
`Peek`, `Compare`, `Take` are the three reads of `_key_set` in `_cached`, which
hold `_lock` although `clear_cache()` does not take it.  `Call`, `Serve`,
`Receive`, `GiveUp` are the fetch, and `GiveUp` is also a 404 of a Space that
publishes no keys, an answer without keys and a task that is cancelled in the
lock.  `threaded` is chosen in `Init`: on an event loop `clear_cache()` comes only
where a verification awaits.  Of signatures and claims the module knows whether
they are in order (`Decode`).  `Tick` lets no fetch last longer than `Timeout`.
httpx applies its timeout to each phase of a request, so `Timeout` stands for what
the phases take together.

### EventSocket
Both clients: `threaded`, chosen in `Init`, says which.  The calls of the
application (`On`, `RemoveListener`, `Connect`, `Disconnect`, `Close`) come one
at a time from a thread, or from any task while another task's `connect()` or
`disconnect()` waits; two tasks do not call `connect()` at once, nor `disconnect()`
or `close()`, and nobody uses the client after `close()`.  Both are split at every
point where python-socketio may act in between: `connect()` into `Check`, `Leave`,
`Reset`, `Ask`, `Open` or `Refused` or `Fail`, and `Store`; `disconnect()` into
`Leaving` (the check of `connected`), `End` (the disconnection) and `Clear` (of
`_socket_namespaces`).  A socket that is not connected any more when it is
disconnected stays as it is, its reconnection under way (`Part`).  A reconnection
(`retrying`) is ended by nothing but its success: `connect()` and `disconnect()`
leave it alone, a socket that is connected refuses it, and it connects when the
socket is not.  The asynchronous `on()` cannot await and warns instead (`advice`).

`Greet` and `Resync` are the two halves of the connect handler of `/contracts`,
`Receive`, `Invalidate` and `CallBack` those of a message handler, up to where each
may raise or be overtaken by another thread; `Turn` keeps an event loop from doing
so.  `greeting` and `resyncing` count the connect handlers before and between their
halves: on threads those of two connections may overlap, and one that had a thread
runs although its connection is gone.  A handler whose invalidation raises ends
there (`failed`, `silenced`), and its event is not accepted again.  `GreetPricings`
is the connect handler of `/pricings`.  `Drop`, `Reconnect`, `Join` and `Emit` are
python-socketio and Space.  The cache is the set `stale` of events whose user's
entries from before are still there.  A `socket.disconnect()` that raises is left
out.

### RedisCache
Several clients share a Redis and a key prefix.  Each command is a step.
`Invalidate` and `Clear` begin a loop; `ListKind` is the KEYS of one pattern,
`ListPage` a page of SCAN, with what Redis promises of it: what is there all along
is listed.  `Remove` is one DEL, `Raise` a command that fails and ends the loop
where it is.  A command that failed may have been executed all the same: for a
single command that is the step or no step.  `Initialize` is
`CacheProviderFactory.validate` and the ping.  `Close` may come while another
thread of the client is in a loop: an invalidation asks `is_enabled()` before every
command, so that from then on it lists and deletes nothing and returns ("cut
short"); `clear()` asks once and is then a loop of the provider, whose connection
redis-py opens again.

### BuiltinCache
`Enter` is `is_enabled()`, `Hold` the read of `_provider` after it, and each
operation one step under the provider's lock.  `CloseProvider`, `DropProvider`,
`Disable` are the statements of `CacheModule.close()`; a thread that already
holds the provider still uses it.  `Tick` and `SetBack` move the wall clock,
which `CacheEntry.is_expired` uses.  One thread closes.

## 3. Runs

| Run | Shows |
|---|---|
| `event_id_window` | the window is right about every id, with expiry and the limit acting in one call, and implements `EventDelivery` |
| `keyed_writes_shared` | two writes that may be one and the same, or a `revert_consumption` beside a consumption, sharing the capability cache with the client's other requests, through timeouts, retries, a proxy, expiry and a restart or a cancelled task: applied at most once, a refusal leaves nothing, nothing is sent or repeated to a Space that lacks what it needs, "nothing written" is true, and `AtMostOnceWrites` is implemented |
| `keyed_writes_live` | every call returns, also when Space changes |
| `contract_cache` | with threads, and with handlers that overlap: what they leave in the cache was stored after every change announced or missed and every write that returned; a listener told of a loss reads a contract stored after it; a task that runs alone reads what it wrote, for two users, alone or as a group, and two features |
| `token_keys` | in both verifiers: how long a removed key is accepted and a new one refused, when fetches start, and that every verification ends |
| `guarded_novation` | what a returned contract, a preview and each error mean, with other clients, other calls and changes of Space, in both clients |
| `event_socket_losses` | in both clients: the cache is fresh when quiet, events are heard once, losses are announced first, a contract listener joins `/contracts` while no connection breaks, a client closed while nothing connects stays closed |
| `redis_cache` | whatever the options, every entry expires; an invalidation or a `clear()` that returned forgot what it was to forget, with another client, expiry, restarts of Redis, commands that raise and `close()` in between; only an invalidation whose client is closed meanwhile is excepted |
| `builtin_cache` | implements `ExpiringStore`, also while it is closed and when the clock is set back; what was found missing stays missing |

Three runs expect a violation.  Each compares a sentence of the documentation
with what the code does; `findings` in `PROJECT.json` quotes the sentence.

| Run | The code departs from the text because |
|---|---|
| `keyed_writes_upgrade` | a first attempt at a Space without keys and a retry at an upgraded one are both applied |
| `token_keys_crash` | `clear_cache()` between two reads of the set raises AttributeError |
| `event_socket_stranded` | the open connection is given up before the new one is made |

`AtMostOnce` holds in `keyed_writes_shared` and fails in `keyed_writes_upgrade`:
it needs a Space that stays the same between two attempts.  These properties
of passing runs carry a condition which the code needs, and which its
documentation does not state:

* `RepeatsOnlyWhenHonoured` holds up to a roll-back of Space, which capabilities
  cached for 60 s (`_base_client.py` 339) do not show.
* `NoFalseAlarmIfConditional` is about novations with `expected_version`.
  Without it a billing period that another client restarted between the probe
  and the write is blamed on an ignored option (`_operations.py` 417).
* `PreviewAsAsked` is about the event loop.  In the threaded client a preview is
  judged by the capabilities of whichever answer came last (`_operations.py` 464).
* `ReadYourWrites` is about one call at a time (`OneAtATime`).  With two, an answer
  that another call's write has overtaken is stored after it; what is true then is
  `NothingFromBefore`, which counts from when an entry was stored.
* `FreshAtRest` and `NothingFromBefore` count from when an entry was stored.  An
  answer to a read that an invalidation has overtaken is stored after it
  (`_operations.py` 197), and so may the replayed answer of a retried write be
  (`_operations.py` 566); neither property sees that.
* `FreshAtRest` excepts what was cached before the last join to `/contracts` that
  was made with no connection noted, and did not change since.  That is the first
  join, or on threads a later one: while the first connect handler is between its
  read of `_connected_before` (`_base_client.py` 168) and `_emit_resync` (229), the
  connection may break and come again, and the second handler invalidates nothing
  either.
* `RereadIsRecent` excepts a resync whose handler invalidated nothing: the first
  one, and such a second one, although its listener may be told `reconnect=True`.
* `ListenerJoins` is about connections that do not break.  A reconnection between
  two steps of `on()` leaves a contract listener without `/contracts`
  (`space_client.py` 80); so does an `on()` during another task's `connect()`,
  which neither joins nor warns (`async_space_client.py` 97; `advice` is
  "overtaken").
* `FreshWhenQuiet` begins when a connect handler of `/contracts` has first ended:
  what a connection lost before that would have told is invalidated by nothing
  (`_base_client.py` 168).  It excepts the entries of an invalidation that raised: the event's
  id is remembered before (`_base_client.py` 213), so that a repeat does not make
  up for it, and only the next reconnection does.
* `LossAnnounced` is about the event loop, since the handlers of the other client
  run on threads of their own and may overtake each other, and about a resync
  whose invalidation does not raise.
* `ClosedStaysClosed` is about a client that is not reconnecting, or being
  connected by another task, when `close()` is called, and whose connection does
  not break between the check of `connected` and the disconnection: `close()` does
  not end a reconnection (`space_client.py` 113).  Nor does `connect()` (80): one
  that was under way before an application connected again is under way still, and
  connects after a `close()`.
* `ForgottenIsGone` excepts an invalidation whose client another thread closes
  while it runs: it returns as if it were done and leaves what it had not deleted
  in the shared Redis (`modules/cache_module.py` 97, 136).

More differences between the text and the code were met while modelling and
have no run: a contract listener that reads again may be served an answer
which another thread stored between the invalidation and the callback; the first
resync invalidates nothing (`_base_client.py` 168); a fetch of keys under way
when `clear_cache()` is called stores its answer afterwards
(`pricing_token_verifier.py` 130); the key of a cached evaluation names neither
`details` nor `server` (`_operations.py` 668), so that an evaluation may be
answered by one that was asked for otherwise.

Bounds. Two calls, threads or verifiers are enough for every race of the code,
which is between one step and another; more add no new pair. Ids and keys are two
or three, enough to be mixed up; in `contract_cache` two threads share one user's
entries, which is where they interfere (once with a connection that drops and a
contract that changes twice, once with consumptions), in a third setting one thread
and two handlers do, with two joins that overlap, and one task mixes two users and
two features. `keyed_writes_shared` has one call at least with the caller's
key, since without one no two calls are the same write, and leaves
`atomic-usage-limits` out where no call requires it. Clocks run past every
deadline by at least one full period. `Retries`, 1 or 2, reaches the last attempt
and the one after which none follows. `MaxCrashes`, `MaxUpgrades`, `MaxSwitches`,
`MaxDrops` and `MaxClears` are the numbers of faults, one or two (in
`MaxCrashes` restarts and cancelled tasks together); `MaxTerms`, `MaxUsage`, `MaxVersion`,
`MaxEvents`, `MaxCalls`, `MaxDelivered`, `MaxTime` and `MaxBack` bound counters
and appear in guards only. `CHECK_DEADLOCK FALSE` stands where all calls may be
over.

Fairness.  `KeyedWrites` and `PricingTokenKeys` assume weak fairness of each
call's own steps: a thread or task that can go on does.  This includes giving up,
because httpx bounds the wait for every answer.  Nothing is assumed of Space or
of the network.  The other modules state no liveness.

## 4. Proofs

Every invariant, action property and refinement that a passing run checks is
also a theorem: it holds for every value of the constants, and those of
`KeyedWrites` under the assumption named below.  `TypeOK` is `TypeCorrect`
(`Typed`, `EntriesExpire`, `OneFetchAtATime` in three modules).  The
assumptions on constants are named in the modules: bounds are natural numbers,
`None` is distinct from what it is to be told from, and the settings of
`ContractCache` have the keys and operations of their users, and handlers that are
not callers.

* `EventIdWindowProofs`: `TypeCorrect`, `RecentHeld`, `DeliveredOnce`,
  `ImplementsDelivery`.  The inductive invariant is that what is held is a suffix
  of the deliveries and that what is missing had left the window or been pushed
  out; that nothing is delivered twice alone says nothing of the next answer.
* `KeyedWritesProofs`: `TypeCorrect` (the bound on attempts needs `RetryLeft`: a
  call that will retry has a retry left) and `NothingWrittenBefore` without further
  assumption.  `AppliedAtMostOnce`, `RefusalsMeanNothing`, `RepeatsAreHonoured` and
  `ImplementsAtMostOnceWrites`, the refinement, assume
  `[][Stays({IdempotencyKey})]_vars`: the connected Space may be exchanged, and
  other capabilities come and go, but idempotency keys are either supported
  throughout or not at all.  `SentWhenConfirmed` assumes it of all capabilities.
  With `MaxUpgrades = 0`, as in the run, both hold (`NeverExchanged`);
  `keyed_writes_upgrade` shows that the first is needed.  The inductive invariant
  `IInv` says what of such capabilities the cache, the answers (`NeverMisled`), the
  calls (`Pledged`) and what was sent (`SentConfirmed`) rely on, that attempts are
  sent in order (`InTurn`), and how often each write is or can still be applied
  (`Ledger`): `AtMostOnce` alone does not say that a request still under way will
  not be applied as well.  `PInv` adds to it `Begun` (a call that is not over has
  no outcome, one without a failure is at its first attempt) and `Tells` (an "ok"
  means the write was applied; a refusal means that the write is `Settled`: Space
  remembers the refusal of its key, or its one unkeyed attempt ended without being
  applied).  The refusal alone says nothing of attempts still under way; `Settled`
  does.
* `PricingTokenKeysProofs`: `OneFetchAtATime`, `RemovedKeysStop`,
  `RotationsAreNoticed`, `RefetchesCoolDown`.  The invariant says of the cached
  key set, and of the copy that a verification decides from, that no key in it
  outlives its removal by more than a max-age and a fetch (`Sound`), and that a key
  it lacks was published since the last fetch or is already removed (`Complete`).
* `RedisCacheProofs`: `EntriesExpire` and `Forgotten`, whatever other clients do
  between two commands.  The invariant adds to the types that a client with a
  cache has a valid time to live (`ValidClient`) and `Accounted`: an entry that a
  loop has yet to forget is still to be listed or already doomed, unless it was
  set since.  It says so of loops that are `Whole`: a `clear()`, or an invalidation
  whose client has not been closed.
* `BuiltinCacheProofs`: `Typed`, `MissingStaysMissing` and `ImplementsStore`,
  whatever the clock does.  `ExpiringStore` may lose any entry at any time but
  never finds one again, so the proof shows that what `Live` hides is purged in
  the same step that hides it from a caller (`PurgedType` types what is left):
  every step is a step of `ExpiringStore` or a stutter.
* `ContractCacheProofs`: `RestIsFresh`, `CallbackReadsTheNews`,
  `NothingOutlivesAWrite` and `OwnWritesAreRead`, for any users, features, keys and
  threads.  None of the four survives a step on its own, because an invalidation
  deletes key by key while other threads store.  What makes them inductive is
  `Targeted(p, k)`: the loop that `p` is in has still to come to `k`, by the
  deletions it has listed, by a pattern it has not listed yet or by a user it has
  not come to.  An entry that is too old for a property has such a loop ahead of
  it, or an event on its way (`Covered`, `Newsworthy`, `Recent`).  `Past` (nobody
  knows of a change that Space has not made) says why what is stored meanwhile is
  young enough.
* `GuardedNovationProofs`: `ReturnedMeansGuaranteed`, `ErrorsTellWhatWasWritten`,
  `ChangedErrorIsTrue`, `PrivateNeedsSwitch`, `ConditionalHasNoFalseAlarm` and
  `PreviewAnswersItsOptions`, whatever other clients write and however often Space
  is exchanged.  The invariant says what a call may rely on at each of its steps:
  capabilities as old as the last exchange are those of the release (`Current`),
  the version it expects is one the contract has had (`Called`), the period it read
  is the contract's for as long as that version is (`Read`, `Unanswered`), and an
  answer tells what Space did with the write (`Refused`, `Done`).
* `EventSocketProofs`: `EachHeardOnce`, `StaysClosed`, `QuietMeansFresh`,
  `LossesAnnounced` and `ListenersJoin`, for any number of events, losses and calls
  of the application.  Each has an invariant of its own: an event in hand has not
  been heard (`Once`); an entry of before an event has a message, a handler or the
  next connect handler that removes it (`Covered`); a client closed quietly has
  nothing that could connect it, and a connection only until `End` (`Closing`); a loss that is owed is with a
  connect handler that has not ended, and nothing of `/contracts` is in hand
  (`Owing`, which needs `TakingTurns` of the event loop); a listener has `/contracts`
  connected, asked for or warned of (`Joining`, `Heeded`).

What the proofs changed in the models: `ReceiveWrite` had two cases for an answer
that was a refusal and lacked a capability too; the code looks at the status
first, and now so does it.  `Ask` took no account of the event loop: a task that
awaited the disconnection goes on only where no handler is in the middle of a
step.  `ReadYourWrites` asked only for an event loop, which was enough in the run
because its client has one caller; it asks for one call at a time.
`FreshWhenQuiet` excepted the time between a connect handler's invalidation and its
callbacks; it holds there too.

Only model-checked: `EveryCallReturns` and `EveryVerificationEnds`, since liveness
is out of the prover's reach, and the runs that expect a violation.

## 5. Not modelled

* The reads of pricings and services: one request each (the runner's, in
  `KeyedWrites`), no state and no cache.
* `generate_user_pricing_token` beyond its cache entry, and the decoded claims.
* The parsing of payloads, events, options and YAML, and the classes of errors
  with their wording: data without behaviour.  The errors that decide what happens
  next are outcomes of the calls that raise them.
* The patterns of `fnmatch` and of Redis' `MATCH`, so also user ids with glob
  characters in them: patterns are sets of keys here.
* The arithmetic of retry delays: a failure either waits or is longer than
  `retry_max_delay_ms`.
* The verifier that the feature facade makes on first use: two threads may make
  one each, after which each keeps its own keys.

`components` in `PROJECT.json` gives the reason for each.

## 6. Plan

Done, in this order: the window, the writes, the contract cache, the verifier,
the novations, the socket, the built-in provider; then the Redis provider, the
asynchronous socket, handlers that raise, cancelled tasks; and the proofs, of the
contract cache, the novations and the socket last.

To model: the retry delay as a function, against the documented bounds; replays
of stored answers into the cache; a composition of `EventSocket` with the entries
of `ContractCache`.

To prove: the promises above as abstract specifications of `ContractCache`,
`GuardedNovation` and `EventSocket`, so that their refinement can be proved as that
of the other three is.
