----------------------------- MODULE KeyedWrites -----------------------------
(***************************************************************************)
(* How the runners (modules/_runner.py) send one call: the check of the    *)
(* key, the capabilities that must be confirmed first, the request, and    *)
(* its retries with the same Idempotency-Key, against a Space that may be  *)
(* slow, unreachable, behind a proxy or without the capability.            *)
(*                                                                         *)
(* Calls run concurrently, in threads (SyncRunner) or as tasks             *)
(* (AsyncRunner), and share the cached capabilities of their client; each  *)
(* step here touches that cache once.  A call whose process stopped is     *)
(* made again as another call with the same key of the caller.             *)
(***************************************************************************)
EXTENDS Naturals

CONSTANTS
  Calls,        (* Calls made to the client.                               *)
  CallerKeys,   (* Idempotency keys that callers make and store.           *)
  NoKey,        (* No idempotency_key: the call is a read or a delete.     *)
  Malformed,    (* A key that is not a string of 1 to 255 characters.      *)
  Retries,      (* options.retries.                                        *)
  MaxCrashes,   (* Bound on restarts and cancelled calls.                  *)
  MaxUpgrades   (* Bound on the changes of the connected Space.            *)

IdempotencyKey == "idempotency-key"
AtomicUsageLimits == "atomic-usage-limits"
Capabilities == {IdempotencyKey, AtomicUsageLimits}

(* No capabilities in the cache, or no X-Space-Capabilities in an answer.  *)
Unknown == {"unknown"}

(* Only revert_consumption requires a capability of its own.               *)
Requirements == {{}, {AtomicUsageLimits}}

(* A read or a delete: it carries no key and is never sent again.          *)
Unkeyed == [key : {NoKey}, explicit : {FALSE}, requires : {{}}]

(* _key: the caller's key, or a fresh UUID, which the call itself stands   *)
(* for.                                                                    *)
Operations(c) ==
  Unkeyed
    \cup [key : {c}, explicit : {FALSE}, requires : Requirements]
    \cup [key : CallerKeys \cup {Malformed}, explicit : {TRUE}, requires : Requirements]

Writes == Calls \cup CallerKeys \cup {Malformed}
Requests == Calls \X (0..Retries)

(* An answer: its status (a 2xx, a 4xx of Space, a 5xx, the 409 of a key   *)
(* still running, or a 3xx or 4xx of a proxy), its capability header and   *)
(* whether its Retry-After is longer than retry_max_delay_ms.              *)
Reply == [status : {"ok", "refused", "failed", "running", "redirected", "turnedaway"},
          header : (SUBSET Capabilities) \cup {Unknown},
          long : BOOLEAN]

NoReply == [status |-> "none", header |-> {}, long |-> FALSE]

ASSUME KeyedWritesAssumption ==
  /\ Retries \in Nat
  /\ MaxCrashes \in Nat
  /\ MaxUpgrades \in Nat
  /\ Calls \cap CallerKeys = {}
  /\ Malformed \notin Calls \cup CallerKeys
  /\ NoKey \notin Writes

VARIABLES
  operation,    (* The Operation each call runs.                           *)
  pc,           (* Where the call is in _run_one.                          *)
  need,         (* Capabilities _run_one has still to confirm.             *)
  failure,      (* The error of the last attempt, "none" before one.       *)
  attempt,      (* Number of the current attempt.                          *)
  outcome,      (* What the call returned or raised, "none" before.        *)
  reply,        (* The answer to the current attempt, NoReply before.      *)
  caps,         (* _capabilities, Unknown when absent or expired.          *)
  space,        (* Capabilities of the connected Space.                    *)
  request,      (* How far each attempt got.                               *)
  store,        (* What Space remembers of each key.                       *)
  applied,      (* How often Space applied each write.                     *)
  crashes,
  upgrades

client == <<pc, need, failure, attempt, outcome>>
server == <<space, store, applied, upgrades>>
vars == <<operation, client, reply, caps, request, server, crashes>>

Keyed(c) == operation[c].key # NoKey

(* The write a call asks for: calls with one key ask for one write.        *)
Write(c) == IF Keyed(c) THEN operation[c].key ELSE c

Honours(c) == Keyed(c) /\ IdempotencyKey \in space

Goto(c, place) == pc' = [pc EXCEPT ![c] = place]

(* The call is over, and its local variables with it.                      *)
Finish(c, result) ==
  /\ Goto(c, "done")
  /\ outcome' = [outcome EXCEPT ![c] = result]
  /\ need' = [need EXCEPT ![c] = {}]
  /\ failure' = [failure EXCEPT ![c] = "none"]

-----------------------------------------------------------------------------
(* Before sending.                                                         *)

(* Bug: the key of the caller is sent without asking whether it counts.    *)
PreconditionsWithoutKey(c) == operation[c].requires

Preconditions(c) ==
  operation[c].requires \cup (IF operation[c].explicit THEN {IdempotencyKey} ELSE {})

(* Operation-specific requirements are confirmed before the key's.         *)
Asked(c) == IF AtomicUsageLimits \in need[c] THEN AtomicUsageLimits ELSE IdempotencyKey

(* _check_key.                                                             *)
Begin(c) ==
  /\ pc[c] = "idle"
  /\ IF operation[c].explicit /\ operation[c].key = Malformed
     THEN Finish(c, "badkey")
     ELSE /\ Goto(c, "checking")
          /\ need' = [need EXCEPT ![c] = Preconditions(c)]
          /\ UNCHANGED <<outcome, failure>>
  /\ UNCHANGED <<operation, attempt, reply, caps, request, server, crashes>>

(* Everything needed is confirmed: send, or sleep before the retry.        *)
Confirmed(c) ==
  /\ pc[c] = "checking"
  /\ need[c] = {}
  /\ Goto(c, IF failure[c] = "none" THEN "sending" ELSE "sleeping")
  /\ UNCHANGED <<operation, need, failure, attempt, outcome, reply, caps, request,
                 server, crashes>>

(* _supports: ask only if no capabilities are known.                       *)
Supports(c) ==
  /\ pc[c] = "checking"
  /\ need[c] # {}
  /\ Goto(c, IF caps = Unknown THEN "probing" ELSE "reading")
  /\ UNCHANGED <<operation, need, failure, attempt, outcome, reply, caps, request,
                 server, crashes>>

(* _probe_capabilities: any answer of Space tells, a refusal of a proxy    *)
(* tells nothing, its redirect is taken for a Space with no capability and *)
(* a SpaceConnectionError is swallowed.                                    *)
Probe(c) ==
  /\ pc[c] = "probing"
  /\ Goto(c, "reading")
  /\ caps' \in {space, {}, caps}
  /\ UNCHANGED <<operation, need, failure, attempt, outcome, reply, request,
                 server, crashes>>

(* Bug: when nothing is known the capability is taken for granted.         *)
ReadOptimistic(c) ==
  /\ pc[c] = "reading"
  /\ IF caps = Unknown \/ Asked(c) \in caps
     THEN /\ need' = [need EXCEPT ![c] = @ \ {Asked(c)}]
          /\ Goto(c, "checking")
          /\ UNCHANGED <<outcome, failure>>
     ELSE Finish(c, IF failure[c] = "none" THEN "unsupported" ELSE failure[c])
  /\ UNCHANGED <<operation, attempt, reply, caps, request, server, crashes>>

(* Bug: a retry that cannot be confirmed hides the failure it was for.     *)
ReadForgetful(c) ==
  /\ pc[c] = "reading"
  /\ IF caps # Unknown /\ Asked(c) \in caps
     THEN /\ need' = [need EXCEPT ![c] = @ \ {Asked(c)}]
          /\ Goto(c, "checking")
          /\ UNCHANGED <<outcome, failure>>
     ELSE Finish(c, "unsupported")
  /\ UNCHANGED <<operation, attempt, reply, caps, request, server, crashes>>

(* _capability_in_cache, on what the cache holds by now.                   *)
Read(c) ==
  /\ pc[c] = "reading"
  /\ IF caps # Unknown /\ Asked(c) \in caps
     THEN /\ need' = [need EXCEPT ![c] = @ \ {Asked(c)}]
          /\ Goto(c, "checking")
          /\ UNCHANGED <<outcome, failure>>
     ELSE Finish(c, IF failure[c] = "none" THEN "unsupported" ELSE failure[c])
  /\ UNCHANGED <<operation, attempt, reply, caps, request, server, crashes>>

-----------------------------------------------------------------------------
(* The request and what comes of it.                                       *)

(* _send_one, with the same key on every attempt.                          *)
Send(c) ==
  /\ pc[c] = "sending"
  /\ Goto(c, "waiting")
  /\ request' = [request EXCEPT ![<<c, attempt[c]>>] = "sent"]
  /\ UNCHANGED <<operation, need, failure, attempt, outcome, reply, caps, server, crashes>>

(* _observe_capabilities: a refusal without the header is ignored, any     *)
(* other answer without it comes from a Space with no capability.          *)
Observed(r) ==
  CASE r.header # Unknown -> r.header
    [] r.header = Unknown /\ r.status \in {"ok", "redirected"} -> {}
    [] OTHER -> caps

(* Bug: one retry too many.                                                *)
MayWaitOnceMore(c, long) == attempt[c] <= Retries /\ ~ long

(* _retry_delay: Space is never given less time than it asked for.         *)
MayWait(c, long) == attempt[c] < Retries /\ ~ long

(* _next_delay: the failures worth another attempt.                        *)
Retriable(c, status, long) ==
  /\ Keyed(c)
  /\ status \in {"failed", "running", "unreachable"}
  /\ MayWait(c, long)

(* Bug: the retry is sent whatever Space advertises.                       *)
FailUnguarded(c, status, long) ==
  IF Retriable(c, status, long)
  THEN /\ Goto(c, "checking")
       /\ failure' = [failure EXCEPT ![c] = status]
       /\ UNCHANGED <<need, outcome>>
  ELSE Finish(c, status)

(* Bug: a key still running is reported as a refusal.                      *)
FailConfused(c, status, long) ==
  IF Retriable(c, status, long)
  THEN /\ Goto(c, "checking")
       /\ failure' = [failure EXCEPT ![c] = status]
       /\ need' = [need EXCEPT ![c] = {IdempotencyKey}]
       /\ UNCHANGED outcome
  ELSE Finish(c, IF status = "running" THEN "refused" ELSE status)

(* The except clause of _run_one: whether Space supports the key is asked  *)
(* only once there is a delay; otherwise the error is the call's outcome.  *)
Fail(c, status, long) ==
  IF Retriable(c, status, long)
  THEN /\ Goto(c, "checking")
       /\ failure' = [failure EXCEPT ![c] = status]
       /\ need' = [need EXCEPT ![c] = {IdempotencyKey}]
       /\ UNCHANGED outcome
  ELSE Finish(c, status)

(* Bug: a 5xx with a body is taken for the answer.                         *)
ReceiveUnchecked(c) ==
  /\ pc[c] = "waiting"
  /\ reply[c] # NoReply
  /\ caps' = Observed(reply[c])
  /\ IF reply[c].status \in {"ok", "failed"}
     THEN Finish(c, "ok")
     ELSE Fail(c, reply[c].status, reply[c].long)
  /\ reply' = [reply EXCEPT ![c] = NoReply]
  /\ UNCHANGED <<operation, attempt, request, server, crashes>>

Receive(c) ==
  /\ pc[c] = "waiting"
  /\ reply[c] # NoReply
  /\ caps' = Observed(reply[c])
  /\ IF reply[c].status = "ok"
     THEN Finish(c, "ok")
     ELSE Fail(c, reply[c].status, reply[c].long)
  /\ reply' = [reply EXCEPT ![c] = NoReply]
  /\ UNCHANGED <<operation, attempt, request, server, crashes>>

(* httpx gives up: the request may be lost, waiting, or applied already.   *)
TimeOut(c) ==
  /\ pc[c] = "waiting"
  /\ Fail(c, "unreachable", FALSE)
  /\ reply' = [reply EXCEPT ![c] = NoReply]
  /\ UNCHANGED <<operation, attempt, caps, request, server, crashes>>

(* Bug: the attempt is not counted.                                        *)
WakeUncounted(c) ==
  /\ pc[c] = "sleeping"
  /\ Goto(c, "sending")
  /\ UNCHANGED <<operation, need, failure, attempt, outcome, reply, caps, request,
                 server, crashes>>

(* _sleep is over.                                                         *)
Wake(c) ==
  /\ pc[c] = "sleeping"
  /\ Goto(c, "sending")
  /\ attempt' = [attempt EXCEPT ![c] = @ + 1]
  /\ UNCHANGED <<operation, need, failure, outcome, reply, caps, request, server, crashes>>

(* An asyncio task is cancelled where it awaits: its request, if any, goes *)
(* on without it.                                                          *)
Cancel(c) ==
  /\ pc[c] \in {"probing", "waiting", "sleeping"}
  /\ crashes < MaxCrashes
  /\ crashes' = crashes + 1
  /\ Finish(c, "cancelled")
  /\ reply' = [reply EXCEPT ![c] = NoReply]
  /\ UNCHANGED <<operation, attempt, caps, request, server>>

(* is_connected_to_space() or has_capability() elsewhere in the program    *)
(* hears from Space, or from a proxy that redirects.                       *)
Healthcheck ==
  /\ caps' \in {space, {}}
  /\ UNCHANGED <<operation, client, reply, request, server, crashes>>

(* CAPABILITIES_TTL_SECONDS passed, or clear_capabilities().               *)
Forget ==
  /\ caps # Unknown
  /\ caps' = Unknown
  /\ UNCHANGED <<operation, client, reply, request, server, crashes>>

(* The process restarts: its calls are gone, its requests are not.         *)
Crash ==
  /\ crashes < MaxCrashes
  /\ crashes' = crashes + 1
  /\ LET lost == {c \in Calls : pc[c] \notin {"idle", "done"}}
     IN /\ pc' = [c \in Calls |-> IF c \in lost THEN "done" ELSE pc[c]]
        /\ outcome' = [c \in Calls |-> IF c \in lost THEN "crashed" ELSE outcome[c]]
  /\ need' = [c \in Calls |-> {}]
  /\ failure' = [c \in Calls |-> "none"]
  /\ reply' = [c \in Calls |-> NoReply]
  /\ caps' = Unknown
  /\ UNCHANGED <<operation, attempt, request, server>>

-----------------------------------------------------------------------------
(* Space and the network, as the README describes them.                    *)

(* Space advertises what it has; an older one has no header to send.       *)
Header == IF space = {} THEN Unknown ELSE space

(* An answer reaches the call only while it waits for that attempt.        *)
Answer(r, answer) ==
  reply' = IF /\ pc[r[1]] = "waiting"
              /\ attempt[r[1]] = r[2]
              /\ reply[r[1]] = NoReply
           THEN [reply EXCEPT ![r[1]] = answer]
           ELSE reply

SpaceAnswers(r, status, long) ==
  /\ request' = [request EXCEPT ![r] = "ended"]
  /\ Answer(r, [status |-> status, header |-> Header, long |-> long])

(* Space starts on a request whose key it honours and has not seen, or on  *)
(* one without a key it honours.                                           *)
Start(r) ==
  /\ request[r] = "sent"
  /\ request' = [request EXCEPT ![r] = "started"]
  /\ IF Honours(r[1])
     THEN /\ store[Write(r[1])] = "new"
          /\ store' = [store EXCEPT ![Write(r[1])] = "running"]
     ELSE UNCHANGED store
  /\ UNCHANGED <<operation, client, reply, caps, space, applied, upgrades, crashes>>

(* A request that repeats a key gets what became of the first one.         *)
Replay(r) ==
  /\ request[r] = "sent"
  /\ Honours(r[1])
  /\ \/ store[Write(r[1])] = "done" /\ SpaceAnswers(r, "ok", FALSE)
     \/ store[Write(r[1])] = "refused" /\ SpaceAnswers(r, "refused", FALSE)
     \/ /\ store[Write(r[1])] = "running"
        /\ \E long \in BOOLEAN : SpaceAnswers(r, "running", long)
  /\ UNCHANGED <<operation, client, caps, server, crashes>>

Remember(c, what) ==
  store' = IF Honours(c) THEN [store EXCEPT ![Write(c)] = what] ELSE store

Apply(r) ==
  /\ request[r] = "started"
  /\ applied' = [applied EXCEPT ![Write(r[1])] = @ + 1]
  /\ Remember(r[1], "done")
  /\ \/ SpaceAnswers(r, "ok", FALSE)
     \/ SpaceAnswers(r, "failed", FALSE)
  /\ UNCHANGED <<operation, client, caps, space, upgrades, crashes>>

Refuse(r) ==
  /\ request[r] = "started"
  /\ Remember(r[1], "refused")
  /\ SpaceAnswers(r, "refused", FALSE)
  /\ UNCHANGED <<operation, client, caps, space, applied, upgrades, crashes>>

(* Space fails before it has applied anything, and may ask for patience.   *)
Break(r) ==
  /\ request[r] = "started"
  /\ Remember(r[1], "new")
  /\ \E long \in BOOLEAN : SpaceAnswers(r, "failed", long)
  /\ UNCHANGED <<operation, client, caps, space, applied, upgrades, crashes>>

(* A proxy answers for Space: it turns the request away, or stops waiting  *)
(* for a request that Space still works on.                                *)
ProxyAnswers(r) ==
  /\ \/ /\ request[r] = "sent"
        /\ request' = [request EXCEPT ![r] = "ended"]
        /\ \E status \in {"turnedaway", "redirected"} :
             Answer(r, [status |-> status, header |-> Unknown, long |-> FALSE])
     \/ /\ request[r] \in {"sent", "started"}
        /\ Answer(r, [status |-> "failed", header |-> Unknown, long |-> FALSE])
        /\ UNCHANGED request
  /\ UNCHANGED <<operation, client, caps, server, crashes>>

(* Another Space answers from now on: an upgrade or a roll-back.           *)
Upgrade ==
  /\ upgrades < MaxUpgrades
  /\ upgrades' = upgrades + 1
  /\ space' \in (SUBSET Capabilities) \ {space}
  /\ UNCHANGED <<operation, client, reply, caps, request, store, applied, crashes>>

-----------------------------------------------------------------------------
Init ==
  /\ operation \in [Calls -> UNION {Operations(c) : c \in Calls}]
  /\ \A c \in Calls : operation[c] \in Operations(c)
  /\ pc = [c \in Calls |-> "idle"]
  /\ need = [c \in Calls |-> {}]
  /\ failure = [c \in Calls |-> "none"]
  /\ attempt = [c \in Calls |-> 0]
  /\ outcome = [c \in Calls |-> "none"]
  /\ reply = [c \in Calls |-> NoReply]
  /\ caps = Unknown
  /\ space \in SUBSET Capabilities
  /\ request = [r \in Requests |-> "unsent"]
  /\ store = [w \in Writes |-> "new"]
  /\ applied = [w \in Writes |-> 0]
  /\ crashes = 0
  /\ upgrades = 0

Step(c) ==
  \/ Confirmed(c) \/ Supports(c) \/ Probe(c) \/ Read(c)
  \/ Send(c) \/ Receive(c) \/ TimeOut(c) \/ Wake(c)

Serve(r) == Start(r) \/ Replay(r) \/ Apply(r) \/ Refuse(r) \/ Break(r) \/ ProxyAnswers(r)

Next ==
  \/ \E c \in Calls : Begin(c) \/ Step(c)
  \/ \E c \in Calls : Cancel(c)
  \/ \E r \in Requests : Serve(r)
  \/ Healthcheck
  \/ Forget
  \/ Crash
  \/ Upgrade

(* A thread or task that can go on goes on; httpx bounds every wait for an *)
(* answer, so giving up is such a step.  Nothing is asked of Space.        *)
Spec == Init /\ [][Next]_vars /\ \A c \in Calls : WF_vars(Step(c))

-----------------------------------------------------------------------------
Outcomes == {"none", "ok", "refused", "failed", "running", "redirected",
             "turnedaway", "unreachable", "unsupported", "badkey", "crashed",
             "cancelled"}

(* Every variable holds a value of its type.                               *)
TypeOK ==
  /\ operation \in [Calls -> UNION {Operations(c) : c \in Calls}]
  /\ \A c \in Calls : operation[c] \in Operations(c)
  /\ pc \in [Calls -> {"idle", "checking", "probing", "reading", "sending",
                       "waiting", "sleeping", "done"}]
  /\ need \in [Calls -> SUBSET Capabilities]
  /\ failure \in [Calls -> {"none", "failed", "running", "unreachable"}]
  /\ attempt \in [Calls -> 0..Retries]
  /\ outcome \in [Calls -> Outcomes]
  /\ reply \in [Calls -> Reply \cup {NoReply}]
  /\ caps \in (SUBSET Capabilities) \cup {Unknown}
  /\ space \in SUBSET Capabilities
  /\ request \in [Requests -> {"unsent", "sent", "started", "ended"}]
  /\ store \in [Writes -> {"new", "running", "done", "refused"}]
  /\ applied \in [Writes -> Nat]
  /\ crashes \in 0..MaxCrashes
  /\ upgrades \in 0..MaxUpgrades

(* No write is applied twice, however its request and its repetitions are  *)
(* lost, delayed or replayed, and though any Space may be connected ("so a *)
(* retried consumption is applied once", feature_module.py).               *)
AtMostOnce == \A w \in Writes : applied[w] <= 1

(* A call that Space itself refused, typed or not, left nothing behind and *)
(* nothing of it is applied later: an attempt that timed out before the    *)
(* refusal cannot still slip in ("Nothing was applied", errors.py).        *)
RefusedMeansNothing ==
  \A c \in Calls :
    outcome[c] = "refused" => applied[Write(c)] = 0

(* A request that needs a capability is sent only to a Space that has it,  *)
(* whatever concurrent calls, proxies and expiry did to the cache it was   *)
(* confirmed from (the preconditions of _run_one).                         *)
ConfirmedBeforeSending ==
  \A r \in Requests : request[r] # "unsent" => Preconditions(r[1]) \subseteq space

(* An error that says nothing was written is raised before anything is     *)
(* sent: not after an attempt whose retry could not be confirmed.          *)
NothingWritten ==
  \A c \in Calls, n \in 0..Retries :
    outcome[c] \in {"unsupported", "badkey"} => request[<<c, n>>] = "unsent"

(* A request is repeated only to a Space that will recognise its key       *)
(* ("Retries only happen while Space advertises idempotency-key",          *)
(* space_connection_options.py).                                           *)
RepeatsOnlyWhenHonoured ==
  [][\A c \in Calls :
       pc[c] = "sending" /\ pc'[c] = "waiting" /\ attempt[c] > 0 => Honours(c)]_vars

(* Every call that began returns or raises, whatever Space does: retries,  *)
(* probes and capabilities that expire in between never keep it going.     *)
EveryCallReturns == \A c \in Calls : pc[c] = "checking" ~> pc[c] = "done"

(* To its callers the client is AtMostOnceWrites.                          *)
Results == Outcomes \ {"none", "crashed"}
Promise == INSTANCE AtMostOnceWrites WITH wanted <- [c \in Calls |-> Write(c)]
KeepsThePromise == Promise!Spec
=============================================================================
