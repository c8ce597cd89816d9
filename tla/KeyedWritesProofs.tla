-------------------------- MODULE KeyedWritesProofs --------------------------
(***************************************************************************)
(* The runners apply no write twice and implement AtMostOnceWrites, for    *)
(* every number of calls, keys, retries, restarts and changes of the       *)
(* connected Space, as long as its support of idempotency keys neither     *)
(* comes nor goes.                                                         *)
(***************************************************************************)
EXTENDS KeyedWrites, TLAPS

Deciding(c) == pc[c] \in {"checking", "probing", "reading"}

(* A call that goes on to a retry has one left; one that has not begun has *)
(* no failure to retry.                                                    *)
RetryLeft ==
  \A c \in Calls :
    /\ (Deciding(c) /\ failure[c] # "none") \/ pc[c] = "sleeping" => attempt[c] < Retries
    /\ pc[c] = "idle" => failure[c] = "none"

(* Answers, like the cache, never credit Space with one of the             *)
(* capabilities S that it lacks.                                           *)
NeverMisled(S) ==
  /\ caps # Unknown => caps \cap S \subseteq space
  /\ \A c \in Calls : reply[c].header # Unknown => reply[c].header \cap S \subseteq space

(* What of S a call has had confirmed by the time it is where it is.       *)
PledgedTo(c, S) ==
  /\ Deciding(c) /\ failure[c] = "none" =>
       (Preconditions(c) \ need[c]) \cap S \subseteq space
  /\ Deciding(c) /\ failure[c] # "none" =>
       /\ Preconditions(c) \cap S \subseteq space
       /\ ({IdempotencyKey} \ need[c]) \cap S \subseteq space
       /\ Keyed(c)
  /\ pc[c] \in {"sending", "waiting", "sleeping"} => Preconditions(c) \cap S \subseteq space
  /\ pc[c] = "sleeping" \/ attempt[c] > 0 =>
       Keyed(c) /\ {IdempotencyKey} \cap S \subseteq space

Pledged(S) == \A c \in Calls : PledgedTo(c, S)

(* ConfirmedBeforeSending, as far as it is about S.                        *)
SentConfirmed(S) ==
  \A r \in Requests : request[r] # "unsent" => Preconditions(r[1]) \cap S \subseteq space

(* The call has not sent its current attempt.                              *)
Fresh(c) ==
  pc[c] \in {"idle", "sending"} \/ (Deciding(c) /\ failure[c] = "none")

(* Attempts are sent one after another.                                    *)
InTurn ==
  \A c \in Calls :
    \A n \in 0..Retries :
      n > attempt[c] \/ (n = attempt[c] /\ Fresh(c)) => request[<<c, n>>] = "unsent"

(* What Space remembers and has started agrees with what it applied; a     *)
(* call whose key Space does not honour has its first attempt only.        *)
Ledger ==
  /\ \A r \in Requests :
       request[r] = "started" /\ Honours(r[1]) => store[Write(r[1])] = "running"
  /\ \A r, q \in Requests :
       request[r] = "started" /\ request[q] = "started" /\ Honours(r[1]) /\ Honours(q[1])
         /\ Write(r[1]) = Write(q[1]) => r = q
  /\ \A c \in Calls :
       Honours(c) /\ store[Write(c)] # "done" => applied[Write(c)] = 0
  /\ \A c \in Calls :
       ~ Honours(c) /\ request[<<c, 0>>] # "ended" => applied[Write(c)] = 0

Typed == TypeOK /\ RetryLeft

(* What is believed, confirmed and sent of S.                              *)
Trusted(S) == Typed /\ NeverMisled(S) /\ Pledged(S) /\ SentConfirmed(S)

IInv == Trusted({IdempotencyKey}) /\ InTurn /\ Ledger /\ AtMostOnce

-----------------------------------------------------------------------------
(* Types.                                                                  *)

LEMMA OperationTypes ==
  ASSUME TypeOK, NEW c \in Calls
  PROVE  /\ operation[c].requires \subseteq {AtomicUsageLimits}
         /\ operation[c].explicit \in BOOLEAN
         /\ operation[c].explicit =>
              Keyed(c) /\ operation[c].key \in CallerKeys \cup {Malformed}
         /\ ~ operation[c].explicit /\ Keyed(c) => operation[c].key = c
         /\ Write(c) \in Writes
         /\ Preconditions(c) \subseteq Capabilities
<1>1. operation[c] \in Operations(c)
  BY DEF TypeOK
<1> QED
  BY <1>1, KeyedWritesAssumption
  DEF Operations, Unkeyed, Requirements, Keyed, Write, Writes, Preconditions, Capabilities

LEMMA InitTyped == Init => Typed
<1> SUFFICES ASSUME Init PROVE Typed
  OBVIOUS
<1>1. TypeOK
  BY KeyedWritesAssumption DEF Init, TypeOK, Outcomes, Capabilities, NoReply
<1>2. RetryLeft
  BY DEF Init, RetryLeft, Deciding
<1> QED BY <1>1, <1>2 DEF Typed

(* Steps of one call.                                                      *)
LEMMA CallTyped ==
  ASSUME Typed, NEW c \in Calls, Begin(c) \/ Step(c)
  PROVE  Typed'
<1> USE DEF Typed
<1>1. CASE Begin(c)
  <2>1. Preconditions(c) \subseteq Capabilities
    BY OperationTypes
  <2>2. TypeOK'
    <3>1. CASE operation[c].explicit /\ operation[c].key = Malformed
      <4>1. Finish(c, "badkey") /\ "badkey" \in Outcomes
        BY <1>1, <3>1 DEF Begin, Outcomes
      <4> QED BY <1>1, <4>1 DEF Begin, Finish, Goto, TypeOK, server
    <3>2. CASE ~ (operation[c].explicit /\ operation[c].key = Malformed)
      <4>1. /\ Goto(c, "checking")
            /\ need' = [need EXCEPT ![c] = Preconditions(c)]
            /\ UNCHANGED <<outcome, failure>>
        BY <1>1, <3>2 DEF Begin
      <4> QED BY <1>1, <2>1, <4>1 DEF Begin, Goto, TypeOK, server
    <3> QED BY <3>1, <3>2
  <2>3. failure[c] \in {"none", "failed", "running", "unreachable"}
    BY DEF TypeOK
  <2> QED BY <1>1, <2>2, <2>3 DEF Begin, Goto, Finish, TypeOK, RetryLeft, Deciding
<1>2. CASE Confirmed(c)
  BY <1>2 DEF Confirmed, Goto, TypeOK, server, RetryLeft, Deciding
<1>3. CASE Supports(c)
  BY <1>3 DEF Supports, Goto, TypeOK, server, RetryLeft, Deciding
<1>4. CASE Probe(c)
  BY <1>4 DEF Probe, Goto, TypeOK, server, RetryLeft, Deciding
<1>5. CASE Read(c)
  <2>1. CASE caps # Unknown /\ Asked(c) \in caps
    BY <1>5, <2>1 DEF Read, Goto, TypeOK, server, RetryLeft, Deciding
  <2>2. CASE ~ (caps # Unknown /\ Asked(c) \in caps)
    <3>1. PICK result \in Outcomes : Finish(c, result)
      BY <1>5, <2>2 DEF Read, TypeOK, Outcomes
    <3> QED BY <1>5, <3>1 DEF Read, Finish, Goto, TypeOK, server, RetryLeft, Deciding
  <2> QED BY <2>1, <2>2
<1>6. CASE Send(c)
  BY <1>6 DEF Send, Goto, TypeOK, server, RetryLeft, Deciding, Requests
<1>7. ASSUME NEW status \in Outcomes, NEW long \in BOOLEAN, Fail(c, status, long),
             UNCHANGED <<operation, attempt, request, server, crashes>>,
             reply' = [reply EXCEPT ![c] = NoReply],
             caps' \in (SUBSET Capabilities) \cup {Unknown}
      PROVE  Typed'
  <2>1. CASE Retriable(c, status, long)
    <3>1. /\ pc' = [pc EXCEPT ![c] = "checking"]
          /\ failure' = [failure EXCEPT ![c] = status]
          /\ need' = [need EXCEPT ![c] = {IdempotencyKey}]
          /\ UNCHANGED outcome
      BY <1>7, <2>1 DEF Fail, Goto
    <3>2. status \in {"failed", "running", "unreachable"} /\ attempt[c] < Retries
      BY <2>1 DEF Retriable, MayWait
    <3>3. TypeOK'
      BY <1>7, <3>1, <3>2 DEF TypeOK, server, Capabilities
    <3> QED BY <1>7, <3>1, <3>2, <3>3 DEF TypeOK, RetryLeft, Deciding
  <2>2. CASE ~ Retriable(c, status, long)
    <3>1. Finish(c, status)
      BY <1>7, <2>2 DEF Fail
    <3> QED BY <1>7, <3>1 DEF Finish, Goto, TypeOK, server, RetryLeft, Deciding
  <2> QED BY <2>1, <2>2
<1>8. CASE Receive(c)
  <2>1. reply[c] \in Reply
    BY <1>8 DEF Receive, TypeOK
  <2>2. caps' \in (SUBSET Capabilities) \cup {Unknown}
    BY <1>8, <2>1 DEF Receive, Observed, TypeOK, Reply
  <2>3. CASE reply[c].status = "ok"
    BY <1>8, <2>2, <2>3
    DEF Receive, Finish, Goto, TypeOK, server, RetryLeft, Deciding, Outcomes
  <2>4. CASE reply[c].status # "ok"
    <3>1. reply[c].status \in Outcomes /\ reply[c].long \in BOOLEAN
      BY <2>1 DEF Reply, Outcomes
    <3> QED BY <1>7, <1>8, <2>2, <2>4, <3>1 DEF Receive
  <2> QED BY <2>3, <2>4
<1>9. CASE TimeOut(c)
  BY <1>7, <1>9 DEF TimeOut, TypeOK, Outcomes
<1>10. CASE Wake(c)
  BY <1>10, KeyedWritesAssumption DEF Wake, Goto, TypeOK, server, RetryLeft, Deciding
<1> QED BY <1>1, <1>2, <1>3, <1>4, <1>5, <1>6, <1>8, <1>9, <1>10 DEF Step

(* Steps of Space and of the network.                                      *)
LEMMA ServeTyped ==
  ASSUME Typed, NEW r \in Requests, Serve(r)
  PROVE  Typed'
<1> USE DEF Typed
<1>1. r[1] \in Calls /\ Write(r[1]) \in Writes
  BY OperationTypes DEF Requests
<1>2. Header \in (SUBSET Capabilities) \cup {Unknown}
  BY DEF TypeOK, Header
<1>3. ASSUME NEW answer \in Reply, Answer(r, answer)
      PROVE  reply' \in [Calls -> Reply \cup {NoReply}]
  BY <1>1, <1>3 DEF Answer, TypeOK
<1>4. CASE Start(r)
  BY <1>1, <1>4 DEF Start, TypeOK, client, RetryLeft, Deciding
<1>5. ASSUME NEW status \in {"ok", "refused", "failed", "running"}, NEW long \in BOOLEAN,
             SpaceAnswers(r, status, long)
      PROVE  /\ reply' \in [Calls -> Reply \cup {NoReply}]
             /\ request' \in [Requests -> {"unsent", "sent", "started", "ended"}]
  <2> DEFINE answer == [status |-> status, header |-> Header, long |-> long]
  <2>1. answer \in Reply
    BY <1>2 DEF Reply
  <2>2. Answer(r, answer) /\ request' = [request EXCEPT ![r] = "ended"]
    BY <1>5 DEF SpaceAnswers
  <2> QED BY <1>3, <2>1, <2>2 DEF TypeOK
<1>6. CASE Replay(r)
  <2>1. \E status \in {"ok", "refused", "running"}, long \in BOOLEAN :
          SpaceAnswers(r, status, long)
    BY <1>6 DEF Replay
  <2>2. /\ reply' \in [Calls -> Reply \cup {NoReply}]
        /\ request' \in [Requests -> {"unsent", "sent", "started", "ended"}]
    BY <1>5, <2>1
  <2> QED BY <1>6, <2>2 DEF Replay, TypeOK, client, server, RetryLeft, Deciding
<1>7. ASSUME NEW what \in {"done", "refused", "new"}, Remember(r[1], what)
      PROVE  store' \in [Writes -> {"new", "running", "done", "refused"}]
  BY <1>1, <1>7 DEF Remember, TypeOK
<1>8. CASE Apply(r)
  <2>1. \E status \in {"ok", "failed"}, long \in BOOLEAN : SpaceAnswers(r, status, long)
    BY <1>8 DEF Apply
  <2>2. /\ reply' \in [Calls -> Reply \cup {NoReply}]
        /\ request' \in [Requests -> {"unsent", "sent", "started", "ended"}]
    BY <1>5, <2>1
  <2>3. store' \in [Writes -> {"new", "running", "done", "refused"}]
    BY <1>7, <1>8 DEF Apply
  <2>4. applied' \in [Writes -> Nat]
    BY <1>1, <1>8 DEF Apply, TypeOK
  <2> QED BY <1>8, <2>2, <2>3, <2>4 DEF Apply, TypeOK, client, RetryLeft, Deciding
<1>9. CASE Refuse(r)
  <2>1. /\ reply' \in [Calls -> Reply \cup {NoReply}]
        /\ request' \in [Requests -> {"unsent", "sent", "started", "ended"}]
    BY <1>5, <1>9 DEF Refuse
  <2>2. store' \in [Writes -> {"new", "running", "done", "refused"}]
    BY <1>7, <1>9 DEF Refuse
  <2> QED BY <1>9, <2>1, <2>2 DEF Refuse, TypeOK, client, RetryLeft, Deciding
<1>10. CASE Break(r)
  <2>1. /\ reply' \in [Calls -> Reply \cup {NoReply}]
        /\ request' \in [Requests -> {"unsent", "sent", "started", "ended"}]
    BY <1>5, <1>10 DEF Break
  <2>2. store' \in [Writes -> {"new", "running", "done", "refused"}]
    BY <1>7, <1>10 DEF Break
  <2> QED BY <1>10, <2>1, <2>2 DEF Break, TypeOK, client, RetryLeft, Deciding
<1>11. CASE ProxyAnswers(r)
  <2>1. \E answer \in Reply : Answer(r, answer)
    BY <1>11 DEF ProxyAnswers, Reply
  <2>2. reply' \in [Calls -> Reply \cup {NoReply}]
    BY <1>3, <2>1
  <2>3. request' \in [Requests -> {"unsent", "sent", "started", "ended"}]
    BY <1>11 DEF ProxyAnswers, TypeOK
  <2> QED BY <1>11, <2>2, <2>3 DEF ProxyAnswers, TypeOK, client, server, RetryLeft, Deciding
<1> QED BY <1>4, <1>6, <1>8, <1>9, <1>10, <1>11 DEF Serve

LEMMA NextTyped == Typed /\ [Next]_vars => Typed'
<1> SUFFICES ASSUME Typed, [Next]_vars PROVE Typed'
  OBVIOUS
<1>1. CASE \E c \in Calls : Begin(c) \/ Step(c)
  BY <1>1, CallTyped
<1>2. CASE \E r \in Requests : Serve(r)
  BY <1>2, ServeTyped
<1>3. CASE Forget
  BY <1>3 DEF Forget, Typed, TypeOK, client, server, RetryLeft, Deciding
<1>4. CASE Crash
  BY <1>4, KeyedWritesAssumption
  DEF Crash, Typed, TypeOK, server, RetryLeft, Deciding, Outcomes
<1>5. CASE Upgrade
  BY <1>5, KeyedWritesAssumption DEF Upgrade, Typed, TypeOK, client, RetryLeft, Deciding
<1>6. CASE UNCHANGED vars
  BY <1>6 DEF vars, Typed, TypeOK, client, server, RetryLeft, Deciding
<1>7. ASSUME NEW c \in Calls, Cancel(c)
      PROVE  Typed'
  <2>1. Finish(c, "cancelled") /\ "cancelled" \in Outcomes
    BY <1>7 DEF Cancel, Outcomes
  <2> QED
    BY <1>7, <2>1, KeyedWritesAssumption
    DEF Cancel, Finish, Goto, Typed, TypeOK, server, RetryLeft, Deciding
<1>8. CASE Healthcheck
  BY <1>8 DEF Healthcheck, Typed, TypeOK, client, server, RetryLeft, Deciding
<1> QED BY <1>1, <1>2, <1>3, <1>4, <1>5, <1>6, <1>7, <1>8 DEF Next

(* Every variable keeps its type, for all constants: in particular no call *)
(* makes more than Retries retries.                                        *)
THEOREM TypeCorrect == Spec => []TypeOK
<1>1. Typed => TypeOK
  BY DEF Typed
<1> QED BY <1>1, InitTyped, NextTyped, PTL DEF Spec

-----------------------------------------------------------------------------
(* What is believed and confirmed, of capabilities that neither come nor   *)
(* go.                                                                     *)
Stays(S) == space' \cap S = space \cap S

(* A step that leaves Space's support of idempotency keys as it is.        *)
Stable == operation' = operation /\ Stays({IdempotencyKey})

LEMMA OperationStays ==
  ASSUME [Next]_vars
  PROVE  operation' = operation
  BY DEF Next, Begin, Step, Confirmed, Supports, Probe, Read, Send, Receive, TimeOut, Wake,
         Serve, Start, Replay, Apply, Refuse, Break, ProxyAnswers, Forget, Crash,
         Cancel, Healthcheck, Upgrade, vars

LEMMA StableStep ==
  ASSUME [Next]_vars, [Stays({IdempotencyKey})]_vars
  PROVE  Stable
  BY OperationStays DEF Stable, Stays, vars, server

(* The same Space is connected all the time if it is never exchanged.      *)
LEMMA NeverExchanged ==
  ASSUME MaxUpgrades = 0, NEW S
  PROVE  Spec => [][Stays(S)]_vars
<1>1. TypeOK /\ [Next]_vars => [Stays(S)]_vars
  <2> SUFFICES ASSUME TypeOK, [Next]_vars PROVE [Stays(S)]_vars
    OBVIOUS
  <2>1. ~ Upgrade
    BY DEF Upgrade, TypeOK
  <2> QED
    BY <2>1
    DEF Next, Begin, Step, Confirmed, Supports, Probe, Read, Send, Receive, TimeOut, Wake,
        Serve, Start, Replay, Apply, Refuse, Break, ProxyAnswers, Forget, Crash,
        Cancel, Healthcheck, vars, client, server, Stays
<1> QED BY <1>1, TypeCorrect, PTL DEF Spec

(* Nothing a call has confirmed is lost.                                   *)
LEMMA StableFacts ==
  ASSUME Stable, NEW c
  PROVE  /\ Preconditions(c)' = Preconditions(c)
         /\ Write(c)' = Write(c)
         /\ Keyed(c)' = Keyed(c)
         /\ Honours(c)' = Honours(c)
<1>1. IdempotencyKey \in space' <=> IdempotencyKey \in space
  BY DEF Stable, Stays
<1> QED BY <1>1 DEF Stable, Preconditions, Write, Keyed, Honours

LEMMA NeverMisledStep ==
  ASSUME NEW S, TypeOK, NeverMisled(S), Stays(S), [Next]_vars
  PROVE  NeverMisled(S)'
<1> DEFINE Fair(told) == told \cap S \subseteq space
           Told(what, answers) ==
             /\ what # Unknown => Fair(what)
             /\ \A c \in Calls : answers[c].header # Unknown => Fair(answers[c].header)
<1>0. /\ Told(caps, reply)
      /\ Fair(space) /\ Fair({})
      /\ Told(caps', reply') => NeverMisled(S)'
  BY DEF NeverMisled, Stays
<1> HIDE DEF Fair
<1>1. ASSUME UNCHANGED <<caps, reply>>
      PROVE  Told(caps', reply')
  BY <1>0, <1>1
<1>2. ASSUME NEW c \in Calls, Probe(c)
      PROVE  Told(caps', reply')
  BY <1>0, <1>2 DEF Probe
<1>3. ASSUME NEW c \in Calls, reply' = [reply EXCEPT ![c] = NoReply]
      PROVE  \A d \in Calls : reply'[d].header # Unknown => Fair(reply'[d].header)
  BY <1>0, <1>3 DEF TypeOK, NoReply
<1>4. ASSUME NEW c \in Calls, Receive(c)
      PROVE  Told(caps', reply')
  <2>1. caps' = Observed(reply[c]) /\ reply' = [reply EXCEPT ![c] = NoReply]
    BY <1>4 DEF Receive
  <2>2. CASE reply[c].header # Unknown
    BY <1>0, <1>3, <2>1, <2>2 DEF Observed
  <2>3. CASE reply[c].header = Unknown /\ reply[c].status \in {"ok", "redirected"}
    BY <1>0, <1>3, <2>1, <2>3 DEF Observed
  <2>4. CASE reply[c].header = Unknown /\ reply[c].status \notin {"ok", "redirected"}
    <3>1. caps' = caps
      BY <2>1, <2>4 DEF Observed
    <3> QED BY <1>0, <1>3, <2>1, <3>1
  <2> QED BY <2>2, <2>3, <2>4
<1>5. ASSUME NEW c \in Calls, TimeOut(c)
      PROVE  Told(caps', reply')
  BY <1>0, <1>5 DEF TimeOut, TypeOK, NoReply
<1>6. ASSUME NEW r \in Requests, NEW answer, answer.header \in {Unknown, Header},
             Answer(r, answer), UNCHANGED caps
      PROVE  Told(caps', reply')
  <2>1. r[1] \in Calls
    BY DEF Requests
  <2>2. answer.header # Unknown => answer.header = space
    BY <1>6 DEF Header
  <2> QED BY <1>0, <1>6, <2>1, <2>2 DEF Answer, TypeOK
<1>7. ASSUME NEW r \in Requests, NEW status, NEW long,
             SpaceAnswers(r, status, long), UNCHANGED caps
      PROVE  Told(caps', reply')
  <2> DEFINE answer == [status |-> status, header |-> Header, long |-> long]
  <2>1. Answer(r, answer) /\ answer.header = Header
    BY <1>7 DEF SpaceAnswers
  <2> HIDE DEF answer
  <2> QED BY <1>6, <1>7, <2>1
<1>8. ASSUME NEW r \in Requests, Replay(r) \/ Apply(r) \/ Refuse(r) \/ Break(r)
      PROVE  Told(caps', reply')
  <2>1. \E status, long : SpaceAnswers(r, status, long)
    BY <1>8 DEF Replay, Apply, Refuse, Break
  <2>2. UNCHANGED caps
    BY <1>8 DEF Replay, Apply, Refuse, Break
  <2> QED BY <1>7, <2>1, <2>2
<1>9. ASSUME NEW r \in Requests, ProxyAnswers(r)
      PROVE  Told(caps', reply')
  <2>1. \E status : Answer(r, [status |-> status, header |-> Unknown, long |-> FALSE])
    BY <1>9 DEF ProxyAnswers
  <2>2. PICK status : Answer(r, [status |-> status, header |-> Unknown, long |-> FALSE])
    BY <2>1
  <2> DEFINE answer == [status |-> status, header |-> Unknown, long |-> FALSE]
  <2>3. answer.header = Unknown /\ Answer(r, answer)
    BY <2>2
  <2>4. UNCHANGED caps
    BY <1>9 DEF ProxyAnswers
  <2> HIDE DEF answer
  <2> QED BY <1>6, <2>3, <2>4
<1>10. CASE Crash
  BY <1>0, <1>10 DEF Crash, NoReply
<1>11. CASE Forget
  BY <1>0, <1>11 DEF Forget
<1>12. ASSUME NEW c \in Calls,
              \/ Begin(c) \/ Confirmed(c) \/ Supports(c) \/ Read(c) \/ Send(c) \/ Wake(c)
       PROVE  UNCHANGED <<caps, reply>>
  BY <1>12 DEF Begin, Confirmed, Supports, Read, Send, Wake
<1>13. ASSUME NEW r \in Requests, Start(r)
       PROVE  UNCHANGED <<caps, reply>>
  BY <1>13 DEF Start
<1>14. ASSUME Upgrade \/ UNCHANGED vars
       PROVE  UNCHANGED <<caps, reply>>
  BY <1>14 DEF Upgrade, vars
<1>15. ASSUME NEW c \in Calls, Cancel(c)
       PROVE  Told(caps', reply')
  BY <1>0, <1>15 DEF Cancel, TypeOK, NoReply
<1>16. CASE Healthcheck
  BY <1>0, <1>16 DEF Healthcheck
<1> QED
  BY <1>0, <1>1, <1>2, <1>4, <1>5, <1>8, <1>9, <1>10, <1>11, <1>12, <1>13, <1>14, <1>15, <1>16
  DEF Next, Step, Serve

(* A step of Space or of the network leaves what the calls hold alone.     *)
LEMMA ServeLeavesCalls ==
  ASSUME NEW r \in Requests, Serve(r)
  PROVE  UNCHANGED <<pc, need, failure, attempt>>
  BY DEF Serve, Start, Replay, Apply, Refuse, Break, ProxyAnswers, client

(* A call's own step leaves the others alone.                              *)
LEMMA OthersLeftAlone ==
  ASSUME TypeOK, NEW c \in Calls, NEW d \in Calls, c # d, Begin(c) \/ Step(c)
  PROVE  /\ pc'[d] = pc[d] /\ need'[d] = need[d]
         /\ failure'[d] = failure[d] /\ attempt'[d] = attempt[d]
<1> USE DEF TypeOK, Goto, Finish
<1>1. CASE Begin(c)
  BY <1>1 DEF Begin
<1>2. CASE Confirmed(c) \/ Supports(c) \/ Probe(c) \/ Send(c)
  BY <1>2 DEF Confirmed, Supports, Probe, Send
<1>3. CASE Read(c)
  BY <1>3 DEF Read
<1>4. CASE Receive(c)
  BY <1>4 DEF Receive, Fail
<1>5. CASE TimeOut(c)
  <2>1. CASE Retriable(c, "unreachable", FALSE)
    BY <1>5, <2>1 DEF TimeOut, Fail
  <2>2. CASE ~ Retriable(c, "unreachable", FALSE)
    BY <1>5, <2>2 DEF TimeOut, Fail
  <2> QED BY <2>1, <2>2
<1>6. CASE Wake(c)
  BY <1>6 DEF Wake
<1> QED BY <1>1, <1>2, <1>3, <1>4, <1>5, <1>6 DEF Step

(* The cancellation of one call leaves the others alone.                   *)
LEMMA CancelLeavesOthers ==
  ASSUME TypeOK, NEW c \in Calls, NEW d \in Calls, c # d, Cancel(c)
  PROVE  /\ pc'[d] = pc[d] /\ need'[d] = need[d]
         /\ failure'[d] = failure[d] /\ attempt'[d] = attempt[d]
  BY DEF Cancel, Finish, Goto, TypeOK

LEMMA PledgedStep ==
  ASSUME NEW S, Typed, NeverMisled(S), Pledged(S), Stays(S), [Next]_vars
  PROVE  Pledged(S)'
<1> USE DEF Deciding
<1> SUFFICES ASSUME NEW d \in Calls
             PROVE  PledgedTo(d, S)'
  BY DEF Pledged
<1> DEFINE Fair(told) == told \cap S \subseteq space
           Goal ==
             /\ Deciding(d)' /\ failure'[d] = "none" => Fair(Preconditions(d) \ need'[d])
             /\ Deciding(d)' /\ failure'[d] # "none" =>
                  /\ Fair(Preconditions(d))
                  /\ Fair({IdempotencyKey} \ need'[d])
                  /\ Keyed(d)
             /\ pc'[d] \in {"sending", "waiting", "sleeping"} => Fair(Preconditions(d))
             /\ pc'[d] = "sleeping" \/ attempt'[d] > 0 => Keyed(d) /\ Fair({IdempotencyKey})
<1>17. Goal => PledgedTo(d, S)'
  <2>1. Preconditions(d)' = Preconditions(d) /\ Keyed(d)' = Keyed(d)
    BY OperationStays DEF Preconditions, Keyed
  <2>2. \A X : Fair(X) => X \cap S \subseteq space'
    BY DEF Stays
  <2> QED BY <2>1, <2>2 DEF PledgedTo
<1>0. /\ Deciding(d) /\ failure[d] = "none" => Fair(Preconditions(d) \ need[d])
      /\ Deciding(d) /\ failure[d] # "none" =>
           /\ Fair(Preconditions(d))
           /\ Fair({IdempotencyKey} \ need[d])
           /\ Keyed(d)
      /\ pc[d] \in {"sending", "waiting", "sleeping"} => Fair(Preconditions(d))
      /\ pc[d] = "sleeping" \/ attempt[d] > 0 => Keyed(d) /\ Fair({IdempotencyKey})
  BY DEF Pledged, PledgedTo
<1>18. /\ \A X : Fair(X \ {}) => Fair(X)
       /\ \A X : Fair(X \ X)
  OBVIOUS
<1> HIDE DEF Fair
<1> SUFFICES Goal
  BY <1>17
<1>1. ASSUME UNCHANGED <<pc, need, failure, attempt>>
      PROVE  Goal
  BY <1>0, <1>1
<1>2. ASSUME NEW c \in Calls, c # d, Begin(c) \/ Step(c)
      PROVE  Goal
  BY <1>0, <1>2, OthersLeftAlone DEF Typed
<1>3. CASE Begin(d)
  BY <1>0, <1>3, <1>18 DEF Begin, Goto, Finish, Typed, TypeOK, RetryLeft
<1>4. CASE Confirmed(d)
  <2>1. need[d] = {} /\ pc[d] = "checking"
    BY <1>4 DEF Confirmed
  <2>2. UNCHANGED <<need, failure, attempt>>
    BY <1>4 DEF Confirmed
  <2>3. CASE failure[d] = "none"
    <3>1. pc'[d] = "sending"
      BY <1>4, <2>3 DEF Confirmed, Goto, Typed, TypeOK
    <3> QED BY <1>0, <1>18, <2>1, <2>2, <2>3, <3>1
  <2>4. CASE failure[d] # "none"
    <3>1. pc'[d] = "sleeping"
      BY <1>4, <2>4 DEF Confirmed, Goto, Typed, TypeOK
    <3>2. Keyed(d) /\ Fair({IdempotencyKey})
      BY <1>0, <1>18, <2>1, <2>4
    <3> QED BY <1>0, <2>1, <2>2, <2>4, <3>1, <3>2
  <2> QED BY <2>3, <2>4
<1>5. CASE Supports(d) \/ Probe(d)
  <2>1. UNCHANGED <<need, failure, attempt>> /\ Deciding(d) /\ Deciding(d)'
    BY <1>5 DEF Supports, Probe, Goto, Typed, TypeOK
  <2> QED BY <1>0, <2>1
<1>6. CASE Read(d)
  <2>1. CASE caps # Unknown /\ Asked(d) \in caps
    <3>1. /\ Deciding(d) /\ UNCHANGED <<failure, attempt>> /\ pc'[d] = "checking"
          /\ need'[d] = need[d] \ {Asked(d)}
      BY <1>6, <2>1 DEF Read, Goto, Typed, TypeOK
    <3>2. Fair({Asked(d)})
      BY <2>1 DEF NeverMisled, Fair
    <3>3. \A X : Fair(X \ need[d]) => Fair(X \ need'[d])
      BY <3>1, <3>2 DEF Fair
    <3> QED BY <1>0, <3>1, <3>3
  <2>2. CASE ~ (caps # Unknown /\ Asked(d) \in caps)
    <3>1. pc'[d] = "done" /\ UNCHANGED attempt
      BY <1>6, <2>2 DEF Read, Finish, Goto, Typed, TypeOK
    <3> QED BY <1>0, <3>1
  <2> QED BY <2>1, <2>2
<1>7. CASE Send(d)
  <2>1. UNCHANGED <<need, failure, attempt>> /\ pc[d] = "sending" /\ pc'[d] = "waiting"
    BY <1>7 DEF Send, Goto, Typed, TypeOK
  <2> QED BY <1>0, <2>1
<1>8. ASSUME NEW status, NEW long, pc[d] = "waiting", Fail(d, status, long),
             UNCHANGED attempt
      PROVE  Goal
  <2>1. CASE Retriable(d, status, long)
    <3>1. /\ pc'[d] = "checking" /\ need'[d] = {IdempotencyKey} /\ failure'[d] = status
          /\ status # "none" /\ Keyed(d)
      BY <1>8, <2>1 DEF Fail, Retriable, Goto, Typed, TypeOK
    <3> QED BY <1>0, <1>8, <1>18, <3>1
  <2>2. CASE ~ Retriable(d, status, long)
    <3>1. pc'[d] = "done"
      BY <1>8, <2>2 DEF Fail, Finish, Goto, Typed, TypeOK
    <3> QED BY <1>0, <1>8, <1>18, <3>1
  <2> QED BY <2>1, <2>2
<1>9. CASE Receive(d)
  <2>1. CASE reply[d].status = "ok"
    <3>1. pc'[d] = "done" /\ UNCHANGED attempt
      BY <1>9, <2>1 DEF Receive, Finish, Goto, Typed, TypeOK
    <3> QED BY <1>0, <3>1
  <2>2. CASE reply[d].status # "ok"
    BY <1>8, <1>9, <2>2 DEF Receive
  <2> QED BY <2>1, <2>2
<1>10. CASE TimeOut(d)
  BY <1>8, <1>10 DEF TimeOut
<1>11. CASE Wake(d)
  <2>1. pc[d] = "sleeping" /\ pc'[d] = "sending"
    BY <1>11 DEF Wake, Goto, Typed, TypeOK
  <2> QED BY <1>0, <2>1
<1>12. CASE \E r \in Requests : Serve(r)
  BY <1>1, <1>12, ServeLeavesCalls
<1>13. CASE Forget \/ Healthcheck \/ Upgrade \/ UNCHANGED vars
  BY <1>1, <1>13 DEF Forget, Healthcheck, Upgrade, vars, client
<1>14. CASE Crash
  <2>1. UNCHANGED attempt /\ pc'[d] \in {"idle", "done"}
    BY <1>14 DEF Crash
  <2> QED BY <1>0, <2>1
<1>15. CASE \E c \in Calls : Begin(c) \/ Step(c)
  BY <1>2, <1>3, <1>4, <1>5, <1>6, <1>7, <1>9, <1>10, <1>11, <1>15 DEF Step
<1>16. ASSUME NEW c \in Calls, Cancel(c)
       PROVE  Goal
  <2>1. CASE c = d
    <3>1. pc'[d] = "done" /\ UNCHANGED attempt
      BY <1>16, <2>1 DEF Cancel, Finish, Goto, Typed, TypeOK
    <3> QED BY <1>0, <3>1
  <2>2. CASE c # d
    BY <1>0, <1>16, <2>2, CancelLeavesOthers DEF Typed
  <2> QED BY <2>1, <2>2
<1> QED BY <1>12, <1>13, <1>14, <1>15, <1>16 DEF Next

-----------------------------------------------------------------------------
(* Requests.                                                               *)

LEMMA ConfirmedStep ==
  ASSUME NEW S, TypeOK, Pledged(S), SentConfirmed(S), Stays(S), [Next]_vars
  PROVE  SentConfirmed(S)'
<1> SUFFICES ASSUME NEW r \in Requests, request'[r] # "unsent"
             PROVE  Preconditions(r[1]) \cap S \subseteq space
  BY OperationStays DEF SentConfirmed, Stays, Preconditions
<1>1. CASE request[r] # "unsent"
  BY <1>1 DEF SentConfirmed
<1>2. CASE request[r] = "unsent"
  <2>1. PICK c \in Calls : Send(c) /\ r = <<c, attempt[c]>>
    BY <1>2
    DEF Next, Begin, Step, Confirmed, Supports, Probe, Read, Send, Receive, TimeOut, Wake,
        Serve, Start, Replay, Apply, Refuse, Break, ProxyAnswers, SpaceAnswers, Forget,
        Crash, Cancel, Healthcheck, Upgrade, vars, client, server, TypeOK
  <2>2. r[1] = c /\ pc[c] = "sending"
    BY <2>1 DEF Send
  <2> QED BY <2>2 DEF Pledged, PledgedTo
<1> QED BY <1>1, <1>2

LEMMA TrustedStep ==
  ASSUME NEW S, Trusted(S), Stays(S), [Next]_vars
  PROVE  Trusted(S)'
  BY NextTyped, NeverMisledStep, PledgedStep, ConfirmedStep DEF Trusted, Typed

LEMMA InTurnStep ==
  ASSUME Typed, InTurn, [Next]_vars
  PROVE  InTurn'
<1> USE DEF Deciding, Fresh
<1> SUFFICES ASSUME NEW d \in Calls, NEW n \in 0..Retries,
                    n > attempt'[d] \/ (n = attempt'[d] /\ Fresh(d)')
             PROVE  request'[<<d, n>>] = "unsent"
  BY DEF InTurn
<1>0. n > attempt[d] \/ (n = attempt[d] /\ Fresh(d)) => request[<<d, n>>] = "unsent"
  BY DEF InTurn
<1>1. attempt[d] \in 0..Retries /\ attempt'[d] \in 0..Retries
  BY NextTyped DEF Typed, TypeOK
<1>2. CASE \E r \in Requests : Serve(r)
  <2> PICK r \in Requests : Serve(r)
    BY <1>2
  <2>1. request[<<d, n>>] = "unsent"
    BY <1>0, ServeLeavesCalls
  <2>2. request[r] # "unsent"
    BY DEF Serve, Start, Replay, Apply, Refuse, Break, ProxyAnswers
  <2>3. request' = request \/ \E what : request' = [request EXCEPT ![r] = what]
    BY DEF Serve, Start, Replay, Apply, Refuse, Break, ProxyAnswers, SpaceAnswers
  <2>4. <<d, n>> \in Requests
    BY DEF Requests
  <2> QED BY <2>1, <2>2, <2>3, <2>4 DEF Typed, TypeOK
<1>3. ASSUME NEW c \in Calls, c # d, Begin(c) \/ Step(c)
      PROVE  request'[<<d, n>>] = "unsent"
  <2>1. request[<<d, n>>] = "unsent"
    BY <1>0, <1>3, OthersLeftAlone DEF Typed
  <2>2. request' = request \/ request' = [request EXCEPT ![<<c, attempt[c]>>] = "sent"]
    BY <1>3 DEF Begin, Step, Confirmed, Supports, Probe, Read, Send, Receive, TimeOut, Wake
  <2>3. <<d, n>> \in Requests /\ <<d, n>> # <<c, attempt[c]>>
    BY <1>3 DEF Requests
  <2> QED BY <2>1, <2>2, <2>3 DEF Typed, TypeOK
<1>4. ASSUME UNCHANGED request, n > attempt[d] \/ (n = attempt[d] /\ Fresh(d))
      PROVE  request'[<<d, n>>] = "unsent"
  BY <1>0, <1>4
<1>5. CASE Begin(d)
  <2>1. Fresh(d) /\ UNCHANGED <<attempt, request>>
    BY <1>5 DEF Begin
  <2> QED BY <1>4, <2>1
<1>6. CASE Confirmed(d)
  <2>1. UNCHANGED <<attempt, request, failure>> /\ pc[d] = "checking"
    BY <1>6 DEF Confirmed
  <2>2. failure[d] # "none" => pc'[d] = "sleeping"
    BY <1>6 DEF Confirmed, Goto, Typed, TypeOK
  <2> QED BY <1>4, <2>1, <2>2
<1>7. CASE Supports(d) \/ Probe(d)
  <2>1. UNCHANGED <<attempt, request, failure>> /\ Deciding(d) /\ Deciding(d)'
    BY <1>7 DEF Supports, Probe, Goto, Typed, TypeOK
  <2> QED BY <1>4, <2>1
<1>8. CASE Read(d)
  <2>1. UNCHANGED <<attempt, request>> /\ Deciding(d)
        /\ (pc'[d] = "done" \/ (pc'[d] = "checking" /\ failure' = failure))
    BY <1>8 DEF Read, Finish, Goto, Typed, TypeOK
  <2> QED BY <1>4, <2>1
<1>9. CASE Send(d)
  <2>1. /\ pc'[d] = "waiting" /\ UNCHANGED attempt
        /\ request' = [request EXCEPT ![<<d, attempt[d]>>] = "sent"]
    BY <1>9 DEF Send, Goto, Typed, TypeOK
  <2>2. n > attempt[d] /\ <<d, n>> \in Requests /\ <<d, n>> # <<d, attempt[d]>>
    BY <1>1, <2>1 DEF Requests
  <2> QED BY <1>0, <2>1, <2>2 DEF Typed, TypeOK
<1>10. ASSUME NEW status, NEW long, Fail(d, status, long), UNCHANGED <<attempt, request>>
       PROVE  request'[<<d, n>>] = "unsent"
  <2>1. CASE Retriable(d, status, long)
    <3>1. pc'[d] = "checking" /\ failure'[d] # "none"
      BY <1>10, <2>1 DEF Fail, Retriable, Goto, Typed, TypeOK
    <3> QED BY <1>4, <1>10, <3>1
  <2>2. CASE ~ Retriable(d, status, long)
    <3>1. pc'[d] = "done"
      BY <1>10, <2>2 DEF Fail, Finish, Goto, Typed, TypeOK
    <3> QED BY <1>4, <1>10, <3>1
  <2> QED BY <2>1, <2>2
<1>11. CASE Receive(d)
  <2>1. UNCHANGED <<attempt, request>>
    BY <1>11 DEF Receive
  <2>2. CASE reply[d].status = "ok"
    <3>1. pc'[d] = "done"
      BY <1>11, <2>2 DEF Receive, Finish, Goto, Typed, TypeOK
    <3> QED BY <1>4, <2>1, <3>1
  <2>3. CASE reply[d].status # "ok"
    BY <1>10, <1>11, <2>1, <2>3 DEF Receive
  <2> QED BY <2>2, <2>3
<1>12. CASE TimeOut(d)
  BY <1>10, <1>12 DEF TimeOut
<1>13. CASE Wake(d)
  <2>1. attempt'[d] = attempt[d] + 1 /\ UNCHANGED request
    BY <1>13 DEF Wake, Typed, TypeOK
  <2> QED BY <1>1, <1>4, <2>1
<1>14. CASE Forget \/ Healthcheck \/ Upgrade \/ UNCHANGED vars
  <2>1. UNCHANGED <<pc, failure, attempt, request>>
    BY <1>14 DEF Forget, Healthcheck, Upgrade, vars, client
  <2> QED BY <1>4, <2>1
<1>15. CASE Crash
  <2>1. UNCHANGED <<attempt, request>> /\ (pc'[d] = pc[d] \/ pc'[d] = "done")
        /\ pc'[d] \in {"idle", "done"}
    BY <1>15 DEF Crash
  <2> QED BY <1>4, <2>1
<1>16. CASE \E c \in Calls : Begin(c) \/ Step(c)
  BY <1>3, <1>5, <1>6, <1>7, <1>8, <1>9, <1>11, <1>12, <1>13, <1>16 DEF Step
<1>17. ASSUME NEW c \in Calls, Cancel(c)
       PROVE  request'[<<d, n>>] = "unsent"
  <2>1. UNCHANGED <<attempt, request>>
    BY <1>17 DEF Cancel
  <2>2. CASE c = d
    <3>1. pc'[d] = "done"
      BY <1>17, <2>2 DEF Cancel, Finish, Goto, Typed, TypeOK
    <3> QED BY <1>4, <2>1, <3>1
  <2>3. CASE c # d
    BY <1>4, <1>17, <2>1, <2>3, CancelLeavesOthers DEF Typed
  <2> QED BY <2>2, <2>3
<1> QED BY <1>2, <1>14, <1>15, <1>16, <1>17 DEF Next

-----------------------------------------------------------------------------
(* What Space applied.                                                     *)

(* Two calls with one write both carry the key of a caller.                *)
LEMMA SharedWriteIsExplicit ==
  ASSUME TypeOK, NEW c \in Calls, NEW d \in Calls, c # d, Write(c) = Write(d)
  PROVE  operation[c].explicit /\ operation[d].explicit /\ Keyed(c) /\ Keyed(d)
<1>1. operation[c].explicit \/ Write(c) = c
  BY OperationTypes DEF Write
<1>2. operation[d].explicit \/ Write(d) = d
  BY OperationTypes DEF Write
<1>3. operation[c].explicit => Keyed(c) /\ Write(c) \in CallerKeys \cup {Malformed}
  BY OperationTypes DEF Write
<1>4. operation[d].explicit => Keyed(d) /\ Write(d) \in CallerKeys \cup {Malformed}
  BY OperationTypes DEF Write
<1> QED BY <1>1, <1>2, <1>3, <1>4, KeyedWritesAssumption

(* A request was sent on such a write only if Space honours its key.       *)
LEMMA SharedWriteIsHonoured ==
  ASSUME IInv, NEW c \in Calls, NEW r \in Requests, request[r] # "unsent",
         r[1] # c, Write(c) = Write(r[1])
  PROVE  Honours(c) /\ Honours(r[1])
<1>1. r[1] \in Calls
  BY DEF Requests
<1>2. operation[r[1]].explicit /\ Keyed(c) /\ Keyed(r[1])
  BY <1>1, SharedWriteIsExplicit DEF IInv, Trusted, Typed
<1>3. IdempotencyKey \in space
  BY <1>2 DEF IInv, Trusted, SentConfirmed, Preconditions
<1> QED BY <1>2, <1>3 DEF Honours

(* A request whose key Space does not honour is a first attempt.           *)
LEMMA UnhonouredIsFirst ==
  ASSUME IInv, NEW r \in Requests, request[r] # "unsent", ~ Honours(r[1])
  PROVE  r = <<r[1], 0>>
<1>1. PICK c \in Calls, n \in 0..Retries : r = <<c, n>>
  BY DEF Requests
<1>2. ~ (attempt[c] > 0) /\ attempt[c] \in 0..Retries
  BY <1>1 DEF IInv, Trusted, Pledged, PledgedTo, Honours, Typed, TypeOK
<1>3. ~ (n > attempt[c])
  BY <1>1 DEF IInv, InTurn
<1>4. n = 0
  BY <1>2, <1>3, KeyedWritesAssumption
<1> QED BY <1>1, <1>4

(* Whatever Space has started, it has not applied before.                  *)
LEMMA StartedIsUnapplied ==
  ASSUME IInv, NEW r \in Requests, request[r] = "started"
  PROVE  applied[Write(r[1])] = 0
<1>1. r[1] \in Calls
  BY DEF Requests
<1>2. CASE Honours(r[1])
  <2>1. store[Write(r[1])] = "running"
    BY <1>2 DEF IInv, Ledger
  <2> QED BY <1>1, <1>2, <2>1 DEF IInv, Ledger
<1>3. CASE ~ Honours(r[1])
  <2>1. r = <<r[1], 0>>
    BY <1>3, UnhonouredIsFirst
  <2>2. request[<<r[1], 0>>] = "started"
    BY <2>1
  <2> QED BY <1>1, <1>3, <2>2 DEF IInv, Ledger
<1> QED BY <1>2, <1>3

(* The parts of Ledger, to be shown of the next state one by one.          *)
LEMMA LedgerByParts ==
  ASSUME Stable,
         \A r \in Requests :
           request'[r] = "started" /\ Honours(r[1]) => store'[Write(r[1])] = "running",
         \A r, q \in Requests :
           request'[r] = "started" /\ request'[q] = "started" /\ Honours(r[1]) /\ Honours(q[1])
             /\ Write(r[1]) = Write(q[1]) => r = q,
         \A c \in Calls : Honours(c) /\ store'[Write(c)] # "done" => applied'[Write(c)] = 0,
         \A c \in Calls :
           ~ Honours(c) /\ request'[<<c, 0>>] # "ended" => applied'[Write(c)] = 0
  PROVE  Ledger'
  BY StableFacts DEF Ledger

(* A request is over without having been applied.                          *)
LEMMA EndedKeepsLedger ==
  ASSUME IInv, Stable, NEW r \in Requests,
         request' = [request EXCEPT ![r] = "ended"] \/ request' = request,
         UNCHANGED <<store, applied>>
  PROVE  Ledger'
<1>1. /\ request \in [Requests -> {"unsent", "sent", "started", "ended"}]
      /\ \A q \in Requests : request'[q] = "started" => request[q] = "started"
      /\ \A q \in Requests : request'[q] # "ended" => request[q] # "ended"
  BY DEF IInv, Trusted, Typed, TypeOK
<1>2. \A c \in Calls : <<c, 0>> \in Requests
  BY KeyedWritesAssumption DEF Requests
<1> QED BY <1>1, <1>2, LedgerByParts DEF IInv, Ledger

LEMMA StartKeepsLedger ==
  ASSUME IInv, Stable, NEW r \in Requests, Start(r)
  PROVE  Ledger'
<1>1. /\ request \in [Requests -> {"unsent", "sent", "started", "ended"}]
      /\ request[r] = "sent" /\ request' = [request EXCEPT ![r] = "started"]
      /\ applied' = applied
      /\ r[1] \in Calls /\ Write(r[1]) \in Writes
      /\ \A c \in Calls : <<c, 0>> \in Requests
  BY OperationTypes, KeyedWritesAssumption DEF Start, IInv, Trusted, Typed, TypeOK, Requests
<1>2. \A c \in Calls : request'[<<c, 0>>] # "ended" => request[<<c, 0>>] # "ended"
  BY <1>1
<1>3. CASE Honours(r[1])
  <2>1. /\ store[Write(r[1])] = "new"
        /\ store' = [store EXCEPT ![Write(r[1])] = "running"]
        /\ store \in [Writes -> {"new", "running", "done", "refused"}]
    BY <1>3 DEF Start, IInv, Trusted, Typed, TypeOK
  <2>2. \A q \in Requests :
          request[q] = "started" /\ Honours(q[1]) => Write(q[1]) # Write(r[1])
    BY <2>1 DEF IInv, Ledger
  <2>3. \A q \in Requests :
          request'[q] = "started" /\ Honours(q[1]) => store'[Write(q[1])] = "running"
    <3> SUFFICES ASSUME NEW q \in Requests, request'[q] = "started", Honours(q[1])
                 PROVE  store'[Write(q[1])] = "running"
      OBVIOUS
    <3>1. q[1] \in Calls /\ Write(q[1]) \in Writes
      BY OperationTypes DEF Requests, IInv, Trusted, Typed
    <3>2. q # r => request[q] = "started"
      BY <1>1
    <3> QED BY <1>1, <2>1, <2>2, <3>1, <3>2 DEF IInv, Ledger
  <2>4. \A q, p \in Requests :
          request'[q] = "started" /\ request'[p] = "started" /\ Honours(q[1]) /\ Honours(p[1])
            /\ Write(q[1]) = Write(p[1]) => q = p
    BY <1>1, <2>2 DEF IInv, Ledger
  <2>5. \A c \in Calls : Honours(c) /\ store'[Write(c)] # "done" => applied'[Write(c)] = 0
    <3> SUFFICES ASSUME NEW c \in Calls, Honours(c), store'[Write(c)] # "done"
                 PROVE  applied[Write(c)] = 0
      BY <1>1
    <3>1. store[Write(c)] # "done"
      BY <2>1
    <3> QED BY <3>1 DEF IInv, Ledger
  <2>6. \A c \in Calls :
          ~ Honours(c) /\ request'[<<c, 0>>] # "ended" => applied'[Write(c)] = 0
    BY <1>1, <1>2 DEF IInv, Ledger
  <2> QED BY <2>3, <2>4, <2>5, <2>6, LedgerByParts
<1>4. CASE ~ Honours(r[1])
  <2>1. store' = store
    BY <1>4 DEF Start
  <2>2. \A q \in Requests :
          request'[q] = "started" /\ Honours(q[1]) => request[q] = "started"
    BY <1>1, <1>4
  <2> QED BY <1>1, <1>2, <2>1, <2>2, LedgerByParts DEF IInv, Ledger
<1> QED BY <1>3, <1>4

(* Space settles a request it started: as applied or as not.               *)
LEMMA SettledKeepsLedger ==
  ASSUME IInv, Stable, NEW r \in Requests, request[r] = "started",
         request' = [request EXCEPT ![r] = "ended"],
         NEW what \in {"done", "refused", "new"}, Remember(r[1], what),
         \/ what # "done" /\ UNCHANGED applied
         \/ what = "done" /\ applied' = [applied EXCEPT ![Write(r[1])] = @ + 1]
  PROVE  Ledger'
<1>1. /\ request \in [Requests -> {"unsent", "sent", "started", "ended"}]
      /\ store \in [Writes -> {"new", "running", "done", "refused"}]
      /\ applied \in [Writes -> Nat]
      /\ r[1] \in Calls /\ Write(r[1]) \in Writes
      /\ \A c \in Calls : <<c, 0>> \in Requests /\ Write(c) \in Writes
  BY OperationTypes, KeyedWritesAssumption DEF IInv, Trusted, Typed, TypeOK, Requests
<1>2. /\ \A q \in Requests : request'[q] = "started" => q # r /\ request[q] = "started"
      /\ \A q \in Requests : request'[q] # "ended" => q # r /\ request[q] # "ended"
  BY <1>1
<1>3. \A w \in Writes : w # Write(r[1]) => store'[w] = store[w] /\ applied'[w] = applied[w]
  BY <1>1 DEF Remember
<1>4. \A q \in Requests :
        request'[q] = "started" /\ Honours(q[1]) => store'[Write(q[1])] = "running"
  <2> SUFFICES ASSUME NEW q \in Requests, request'[q] = "started", Honours(q[1])
               PROVE  store'[Write(q[1])] = "running"
    OBVIOUS
  <2>1. q # r /\ request[q] = "started" /\ q[1] \in Calls /\ store[Write(q[1])] = "running"
    BY <1>2 DEF IInv, Ledger, Requests
  <2>2. CASE Write(q[1]) # Write(r[1])
    BY <1>1, <1>3, <2>1, <2>2
  <2>3. CASE Write(q[1]) = Write(r[1]) /\ Honours(r[1])
    BY <2>1, <2>3 DEF IInv, Ledger
  <2>4. CASE ~ Honours(r[1])
    BY <2>1, <2>4 DEF Remember
  <2> QED BY <2>2, <2>3, <2>4
<1>5. \A q, p \in Requests :
        request'[q] = "started" /\ request'[p] = "started" /\ Honours(q[1]) /\ Honours(p[1])
          /\ Write(q[1]) = Write(p[1]) => q = p
  BY <1>2 DEF IInv, Ledger
<1>6. \A c \in Calls : Honours(c) /\ store'[Write(c)] # "done" => applied'[Write(c)] = 0
  <2> SUFFICES ASSUME NEW c \in Calls, Honours(c), store'[Write(c)] # "done"
               PROVE  applied'[Write(c)] = 0
    OBVIOUS
  <2>1. CASE Write(c) # Write(r[1])
    BY <1>1, <1>3, <2>1 DEF IInv, Ledger
  <2>2. CASE Write(c) = Write(r[1])
    <3>1. Honours(r[1])
      BY <2>2, SharedWriteIsHonoured
    <3>2. store'[Write(c)] = what
      BY <1>1, <2>2, <3>1 DEF Remember
    <3>3. applied[Write(c)] = 0
      BY <2>2, StartedIsUnapplied
    <3> QED BY <3>2, <3>3
  <2> QED BY <2>1, <2>2
<1>7. \A c \in Calls : ~ Honours(c) /\ request'[<<c, 0>>] # "ended" => applied'[Write(c)] = 0
  <2> SUFFICES ASSUME NEW c \in Calls, ~ Honours(c), request'[<<c, 0>>] # "ended"
               PROVE  applied'[Write(c)] = 0
    OBVIOUS
  <2>1. <<c, 0>> # r /\ request[<<c, 0>>] # "ended"
    BY <1>1, <1>2
  <2>2. r[1] # c
    BY <2>1, UnhonouredIsFirst
  <2>3. Write(c) # Write(r[1])
    BY <2>2, SharedWriteIsHonoured
  <2> QED BY <1>1, <1>3, <2>1, <2>3 DEF IInv, Ledger
<1> QED BY <1>4, <1>5, <1>6, <1>7, LedgerByParts

LEMMA SendKeepsLedger ==
  ASSUME IInv, Stable, NEW c \in Calls, Send(c)
  PROVE  Ledger'
<1>1. /\ request \in [Requests -> {"unsent", "sent", "started", "ended"}]
      /\ request' = [request EXCEPT ![<<c, attempt[c]>>] = "sent"]
      /\ <<c, attempt[c]>> \in Requests
      /\ UNCHANGED <<store, applied>>
      /\ \A d \in Calls : <<d, 0>> \in Requests
  BY KeyedWritesAssumption DEF Send, server, IInv, Trusted, Typed, TypeOK, Requests
<1>2. request[<<c, attempt[c]>>] = "unsent"
  BY DEF Send, Fresh, IInv, InTurn, Trusted, Typed, TypeOK
<1>3. /\ \A q \in Requests : request'[q] = "started" => request[q] = "started"
      /\ \A q \in Requests : request'[q] # "ended" => request[q] # "ended"
  BY <1>1, <1>2
<1> QED BY <1>1, <1>3, LedgerByParts DEF IInv, Ledger

LEMMA LedgerStep ==
  ASSUME IInv, Stable, [Next]_vars
  PROVE  Ledger' /\ AtMostOnce'
<1>0. applied \in [Writes -> Nat]
  BY DEF IInv, Trusted, Typed, TypeOK
<1>1. ASSUME UNCHANGED <<request, store, applied>>
      PROVE  Ledger' /\ AtMostOnce'
  <2>1. Ledger'
    BY <1>1, LedgerByParts DEF IInv, Ledger
  <2> QED BY <1>1, <2>1 DEF IInv, AtMostOnce
<1>2. ASSUME NEW c \in Calls, Begin(c) \/ Step(c)
      PROVE  Ledger' /\ AtMostOnce'
  <2>1. CASE Send(c)
    BY <2>1, SendKeepsLedger DEF IInv, AtMostOnce, Send, server
  <2>2. CASE ~ Send(c)
    <3>1. UNCHANGED <<request, store, applied>>
      BY <1>2, <2>2
      DEF Begin, Step, Confirmed, Supports, Probe, Read, Receive, TimeOut, Wake, server
    <3> QED BY <1>1, <3>1
  <2> QED BY <2>1, <2>2
<1>3. ASSUME NEW r \in Requests, Serve(r)
      PROVE  Ledger' /\ AtMostOnce'
  <2>1. CASE Start(r)
    BY <2>1, StartKeepsLedger DEF IInv, AtMostOnce, Start
  <2>2. CASE Replay(r) \/ ProxyAnswers(r)
    <3>1. request' = [request EXCEPT ![r] = "ended"] \/ request' = request
      BY <2>2 DEF Replay, ProxyAnswers, SpaceAnswers
    <3>2. UNCHANGED <<store, applied>>
      BY <2>2 DEF Replay, ProxyAnswers, server
    <3>3. Ledger'
      BY <3>1, <3>2, EndedKeepsLedger
    <3> QED BY <3>2, <3>3 DEF IInv, AtMostOnce
  <2>3. CASE Apply(r)
    <3>1. /\ request[r] = "started" /\ request' = [request EXCEPT ![r] = "ended"]
          /\ Remember(r[1], "done")
          /\ applied' = [applied EXCEPT ![Write(r[1])] = @ + 1]
      BY <2>3 DEF Apply, SpaceAnswers
    <3>2. Ledger'
      BY <3>1, SettledKeepsLedger
    <3>3. applied[Write(r[1])] = 0
      BY <3>1, StartedIsUnapplied
    <3>4. AtMostOnce'
      BY <1>0, <3>1, <3>3 DEF IInv, AtMostOnce
    <3> QED BY <3>2, <3>4
  <2>4. CASE Refuse(r) \/ Break(r)
    <3>1. /\ request[r] = "started" /\ request' = [request EXCEPT ![r] = "ended"]
          /\ Remember(r[1], "refused") \/ Remember(r[1], "new")
          /\ UNCHANGED applied
      BY <2>4 DEF Refuse, Break, SpaceAnswers
    <3>2. Ledger'
      BY <3>1, SettledKeepsLedger
    <3> QED BY <3>1, <3>2 DEF IInv, AtMostOnce
  <2> QED BY <1>3, <2>1, <2>2, <2>3, <2>4 DEF Serve
<1>4. CASE \/ \E c \in Calls : Cancel(c)
           \/ Healthcheck \/ Forget \/ Crash \/ Upgrade \/ UNCHANGED vars
  <2>1. UNCHANGED <<request, store, applied>>
    BY <1>4 DEF Cancel, Healthcheck, Forget, Crash, Upgrade, vars, server
  <2> QED BY <1>1, <2>1
<1> QED BY <1>2, <1>3, <1>4 DEF Next

-----------------------------------------------------------------------------
LEMMA InitTrusted ==
  ASSUME NEW S
  PROVE  Init => Trusted(S)
<1> SUFFICES ASSUME Init PROVE Trusted(S)
  OBVIOUS
<1>1. Typed
  BY InitTyped
<1>2. NeverMisled(S)
  BY DEF Init, NeverMisled, NoReply
<1>3. ASSUME NEW c \in Calls PROVE PledgedTo(c, S)
  <2>1. pc[c] = "idle" /\ ~ (attempt[c] > 0)
    BY DEF Init
  <2> QED BY <2>1 DEF PledgedTo, Deciding
<1>4. SentConfirmed(S)
  BY DEF Init, SentConfirmed
<1> QED BY <1>1, <1>2, <1>3, <1>4 DEF Trusted, Pledged

LEMMA InitIInv == Init => IInv
<1> SUFFICES ASSUME Init PROVE IInv
  OBVIOUS
<1>1. Trusted({IdempotencyKey})
  BY InitTrusted
<1>2. InTurn /\ AtMostOnce
  BY DEF Init, InTurn, AtMostOnce, Requests
<1>3. Ledger
  BY <1>1, OperationTypes DEF Init, Ledger, Trusted, Typed
<1> QED BY <1>1, <1>2, <1>3 DEF IInv

LEMMA NextIInv == IInv /\ [Next]_vars /\ [Stays({IdempotencyKey})]_vars => IInv'
<1> SUFFICES ASSUME IInv, [Next]_vars, [Stays({IdempotencyKey})]_vars PROVE IInv'
  OBVIOUS
<1>1. Stable
  BY StableStep
<1>2. Trusted({IdempotencyKey})'
  BY <1>1, TrustedStep DEF IInv, Stable
<1>3. InTurn'
  BY InTurnStep DEF IInv, Trusted
<1>4. Ledger' /\ AtMostOnce'
  BY <1>1, LedgerStep
<1> QED BY <1>2, <1>3, <1>4 DEF IInv

(* No write is applied twice, for every number of calls, retries and       *)
(* restarts, as long as Space's support of idempotency keys neither comes  *)
(* nor goes: whether it has them, and what else changes in it, is all one. *)
THEOREM AppliedAtMostOnce ==
  Spec /\ [][Stays({IdempotencyKey})]_vars => []AtMostOnce
<1>1. IInv => AtMostOnce
  BY DEF IInv
<1> QED BY <1>1, InitIInv, NextIInv, PTL DEF Spec

(* As long as Space's capabilities neither come nor go, nothing that needs *)
(* one is sent to a Space without it.                                      *)
THEOREM SentWhenConfirmed ==
  Spec /\ [][Stays(Capabilities)]_vars => []ConfirmedBeforeSending
<1>1. TypeOK /\ SentConfirmed(Capabilities) => ConfirmedBeforeSending
  <2> SUFFICES ASSUME TypeOK, SentConfirmed(Capabilities),
                      NEW r \in Requests, request[r] # "unsent"
               PROVE  Preconditions(r[1]) \subseteq space
    BY DEF ConfirmedBeforeSending
  <2>1. Preconditions(r[1]) \subseteq Capabilities
    BY OperationTypes DEF Requests, Preconditions, Capabilities, Requirements
  <2> QED BY <2>1 DEF SentConfirmed
<1>2. Trusted(Capabilities) /\ UNCHANGED vars => Trusted(Capabilities)'
  BY TrustedStep DEF Stays, vars, server
<1>3. Trusted(Capabilities) /\ [Next]_vars /\ [Stays(Capabilities)]_vars => Trusted(Capabilities)'
  BY <1>2, TrustedStep
<1>4. Trusted(Capabilities) => TypeOK /\ SentConfirmed(Capabilities)
  BY DEF Trusted, Typed
<1>5. Init => Trusted(Capabilities)
  BY InitTrusted
<1> QED BY <1>1, <1>3, <1>4, <1>5, PTL DEF Spec

-----------------------------------------------------------------------------
(***************************************************************************)
(* What a call returns says what became of its write: KeyedWrites          *)
(* implements AtMostOnceWrites, a refusal leaves nothing behind and an     *)
(* error that says nothing was written comes before anything is sent.      *)
(***************************************************************************)

(* A call that is not over has returned nothing, and one that has met no   *)
(* failure is at its first attempt.                                        *)
Begun ==
  \A c \in Calls :
    /\ pc[c] # "done" => outcome[c] = "none"
    /\ pc[c] = "idle" \/ (Deciding(c) /\ failure[c] = "none") => attempt[c] = 0

CallInv == Typed /\ InTurn /\ Begun /\ NothingWritten

-----------------------------------------------------------------------------
(* What one step does to one call.                                         *)

(* The outcome of a call is set once, when it ends: to the status of the   *)
(* answer it got, to an earlier failure, or to an error of its own.        *)
Ends(c, result) ==
  /\ result \in Results
  /\ outcome' = [outcome EXCEPT ![c] = result]
  /\ pc[c] # "done"
  /\ pc'[c] = "done"
  /\ result \in {"ok", "refused"} => reply[c].status = result
  /\ result \in {"unsupported", "badkey"} =>
       pc[c] = "idle" \/ (Deciding(c) /\ failure[c] = "none")
  /\ UNCHANGED <<attempt, request>>

(* A failure either is retried or becomes the outcome of the call.         *)
LEMMA FailGoesOnOrEnds ==
  ASSUME Typed, NEW c \in Calls, NEW status \in Results, NEW long \in BOOLEAN,
         pc[c] = "waiting", Fail(c, status, long), UNCHANGED <<attempt, request>>,
         status \notin {"ok", "unsupported", "badkey"},
         status = "refused" => reply[c].status = "refused"
  PROVE  \/ UNCHANGED outcome /\ pc'[c] = "checking" /\ failure'[c] # "none"
         \/ Ends(c, status)
<1>1. CASE Retriable(c, status, long)
  BY <1>1 DEF Fail, Retriable, Goto, Typed, TypeOK
<1>2. CASE ~ Retriable(c, status, long)
  BY <1>2 DEF Fail, Finish, Goto, Ends, Typed, TypeOK
<1> QED BY <1>1, <1>2

(* A step of a call leaves its outcome alone or ends it.                   *)
LEMMA CallGoesOnOrEnds ==
  ASSUME Typed, NEW c \in Calls, Begin(c) \/ Step(c) \/ Cancel(c)
  PROVE  UNCHANGED outcome \/ \E result \in Results : Ends(c, result)
<1> USE DEF Results, Outcomes
<1>1. CASE Begin(c)
  <2>1. CASE operation[c].explicit /\ operation[c].key = Malformed
    <3>1. Ends(c, "badkey")
      BY <1>1, <2>1 DEF Begin, Finish, Goto, Ends, Typed, TypeOK
    <3> QED BY <3>1
  <2>2. CASE ~ (operation[c].explicit /\ operation[c].key = Malformed)
    BY <1>1, <2>2 DEF Begin
  <2> QED BY <2>1, <2>2
<1>2. CASE Confirmed(c) \/ Supports(c) \/ Probe(c) \/ Send(c) \/ Wake(c)
  BY <1>2 DEF Confirmed, Supports, Probe, Send, Wake
<1>3. CASE Read(c)
  <2>1. CASE caps # Unknown /\ Asked(c) \in caps
    BY <1>3, <2>1 DEF Read
  <2>2. CASE ~ (caps # Unknown /\ Asked(c) \in caps)
    <3> DEFINE result == IF failure[c] = "none" THEN "unsupported" ELSE failure[c]
    <3>1. failure[c] \in {"none", "failed", "running", "unreachable"}
      BY DEF Typed, TypeOK
    <3>2. result \in Results /\ result \notin {"ok", "refused", "badkey"}
      BY <3>1
    <3>3. result = "unsupported" => failure[c] = "none"
      BY <3>1
    <3>4. Finish(c, result) /\ pc[c] = "reading" /\ UNCHANGED <<attempt, request>>
      BY <1>3, <2>2 DEF Read
    <3> HIDE DEF result
    <3>5. Ends(c, result)
      BY <3>2, <3>3, <3>4 DEF Finish, Goto, Ends, Deciding, Typed, TypeOK
    <3> QED BY <3>2, <3>5
  <2> QED BY <2>1, <2>2
<1>4. CASE Receive(c)
  <2>1. reply[c] \in Reply /\ pc[c] = "waiting" /\ UNCHANGED <<attempt, request>>
    BY <1>4 DEF Receive, Typed, TypeOK
  <2>2. CASE reply[c].status = "ok"
    <3>1. Ends(c, "ok")
      BY <1>4, <2>1, <2>2 DEF Receive, Finish, Goto, Ends, Typed, TypeOK
    <3> QED BY <3>1
  <2>3. CASE reply[c].status # "ok"
    <3>1. /\ Fail(c, reply[c].status, reply[c].long)
          /\ reply[c].status \in Results \ {"ok", "unsupported", "badkey"}
          /\ reply[c].long \in BOOLEAN
      BY <1>4, <2>1, <2>3 DEF Receive, Reply
    <3> QED BY <2>1, <3>1, FailGoesOnOrEnds
  <2> QED BY <2>2, <2>3
<1>5. CASE TimeOut(c)
  <2>1. /\ Fail(c, "unreachable", FALSE) /\ pc[c] = "waiting"
        /\ UNCHANGED <<attempt, request>>
    BY <1>5 DEF TimeOut
  <2> QED BY <2>1, FailGoesOnOrEnds
<1>6. CASE Cancel(c)
  <2>1. Ends(c, "cancelled")
    BY <1>6 DEF Cancel, Finish, Goto, Ends, Typed, TypeOK
  <2> QED BY <2>1
<1> QED BY <1>1, <1>2, <1>3, <1>4, <1>5, <1>6 DEF Step

(* The other steps set no outcome, but for those of a process that stops.  *)
LEMMA OthersSetNoOutcome ==
  ASSUME \/ \E r \in Requests : Serve(r)
         \/ Healthcheck \/ Forget \/ Upgrade \/ UNCHANGED vars
  PROVE  UNCHANGED <<pc, failure, attempt, outcome>>
  BY DEF Serve, Start, Replay, Apply, Refuse, Break, ProxyAnswers, Healthcheck, Forget,
         Upgrade, vars, client

-----------------------------------------------------------------------------
(* Nothing was written.                                                    *)

LEMMA BegunStep ==
  ASSUME Typed, Begun, [Next]_vars
  PROVE  Begun'
<1> USE DEF Deciding
<1> SUFFICES ASSUME NEW d \in Calls
             PROVE  /\ pc'[d] # "done" => outcome'[d] = "none"
                    /\ pc'[d] = "idle" \/ (Deciding(d)' /\ failure'[d] = "none") =>
                         attempt'[d] = 0
  BY DEF Begun
<1>0. /\ pc[d] # "done" => outcome[d] = "none"
      /\ pc[d] = "idle" \/ (Deciding(d) /\ failure[d] = "none") => attempt[d] = 0
  BY DEF Begun
<1>1. CASE \E c \in Calls : Begin(c) \/ Step(c) \/ Cancel(c)
  <2> PICK c \in Calls : Begin(c) \/ Step(c) \/ Cancel(c)
    BY <1>1
  <2>1. CASE c # d
    <3>1. UNCHANGED <<pc[d], failure[d], attempt[d]>>
      BY <2>1, OthersLeftAlone, CancelLeavesOthers DEF Typed
    <3>2. outcome'[d] = outcome[d]
      BY <2>1, CallGoesOnOrEnds DEF Ends, Typed, TypeOK
    <3> QED BY <1>0, <3>1, <3>2
  <2>2. CASE c = d /\ UNCHANGED outcome
    <3>1. pc[d] # "done"
      BY <2>2 DEF Begin, Step, Confirmed, Supports, Probe, Read, Send, Receive, TimeOut,
                  Wake, Cancel
    <3>2. pc'[d] # "idle" /\ (Deciding(d)' /\ failure'[d] = "none" =>
            /\ UNCHANGED attempt
            /\ pc[d] = "idle" \/ (Deciding(d) /\ failure[d] = "none"))
      <4>1. CASE Begin(d)
        BY <4>1 DEF Begin, Goto, Finish, Typed, TypeOK
      <4>2. CASE Confirmed(d) \/ Supports(d) \/ Probe(d) \/ Send(d) \/ Wake(d)
        BY <4>2 DEF Confirmed, Supports, Probe, Send, Wake, Goto, Typed, TypeOK
      <4>3. CASE Read(d)
        BY <4>3 DEF Read, Goto, Finish, Typed, TypeOK
      <4>4. ASSUME NEW status, NEW long, Fail(d, status, long), pc[d] = "waiting"
            PROVE  pc'[d] # "idle" /\ ~ (Deciding(d)' /\ failure'[d] = "none")
        <5>1. CASE Retriable(d, status, long)
          BY <4>4, <5>1 DEF Fail, Retriable, Goto, Typed, TypeOK
        <5>2. CASE ~ Retriable(d, status, long)
          BY <4>4, <5>2 DEF Fail, Finish, Goto, Typed, TypeOK
        <5> QED BY <5>1, <5>2
      <4>5. CASE Receive(d) \/ TimeOut(d)
        <5>1. pc[d] = "waiting"
          BY <4>5 DEF Receive, TimeOut
        <5>2. Finish(d, "ok") \/ \E status, long : Fail(d, status, long)
          BY <4>5 DEF Receive, TimeOut
        <5>3. Finish(d, "ok") => pc'[d] = "done"
          BY DEF Finish, Goto, Typed, TypeOK
        <5> QED BY <4>4, <5>1, <5>2, <5>3
      <4>6. CASE Cancel(d)
        BY <4>6 DEF Cancel, Finish, Goto, Typed, TypeOK
      <4> QED BY <2>2, <4>1, <4>2, <4>3, <4>5, <4>6 DEF Step
    <3> QED BY <1>0, <2>2, <3>1, <3>2
  <2>3. CASE c = d /\ \E result \in Results : Ends(d, result)
    BY <2>3 DEF Ends
  <2> QED BY <2>1, <2>2, <2>3, CallGoesOnOrEnds
<1>2. CASE Crash
  BY <1>0, <1>2 DEF Crash
<1>3. CASE \/ \E r \in Requests : Serve(r)
           \/ Healthcheck \/ Forget \/ Upgrade \/ UNCHANGED vars
  BY <1>0, <1>3, OthersSetNoOutcome
<1> QED BY <1>1, <1>2, <1>3 DEF Next

(* A request that was not sent stays so unless a call that is not over     *)
(* sends it.                                                               *)
LEMMA OnlyCallsSend ==
  ASSUME TypeOK, [Next]_vars, NEW c \in Calls, NEW n \in 0..Retries,
         request[<<c, n>>] = "unsent", ~ Send(c)
  PROVE  request'[<<c, n>>] = "unsent"
<1>0. <<c, n>> \in Requests
  BY DEF Requests
<1>1. CASE \E r \in Requests : Serve(r)
  <2> PICK r \in Requests : Serve(r)
    BY <1>1
  <2>1. request[r] # "unsent"
    BY DEF Serve, Start, Replay, Apply, Refuse, Break, ProxyAnswers
  <2>2. request' = request \/ \E what : request' = [request EXCEPT ![r] = what]
    BY DEF Serve, Start, Replay, Apply, Refuse, Break, ProxyAnswers, SpaceAnswers
  <2> QED BY <1>0, <2>1, <2>2 DEF TypeOK
<1>2. ASSUME NEW d \in Calls, Begin(d) \/ Step(d) \/ Cancel(d)
      PROVE  request'[<<c, n>>] = "unsent"
  <2>1. CASE Send(d)
    <3>1. d # c /\ request' = [request EXCEPT ![<<d, attempt[d]>>] = "sent"]
      BY <2>1 DEF Send
    <3> QED BY <1>0, <3>1 DEF TypeOK
  <2>2. CASE ~ Send(d)
    BY <1>2, <2>2
    DEF Begin, Step, Confirmed, Supports, Probe, Read, Receive, TimeOut, Wake, Cancel
  <2> QED BY <2>1, <2>2
<1>3. CASE Healthcheck \/ Forget \/ Crash \/ Upgrade \/ UNCHANGED vars
  BY <1>3 DEF Healthcheck, Forget, Crash, Upgrade, vars
<1> QED BY <1>1, <1>2, <1>3 DEF Next

LEMMA NothingWrittenStep ==
  ASSUME CallInv, [Next]_vars
  PROVE  NothingWritten'
<1> SUFFICES ASSUME NEW d \in Calls, NEW n \in 0..Retries,
                    outcome'[d] \in {"unsupported", "badkey"}
             PROVE  request'[<<d, n>>] = "unsent"
  BY DEF NothingWritten
<1>1. CASE outcome[d] = outcome'[d]
  <2>1. request[<<d, n>>] = "unsent"
    BY <1>1 DEF CallInv, NothingWritten
  <2>2. ~ Send(d)
    BY <1>1 DEF CallInv, Begun, Send
  <2> QED BY <2>1, <2>2, OnlyCallsSend DEF CallInv, Typed
<1>2. CASE outcome[d] # outcome'[d]
  <2>1. PICK c \in Calls : Begin(c) \/ Step(c) \/ Cancel(c)
    <3>1. ~ Crash
      BY <1>2 DEF Crash
    <3> QED BY <1>2, <3>1, OthersSetNoOutcome DEF Next
  <2>2. Ends(d, outcome'[d])
    BY <1>2, <2>1, CallGoesOnOrEnds DEF Ends, CallInv, Typed, TypeOK
  <2>3. /\ pc[d] = "idle" \/ (Deciding(d) /\ failure[d] = "none")
        /\ UNCHANGED request
    BY <2>2 DEF Ends
  <2>4. attempt[d] = 0 /\ Fresh(d)
    BY <2>3 DEF CallInv, Begun, Fresh
  <2>5. request[<<d, n>>] = "unsent"
    BY <2>4 DEF CallInv, InTurn
  <2> QED BY <2>3, <2>5
<1> QED BY <1>1, <1>2

(* An error that says nothing was written is raised before any attempt of  *)
(* its call is sent, for all constants and whatever Space is connected.    *)
THEOREM NothingWrittenBefore == Spec => []NothingWritten
<1>1. Init => CallInv
  BY InitTyped
  DEF Init, CallInv, InTurn, Begun, NothingWritten, Requests
<1>2. CallInv /\ [Next]_vars => CallInv'
  BY NextTyped, InTurnStep, BegunStep, NothingWrittenStep DEF CallInv
<1>3. CallInv => NothingWritten
  BY DEF CallInv
<1> QED BY <1>1, <1>2, <1>3, PTL DEF Spec

-----------------------------------------------------------------------------
(* What Space answers.                                                     *)

(* The write of the call was refused for good: Space remembers it of the   *)
(* key, or the one attempt without such a key is over.                     *)
Settled(c) ==
  IF Honours(c)
  THEN store[Write(c)] = "refused"
  ELSE request[<<c, 0>>] = "ended" /\ applied[Write(c)] = 0

(* An answer, and what the call makes of it, tells what Space did.         *)
Tells ==
  /\ \A w \in Writes : store[w] = "done" => applied[w] # 0
  /\ \A c \in Calls :
       /\ reply[c].status = "ok" \/ outcome[c] = "ok" => applied[Write(c)] # 0
       /\ reply[c].status = "refused" \/ outcome[c] = "refused" => Settled(c)

LEMMA AppliedStays ==
  ASSUME TypeOK, [Next]_vars, NEW w \in Writes, applied[w] # 0
  PROVE  applied'[w] # 0
<1>1. CASE \E r \in Requests : Serve(r)
  <2> PICK r \in Requests : Serve(r)
    BY <1>1
  <2>1. applied' = applied \/ applied' = [applied EXCEPT ![Write(r[1])] = @ + 1]
    BY DEF Serve, Start, Replay, Apply, Refuse, Break, ProxyAnswers, server
  <2> QED BY <2>1 DEF TypeOK
<1>2. CASE ~ \E r \in Requests : Serve(r)
  BY <1>2
  DEF Next, Begin, Step, Confirmed, Supports, Probe, Read, Send, Receive, TimeOut, Wake,
      Cancel, Healthcheck, Forget, Crash, Upgrade, vars, server
<1> QED BY <1>1, <1>2

(* A request that is over stays over.                                      *)
LEMMA EndedStays ==
  ASSUME IInv, [Next]_vars, NEW q \in Requests, request[q] = "ended"
  PROVE  request'[q] = "ended"
<1> USE DEF IInv, Trusted, Typed, TypeOK
<1>1. CASE \E r \in Requests : Serve(r)
  <2> PICK r \in Requests : Serve(r)
    BY <1>1
  <2>1. CASE Start(r)
    BY <2>1 DEF Start
  <2>2. CASE Replay(r) \/ Apply(r) \/ Refuse(r) \/ Break(r) \/ ProxyAnswers(r)
    <3>1. request' = request \/ request' = [request EXCEPT ![r] = "ended"]
      BY <2>2 DEF Replay, Apply, Refuse, Break, ProxyAnswers, SpaceAnswers
    <3> QED BY <3>1
  <2> QED BY <2>1, <2>2 DEF Serve
<1>2. ASSUME NEW c \in Calls, Send(c)
      PROVE  request'[q] = "ended"
  <2>1. request[<<c, attempt[c]>>] = "unsent"
    BY <1>2 DEF Send, Fresh, InTurn
  <2>2. request' = [request EXCEPT ![<<c, attempt[c]>>] = "sent"]
    BY <1>2 DEF Send
  <2> QED BY <2>1, <2>2
<1>3. CASE ~ (\E r \in Requests : Serve(r)) /\ ~ \E c \in Calls : Send(c)
  <2>1. UNCHANGED request
    BY <1>3
    DEF Next, Begin, Step, Confirmed, Supports, Probe, Read, Receive, TimeOut, Wake,
        Cancel, Healthcheck, Forget, Crash, Upgrade, vars
  <2> QED BY <2>1
<1> QED BY <1>1, <1>2, <1>3

(* What Space remembers of a key it refused, it does not change.           *)
LEMMA RefusedStays ==
  ASSUME IInv, [Next]_vars, NEW w \in Writes, store[w] = "refused"
  PROVE  store'[w] = "refused"
<1> USE DEF IInv, Trusted, Typed, TypeOK
<1>1. CASE \E r \in Requests : Serve(r)
  <2> PICK r \in Requests : Serve(r)
    BY <1>1
  <2>1. CASE Start(r)
    BY <2>1 DEF Start
  <2>2. CASE Replay(r) \/ ProxyAnswers(r)
    BY <2>2 DEF Replay, ProxyAnswers, server
  <2>3. CASE Apply(r) \/ Refuse(r) \/ Break(r)
    <3>1. request[r] = "started" /\ \E what : Remember(r[1], what)
      BY <2>3 DEF Apply, Refuse, Break
    <3>2. Honours(r[1]) => store[Write(r[1])] = "running"
      BY <3>1 DEF Ledger
    <3> QED BY <3>1, <3>2 DEF Remember
  <2> QED BY <2>1, <2>2, <2>3 DEF Serve
<1>2. CASE ~ \E r \in Requests : Serve(r)
  BY <1>2
  DEF Next, Begin, Step, Confirmed, Supports, Probe, Read, Send, Receive, TimeOut, Wake,
      Cancel, Healthcheck, Forget, Crash, Upgrade, vars, server
<1> QED BY <1>1, <1>2

(* A refusal is for good.                                                  *)
LEMMA SettledStays ==
  ASSUME IInv, Stable, [Next]_vars, NEW c \in Calls, Settled(c)
  PROVE  Settled(c)'
<1>0. Write(c) \in Writes /\ <<c, 0>> \in Requests
  BY OperationTypes, KeyedWritesAssumption DEF IInv, Trusted, Typed, Requests
<1>1. CASE Honours(c)
  BY <1>0, <1>1, RefusedStays, StableFacts DEF Settled
<1>2. CASE ~ Honours(c)
  <2>1. request[<<c, 0>>] = "ended" /\ applied[Write(c)] = 0
    BY <1>2 DEF Settled
  <2>2. request'[<<c, 0>>] = "ended"
    BY <1>0, <2>1, EndedStays
  <2>3. ASSUME NEW r \in Requests, Apply(r)
        PROVE  applied'[Write(c)] = 0
    <3>1. request[r] = "started" /\ applied' = [applied EXCEPT ![Write(r[1])] = @ + 1]
      BY <2>3 DEF Apply
    <3>2. Write(c) # Write(r[1])
      <4>1. CASE r[1] = c
        BY <1>2, <2>1, <3>1, <4>1, UnhonouredIsFirst
      <4>2. CASE r[1] # c
        BY <1>2, <3>1, <4>2, SharedWriteIsHonoured
      <4> QED BY <4>1, <4>2
    <3> QED BY <1>0, <2>1, <3>1, <3>2 DEF IInv, Trusted, Typed, TypeOK
  <2>4. ASSUME ~ \E r \in Requests : Apply(r)
        PROVE  applied'[Write(c)] = 0
    <3>1. UNCHANGED applied
      BY <2>4
      DEF Next, Begin, Step, Confirmed, Supports, Probe, Read, Send, Receive, TimeOut,
          Wake, Cancel, Healthcheck, Forget, Crash, Upgrade, Serve, Start, Replay, Refuse,
          Break, ProxyAnswers, vars, server
    <3> QED BY <2>1, <3>1
  <2>5. applied'[Write(c)] = 0
    BY <2>3, <2>4
  <2> QED BY <1>2, <2>2, <2>5, StableFacts DEF Settled
<1> QED BY <1>1, <1>2

(* What the step leaves of an answer to the request tells what Space did.  *)
Truthful(r) ==
  \/ UNCHANGED reply
  \/ \E answer :
       /\ reply' = [reply EXCEPT ![r[1]] = answer]
       /\ answer.status = "ok" => applied'[Write(r[1])] # 0
       /\ answer.status = "refused" => Settled(r[1])'

LEMMA AnswersTell ==
  ASSUME IInv, Tells, Stable, [Next]_vars, NEW r \in Requests, Serve(r)
  PROVE  Truthful(r)
<1>0. r[1] \in Calls /\ Write(r[1]) \in Writes
  BY OperationTypes DEF Requests, IInv, Trusted, Typed
<1>1. ASSUME NEW answer, Answer(r, answer),
             answer.status = "ok" => applied'[Write(r[1])] # 0,
             answer.status = "refused" => Settled(r[1])'
      PROVE  Truthful(r)
  BY <1>1 DEF Answer, Truthful
<1>2. ASSUME NEW status, NEW long, SpaceAnswers(r, status, long),
             status = "ok" => applied'[Write(r[1])] # 0,
             status = "refused" => Settled(r[1])'
      PROVE  Truthful(r)
  <2> DEFINE answer == [status |-> status, header |-> Header, long |-> long]
  <2>1. Answer(r, answer) /\ answer.status = status
    BY <1>2 DEF SpaceAnswers
  <2> HIDE DEF answer
  <2> QED BY <1>1, <1>2, <2>1
<1>3. CASE Start(r)
  BY <1>3 DEF Start, Truthful
<1>4. CASE Replay(r)
  <2>1. Honours(r[1]) /\ UNCHANGED applied
    BY <1>4 DEF Replay, server
  <2>2. CASE store[Write(r[1])] = "done" /\ SpaceAnswers(r, "ok", FALSE)
    BY <1>0, <1>2, <2>1, <2>2 DEF Tells
  <2>3. CASE store[Write(r[1])] = "refused" /\ SpaceAnswers(r, "refused", FALSE)
    <3>1. Settled(r[1])'
      BY <1>0, <2>1, <2>3, SettledStays DEF Settled
    <3> QED BY <1>2, <2>3, <3>1
  <2>4. CASE \E long \in BOOLEAN : SpaceAnswers(r, "running", long)
    BY <1>2, <2>4
  <2> QED BY <1>4, <2>2, <2>3, <2>4 DEF Replay
<1>5. CASE Apply(r)
  <2>1. applied' = [applied EXCEPT ![Write(r[1])] = @ + 1]
    BY <1>5 DEF Apply
  <2>2. applied'[Write(r[1])] # 0
    BY <1>0, <2>1 DEF IInv, Trusted, Typed, TypeOK
  <2>3. SpaceAnswers(r, "ok", FALSE) \/ SpaceAnswers(r, "failed", FALSE)
    BY <1>5 DEF Apply
  <2> QED BY <1>2, <2>2, <2>3
<1>6. CASE Refuse(r)
  <2>1. /\ request[r] = "started" /\ request' = [request EXCEPT ![r] = "ended"]
        /\ Remember(r[1], "refused") /\ UNCHANGED applied
        /\ SpaceAnswers(r, "refused", FALSE)
    BY <1>6 DEF Refuse, SpaceAnswers
  <2>2. Settled(r[1])'
    <3>1. CASE Honours(r[1])
      BY <1>0, <2>1, <3>1, StableFacts DEF Remember, Settled, IInv, Trusted, Typed, TypeOK
    <3>2. CASE ~ Honours(r[1])
      <4>1. r = <<r[1], 0>> /\ applied[Write(r[1])] = 0
        BY <2>1, <3>2, UnhonouredIsFirst, StartedIsUnapplied
      <4>2. request'[<<r[1], 0>>] = "ended"
        BY <2>1, <4>1 DEF IInv, Trusted, Typed, TypeOK
      <4> QED BY <2>1, <3>2, <4>1, <4>2, StableFacts, <1>0 DEF Settled
    <3> QED BY <3>1, <3>2
  <2> QED BY <1>2, <2>1, <2>2
<1>7. CASE Break(r)
  <2>1. \E long \in BOOLEAN : SpaceAnswers(r, "failed", long)
    BY <1>7 DEF Break
  <2> QED BY <1>2, <2>1
<1>8. CASE ProxyAnswers(r)
  <2>1. PICK status \in {"turnedaway", "redirected", "failed"} :
          Answer(r, [status |-> status, header |-> Unknown, long |-> FALSE])
    BY <1>8 DEF ProxyAnswers
  <2> DEFINE answer == [status |-> status, header |-> Unknown, long |-> FALSE]
  <2>2. Answer(r, answer) /\ answer.status \notin {"ok", "refused"}
    BY <2>1
  <2> HIDE DEF answer
  <2> QED BY <1>1, <2>2
<1> QED BY <1>3, <1>4, <1>5, <1>6, <1>7, <1>8 DEF Serve

LEMMA TellsStep ==
  ASSUME IInv, Tells, Stable, [Next]_vars
  PROVE  Tells'
<1> USE DEF IInv, Trusted, Typed, TypeOK
<1>1. \A w \in Writes : store'[w] = "done" => applied'[w] # 0
  <2> SUFFICES ASSUME NEW w \in Writes, store'[w] = "done"
               PROVE  applied'[w] # 0
    OBVIOUS
  <2>1. CASE store[w] = "done"
    BY <2>1, AppliedStays DEF Tells
  <2>2. CASE store[w] # "done"
    <3>1. PICK r \in Requests : Serve(r)
      <4>1. UNCHANGED store \/ \E r \in Requests : Serve(r)
        BY DEF Next, Begin, Step, Confirmed, Supports, Probe, Read, Send, Receive, TimeOut,
               Wake, Cancel, Healthcheck, Forget, Crash, Upgrade, vars, server
      <4> QED BY <2>2, <4>1
    <3>2. Apply(r) /\ w = Write(r[1])
      BY <2>2, <3>1
      DEF Serve, Start, Replay, Apply, Refuse, Break, ProxyAnswers, Remember, server
    <3> QED BY <3>2 DEF Apply
  <2> QED BY <2>1, <2>2
<1>2. ASSUME NEW c \in Calls, reply'[c].status = "ok" \/ outcome'[c] = "ok",
             reply[c].status = "ok" \/ outcome[c] = "ok"
      PROVE  applied'[Write(c)] # 0
  BY <1>2, AppliedStays, OperationTypes DEF Tells
<1>3. ASSUME NEW c \in Calls, reply[c].status = "refused" \/ outcome[c] = "refused"
      PROVE  Settled(c)'
  BY <1>3, SettledStays DEF Tells
<1>4. ASSUME NEW c \in Calls,
             /\ outcome'[c] \in {"ok", "refused"} =>
                  outcome'[c] \in {outcome[c], reply[c].status}
             /\ reply'[c].status \in {"ok", "refused"} =>
                  reply'[c].status = reply[c].status
      PROVE  /\ reply'[c].status = "ok" \/ outcome'[c] = "ok" => applied'[Write(c)] # 0
             /\ reply'[c].status = "refused" \/ outcome'[c] = "refused" => Settled(c)'
  BY <1>2, <1>3, <1>4
<1> SUFFICES ASSUME NEW c \in Calls
             PROVE  /\ reply'[c].status = "ok" \/ outcome'[c] = "ok" =>
                         applied'[Write(c)] # 0
                    /\ reply'[c].status = "refused" \/ outcome'[c] = "refused" =>
                         Settled(c)'
  BY <1>1, StableFacts DEF Tells
<1>5. CASE \E d \in Calls : Begin(d) \/ Step(d) \/ Cancel(d)
  <2> PICK d \in Calls : Begin(d) \/ Step(d) \/ Cancel(d)
    BY <1>5
  <2>1. reply' = reply \/ reply' = [reply EXCEPT ![d] = NoReply]
    BY DEF Begin, Step, Confirmed, Supports, Probe, Read, Send, Receive, TimeOut, Wake,
           Cancel
  <2>2. reply'[c].status \in {"ok", "refused"} => reply'[c].status = reply[c].status
    BY <2>1 DEF NoReply
  <2>3. outcome'[c] \in {"ok", "refused"} => outcome'[c] \in {outcome[c], reply[c].status}
    BY CallGoesOnOrEnds DEF Ends
  <2> QED BY <1>4, <2>2, <2>3
<1>6. CASE \E r \in Requests : Serve(r)
  <2> PICK r \in Requests : Serve(r)
    BY <1>6
  <2>1. UNCHANGED outcome
    BY OthersSetNoOutcome
  <2>2. CASE UNCHANGED reply[c]
    BY <1>4, <2>1, <2>2
  <2>3. CASE reply'[c] # reply[c]
    <3>1. PICK answer :
            /\ reply' = [reply EXCEPT ![r[1]] = answer]
            /\ answer.status = "ok" => applied'[Write(r[1])] # 0
            /\ answer.status = "refused" => Settled(r[1])'
      BY <2>3, AnswersTell DEF Truthful
    <3>2. r[1] = c /\ reply'[c] = answer
      BY <2>3, <3>1
    <3>3. outcome'[c] = "ok" => applied'[Write(c)] # 0
      BY <2>1, AppliedStays, OperationTypes DEF Tells
    <3>4. outcome'[c] = "refused" => Settled(c)'
      BY <1>3, <2>1
    <3> QED BY <3>1, <3>2, <3>3, <3>4
  <2> QED BY <2>2, <2>3
<1>7. CASE Crash
  <2>1. /\ reply'[c] = NoReply
        /\ outcome'[c] \in {"crashed", outcome[c]}
    BY <1>7 DEF Crash
  <2> QED BY <1>4, <2>1 DEF NoReply
<1>8. CASE Healthcheck \/ Forget \/ Upgrade \/ UNCHANGED vars
  <2>1. UNCHANGED <<reply, outcome>>
    BY <1>8 DEF Healthcheck, Forget, Upgrade, vars, client
  <2> QED BY <1>4, <2>1
<1> QED BY <1>5, <1>6, <1>7, <1>8 DEF Next

PInv == IInv /\ Begun /\ Tells

LEMMA Invariance ==
  Spec /\ [][Stays({IdempotencyKey})]_vars => []PInv
<1>1. Init => PInv
  BY InitIInv, OperationTypes
  DEF Init, PInv, Begun, Tells, NoReply, Deciding, IInv, Trusted, Typed
<1>2. PInv /\ [Next]_vars /\ [Stays({IdempotencyKey})]_vars => PInv'
  BY NextIInv, StableStep, BegunStep, TellsStep DEF PInv, IInv, Trusted, Typed
<1> QED BY <1>1, <1>2, PTL DEF Spec

(* A call that Space refused left nothing behind, and nothing of it is     *)
(* applied later, for all constants, while Space's support of keys neither *)
(* comes nor goes.                                                         *)
THEOREM RefusalsMeanNothing ==
  Spec /\ [][Stays({IdempotencyKey})]_vars => []RefusedMeansNothing
<1>1. PInv => RefusedMeansNothing
  BY DEF PInv, IInv, Tells, Settled, Ledger, RefusedMeansNothing
<1> QED BY <1>1, Invariance, PTL

(* A request is sent again only to a Space that will recognise its key,    *)
(* for all constants, while Space's support of keys neither comes nor      *)
(* goes.                                                                   *)
THEOREM RepeatsAreHonoured ==
  Spec /\ [][Stays({IdempotencyKey})]_vars => RepeatsOnlyWhenHonoured
<1> DEFINE Repeats(c) ==
      pc[c] = "sending" /\ pc'[c] = "waiting" /\ attempt[c] > 0 => Honours(c)
<1>1. PInv /\ [Next]_vars => [\A c \in Calls : Repeats(c)]_vars
  BY DEF PInv, IInv, Trusted, Pledged, PledgedTo, Honours
<1> QED BY <1>1, Invariance, PTL DEF Spec, RepeatsOnlyWhenHonoured

-----------------------------------------------------------------------------
(* The refinement.                                                         *)

LEMMA StepKeepsThePromise ==
  ASSUME PInv, Stable, [Next]_vars
  PROVE  [Promise!Next]_(Promise!vars)
<1> USE DEF PInv, IInv, Trusted
<1>0. [c \in Calls |-> Write(c)]' = [c \in Calls |-> Write(c)]
  BY StableFacts
<1>1. CASE \E c \in Calls : Begin(c) \/ Step(c) \/ Cancel(c)
  <2> PICK c \in Calls : Begin(c) \/ Step(c) \/ Cancel(c)
    BY <1>1
  <2>1. UNCHANGED applied
    BY DEF Begin, Step, Confirmed, Supports, Probe, Read, Send, Receive, TimeOut, Wake,
           Cancel, server
  <2>2. CASE UNCHANGED outcome
    BY <1>0, <2>1, <2>2 DEF Promise!vars
  <2>3. ASSUME NEW result \in Results, Ends(c, result)
        PROVE  Promise!Return(c, result)
    <3>1. outcome[c] = "none" /\ outcome' = [outcome EXCEPT ![c] = result]
      BY <2>3 DEF Ends, Begun
    <3>2. result = "ok" => applied[Write(c)] = 1
      <4>1. result = "ok" => applied[Write(c)] # 0
        BY <2>3 DEF Ends, Tells
      <4>2. applied[Write(c)] \in Nat /\ applied[Write(c)] <= 1
        BY OperationTypes DEF AtMostOnce, Typed, TypeOK
      <4> QED BY <4>1, <4>2
    <3> QED BY <1>0, <2>1, <3>1, <3>2 DEF Promise!Return
  <2> QED BY <2>2, <2>3, CallGoesOnOrEnds DEF Promise!Next
<1>2. ASSUME NEW r \in Requests, Serve(r)
      PROVE  [Promise!Next]_(Promise!vars)
  <2>1. UNCHANGED outcome
    BY <1>2, OthersSetNoOutcome
  <2>2. CASE Apply(r)
    <3>1. request[r] = "started" /\ applied' = [applied EXCEPT ![Write(r[1])] = @ + 1]
      BY <2>2 DEF Apply
    <3>2. Write(r[1]) \in Writes
      BY OperationTypes DEF Requests, Typed
    <3>3. applied[Write(r[1])] = 0
      BY <3>1, StartedIsUnapplied
    <3>4. Promise!Apply(Write(r[1]))
      BY <1>0, <2>1, <3>1, <3>3 DEF Promise!Apply
    <3> QED BY <3>2, <3>4 DEF Promise!Next
  <2>3. CASE ~ Apply(r)
    <3>1. UNCHANGED applied
      BY <1>2, <2>3 DEF Serve, Start, Replay, Refuse, Break, ProxyAnswers, server
    <3> QED BY <1>0, <2>1, <3>1 DEF Promise!vars
  <2> QED BY <2>2, <2>3
<1>3. CASE Crash
  <2> DEFINE lost == {c \in Calls : pc[c] \notin {"idle", "done"}}
  <2>1. Promise!Crash(lost)
    BY <1>0, <1>3 DEF Crash, Promise!Crash, Begun, server
  <2> QED BY <2>1 DEF Promise!Next
<1>4. CASE Healthcheck \/ Forget \/ Upgrade \/ UNCHANGED vars
  <2>1. UNCHANGED <<applied, outcome>>
    BY <1>4 DEF Healthcheck, Forget, Upgrade, vars, client, server
  <2> QED BY <1>0, <2>1 DEF Promise!vars
<1> QED BY <1>1, <1>2, <1>3, <1>4 DEF Next

(* To its callers the client is AtMostOnceWrites: each write is applied at *)
(* most once and a call that succeeds was applied, for every number of     *)
(* calls, keys, retries, restarts and cancelled tasks, while Space's       *)
(* support of keys neither comes nor goes.                                 *)
THEOREM ImplementsAtMostOnceWrites ==
  Spec /\ [][Stays({IdempotencyKey})]_vars => KeepsThePromise
<1>1. Init => Promise!Init
  BY InitIInv, OperationTypes DEF Init, Promise!Init, IInv, Trusted, Typed
<1>2. PInv /\ [Next]_vars /\ [Stays({IdempotencyKey})]_vars => [Promise!Next]_(Promise!vars)
  BY StableStep, StepKeepsThePromise DEF PInv, IInv, Trusted, Typed
<1> QED BY <1>1, <1>2, Invariance, PTL DEF Spec, KeepsThePromise, Promise!Spec
=============================================================================
