-------------------------- MODULE EventSocketProofs --------------------------
(***************************************************************************)
(* Theorems about EventSocket, for any numbers of events, losses and calls *)
(* and for both clients: what lost, repeated and overtaken messages do to  *)
(* the cache and to the listeners, and when a socket is joined and closed. *)
(***************************************************************************)
EXTENDS EventSocket, TLAPS

LEMMA Bounds == MaxEvents \in Nat /\ MaxDrops \in Nat /\ MaxCalls \in Nat
BY SocketAssumption

USE Bounds

(* TypeOK in parts.                                                        *)
Counted ==
  /\ drops \in 0 .. MaxDrops
  /\ calls \in 0 .. MaxCalls

Places ==
  /\ pc \in {"idle", "checking", "leaving", "parting", "ready", "asking", "opening", "storing"}
  /\ ending \in {"no", "disconnecting", "clearing"}
  /\ closed \in {"no", "quietly", "midway"}
  /\ advice \in {"none", "warned", "overtaken"}

Flags ==
  /\ threaded \in BOOLEAN /\ listening \in BOOLEAN
  /\ connected \in BOOLEAN /\ retrying \in BOOLEAN
  /\ owed \in BOOLEAN /\ silenced \in BOOLEAN

Sockets ==
  /\ socketNamespaces \subseteq Namespaces
  /\ asked \subseteq Namespaces
  /\ joined \subseteq asked
  /\ greeting \in Nat /\ resyncing \in Nat
  /\ ~ connected => joined = {}
  /\ connectedBefore \in [Namespaces -> BOOLEAN]

Events ==
  /\ eventIds \subseteq Ids
  /\ flying \subseteq [id : Ids, contract : BOOLEAN, ns : joined]
  /\ handling \subseteq [id : eventIds, ns : Namespaces, at : {"invalidating", "calling"}]
  /\ emitted \in 0 .. MaxEvents
  /\ stale \subseteq Ids /\ failed \subseteq Ids
  /\ heard \in [Ids -> Nat]

Types == Counted /\ Places /\ Flags /\ Sockets /\ Events

(* An event is handled once at a time, and not after it was heard.         *)
Once ==
  /\ \A id \in Ids : heard[id] <= 1 /\ (heard[id] # 0 => id \in eventIds)
  /\ \A event \in handling : heard[event.id] = 0
  /\ \A e, f \in handling : e.id = f.id => e = f

(* Ids are given out in order, and one event is on both namespaces or on   *)
(* one.                                                                    *)
Numbered ==
  /\ eventIds \subseteq 1 .. emitted /\ stale \subseteq 1 .. emitted
  /\ \A message \in flying :
       message.id \in 1 .. emitted /\ (message.id \in stale => message.contract)

(* What will remove the entry of a user: a message on its way, the handler *)
(* of one, or the next connect handler of /contracts.                      *)
OnItsWay(id) == id \notin eventIds /\ \E message \in flying : message.id = id /\ message.ns = "contracts"

InHand(id) ==
  \E event \in handling : event.id = id /\ event.ns = "contracts" /\ event.at = "invalidating"

ToResync == ("contracts" \notin joined \/ greeting > 0) /\ connectedBefore["contracts"]

Covered == \A id \in stale \ failed : OnItsWay(id) \/ InHand(id) \/ ToResync

(* Where connect() does not await, no handler of the event loop runs; and  *)
(* one that has an event of /contracts is joined to it.                    *)
TakingTurns ==
  ~ threaded =>
    /\ pc \in {"checking", "leaving", "ready", "storing"} => handling = {} /\ resyncing = 0
    /\ \A event \in handling : event.ns = "contracts" => "contracts" \in joined

(* As long as a loss is owed, /contracts has still to tell of it.          *)
Owing ==
  /\ owed => connectedBefore["contracts"]
  /\ ~ threaded /\ owed /\ ~ silenced =>
       /\ "contracts" \in joined => greeting > 0 \/ resyncing > 0
       /\ \A event \in handling : event.ns # "contracts"

(* What connect() is doing is about what listens, or on() warned.          *)
Heeded == "contracts" \in asked \/ (~ threaded /\ advice # "none")

Joining ==
  drops = 0 =>
    /\ ~ retrying
    /\ pc \in {"asking", "ready", "opening"} => ~ connected
    /\ connected /\ pc # "storing" => socketNamespaces \subseteq asked
    /\ pc \in {"opening", "storing"} /\ listening => Heeded
    /\ pc = "idle" /\ listening /\ connected /\ socketNamespaces # {} => Heeded

-----------------------------------------------------------------------------
LEMMA AlwaysTyped == Spec => []Types
<1>1. Init => Types
  <2>1. Init => Counted
    BY DEF Init, Counted
  <2>2. Init => Flags
    BY DEF Init, Flags
  <2>3. Init => Sockets
    BY DEF Init, Sockets
  <2>4. Init => Events
    BY DEF Init, Events
  <2>5. Init => Places
    BY DEF Init, Places
  <2> QED  BY <2>1, <2>2, <2>3, <2>4, <2>5 DEF Types
<1>2. Types /\ [Next]_vars => Types'
  <2> SUFFICES ASSUME Types, [Next]_vars PROVE Types'
    OBVIOUS
  <2> USE DEF Types
  <2>1. CASE On \/ RemoveListener \/ Connect
    <3> USE <2>1 DEF On, RemoveListener, Connect, socket, news, memory, handlers
    <3>1. Call
      OBVIOUS
    <3>2. Counted'
      BY <3>1 DEF Counted, Call
    <3>3. Places'
      BY <3>1 DEF Places, Call
    <3>4. Flags'
      <4>1. CASE On
        BY <4>1 DEF Flags, Call
      <4>2. CASE RemoveListener
        BY <4>2 DEF Flags, Call
      <4>3. CASE Connect
        BY <4>3 DEF Flags, Call
      <4> QED  BY <4>1, <4>2, <4>3
    <3>5. Sockets'
      BY DEF Sockets, Call
    <3>6. Events'
      BY DEF Events, Sockets, Call
    <3> QED  BY <3>2, <3>3, <3>4, <3>5, <3>6
  <2>2. CASE Disconnect \/ Close
    <3> USE <2>2 DEF Disconnect, Close, Leaving, Call, socket, news, memory, handlers
    <3>1. Counted'
      BY DEF Counted
    <3>2. Places'
      BY DEF Places
    <3>3. Flags'
      BY DEF Flags
    <3>4. Sockets'
      BY DEF Sockets
    <3>5. Events'
      BY DEF Events, Sockets
    <3> QED  BY <3>1, <3>2, <3>3, <3>4, <3>5
  <2>3. CASE Check \/ Leave \/ Refused
    <3> USE <2>3 DEF Check, Leave, Refused, Step, socket, news, memory, handlers
    <3>1. Counted'
      BY DEF Counted
    <3>2. Places'
      BY DEF Places
    <3>3. Flags'
      <4>1. CASE Check
        BY <4>1 DEF Flags
      <4>2. CASE Leave
        BY <4>2 DEF Flags
      <4>3. CASE Refused
        BY <4>3 DEF Flags
      <4> QED  BY <4>1, <4>2, <4>3
    <3>4. Sockets'
      BY DEF Sockets
    <3>5. Events'
      BY DEF Events, Sockets
    <3> QED  BY <3>1, <3>2, <3>3, <3>4, <3>5
  <2>16. CASE Reset \/ End
    <3> USE <2>16 DEF Reset, End, Step, Ending, Part, Disconnected, socket, news, memory, handlers
    <3>1. Counted'
      BY DEF Counted
    <3>2. Places'
      BY DEF Places
    <3>3. Flags'
      BY DEF Flags
    <3>4. Sockets'
      BY DEF Sockets
    <3>5. Events'
      BY DEF Events, Sockets
    <3> QED  BY <3>1, <3>2, <3>3, <3>4, <3>5
  <2>17. CASE Clear
    <3> USE <2>17 DEF Clear, Ending, socket, news, memory, handlers
    <3>1. Counted'
      BY DEF Counted
    <3>2. Places'
      BY DEF Places
    <3>3. Flags'
      BY DEF Flags
    <3>4. Sockets'
      BY DEF Sockets
    <3>5. Events'
      BY DEF Events, Sockets
    <3> QED  BY <3>1, <3>2, <3>3, <3>4, <3>5
  <2>4. CASE Ask
    <3> USE <2>4 DEF Ask, Step, Wanted, WantedIf, Namespaces, news, memory, handlers
    <3>1. Counted'
      BY DEF Counted
    <3>2. Places'
      BY DEF Places
    <3>3. Flags'
      BY DEF Flags
    <3>4. Sockets'
      BY DEF Sockets
    <3>5. Events'
      BY DEF Events, Sockets
    <3> QED  BY <3>1, <3>2, <3>3, <3>4, <3>5
  <2>5. CASE Open \/ Fail \/ Store
    <3> USE <2>5 DEF Open, Fail, Store, Step, socket, news, memory, handlers
    <3>1. Counted'
      BY DEF Counted
    <3>2. Places'
      BY DEF Places
    <3>3. Flags'
      <4>1. CASE Open
        BY <4>1 DEF Flags
      <4>2. CASE Fail
        BY <4>2 DEF Flags
      <4>3. CASE Store
        BY <4>3 DEF Flags
      <4> QED  BY <4>1, <4>2, <4>3
    <3>4. Sockets'
      BY DEF Sockets
    <3>5. Events'
      BY DEF Events, Sockets
    <3> QED  BY <3>1, <3>2, <3>3, <3>4, <3>5
  <2>6. CASE Drop \/ Reconnect
    <3> USE <2>6 DEF Drop, Reconnect, Disconnected, application, memory, handlers, news
    <3>1. Counted'
      BY DEF Counted
    <3>2. Places'
      BY DEF Places
    <3>3. Flags'
      BY DEF Flags
    <3>4. Sockets'
      BY DEF Sockets
    <3>5. Events'
      BY DEF Events, Sockets
    <3> QED  BY <3>1, <3>2, <3>3, <3>4, <3>5
  <2> USE DEF Counted, Places, Flags, Sockets, Events
  <2>7. ASSUME NEW contract \in BOOLEAN, NEW audience \in SUBSET Namespaces, Emit(contract, audience)
         PROVE  Types'
    <3>1. flying' \subseteq [id : Ids, contract : BOOLEAN, ns : joined]
      BY <2>7 DEF Emit
    <3> QED  BY <2>7, <3>1 DEF Emit, Ids, application, memory, handlers
  <2>8. ASSUME NEW ns \in Namespaces, Join(ns) PROVE Types'
    BY <2>8 DEF Join, application, memory, handlers, news
  <2>9. CASE Greet
    <3> USE <2>9 DEF Greet, HandlerStep, application, memory
    <3>1. Counted' /\ Places'
      OBVIOUS
    <3>2. Sockets'
      OBVIOUS
    <3>3. Events'
      OBVIOUS
    <3>4. UNCHANGED <<threaded, listening, connected, retrying, owed>>
      OBVIOUS
    <3>5. silenced' = silenced \/ silenced' = TRUE
      OBVIOUS
    <3>6. Flags'
      BY <3>4, <3>5, Zenon
    <3> QED  BY <3>1, <3>2, <3>3, <3>6
  <2>10. CASE Resync \/ GreetPricings
    <3> USE <2>10 DEF Resync, GreetPricings, HandlerStep, application
    <3>1. Counted' /\ Places' /\ Events'
      OBVIOUS
    <3>2. owed' \in BOOLEAN /\ silenced' \in BOOLEAN
      BY Zenon DEF ReconnectOf
    <3>3. UNCHANGED <<threaded, listening, connected, retrying>>
      OBVIOUS
    <3>4. Flags'
      BY <3>2, <3>3, Zenon
    <3>5. Sockets'
      <4>1. CASE Resync
        <5>1. UNCHANGED <<socketNamespaces, asked, joined, greeting, connected>>
          BY <4>1
        <5>2. resyncing' \in Nat
          BY <4>1
        <5>3. connectedBefore' \in [Namespaces -> BOOLEAN]
          BY <4>1
        <5> QED  BY <5>1, <5>2, <5>3
      <4>2. CASE GreetPricings
        <5>1. UNCHANGED <<socketNamespaces, asked, joined, greeting, resyncing, connected>>
          BY <4>2
        <5>2. connectedBefore' \in [Namespaces -> BOOLEAN]
          BY <4>2
        <5> QED  BY <5>1, <5>2
      <4> QED  BY <2>10, <4>1, <4>2
    <3> QED  BY <3>1, <3>4, <3>5
  <2>11. ASSUME NEW message \in flying, NEW again \in BOOLEAN, Receive(message, again)
         PROVE  Types'
    <3>1. message.id \in Ids /\ message.ns \in Namespaces
      OBVIOUS
    <3>2. eventIds' \subseteq Ids /\ handling' \subseteq [id : eventIds', ns : Namespaces, at : {"invalidating", "calling"}]
      BY <2>11, <3>1 DEF Receive, FirstOf
    <3> QED  BY <2>11, <3>2 DEF Receive, HandlerStep, application
  <2>12. ASSUME NEW event \in handling, Invalidate(event) PROVE Types'
    <3>1. handling' \subseteq [id : eventIds, ns : Namespaces, at : {"invalidating", "calling"}]
      BY <2>12 DEF Invalidate
    <3> QED  BY <2>12, <3>1 DEF Invalidate, HandlerStep, application, memory
  <2>13. ASSUME NEW event \in handling, CallBack(event) PROVE Types'
    <3>1. event.id \in Ids
      OBVIOUS
    <3> QED  BY <2>13, <3>1 DEF CallBack, HandlerStep, application, memory
  <2>14. CASE UNCHANGED vars
    BY <2>14 DEF vars, application, memory, socket, handlers, news
  <2>15. CASE EmitPricing \/ EmitContract
    BY <2>7, <2>15 DEF EmitPricing, EmitContract, Namespaces
  <2> QED
    BY <2>1, <2>2, <2>3, <2>4, <2>5, <2>6, <2>8, <2>9, <2>10, <2>11, <2>12, <2>13, <2>14, <2>15,
       <2>16, <2>17
    DEF Next, Application
<1> QED  BY <1>1, <1>2, PTL DEF Spec

(* The variables have their types: the socket is in no namespace that it   *)
(* did not connect with, and in none while it is not connected.            *)
THEOREM TypeCorrect == Spec => []TypeOK
<1>1. Types => TypeOK
  BY DEF Types, Counted, Places, Flags, Sockets, Events, TypeOK
<1> QED  BY <1>1, AlwaysTyped, PTL

-----------------------------------------------------------------------------
(* Only message handlers touch what is remembered of events, handled and   *)
(* heard.                                                                  *)
LEMMA HandlerSteps ==
  ASSUME [Next]_vars
  PROVE  \/ UNCHANGED <<eventIds, handling, heard>>
         \/ \E message \in flying, again \in BOOLEAN : Receive(message, again)
         \/ \E event \in handling : Invalidate(event) \/ CallBack(event)
<1>1. CASE Application
  <2> USE DEF Call, Step, Ending, Leaving, Part, Disconnected, socket, news, memory, handlers
  <2>1. CASE On \/ RemoveListener \/ Connect
    BY <2>1 DEF On, RemoveListener, Connect
  <2>2. CASE Disconnect \/ Close \/ End \/ Clear
    BY <2>2 DEF Disconnect, Close, End, Clear
  <2>3. CASE Check \/ Leave \/ Reset \/ Ask
    BY <2>3 DEF Check, Leave, Reset, Ask
  <2>4. CASE Open \/ Refused \/ Fail \/ Store
    BY <2>4 DEF Open, Refused, Fail, Store
  <2> QED  BY <1>1, <2>1, <2>2, <2>3, <2>4 DEF Application
<1>2. CASE Drop \/ Reconnect
  BY <1>2 DEF Drop, Reconnect, Disconnected, news, memory, handlers
<1>3. CASE EmitPricing \/ EmitContract
  BY <1>3 DEF EmitPricing, EmitContract, Emit, memory, handlers
<1>4. ASSUME NEW ns \in Namespaces, Join(ns) PROVE UNCHANGED <<eventIds, handling, heard>>
  BY <1>4 DEF Join, news, memory, handlers
<1>6. ASSUME GreetPricings \/ Greet \/ Resync
      PROVE  UNCHANGED <<eventIds, handling, heard>>
  BY <1>6 DEF GreetPricings, Greet, Resync, HandlerStep, memory
<1>5. CASE UNCHANGED vars
  BY <1>5 DEF vars, memory, handlers, news
<1> QED  BY <1>1, <1>2, <1>3, <1>4, <1>5, <1>6 DEF Next

(* A listener is called once for an event: an id is remembered before its  *)
(* handler goes on, so that neither a copy on the other namespace nor one  *)
(* received by another thread is accepted beside it.                       *)
THEOREM EachHeardOnce == Spec => []HeardOnce
<1>1. Init => Once
  BY DEF Init, Once
<1>2. Types /\ Once /\ [Next]_vars => Once'
  <2> SUFFICES ASSUME Types, Once, [Next]_vars PROVE Once'
    OBVIOUS
  <2> USE DEF Types, Events
  <2>1. CASE UNCHANGED <<eventIds, handling, heard>>
    BY <2>1 DEF Once
  <2>2. ASSUME NEW message \in flying, NEW again \in BOOLEAN, Receive(message, again)
        PROVE  Once'
    <3>1. CASE ~ LeftAlone(message) /\ Accepted(message)
      <4>1. message.id \in Ids /\ heard[message.id] = 0
        BY <3>1 DEF Once, Accepted
      <4>2. \A event \in handling : event.id # message.id
        BY <3>1 DEF Accepted
      <4> QED  BY <2>2, <3>1, <4>1, <4>2 DEF Receive, HandlerStep, Once
    <3>2. CASE ~ (~ LeftAlone(message) /\ Accepted(message))
      BY <2>2, <3>2 DEF Receive, HandlerStep, Once
    <3> QED  BY <3>1, <3>2
  <2>3. ASSUME NEW event \in handling, Invalidate(event) PROVE Once'
    <3>1. [event EXCEPT !.at = "calling"].id = event.id
      OBVIOUS
    <3>2. \A e \in handling' : \E f \in handling : f.id = e.id /\ (e = f \/ f = event)
      BY <2>3, <3>1 DEF Invalidate
    <3>3. \A e, f \in handling' : e.id = f.id => e = f
      BY <2>3, <3>1 DEF Invalidate, Once
    <3> QED  BY <2>3, <3>2, <3>3 DEF Invalidate, HandlerStep, memory, Once
  <2>4. ASSUME NEW event \in handling, CallBack(event) PROVE Once'
    <3>1. event.id \in Ids /\ event.id \in eventIds /\ heard[event.id] = 0
      BY DEF Once
    <3>2. \A e \in handling' : e \in handling /\ e.id # event.id
      BY <2>4 DEF CallBack, Once
    <3>3. heard' \in [Ids -> Nat] /\ \A id \in Ids \ {event.id} : heard'[id] = heard[id]
      BY <2>4, <3>1 DEF CallBack
    <3>4. heard'[event.id] <= 1
      BY <2>4, <3>1 DEF CallBack
    <3>5. eventIds' = eventIds
      BY <2>4 DEF CallBack, memory
    <3> QED  BY <3>1, <3>2, <3>3, <3>4, <3>5 DEF Once
  <2> QED  BY <2>1, <2>2, <2>3, <2>4, HandlerSteps
<1>3. Once => HeardOnce
  BY DEF Once, HeardOnce
<1> QED  BY <1>1, <1>2, <1>3, AlwaysTyped, PTL DEF Spec

(* A client that was closed while nothing connects, of which the closing   *)
(* has still to end the connection or has ended it.                        *)
Closing ==
  closed = "quietly" =>
    pc = "idle" /\ ~ retrying /\ (ending # "disconnecting" => ~ connected)

(* Who is closed while nothing connects stays closed: nothing of what runs *)
(* on its own connects a client that is neither connecting nor about to.   *)
THEOREM StaysClosed == Spec => []ClosedStaysClosed
<1>1. Init => Closing
  BY DEF Init, Closing
<1>2. Closing /\ [Next]_vars => Closing'
  <2> SUFFICES ASSUME Closing, [Next]_vars PROVE Closing'
    OBVIOUS
  <2> USE DEF Closing
  <2>1. CASE Application
    <3>1. CASE On \/ RemoveListener \/ Connect
      BY <3>1 DEF On, RemoveListener, Connect, Call
    <3>2. CASE Disconnect
      BY <3>2 DEF Disconnect, Leaving, Call
    <3>3. CASE Close
      BY <3>3 DEF Close, Leaving, Call, socket
    <3>4. CASE Check \/ Leave \/ Reset \/ Ask
      BY <3>4 DEF Check, Leave, Reset, Ask, Step
    <3>5. CASE Open \/ Refused \/ Fail \/ Store
      BY <3>5 DEF Open, Refused, Fail, Store, Step
    <3>6. CASE End \/ Clear
      BY <3>6 DEF End, Clear, Ending, Part, Disconnected, socket
    <3> QED  BY <2>1, <3>1, <3>2, <3>3, <3>4, <3>5, <3>6 DEF Application
  <2>2. CASE Drop
    BY <2>2 DEF Drop, Disconnected
  <2>3. CASE Reconnect
    BY <2>3 DEF Reconnect, application
  <2>4. CASE EmitPricing \/ EmitContract
    BY <2>4 DEF EmitPricing, EmitContract, Emit, application
  <2>5. ASSUME NEW ns \in Namespaces, Join(ns) PROVE Closing'
    BY <2>5 DEF Join, application
  <2>9. CASE GreetPricings \/ Greet \/ Resync
    BY <2>9 DEF GreetPricings, Greet, Resync, HandlerStep, application
  <2>6. ASSUME NEW message \in flying, NEW again \in BOOLEAN, Receive(message, again)
        PROVE  Closing'
    BY <2>6 DEF Receive, HandlerStep, application
  <2>7. ASSUME NEW event \in handling, Invalidate(event) \/ CallBack(event)
        PROVE  Closing'
    BY <2>7 DEF Invalidate, CallBack, HandlerStep, application
  <2>8. CASE UNCHANGED vars
    BY <2>8 DEF vars, application, socket
  <2> QED  BY <2>1, <2>2, <2>3, <2>4, <2>5, <2>6, <2>7, <2>8, <2>9 DEF Next
<1>3. Closing => ClosedStaysClosed
  BY DEF Closing, ClosedStaysClosed
<1> QED  BY <1>1, <1>2, <1>3, PTL DEF Spec

-----------------------------------------------------------------------------
(* A connection that ends takes with it what was on its way.               *)
LEMMA Lost ==
  ASSUME Types, Numbered, Covered, Disconnected, UNCHANGED <<emitted, eventIds, failed, handling, connectedBefore>>
  PROVE  Numbered' /\ Covered'
<1>1. Numbered'
  BY DEF Disconnected, Numbered
<1>2. Covered'
  BY DEF Disconnected, Covered, ToResync
<1> QED  BY <1>1, <1>2

(* Nothing of the entries and the events changes.                          *)
LEMMA Same ==
  ASSUME Numbered, Covered,
         UNCHANGED <<emitted, eventIds, failed, handling, connectedBefore, joined, greeting, flying, stale>>
  PROVE  Numbered' /\ Covered'
<1>1. Numbered'
  BY DEF Numbered
<1>2. Covered'
  BY DEF Covered, OnItsWay, InHand, ToResync
<1> QED  BY <1>1, <1>2

LEMMA ApplicationCovered ==
  ASSUME Types, Numbered, Covered, Application
  PROVE  Numbered' /\ Covered'
<1> USE DEF Call, Step, Ending, socket, news, memory, handlers
<1>1. CASE On \/ RemoveListener \/ Connect \/ Disconnect \/ Close
  <2>1. UNCHANGED <<emitted, eventIds, failed, handling, connectedBefore, joined, greeting, flying, stale>>
    BY <1>1 DEF On, RemoveListener, Connect, Disconnect, Close, Leaving
  <2> QED  BY <2>1, Same
<1>2. CASE Reset \/ End
  <2>1. Part /\ UNCHANGED <<eventIds, connectedBefore, handling>>
    BY <1>2 DEF Reset, End
  <2>2. CASE connected
    BY <2>1, <2>2, Lost DEF Part, Disconnected
  <2>3. CASE ~ connected
    BY <2>1, <2>3, Same DEF Part
  <2> QED  BY <2>2, <2>3
<1>3. CASE Check \/ Leave \/ Ask \/ Clear
  <2>1. UNCHANGED <<emitted, eventIds, failed, handling, connectedBefore, joined, greeting, flying, stale>>
    BY <1>3 DEF Check, Leave, Ask, Clear
  <2> QED  BY <2>1, Same
<1>4. CASE Open \/ Refused \/ Fail \/ Store
  <2>1. UNCHANGED <<emitted, eventIds, failed, handling, connectedBefore, joined, greeting, flying, stale>>
    BY <1>4 DEF Open, Refused, Fail, Store
  <2> QED  BY <2>1, Same
<1> QED  BY <1>1, <1>2, <1>3, <1>4 DEF Application

(* An event has an id of its own; /contracts is told of it, or will be of  *)
(* its loss.                                                               *)
LEMMA EmitCovered ==
  ASSUME Types, Numbered, Covered, NEW contract \in BOOLEAN, NEW audience \in SUBSET Namespaces,
         contract => "contracts" \in audience, Emit(contract, audience)
  PROVE  Numbered' /\ Covered'
<1> USE DEF Types, Events, Sockets
<1>1. /\ emitted \in Nat /\ emitted' = emitted + 1 /\ emitted' \in Ids
      /\ UNCHANGED <<eventIds, handling, failed, joined, greeting, connectedBefore>>
  BY DEF Emit, memory, handlers, Ids
<1>2. flying' = flying \cup [id : {emitted + 1}, contract : {contract}, ns : audience \cap joined]
  BY DEF Emit
<1>3. stale' \subseteq stale \cup {emitted + 1} /\ (stale' # stale => contract)
  BY DEF Emit
<1>4. emitted + 1 \in stale' => contract
  BY <1>1, <1>3 DEF Numbered
<1>5. Numbered'
  <2>1. \A message \in flying' :
          \/ message \in flying /\ message.id \in 1 .. emitted
          \/ message.id = emitted + 1 /\ message.contract = contract
    BY <1>2 DEF Numbered
  <2>2. \A message \in flying' : message.id \in 1 .. emitted' /\ (message.id \in stale' => message.contract)
    BY <1>1, <1>3, <1>4, <2>1 DEF Numbered
  <2> QED  BY <1>1, <1>3, <2>2 DEF Numbered
<1>6. ASSUME NEW id \in stale' \ failed'
      PROVE  OnItsWay(id)' \/ InHand(id)' \/ ToResync'
  <2>1. CASE id \in stale
    BY <1>1, <1>2, <1>6, <2>1 DEF Covered, OnItsWay, InHand, ToResync
  <2>2. CASE id = emitted + 1 /\ id \notin stale
    <3>1. contract /\ id \notin eventIds
      BY <1>1, <1>6, <2>2, <1>4 DEF Numbered
    <3>2. connectedBefore["contracts"] \/ "contracts" \in joined
      BY <1>6, <2>2, <3>1 DEF Emit
    <3>3. CASE "contracts" \in joined
      <4> DEFINE message == [id |-> id, contract |-> contract, ns |-> "contracts"]
      <4>1. message \in flying'
        BY <1>2, <2>2, <3>1, <3>3
      <4> QED  BY <1>1, <3>1, <4>1 DEF OnItsWay
    <3>4. CASE "contracts" \notin joined
      BY <1>1, <3>2, <3>4 DEF ToResync
    <3> QED  BY <3>3, <3>4
  <2> QED  BY <1>3, <1>6, <2>1, <2>2
<1> QED  BY <1>5, <1>6 DEF Covered

(* A message that is taken from its way is in hand, unless it is known or  *)
(* none of the entries'.                                                   *)
LEMMA ReceiveCovered ==
  ASSUME Types, Numbered, Covered, NEW message \in flying, NEW again \in BOOLEAN,
         Receive(message, again)
  PROVE  Numbered' /\ Covered'
<1> USE DEF Types, Events, Sockets
<1>1. /\ UNCHANGED <<emitted, stale, failed, joined, greeting, connectedBefore>>
      /\ flying' \subseteq flying /\ flying \ {message} \subseteq flying'
      /\ message.id \in Ids /\ message.ns \in Namespaces
  BY DEF Receive, HandlerStep
<1>2. CASE ~ LeftAlone(message) /\ Accepted(message)
  <2> DEFINE event == [id |-> message.id, ns |-> message.ns, at |-> FirstOf(message)]
  <2>1. eventIds' = eventIds \cup {message.id} /\ handling' = handling \cup {event}
    BY <1>2 DEF Receive
  <2>2. Numbered'
    BY <1>1, <2>1 DEF Numbered
  <2>3. ASSUME NEW id \in stale \ failed
        PROVE  OnItsWay(id)' \/ InHand(id)' \/ ToResync'
    <3>1. CASE id = message.id
      <4>1. message.ns = "contracts"
        BY <1>1, <1>2, <2>3, <3>1 DEF Numbered, LeftAlone, Namespaces
      <4>2. event \in handling' /\ event.id = id /\ event.ns = "contracts" /\ event.at = "invalidating"
        BY <2>1, <3>1, <4>1 DEF FirstOf
      <4> QED  BY <4>2 DEF InHand
    <3>2. CASE id # message.id
      BY <1>1, <2>1, <2>3, <3>2 DEF Covered, OnItsWay, InHand, ToResync
    <3> QED  BY <3>1, <3>2
  <2> QED  BY <1>1, <2>2, <2>3 DEF Covered
<1>3. CASE LeftAlone(message) \/ ~ Accepted(message)
  <2>1. UNCHANGED <<eventIds, handling>>
    BY <1>3 DEF Receive
  <2>2. Numbered'
    BY <1>1, <2>1 DEF Numbered
  <2>3. \A id \in stale : OnItsWay(id) => OnItsWay(id)'
    BY <1>1, <1>3, <2>1 DEF OnItsWay, LeftAlone, Accepted
  <2> QED  BY <1>1, <2>1, <2>2, <2>3 DEF Covered, InHand, ToResync
<1> QED  BY <1>2, <1>3

LEMMA HandlingCovered ==
  ASSUME Types, Numbered, Covered, NEW event \in handling, Invalidate(event) \/ CallBack(event)
  PROVE  Numbered' /\ Covered'
<1>1. /\ UNCHANGED <<emitted, eventIds, flying, joined, greeting, connectedBefore>>
      /\ stale' \subseteq stale
      /\ stale' \ failed' \subseteq stale \ failed
  BY DEF Invalidate, CallBack, HandlerStep, memory
<1>2. Numbered'
  BY <1>1 DEF Numbered
<1>3. \A e \in handling : e \in handling' \/ e = event
  BY DEF Invalidate, CallBack
<1>4. event.at = "invalidating" => event.id \notin stale' \ failed'
  BY DEF Invalidate, CallBack
<1> QED  BY <1>1, <1>2, <1>3, <1>4 DEF Covered, OnItsWay, InHand, ToResync

(* When nothing of /contracts is on its way, nothing is left of before an  *)
(* event but what an invalidation raised on: every such entry has a        *)
(* message, a handler or a connect handler that will remove it.            *)
THEOREM QuietMeansFresh == Spec => []FreshWhenQuiet
<1>1. Init => Numbered /\ Covered
  BY DEF Init, Numbered, Covered
<1>2. Types /\ Numbered /\ Covered /\ [Next]_vars => Numbered' /\ Covered'
  <2> SUFFICES ASSUME Types, Numbered, Covered, [Next]_vars PROVE Numbered' /\ Covered'
    OBVIOUS
  <2>1. CASE Drop
    BY <2>1, Lost DEF Drop, Disconnected, memory, handlers
  <2>2. CASE Reconnect \/ UNCHANGED vars
    <3>1. UNCHANGED <<emitted, eventIds, failed, handling, connectedBefore, joined, greeting, flying, stale>>
      BY <2>2 DEF Reconnect, vars, socket, memory, handlers, news
    <3> QED  BY <3>1, Same
  <2>3. CASE EmitPricing \/ EmitContract
    BY <2>3, EmitCovered DEF EmitPricing, EmitContract, Namespaces
  <2>4. ASSUME NEW ns \in Namespaces, Join(ns) PROVE Numbered' /\ Covered'
    <3>1. /\ UNCHANGED <<emitted, eventIds, failed, handling, connectedBefore, flying, stale>>
          /\ ToResync => ToResync'
      BY <2>4 DEF Join, ToResync, Types, Sockets, memory, handlers, news
    <3>2. Numbered'
      BY <3>1 DEF Numbered
    <3> QED  BY <3>1, <3>2 DEF Covered, OnItsWay, InHand
  <2>5. CASE Greet
    <3>1. /\ UNCHANGED <<emitted, eventIds, connectedBefore, flying, handling, joined>>
          /\ stale' \subseteq stale
          /\ stale' \ failed' \subseteq stale \ failed
      BY <2>5 DEF Greet, HandlerStep, memory
    <3>2. Numbered'
      BY <3>1 DEF Numbered
    <3>3. CASE connectedBefore["contracts"]
      <4>1. stale' \ failed' = {}
        BY <2>5, <3>3 DEF Greet
      <4> QED  BY <3>2, <4>1 DEF Covered
    <3>4. CASE ~ connectedBefore["contracts"]
      BY <3>1, <3>2, <3>4 DEF Covered, OnItsWay, InHand, ToResync
    <3> QED  BY <3>3, <3>4
  <2>6. CASE Resync \/ GreetPricings
    <3>1. UNCHANGED <<emitted, eventIds, failed, handling, joined, greeting, flying, stale>>
      BY <2>6 DEF Resync, GreetPricings, HandlerStep
    <3>2. Numbered'
      BY <3>1 DEF Numbered
    <3>3. connectedBefore["contracts"] => connectedBefore'["contracts"]
      BY <2>6 DEF Resync, GreetPricings, Types, Sockets, Namespaces
    <3> QED  BY <3>1, <3>2, <3>3 DEF Covered, OnItsWay, InHand, ToResync
  <2> QED
    BY <2>1, <2>2, <2>3, <2>4, <2>5, <2>6, ApplicationCovered, ReceiveCovered, HandlingCovered
    DEF Next
<1>3. Types /\ Covered => FreshWhenQuiet
  BY DEF Covered, FreshWhenQuiet, OnItsWay, InHand, ToResync, Unheard, Types, Sockets
<1> QED  BY <1>1, <1>2, <1>3, AlwaysTyped, PTL DEF Spec

-----------------------------------------------------------------------------
LEMMA SameClient ==
  ASSUME [Next]_vars
  PROVE  threaded' = threaded
BY DEF Next, Application, On, RemoveListener, Connect, Leaving, Disconnect, Close, Call, Check, Leave,
       Reset, Ask, Open, Refused, Fail, Store, Step, End, Clear, Ending, Drop, Reconnect, EmitPricing,
       EmitContract, Emit, Join, GreetPricings, Greet, Resync, Receive, Invalidate, CallBack,
       HandlerStep, vars

(* On the event loop no handler runs where a connection may end.           *)
LEMMA TurnsTaken ==
  ASSUME Types, TakingTurns, [Next]_vars
  PROVE  TakingTurns'
<1> SUFFICES ASSUME ~ threaded, threaded' = threaded PROVE TakingTurns'
  BY SameClient DEF TakingTurns
<1> USE DEF TakingTurns
<1>1. CASE On \/ RemoveListener \/ Connect \/ Disconnect \/ Close
  BY <1>1 DEF On, RemoveListener, Connect, Disconnect, Close, Leaving, Call, Turn, socket, handlers
<1>2. CASE Reset \/ End
  <2>1. handling = {} /\ resyncing = 0 /\ UNCHANGED <<handling, resyncing>>
    BY <1>2 DEF Reset, End, Step, Ending, Turn, handlers
  <2> QED  BY <2>1
<1>3. CASE Check \/ Ask \/ Store
  BY <1>3 DEF Check, Ask, Store, Step, socket, handlers
<1>4. CASE Leave
  BY <1>4 DEF Leave, Step, socket, handlers
<1>5. CASE Open \/ Refused \/ Fail \/ Clear
  BY <1>5 DEF Open, Refused, Fail, Step, Clear, Ending, Turn, socket, handlers
<1>6. CASE Drop
  BY <1>6 DEF Drop, Turn, handlers
<1>7. CASE Reconnect \/ UNCHANGED vars
  BY <1>7 DEF Reconnect, application, vars, socket, handlers
<1>8. CASE EmitPricing \/ EmitContract
  BY <1>8 DEF EmitPricing, EmitContract, Emit, application, handlers
<1>9. ASSUME NEW ns \in Namespaces, Join(ns) PROVE TakingTurns'
  BY <1>9 DEF Join, application, handlers
<1>10. CASE Greet
  BY <1>10 DEF Greet, Turn, HandlerStep, application
<1>11. CASE Resync \/ GreetPricings
  BY <1>11 DEF Resync, GreetPricings, HandlerStep, application, Types, Sockets
<1>12. ASSUME NEW message \in flying, NEW again \in BOOLEAN, Receive(message, again)
       PROVE  TakingTurns'
  <2>1. message.ns \in joined
    BY DEF Types, Events
  <2>2. UNCHANGED <<pc, joined, resyncing>> /\ pc \in {"idle", "parting", "asking", "opening"}
    BY <1>12 DEF Receive, Turn, HandlerStep, application
  <2>3. \A event \in handling' : event.ns = message.ns
    BY <1>12 DEF Receive, Turn
  <2> QED  BY <2>1, <2>2, <2>3
<1>13. ASSUME NEW event \in handling, Invalidate(event) \/ CallBack(event) PROVE TakingTurns'
  <2>1. UNCHANGED <<pc, joined, resyncing>>
    BY <1>13 DEF Invalidate, CallBack, HandlerStep, application
  <2>2. \A e \in handling' : \E f \in handling : f.ns = e.ns
    BY <1>13 DEF Invalidate, CallBack, Types, Events
  <2> QED  BY <2>1, <2>2
<1> QED
  BY <1>1, <1>2, <1>3, <1>4, <1>5, <1>6, <1>7, <1>8, <1>9, <1>10, <1>11, <1>12, <1>13
  DEF Next, Application

(* A connection that ends leaves no handler of /contracts on the loop.     *)
LEMMA LossOwed ==
  ASSUME Types, Owing, Disconnected, handling' = handling, silenced' = silenced, threaded' = threaded,
         connectedBefore' = connectedBefore, ~ threaded => handling = {}
  PROVE  Owing'
BY DEF Disconnected, Owing

LEMMA OwedApplication ==
  ASSUME Types, TakingTurns, Owing, Application, threaded' = threaded
  PROVE  Owing'
<1> USE DEF Step, Ending, socket, news, memory, handlers
<1>1. CASE On \/ RemoveListener \/ Connect \/ Disconnect \/ Close
  <2>1. UNCHANGED <<owed, silenced, connectedBefore, joined, greeting, resyncing, handling>>
    BY <1>1 DEF On, RemoveListener, Connect, Disconnect, Close, Leaving, Call
  <2> QED  BY <2>1 DEF Owing
<1>2. CASE Reset \/ End
  <2>1. Part /\ UNCHANGED <<handling, resyncing, connectedBefore>> /\ (~ threaded => handling = {})
    BY <1>2 DEF Reset, End, Turn
  <2>2. CASE connected
    BY <2>1, <2>2, LossOwed DEF Part, Disconnected
  <2>3. CASE ~ connected
    <3>1. UNCHANGED <<owed, silenced, joined, greeting>>
      BY <2>1, <2>3 DEF Part
    <3> QED  BY <2>1, <3>1 DEF Owing
  <2> QED  BY <2>2, <2>3
<1>3. CASE Check \/ Leave \/ Ask \/ Open \/ Refused \/ Fail \/ Store \/ Clear
  <2>1. UNCHANGED <<owed, silenced, connectedBefore, joined, greeting, resyncing, handling>>
    BY <1>3 DEF Check, Leave, Ask, Open, Refused, Fail, Store, Clear
  <2> QED  BY <2>1 DEF Owing
<1> QED  BY <1>1, <1>2, <1>3 DEF Application

(* On the event loop, listeners hear of no contract event while a loss has *)
(* still to be told: from the connection that broke to the resync of       *)
(* /contracts nothing of it is received, and nothing was in hand.          *)
THEOREM LossesAnnounced == Spec => LossAnnounced
<1>1. Init => TakingTurns /\ Owing
  BY DEF Init, TakingTurns, Owing
<1>2. Types /\ TakingTurns /\ Owing /\ [Next]_vars => TakingTurns' /\ Owing'
  <2> SUFFICES ASSUME Types, TakingTurns, Owing, [Next]_vars PROVE Owing'
    BY TurnsTaken
  <2>1. threaded' = threaded
    BY SameClient
  <2>2. CASE Application
    BY <2>1, <2>2, OwedApplication
  <2>3. CASE Drop
    BY <2>1, <2>3, LossOwed DEF Drop, Disconnected, Turn, handlers, memory
  <2>4. CASE Reconnect \/ UNCHANGED vars
    <3>1. UNCHANGED <<owed, silenced, connectedBefore, joined, greeting, resyncing, handling>>
      BY <2>4 DEF Reconnect, vars, socket, memory, handlers, news
    <3> QED  BY <2>1, <3>1 DEF Owing
  <2>5. CASE EmitPricing \/ EmitContract
    <3>1. /\ UNCHANGED <<silenced, connectedBefore, joined, greeting, resyncing, handling>>
          /\ owed' => owed \/ (connectedBefore["contracts"] /\ "contracts" \notin joined)
      BY <2>5 DEF EmitPricing, EmitContract, Emit, memory, handlers
    <3>2. ~ threaded /\ "contracts" \notin joined => \A event \in handling : event.ns # "contracts"
      BY DEF TakingTurns
    <3> QED  BY <2>1, <3>1, <3>2 DEF Owing
  <2>6. ASSUME NEW ns \in Namespaces, Join(ns) PROVE Owing'
    <3>1. /\ UNCHANGED <<owed, silenced, connectedBefore, resyncing, handling>>
          /\ joined' = joined \cup {ns}
          /\ greeting' = IF ns = "contracts" THEN greeting + 1 ELSE greeting
      BY <2>6 DEF Join, memory, handlers, news
    <3> QED  BY <2>1, <3>1 DEF Owing, Types, Sockets
  <2>7. CASE Greet
    <3>1. UNCHANGED <<owed, connectedBefore, joined, handling>>
      BY <2>7 DEF Greet, HandlerStep, memory
    <3>2. CASE resyncing' = resyncing + 1 /\ silenced' = silenced
      BY <2>1, <3>1, <3>2 DEF Owing, Types, Sockets
    <3>3. CASE silenced' = TRUE
      BY <2>1, <3>1, <3>3 DEF Owing
    <3> QED  BY <2>7, <3>2, <3>3 DEF Greet
  <2>8. CASE Resync
    <3>1. ~ owed'
      BY <2>8 DEF Resync, ReconnectOf, Owing
    <3> QED  BY <3>1 DEF Owing
  <2>11. CASE GreetPricings
    <3>1. UNCHANGED <<owed, silenced, joined, greeting, resyncing, handling>>
      BY <2>11 DEF GreetPricings, HandlerStep
    <3>2. connectedBefore["contracts"] => connectedBefore'["contracts"]
      BY <2>11 DEF GreetPricings, Types, Sockets, Namespaces
    <3> QED  BY <2>1, <3>1, <3>2 DEF Owing
  <2>9. ASSUME NEW message \in flying, NEW again \in BOOLEAN, Receive(message, again)
        PROVE  Owing'
    <3>1. UNCHANGED <<owed, silenced, connectedBefore, joined, greeting, resyncing>>
      BY <2>9 DEF Receive, HandlerStep
    <3>2. ASSUME ~ threaded, owed, ~ silenced PROVE message.ns # "contracts"
      <4>1. message.ns \in joined /\ resyncing = 0 /\ (message.ns = "pricings" \/ greeting = 0)
        BY <2>9, <3>2 DEF Receive, Turn, Types, Events
      <4> QED  BY <3>2, <4>1 DEF Owing
    <3>3. \A event \in handling' : event \in handling \/ event.ns = message.ns
      BY <2>9 DEF Receive
    <3> QED  BY <2>1, <3>1, <3>2, <3>3 DEF Owing
  <2>10. ASSUME NEW event \in handling, Invalidate(event) \/ CallBack(event) PROVE Owing'
    <3>1. UNCHANGED <<owed, silenced, connectedBefore, joined, greeting, resyncing>>
      BY <2>10 DEF Invalidate, CallBack, HandlerStep, memory
    <3>2. \A e \in handling' : \E f \in handling : f.ns = e.ns
      BY <2>10 DEF Invalidate, CallBack, Types, Events
    <3> QED  BY <2>1, <3>1, <3>2 DEF Owing
  <2> QED  BY <2>2, <2>3, <2>4, <2>5, <2>6, <2>7, <2>8, <2>9, <2>10, <2>11 DEF Next
<1>3. Owing => (~ threaded /\ owed /\ ~ silenced =>
                  \A event \in handling : event.ns = "contracts" => heard'[event.id] = heard[event.id])
  BY DEF Owing
<1> QED  BY <1>1, <1>2, <1>3, AlwaysTyped, PTL DEF Spec, LossAnnounced

-----------------------------------------------------------------------------
(* Steps of Space and of the handlers leave alone what connect() decides.  *)
LEMMA SameConnection ==
  ASSUME Joining,
         UNCHANGED <<threaded, application, socketNamespaces, connected, asked, retrying, drops>>
  PROVE  Joining'
BY DEF Joining, Heeded, application

(* Nothing reconnects unless a connection broke.                           *)
LEMMA CallJoining ==
  ASSUME Types, Joining, drops = 0, On \/ RemoveListener \/ Connect \/ Disconnect \/ Close
  PROVE  Joining'
<1> USE DEF Types, Flags, Sockets, Joining
<1>1. threaded' = threaded /\ retrying' = retrying /\ asked' = asked
  BY DEF On, RemoveListener, Connect, Disconnect, Close, Leaving, Call, socket
<1>2. CASE On
  <2>1. UNCHANGED <<connected, socketNamespaces, asked>> /\ listening' = TRUE
    BY <1>2 DEF On, socket
  <2>2. CASE threaded
    <3>1. pc = "idle" /\ pc' = IF socketNamespaces # {} THEN "checking" ELSE pc
      BY <1>2, <2>2 DEF On, Call
    <3> QED  BY <1>1, <2>1, <2>2, <3>1
  <2>3. CASE ~ threaded
    <3>1. pc' = pc /\ pc \in {"idle", "parting", "asking", "opening"}
      BY <1>2, <2>3 DEF On, Call, Turn
    <3>2. socketNamespaces # {} /\ ~ CurrentIf(TRUE) => advice' = "warned"
      BY <1>2, <2>3 DEF On
    <3>3. socketNamespaces = {} /\ pc = "opening" => advice' = "overtaken"
      BY <1>2, <2>3 DEF On
    <3>4. CurrentIf(TRUE) => "contracts" \in socketNamespaces /\ connected
      BY DEF CurrentIf, WantedIf, Namespaces
    <3>5. pc = "opening" => Heeded'
      BY <1>1, <2>1, <2>3, <3>2, <3>3, <3>4 DEF Heeded
    <3>6. pc = "idle" /\ connected /\ socketNamespaces # {} => Heeded'
      BY <1>1, <2>1, <2>3, <3>2, <3>4 DEF Heeded
    <3> QED  BY <1>1, <2>1, <3>1, <3>5, <3>6
  <2> QED  BY <2>2, <2>3
<1>3. CASE RemoveListener
  BY <1>1, <1>3 DEF RemoveListener, socket
<1>4. CASE Connect
  BY <1>1, <1>4 DEF Connect, socket
<1>5. CASE Disconnect \/ Close
  <2>1. /\ UNCHANGED <<pc, listening, advice, connected>>
        /\ socketNamespaces' = socketNamespaces \/ (socketNamespaces' = {} /\ ~ connected')
    BY <1>5 DEF Disconnect, Close, Leaving, socket
  <2> QED  BY <1>1, <2>1 DEF Heeded
<1> QED  BY <1>2, <1>3, <1>4, <1>5

LEMMA ConnectJoining ==
  ASSUME Types, Joining, drops = 0,
         Check \/ Leave \/ Reset \/ Ask \/ Open \/ Refused \/ Fail \/ Store \/ End \/ Clear
  PROVE  Joining'
<1> USE DEF Types, Flags, Sockets, Joining, Step
<1>1. threaded' = threaded /\ listening' = listening
  BY DEF Check, Leave, Reset, Ask, Open, Refused, Fail, Store, End, Clear, Ending
<1>2. CASE Check
  <2>1. UNCHANGED <<connected, socketNamespaces, asked, retrying, advice>>
    BY <1>2 DEF Check, socket
  <2>2. pc = "checking" /\ pc' \in {"idle", "leaving"} /\ (pc' = "idle" => Current)
    BY <1>2 DEF Check
  <2>3. pc' = "idle" /\ listening => "contracts" \in asked
    BY <2>2 DEF Current, CurrentIf, WantedIf, Namespaces
  <2> QED  BY <1>1, <2>1, <2>2, <2>3 DEF Heeded
<1>3. CASE Leave \/ Reset
  <2>1. /\ retrying' = retrying /\ socketNamespaces' = socketNamespaces /\ asked' = asked
        /\ \/ connected' /\ connected /\ pc' = "parting"
           \/ ~ connected' /\ pc' \in {"asking", "ready"}
    BY <1>3 DEF Leave, Reset, Part, Disconnected, socket
  <2>2. pc # "storing"
    BY <1>3 DEF Leave, Reset
  <2> QED  BY <2>1, <2>2
<1>4. CASE Ask
  <2>1. ~ connected /\ UNCHANGED <<connected, retrying>> /\ pc' = "opening" /\ asked' = Wanted
    BY <1>4 DEF Ask
  <2> QED  BY <1>1, <2>1 DEF Heeded, Wanted, WantedIf, Namespaces
<1>5. CASE Open
  <2>1. UNCHANGED <<asked, advice, retrying>> /\ pc = "opening" /\ pc' = "storing"
    BY <1>5 DEF Open
  <2> QED  BY <1>1, <2>1 DEF Heeded
<1>6. CASE Fail \/ Refused
  <2>1. UNCHANGED <<connected, retrying>> /\ pc = "opening" /\ pc' = "idle"
    BY <1>6 DEF Fail, Refused, socket
  <2> QED  BY <2>1
<1>7. CASE Store
  <2>1. /\ UNCHANGED <<connected, retrying, asked, advice>>
        /\ pc = "storing" /\ pc' = "idle" /\ socketNamespaces' = asked
    BY <1>7 DEF Store, socket
  <2> QED  BY <1>1, <2>1 DEF Heeded
<1>8. CASE End
  <2>1. /\ UNCHANGED <<pc, advice, retrying, asked, socketNamespaces>>
        /\ ~ connected'
    BY <1>8 DEF End, Ending, Part, Disconnected, socket
  <2> QED  BY <1>1, <2>1 DEF Heeded
<1>9. CASE Clear
  <2>1. /\ UNCHANGED <<pc, advice, retrying, asked, connected>>
        /\ socketNamespaces' = {}
    BY <1>9 DEF Clear, Ending, socket
  <2> QED  BY <1>1, <2>1 DEF Heeded
<1> QED  BY <1>2, <1>3, <1>4, <1>5, <1>6, <1>7, <1>8, <1>9

(* As long as no connection broke, a contract listener is joined to        *)
(* /contracts or was told that it is not: on() connects again, or warns,   *)
(* or finds a connect() that it warns of in its place.                     *)
THEOREM ListenersJoin == Spec => []ListenerJoins
<1>1. Init => Joining
  BY DEF Init, Joining
<1>2. Types /\ Joining /\ [Next]_vars => Joining'
  <2> SUFFICES ASSUME Types, Joining, [Next]_vars PROVE Joining'
    OBVIOUS
  <2>1. drops' = 0 => drops = 0 /\ ~ Drop
    <3>1. drops \in Nat
      BY DEF Types, Counted
    <3>2. Drop => drops' = drops + 1
      BY DEF Drop
    <3>3. drops' = drops \/ Drop
      BY DEF Next, Application, On, RemoveListener, Connect, Leaving, Disconnect, Close, Call, Check,
             Leave, Reset, Ask, Open, Refused, Fail, Store, Step, End, Clear, Ending, Reconnect,
             EmitPricing, EmitContract, Emit, Join, GreetPricings, Greet, Resync, Receive, Invalidate,
             CallBack, HandlerStep, vars
    <3> QED  BY <3>1, <3>2, <3>3
  <2> SUFFICES ASSUME drops' = 0, drops = 0, ~ Drop PROVE Joining'
    BY <2>1 DEF Joining
  <2>2. CASE Application
    BY <2>2, CallJoining, ConnectJoining DEF Application
  <2>3. ~ Reconnect
    BY DEF Reconnect, Joining
  <2>4. CASE EmitPricing \/ EmitContract
    BY <2>4, SameConnection DEF EmitPricing, EmitContract, Emit
  <2>5. ASSUME NEW ns \in Namespaces, Join(ns) PROVE Joining'
    BY <2>5, SameConnection DEF Join
  <2>6. CASE GreetPricings \/ Greet \/ Resync
    BY <2>6, SameConnection DEF GreetPricings, Greet, Resync, HandlerStep
  <2>7. ASSUME NEW message \in flying, NEW again \in BOOLEAN, Receive(message, again)
        PROVE  Joining'
    BY <2>7, SameConnection DEF Receive, HandlerStep
  <2>8. ASSUME NEW event \in handling, Invalidate(event) \/ CallBack(event) PROVE Joining'
    BY <2>8, SameConnection DEF Invalidate, CallBack, HandlerStep
  <2>9. CASE UNCHANGED vars
    BY <2>9, SameConnection DEF vars, socket
  <2> QED  BY <2>2, <2>3, <2>4, <2>5, <2>6, <2>7, <2>8, <2>9 DEF Next
<1>3. Joining => ListenerJoins
  BY DEF Joining, ListenerJoins, Heeded
<1> QED  BY <1>1, <1>2, <1>3, AlwaysTyped, PTL DEF Spec
=============================================================================
