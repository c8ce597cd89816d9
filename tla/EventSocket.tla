---------------------------- MODULE EventSocket ----------------------------
(***************************************************************************)
(* The socket of a client (space_client.py, async_space_client.py,         *)
(* _base_client.py): when it is connected with which namespaces, and what  *)
(* its handlers do with the events of both.  An application calls the      *)
(* client; python-socketio reconnects, and runs each handler on a thread   *)
(* of its own (SpaceClient), or as a callback of the event loop, between   *)
(* two awaits (AsyncSpaceClient).                                          *)
(*                                                                         *)
(* Every contract event is about a user of its own, whose entries were in  *)
(* the cache.  ContractCache models the cache, EventIdWindow how eventIds  *)
(* are remembered; here they are remembered for good.                      *)
(***************************************************************************)
EXTENDS Naturals

CONSTANTS
  MaxEvents,    (* Bound on the events.                                    *)
  MaxDrops,     (* Bound on the connections that break.                    *)
  MaxCalls      (* Bound on the calls of the application.                  *)

ASSUME SocketAssumption ==
  {MaxEvents, MaxDrops, MaxCalls} \subseteq Nat

Namespaces == {"pricings", "contracts"}
Ids == 1 .. MaxEvents

VARIABLES
  threaded,         (* SpaceClient (TRUE) or AsyncSpaceClient (FALSE).     *)
  pc,               (* Where connect() is, if it runs.                     *)
  ending,           (* Where disconnect() is, if it runs.                  *)
  closed,           (* Whether close() was called, and connect(), a        *)
                    (* reconnection or a loss was midway.                  *)
  listening,        (* Whether a contract listener is registered.          *)
  advice,           (* What the asynchronous on() made of a listener that  *)
                    (* connect() has not taken in.                         *)
  socketNamespaces, (* _socket_namespaces.                                 *)
  connectedBefore,  (* _connected_before.                                  *)
  eventIds,         (* The ids in _event_ids.                              *)
  connected,        (* _socket.connected.                                  *)
  asked,            (* The namespaces the socket connects with.            *)
  joined,           (* Those Space has connected.                          *)
  greeting,         (* How many connect handlers of /contracts have not    *)
                    (* begun.                                              *)
  resyncing,        (* How many have yet to tell.                          *)
  retrying,         (* Whether python-socketio tries to reconnect.         *)
  flying,           (* Messages sent to the client.                        *)
  handling,         (* Events whose message handler is running.            *)
  emitted,          (* The events so far.                                  *)
  stale,            (* Users whose cached entries are of before an event.  *)
  failed,           (* Those whose invalidation raised.                    *)
  owed,             (* Whether contract events were lost since a resync.   *)
  silenced,         (* Whether an invalidation kept one from being told.   *)
  heard,            (* How often each event reached a listener.            *)
  drops,            (* How often the connection broke.                     *)
  calls

application == <<pc, ending, closed, listening, advice, calls>>
memory == <<connectedBefore, eventIds>>
socket == <<connected, asked, joined, greeting, retrying, flying>>
handlers == <<resyncing, handling>>
news == <<emitted, stale, failed, owed, silenced, heard>>
vars == <<threaded, application, socketNamespaces, memory, socket, handlers, news,
          drops>>

-----------------------------------------------------------------------------
(* _wanted_namespaces, _socket_is_current.                                 *)
WantedIf(listens) == IF listens THEN Namespaces ELSE {"pricings"}
Wanted == WantedIf(listening)
CurrentIf(listens) == connected /\ WantedIf(listens) \subseteq socketNamespaces
Current == CurrentIf(listening)

Unheard == \E message \in flying : message.ns = "contracts" /\ message.id \notin eventIds

(* On the event loop nothing runs between two awaits of connect(), nor     *)
(* while a handler does.                                                   *)
Turn ==
  threaded \/ (pc \in {"idle", "parting", "asking", "opening"} /\ resyncing = 0 /\ handling = {})

(* The connection ends: what was on its way is lost, with anything that    *)
(* /contracts was told before one of its connect handlers ran.  If the     *)
(* connection's own had a thread, it is still to run.  (So is the handler  *)
(* of a message that had one; it might as well have accepted the event.)   *)
Disconnected ==
  /\ connected' = FALSE
  /\ joined' = {}
  /\ \/ threaded /\ greeting' = greeting
     \/ greeting' = IF "contracts" \in joined /\ greeting > 0 THEN greeting - 1 ELSE greeting
  /\ flying' = {}
  /\ owed' = (owed \/ (connectedBefore["contracts"] /\ Unheard))
  /\ stale' = IF connectedBefore["contracts"] THEN stale ELSE {}
  /\ UNCHANGED <<asked, emitted, failed, silenced, heard>>

(* The socket is disconnected, if it is still connected.                   *)
Part == IF connected THEN Disconnected /\ UNCHANGED retrying ELSE UNCHANGED <<socket, news>>

(* A call of the application: one thread's, or a task's while another      *)
(* task's connect() or disconnect() waits.                                 *)
Call ==
  /\ Turn
  /\ (pc = "idle" /\ ending = "no") \/ ~ threaded
  /\ closed = "no"
  /\ calls < MaxCalls
  /\ calls' = calls + 1
  /\ UNCHANGED <<threaded, memory, handlers, drops>>

(* A bug: a contract listener does not make the socket connect again.      *)
OnWithoutConnecting ==
  /\ Call
  /\ listening' = TRUE
  /\ UNCHANGED <<pc, ending, closed, advice, socketNamespaces, socket, news>>

(* on() with a contract event connects if the socket was, or warns that    *)
(* someone has to.                                                         *)
On ==
  /\ Call
  /\ listening' = TRUE
  /\ \/ /\ threaded
        /\ pc' = IF socketNamespaces # {} THEN "checking" ELSE pc
        /\ UNCHANGED advice
     \/ /\ ~ threaded
        /\ advice' = IF socketNamespaces # {} /\ ~ CurrentIf(TRUE) THEN "warned"
                     ELSE IF pc = "opening" THEN "overtaken" ELSE advice
        /\ UNCHANGED pc
  /\ UNCHANGED <<ending, closed, socketNamespaces, socket, news>>

(* remove_listener() of the last contract event, remove_all_listeners().   *)
RemoveListener ==
  /\ Call
  /\ listening' = FALSE
  /\ advice' = "none"
  /\ UNCHANGED <<pc, ending, closed, socketNamespaces, socket, news>>

(* connect(), never by two tasks at once.                                  *)
Connect ==
  /\ Call
  /\ pc = "idle"
  /\ pc' = "checking"
  /\ UNCHANGED <<ending, closed, listening, advice, socketNamespaces, socket, news>>

Step(place, next) ==
  /\ pc = place
  /\ pc' = next
  /\ UNCHANGED <<threaded, ending, closed, listening, memory, handlers, drops, calls>>

(* connect() returns if the socket is as wanted.                           *)
Check ==
  /\ Step("checking", IF Current THEN "idle" ELSE "leaving")
  /\ UNCHANGED <<advice, socketNamespaces, socket, news>>

(* A namespace is added by connecting again.                               *)
Leave ==
  /\ Step("leaving", IF connected THEN "parting" ELSE "ready")
  /\ UNCHANGED <<advice, socketNamespaces, socket, news>>

Reset ==
  /\ Turn
  /\ Step("parting", "asking")
  /\ Part
  /\ UNCHANGED <<advice, socketNamespaces>>

(* A bug: the namespaces are changed although the socket stays connected.  *)
AskAnyway ==
  /\ pc = "asking" => Turn
  /\ \E place \in {"asking", "ready"} :
       Step(place, IF connected THEN "idle" ELSE "opening")
  /\ asked' = Wanted
  /\ advice' = "none"
  /\ UNCHANGED <<socketNamespaces, connected, joined, greeting, retrying, flying, news>>

(* A socket that is connected refuses to connect, which connect() ignores. *)
Ask ==
  /\ pc = "asking" => Turn
  /\ \E place \in {"asking", "ready"} :
       Step(place, IF connected THEN "idle" ELSE "opening")
  /\ asked' = IF connected THEN asked ELSE Wanted
  /\ advice' = "none"
  /\ UNCHANGED <<socketNamespaces, connected, joined, greeting, retrying, flying, news>>

(* A reconnection that is under way goes on: refused while the socket is   *)
(* connected, it connects once it is not.                                  *)
Open ==
  /\ Turn
  /\ ~ connected
  /\ Step("opening", "storing")
  /\ connected' = TRUE
  /\ UNCHANGED <<advice, socketNamespaces, asked, joined, greeting, retrying, flying, news>>

(* It may have been the first to connect.                                  *)
Refused ==
  /\ Turn
  /\ connected
  /\ Step("opening", "idle")
  /\ UNCHANGED <<advice, socketNamespaces, socket, news>>

(* Space cannot be reached: connect() ignores that too.                    *)
Fail ==
  /\ Turn
  /\ Step("opening", "idle")
  /\ UNCHANGED <<advice, socketNamespaces, socket, news>>

Store ==
  /\ Step("storing", "idle")
  /\ socketNamespaces' = asked
  /\ UNCHANGED <<advice, socket, news>>

(* A bug: a connection that is not as wanted is left open.                 *)
LeavingIfCurrent ==
  /\ Call
  /\ ending = "no"
  /\ IF Current
     THEN ending' = "disconnecting" /\ UNCHANGED socketNamespaces
     ELSE socketNamespaces' = {} /\ UNCHANGED ending
  /\ UNCHANGED <<pc, listening, advice, socket, news>>

(* disconnect(), never by two tasks at once, ends a connection that is     *)
(* open.                                                                   *)
Leaving ==
  /\ Call
  /\ ending = "no"
  /\ IF connected
     THEN ending' = "disconnecting" /\ UNCHANGED socketNamespaces
     ELSE socketNamespaces' = {} /\ UNCHANGED ending
  /\ UNCHANGED <<pc, listening, advice, socket, news>>

Disconnect == Leaving /\ UNCHANGED closed

(* The client is not used again after close().                             *)
Close == Leaving /\ closed' = IF pc = "idle" /\ ~ retrying THEN "quietly" ELSE "midway"

Ending(place, next) ==
  /\ Turn
  /\ ending = place
  /\ ending' = next
  /\ UNCHANGED <<threaded, pc, closed, listening, advice, memory, handlers, drops, calls>>

End == Ending("disconnecting", "clearing") /\ Part /\ UNCHANGED socketNamespaces

Clear ==
  /\ Ending("clearing", "no")
  /\ socketNamespaces' = {}
  /\ UNCHANGED <<socket, news>>

-----------------------------------------------------------------------------
(* The connection breaks, and python-socketio opens it again, with the     *)
(* namespaces it was opened with - unless that is what close() does then.  *)
Drop ==
  /\ Turn
  /\ connected
  /\ drops < MaxDrops
  /\ drops' = drops + 1
  /\ Disconnected
  /\ retrying' = TRUE
  /\ closed' = IF closed = "quietly" /\ ending = "disconnecting" THEN "midway" ELSE closed
  /\ UNCHANGED <<threaded, pc, ending, listening, advice, calls, socketNamespaces, memory, handlers>>

(* Nothing the client does ends that: disconnect() does not, nor does a    *)
(* connect() of the application.                                           *)
Reconnect ==
  /\ Turn
  /\ retrying /\ ~ connected
  /\ connected' = TRUE
  /\ retrying' = FALSE
  /\ UNCHANGED <<threaded, application, socketNamespaces, memory, asked, joined, greeting,
                 flying, handlers, news, drops>>

(* The connect handler of an earlier connection may still be running.      *)
Join(ns) ==
  /\ Turn
  /\ connected
  /\ ns \in asked \ joined
  /\ joined' = joined \cup {ns}
  /\ greeting' = IF ns = "contracts" THEN greeting + 1 ELSE greeting
  /\ UNCHANGED <<threaded, application, socketNamespaces, memory, connected, asked, retrying,
                 flying, handlers, news, drops>>

(* Space emits an event, of a contract perhaps on /pricings as well: it    *)
(* goes to the connections that are open.                                  *)
Emit(contract, audience) ==
  LET id == emitted + 1
      before == contract /\ connectedBefore["contracts"]
      reached == contract /\ "contracts" \in joined
  IN /\ id \in Ids
     /\ emitted' = id
     /\ flying' = flying \cup [id : {id}, contract : {contract}, ns : audience \cap joined]
     /\ owed' = (owed \/ (before /\ ~ reached))
     /\ stale' = IF before \/ reached THEN stale \cup {id} ELSE stale
     /\ UNCHANGED <<threaded, application, socketNamespaces, memory, connected, asked, joined,
                    greeting, retrying, handlers, failed, silenced, heard, drops>>

EmitPricing == Emit(FALSE, {"pricings"})
EmitContract == Emit(TRUE, {"contracts"}) \/ Emit(TRUE, Namespaces)

-----------------------------------------------------------------------------
HandlerStep == UNCHANGED <<threaded, application, socketNamespaces, connected, asked, joined,
                           retrying, emitted, drops>>

(* The connect handler of /pricings reaches its _emit_resync, unless the   *)
(* listener it calls first raises; it changes only what a later run of it  *)
(* tells.                                                                  *)
GreetPricings ==
  /\ Turn
  /\ "pricings" \in joined
  /\ connectedBefore' = [connectedBefore EXCEPT !["pricings"] = TRUE]
  /\ HandlerStep
  /\ UNCHANGED <<eventIds, greeting, resyncing, flying, handling, stale, failed, owed, silenced,
                 heard>>

(* That of /contracts invalidates all users if /contracts connected        *)
(* before, which may raise and end the handler.                            *)
Greet ==
  /\ Turn
  /\ greeting > 0
  /\ greeting' = greeting - 1
  /\ \/ /\ resyncing' = resyncing + 1
        /\ IF connectedBefore["contracts"]
           THEN stale' = {} /\ failed' = {}
           ELSE UNCHANGED <<stale, failed>>
        /\ UNCHANGED silenced
     \/ /\ connectedBefore["contracts"]
        /\ failed' = failed \cup stale
        /\ silenced' = TRUE
        /\ UNCHANGED <<resyncing, stale>>
  /\ HandlerStep
  /\ UNCHANGED <<memory, flying, handling, owed, heard>>

(* A bug: what is told of /contracts is whether /pricings connected        *)
(* before.                                                                 *)
ReconnectOfPricings(ns) == connectedBefore["pricings"]

(* ResyncInfo.reconnect.                                                   *)
ReconnectOf(ns) == connectedBefore[ns]

(* It goes on to _emit_resync, which tells the resync listener.            *)
Resync ==
  /\ resyncing > 0
  /\ resyncing' = resyncing - 1
  /\ owed' = (owed /\ ~ ReconnectOf("contracts"))
  /\ silenced' = FALSE
  /\ connectedBefore' = [connectedBefore EXCEPT !["contracts"] = TRUE]
  /\ HandlerStep
  /\ UNCHANGED <<eventIds, greeting, flying, handling, stale, failed, heard>>

(* A bug: repeats are accepted.                                            *)
AcceptedAgain(message) == TRUE

(* _accept_event: the id was not seen before, on either namespace.         *)
Accepted(message) == message.id \notin eventIds

(* A bug: a contract event uses up its id on /pricings as well.            *)
LeftAloneNever(message) == FALSE

(* Contract events are left alone on /pricings.                            *)
LeftAlone(message) == message.ns = "pricings" /\ message.contract

FirstOf(message) == IF message.ns = "contracts" THEN "invalidating" ELSE "calling"

(* A message arrives, perhaps not for the last time, and its handler runs  *)
(* up to where the event is accepted.  Threads may overtake each other.    *)
Receive(message, again) ==
  /\ Turn
  /\ threaded \/ message.ns = "pricings" \/ greeting = 0
  /\ IF ~ LeftAlone(message) /\ Accepted(message)
     THEN /\ eventIds' = eventIds \cup {message.id}
          /\ handling' = handling \cup {[id |-> message.id, ns |-> message.ns,
                                         at |-> FirstOf(message)]}
     ELSE UNCHANGED <<eventIds, handling>>
  /\ flying' = IF again THEN flying ELSE flying \ {message}
  /\ HandlerStep
  /\ UNCHANGED <<connectedBefore, greeting, resyncing, stale, failed, owed, silenced, heard>>

(* On /contracts, the user's entries go, or the cache raises and the       *)
(* handler is over.                                                        *)
Invalidate(event) ==
  /\ event.at = "invalidating"
  /\ \/ /\ handling' = (handling \ {event}) \cup {[event EXCEPT !.at = "calling"]}
        /\ stale' = stale \ {event.id}
        /\ failed' = failed \ {event.id}
     \/ /\ handling' = handling \ {event}
        /\ failed' = failed \cup ({event.id} \cap stale)
        /\ UNCHANGED stale
  /\ HandlerStep
  /\ UNCHANGED <<memory, greeting, flying, resyncing, owed, silenced, heard>>

(* The listener is called, if there is one; nothing is left to do if it    *)
(* raises.                                                                 *)
CallBack(event) ==
  /\ event.at = "calling"
  /\ handling' = handling \ {event}
  /\ heard' = IF event.ns = "pricings" \/ listening
              THEN [heard EXCEPT ![event.id] = @ + 1]
              ELSE heard
  /\ HandlerStep
  /\ UNCHANGED <<memory, greeting, flying, resyncing, stale, failed, owed, silenced>>

(* The constructor of SpaceClient calls connect().                         *)
Init ==
  /\ threaded \in BOOLEAN
  /\ pc = IF threaded THEN "checking" ELSE "idle"
  /\ ending = "no"
  /\ closed = "no"
  /\ listening = FALSE
  /\ advice = "none"
  /\ socketNamespaces = {}
  /\ connectedBefore = [ns \in Namespaces |-> FALSE]
  /\ eventIds = {}
  /\ connected = FALSE
  /\ asked = {}
  /\ joined = {}
  /\ greeting = 0
  /\ resyncing = 0
  /\ retrying = FALSE
  /\ flying = {}
  /\ handling = {}
  /\ emitted = 0
  /\ stale = {}
  /\ failed = {}
  /\ owed = FALSE
  /\ silenced = FALSE
  /\ heard = [id \in Ids |-> 0]
  /\ drops = 0
  /\ calls = 0

Application ==
  On \/ RemoveListener \/ Connect \/ Disconnect \/ Close
  \/ Check \/ Leave \/ Reset \/ Ask \/ Open \/ Refused \/ Fail \/ Store
  \/ End \/ Clear

Next ==
  \/ Application
  \/ Drop \/ Reconnect \/ EmitPricing \/ EmitContract
  \/ GreetPricings \/ Greet \/ Resync
  \/ \E ns \in Namespaces : Join(ns)
  \/ \E message \in flying, again \in BOOLEAN : Receive(message, again)
  \/ \E event \in handling : Invalidate(event) \/ CallBack(event)

Spec == Init /\ [][Next]_vars

-----------------------------------------------------------------------------
(* The variables have their types; the socket is in no namespace it did    *)
(* not connect with, and in none while it is not connected.                *)
TypeOK ==
  /\ threaded \in BOOLEAN
  /\ pc \in {"idle", "checking", "leaving", "parting", "ready", "asking", "opening", "storing"}
  /\ ending \in {"no", "disconnecting", "clearing"}
  /\ closed \in {"no", "quietly", "midway"}
  /\ listening \in BOOLEAN
  /\ advice \in {"none", "warned", "overtaken"}
  /\ socketNamespaces \subseteq Namespaces
  /\ connectedBefore \in [Namespaces -> BOOLEAN]
  /\ eventIds \subseteq Ids
  /\ connected \in BOOLEAN /\ retrying \in BOOLEAN
  /\ asked \subseteq Namespaces
  /\ joined \subseteq asked /\ (joined # {} => connected)
  /\ greeting \in Nat /\ resyncing \in Nat
  /\ flying \subseteq [id : Ids, contract : BOOLEAN, ns : joined]
  /\ handling \subseteq [id : eventIds, ns : Namespaces, at : {"invalidating", "calling"}]
  /\ emitted \in 0 .. MaxEvents
  /\ stale \subseteq Ids /\ failed \subseteq Ids
  /\ owed \in BOOLEAN /\ silenced \in BOOLEAN
  /\ heard \in [Ids -> Nat]
  /\ drops \in 0 .. MaxDrops
  /\ calls \in 0 .. MaxCalls

(* While /contracts is connected and no handler of it nor event is left to *)
(* run, the cache holds nothing of before an event that /contracts was or  *)
(* should have been told of since one of its connect handlers first ended: *)
(* neither lost connections, nor connect handlers of two connections that  *)
(* overlap, nor repeats, nor copies of the event on /pricings, nor         *)
(* listeners that raise keep an entry.  (Until one has ended, a connection *)
(* that is lost leaves entries of before what it would have told.)  Only   *)
(* an invalidation that raised itself keeps one, and only until the next   *)
(* reconnection, though its event is not accepted again.                   *)
FreshWhenQuiet ==
  /\ "contracts" \in joined /\ greeting = 0
  /\ handling = {}
  /\ ~ Unheard
  => stale \subseteq failed

(* A listener is called once for an event, whatever copies of it arrive on *)
(* whatever connections, and on however many threads at a time.            *)
HeardOnce == \A id \in Ids : heard[id] <= 1

(* On the event loop, no contract event reaches a listener before a resync *)
(* has told that earlier ones were lost - unless the cache raised when     *)
(* /contracts connected again, which ends the handler before it tells.     *)
(* (The threads of the other client's handlers may overtake each other.)   *)
LossAnnounced ==
  [][~ threaded /\ owed /\ ~ silenced => \A event \in handling :
       event.ns = "contracts" => heard'[event.id] = heard[event.id]]_vars

(* What the README says of the first contract listener: on() of the        *)
(* synchronous client disconnects and reconnects the socket to join        *)
(* /contracts, that of the asynchronous one warns that connect() has to be *)
(* called - after any calls, and unless disconnect() has emptied           *)
(* _socket_namespaces, as it also does when another task's connect()       *)
(* overtook it.  It may not have if a connection broke, and was opened     *)
(* again while on() ran, or if on() ran while another task's connect()     *)
(* waited.                                                                 *)
ListenerJoins ==
  /\ drops = 0
  /\ pc = "idle" /\ listening /\ connected /\ socketNamespaces # {}
  => "contracts" \in asked \/ (~ threaded /\ advice # "none")

(* A client stays closed that was closed while connect() did not run,      *)
(* python-socketio was not trying to reconnect - as it goes on doing after *)
(* an application has connected again - and the connection did not break   *)
(* before close() ended it: it is not connected and does not reconnect.    *)
(* Any other client may be connected ever after.                           *)
ClosedStaysClosed ==
  closed = "quietly" /\ ending = "no" => pc = "idle" /\ ~ connected /\ ~ retrying

(* What the README says: "python-socketio reconnects on its own" - a       *)
(* client that was connected and not disconnected is, or reconnects.       *)
NeverStranded ==
  pc = "idle" /\ socketNamespaces # {} => connected \/ retrying
=============================================================================
