---------------------------- MODULE EventDelivery ----------------------------
(***************************************************************************)
(* What the window of recent eventIds promises to the socket handlers: an  *)
(* event is delivered unless a copy of it is still remembered, and a copy  *)
(* is remembered for Window units of time, or until MaxEntries later       *)
(* events have been delivered.  How the memory is kept is left open;       *)
(* EventIdWindow implements it.                                            *)
(***************************************************************************)
EXTENDS Naturals, Sequences

CONSTANTS
  Ids,          (* eventIds that can arrive.                               *)
  MaxEntries,   (* Events remembered at most (max_entries).                *)
  Window,       (* Time an event is remembered for (window_seconds).       *)
  MaxTime,      (* Bound on the clock.                                     *)
  MaxDelivered  (* Bound on the deliveries between two calls of clear().   *)

VARIABLES
  now,          (* The monotonic clock.                                    *)
  delivered,    (* The events delivered since the last clear(), in order.  *)
  verdict       (* What the last call answered: TRUE delivers the event.   *)

vars == <<now, delivered, verdict>>

(* A copy of the event was delivered so recently that it is remembered.    *)
Remembered(id) ==
  \E i \in DOMAIN delivered :
    /\ delivered[i].id = id
    /\ now - delivered[i].at <= Window
    /\ Len(delivered) - i < MaxEntries

Deliver(id) ==
  /\ ~ Remembered(id)
  /\ Len(delivered) < MaxDelivered
  /\ delivered' = Append(delivered, [id |-> id, at |-> now])
  /\ verdict' = TRUE
  /\ UNCHANGED now

Drop(id) ==
  /\ Remembered(id)
  /\ verdict' = FALSE
  /\ UNCHANGED <<now, delivered>>

Forget ==
  /\ delivered' = <<>>
  /\ UNCHANGED <<now, verdict>>

Tick ==
  /\ now < MaxTime
  /\ now' = now + 1
  /\ UNCHANGED <<delivered, verdict>>

Init ==
  /\ now = 0
  /\ delivered = <<>>
  /\ verdict = TRUE

Next == (\E id \in Ids : Deliver(id) \/ Drop(id)) \/ Forget \/ Tick

Spec == Init /\ [][Next]_vars
=============================================================================
