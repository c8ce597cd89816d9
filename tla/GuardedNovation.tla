-------------------------- MODULE GuardedNovation --------------------------
(***************************************************************************)
(* Novations of one contract that ask for guarantees (_operations.py): an  *)
(* expected version, the billing period kept, private plans rejected.  The *)
(* client asks whether Space has the feature before it writes, and looks   *)
(* for signs that it was ignored afterwards, while other clients write the *)
(* contract and Space is upgraded or rolled back.                          *)
(*                                                                         *)
(* No call retries (retries is 0, the default): KeyedWrites models that.   *)
(* What these calls do to the cache is in ContractCache.                   *)
(***************************************************************************)
EXTENDS Integers

CONSTANTS
  Callers,      (* Threads or tasks, each of which makes one call.         *)
  None,
  Releases,     (* The features of the Spaces that may be connected.       *)
  MaxVersion,   (* Bound on the versions of the contract.                  *)
  MaxSwitches   (* Bound on the upgrades and roll-backs of Space.          *)

(* The capabilities guarded novations ask for, and options of the calls.   *)
Guards == {"contract-version", "keep-billing-period", "reject-private"}

(* A call: the version None stands for one the caller never knew.          *)
Calls ==
  [preview : BOOLEAN, options : SUBSET Guards, expected : (1 .. MaxVersion) \cup {None},
   private : BOOLEAN]

(* What Space answers, and what it did with a write.                       *)
Answers ==
  [verdict : {"read", "changed", "refused", "written"}, tags : SUBSET Guards, at : Nat,
   period : Nat, previous : Nat \cup {None}, etag : Nat \cup {None}]
Writes == [over : Nat, honoured : SUBSET Guards, at : Nat]

ASSUME NovationAssumption ==
  /\ Releases \subseteq SUBSET Guards /\ Releases # {}
  /\ MaxVersion \in Nat \ {0} /\ MaxSwitches \in Nat
  /\ None \notin Int \cup Calls \cup Answers \cup Writes

VARIABLES
  threaded,     (* Whether it is a SpaceClient, or an AsyncSpaceClient.     *)
  contract,     (* At Space: its version and the start of its period.      *)
  release,      (* The features of the connected Space.                    *)
  switches,     (* How often that changed.                                 *)
  caps,         (* _capabilities, None when unknown or out of date.        *)
  other,        (* The answer to another call of the client, on its way.   *)
  pc,
  call,         (* The arguments of each call.                             *)
  before,       (* The period the probe found.                             *)
  flight,       (* The answer on its way.                                  *)
  basis,        (* History: when Space told what the check relied on.      *)
  written,      (* History: what Space did with the call's write.          *)
  result        (* How the last call that ended did.                       *)

space == <<contract, release, switches>>
local == <<call, before, flight, basis, written>>
vars == <<threaded, space, caps, other, pc, local, result>>

Goto(c, place) == pc' = [pc EXCEPT ![c] = place]

(* Call w returns or raises, and its local variables are gone.             *)
End(c, w, how) ==
  /\ Goto(c, "done")
  /\ result' = [how |-> how, call |-> w, written |-> written[c], basis |-> basis[c],
                tags |-> IF flight[c] = None THEN {} ELSE flight[c].tags]
  /\ call' = [call EXCEPT ![c] = None]
  /\ before' = [before EXCEPT ![c] = None]
  /\ flight' = [flight EXCEPT ![c] = None]
  /\ basis' = [basis EXCEPT ![c] = None]
  /\ written' = [written EXCEPT ![c] = None]

(* The arguments that differ, a version being one the contract has had.    *)
Sensible(w) ==
  IF "contract-version" \in w.options
  THEN ~ w.preview /\ (w.private => "reject-private" \in w.options)
       /\ w.expected \in {None} \cup (1 .. contract.version)
  ELSE w.expected = None /\ (w.private => "reject-private" \in w.options)

-----------------------------------------------------------------------------
(* A bug: reject_private is sent, but not asked for before.                *)
RequiredWithoutPrivate(w) == w.options \ {"reject-private"}

(* The capabilities to confirm before writing.                             *)
Required(w) == w.options

(* A bug: the answer to the probe is taken for the one to the write.       *)
ProceedStale(c, w, place, period, at) ==
  /\ Goto(c, place)
  /\ call' = [call EXCEPT ![c] = w]
  /\ before' = [before EXCEPT ![c] = period]
  /\ basis' = [basis EXCEPT ![c] = at]
  /\ UNCHANGED <<flight, written, result>>

(* Call w sends its next request.                                          *)
Proceed(c, w, place, period, at) ==
  /\ Goto(c, place)
  /\ call' = [call EXCEPT ![c] = w]
  /\ before' = [before EXCEPT ![c] = period]
  /\ flight' = [flight EXCEPT ![c] = None]
  /\ basis' = [basis EXCEPT ![c] = at]
  /\ UNCHANGED <<written, result>>

(* The write is sent if Space has the features, as far as is known.        *)
Confirm(c, w, period) ==
  IF caps # None /\ Required(w) \subseteq caps.tags
  THEN Proceed(c, w, "writing", period, caps.at)
  ELSE End(c, w, "unsupported")

(* An expected version that was never known is refused.                    *)
Empty(w) == "contract-version" \in w.options /\ w.expected = None

(* Between an answer and what is made of it, a task does not await.        *)
MayInterleave == threaded \/ \A c \in Callers : pc[c] # "parsing"

(* A preview, or a novation without options, is sent at once.              *)
Begin(c, w) ==
  /\ MayInterleave
  /\ pc[c] = "idle"
  /\ Sensible(w)
  /\ CASE Empty(w) -> End(c, w, "invalid")
       [] w.preview -> Proceed(c, w, "previewing", None, None)
       [] ~ w.preview /\ Required(w) = {} -> Proceed(c, w, "writing", None, None)
       [] OTHER -> IF caps = None
                   THEN Proceed(c, w, "probing", None, None)
                   ELSE Confirm(c, w, None)
  /\ UNCHANGED <<threaded, space, caps, other>>

-----------------------------------------------------------------------------
(* Space answers with its capabilities, and with the version as an ETag if *)
(* it has versions.                                                        *)
Answer(verdict, version, period, previous) ==
  [verdict |-> verdict, tags |-> release, at |-> switches, period |-> period,
   previous |-> previous,
   etag |-> IF "contract-version" \in release THEN version ELSE None]

ServeRead(c) ==
  /\ pc[c] \in {"probing", "previewing"}
  /\ flight[c] = None
  /\ flight' = [flight EXCEPT ![c] = Answer("read", contract.version, contract.period, None)]
  /\ UNCHANGED <<threaded, space, caps, other, pc, call, before, basis, written,
                 result>>

Honoured(c) == call[c].options \cap release

(* Space refuses the novation, for one of the options that it knows.       *)
ServeRefusal(c) ==
  /\ pc[c] = "writing"
  /\ flight[c] = None
  /\ \/ /\ "contract-version" \in Honoured(c) /\ call[c].expected # contract.version
        /\ flight' = [flight EXCEPT ![c] = Answer("changed", contract.version, contract.period, None)]
     \/ /\ "reject-private" \in Honoured(c) /\ call[c].private
        /\ flight' = [flight EXCEPT ![c] = Answer("refused", contract.version, contract.period, None)]
  /\ UNCHANGED <<threaded, space, caps, other, pc, call, before, basis, written,
                 result>>

(* Space writes the novation, which restarts the period unless it is asked *)
(* to keep it and knows how, and answers with both periods.                *)
ServeWrite(c) ==
  /\ pc[c] = "writing"
  /\ flight[c] = None
  /\ contract.version < MaxVersion
  /\ "contract-version" \in Honoured(c) => call[c].expected = contract.version
  /\ ~ ("reject-private" \in Honoured(c) /\ call[c].private)
  /\ LET kept == "keep-billing-period" \in Honoured(c)
         version == contract.version + 1
         period == IF kept THEN contract.period ELSE version
     IN /\ contract' = [version |-> version, period |-> period]
        /\ flight' = [flight EXCEPT ![c] = Answer("written", version, period, contract.period)]
        /\ written' = [written EXCEPT ![c] =
             [over |-> contract.version, honoured |-> Honoured(c), at |-> switches]]
  /\ UNCHANGED <<threaded, release, switches, caps, other, pc, call, before, basis,
                 result>>

-----------------------------------------------------------------------------
Observed(c) == caps' = [tags |-> flight[c].tags, at |-> flight[c].at]

(* _send observes the capabilities of the answer, ...                      *)
ReceiveRead(c) ==
  /\ MayInterleave
  /\ pc[c] \in {"probing", "previewing"}
  /\ flight[c] # None
  /\ Observed(c)
  /\ Goto(c, "parsing")
  /\ UNCHANGED <<threaded, space, other, local, result>>

(* A bug: only reject_private is looked for after a preview.               *)
ParsePreviewTrusting(c) ==
  /\ pc[c] = "parsing" /\ call[c].preview
  /\ LET known == IF caps = None THEN {} ELSE caps.tags
     IN End(c, call[c], IF "reject-private" \in call[c].options \ known THEN "unsupported" ELSE "ok")
  /\ UNCHANGED <<threaded, space, caps, other>>

(* ... and parse reads the client's capabilities again.                    *)
ParsePreview(c) ==
  /\ pc[c] = "parsing" /\ call[c].preview
  /\ LET known == IF caps = None THEN {} ELSE caps.tags
     IN End(c, call[c], IF call[c].options \subseteq known THEN "ok" ELSE "unsupported")
  /\ UNCHANGED <<threaded, space, caps, other>>

(* A bug: the ETag and the version are compared, one quoted, one not.      *)
DiffersQuoted(c) == flight[c].etag # None

Differs(c) == flight[c].etag # None /\ flight[c].etag # call[c].expected

ParseProbe(c) ==
  /\ pc[c] = "parsing" /\ ~ call[c].preview
  /\ IF /\ caps # None
        /\ Required(call[c]) \subseteq caps.tags
        /\ "contract-version" \in call[c].options /\ Differs(c)
     THEN End(c, call[c], "changed")
     ELSE Confirm(c, call[c], flight[c].period)
  /\ UNCHANGED <<threaded, space, caps, other>>

(* A bug: the period replaced is looked for in the first history entry.    *)
PreviousFirst(c) == IF before[c] # None THEN before[c] ELSE 1

(* The period before: the probe's, or the one Space says it replaced.      *)
Previous(c) == IF before[c] # None THEN before[c] ELSE flight[c].previous

(* A bug: the answer is not searched for signs of ignored options.         *)
IgnoredNever(c) == FALSE

(* _ignored_option: the answer shows that a guarantee was not given.       *)
(* Assumed is that Space answers a write with the contract, its period and *)
(* its history: without them the code lets the answer pass.                *)
Ignored(c) ==
  \/ "contract-version" \in call[c].options /\ flight[c].etag = None
  \/ "keep-billing-period" \in call[c].options /\ Previous(c) # flight[c].period

(* A bug: the error says that nothing was written.                         *)
ReceiveWriteUnmarked(c) ==
  /\ MayInterleave
  /\ pc[c] = "writing"
  /\ flight[c] # None
  /\ Observed(c)
  /\ End(c, call[c], CASE flight[c].verdict # "written" -> flight[c].verdict
                       [] flight[c].verdict = "written" /\ Ignored(c) -> "unsupported"
                       [] OTHER -> "ok")
  /\ UNCHANGED <<threaded, space, other>>

ReceiveWrite(c) ==
  /\ MayInterleave
  /\ pc[c] = "writing"
  /\ flight[c] # None
  /\ Observed(c)
  /\ End(c, call[c], CASE flight[c].verdict # "written" -> flight[c].verdict
                       [] flight[c].verdict = "written" /\ Ignored(c) -> "ignored"
                       [] OTHER -> "ok")
  /\ UNCHANGED <<threaded, space, other>>

(* No answer arrives in time: SpaceConnectionError.                        *)
Lose(c) ==
  /\ MayInterleave
  /\ pc[c] \in {"probing", "previewing", "writing"}
  /\ End(c, call[c], "lost")
  /\ UNCHANGED <<threaded, space, caps, other>>

-----------------------------------------------------------------------------
(* Another call of this client is answered, and the answer received.       *)
ServeOther ==
  /\ other = None
  /\ other' = [tags |-> release, at |-> switches]
  /\ UNCHANGED <<threaded, space, caps, pc, local, result>>

Learn ==
  /\ MayInterleave
  /\ other # None
  /\ caps' = other
  /\ other' = None
  /\ UNCHANGED <<threaded, space, pc, local, result>>

(* The capabilities are 60 s old, or clear_capabilities() is called.       *)
Forget ==
  /\ MayInterleave
  /\ caps # None
  /\ caps' = None
  /\ UNCHANGED <<threaded, space, other, pc, local, result>>

(* Another client's novation, or a renewal.                                *)
Elsewhere ==
  /\ contract.version < MaxVersion
  /\ \E restart \in BOOLEAN :
       contract' = [version |-> contract.version + 1,
                    period |-> IF restart THEN contract.version + 1 ELSE contract.period]
  /\ UNCHANGED <<threaded, release, switches, caps, other, pc, local, result>>

(* Space is upgraded or rolled back.                                       *)
Switch(r) ==
  /\ switches < MaxSwitches
  /\ r # release
  /\ release' = r
  /\ switches' = switches + 1
  /\ UNCHANGED <<threaded, contract, caps, other, pc, local, result>>

Init ==
  /\ threaded \in BOOLEAN
  /\ contract = [version |-> 1, period |-> 1]
  /\ release \in Releases
  /\ switches = 0
  /\ caps = None
  /\ other = None
  /\ pc = [c \in Callers |-> "idle"]
  /\ call = [c \in Callers |-> None]
  /\ before = [c \in Callers |-> None]
  /\ flight = [c \in Callers |-> None]
  /\ basis = [c \in Callers |-> None]
  /\ written = [c \in Callers |-> None]
  /\ result = None

Next ==
  \/ \E c \in Callers, w \in Calls : Begin(c, w)
  \/ \E c \in Callers :
       \/ ServeRead(c) \/ ServeRefusal(c) \/ ServeWrite(c)
       \/ ReceiveRead(c) \/ ParsePreview(c) \/ ParseProbe(c)
       \/ ReceiveWrite(c) \/ Lose(c)
  \/ \E r \in Releases : Switch(r)
  \/ ServeOther \/ Learn \/ Forget \/ Elsewhere

Spec == Init /\ [][Next]_vars

-----------------------------------------------------------------------------
(* The variables have their types, and a call that waits for the answer to *)
(* its write does not find the one to its probe.                           *)
TypeOK ==
  /\ threaded \in BOOLEAN
  /\ contract \in [version : 1 .. MaxVersion, period : 1 .. MaxVersion]
  /\ release \in Releases
  /\ switches \in 0 .. MaxSwitches
  /\ {caps, other} \subseteq {None} \cup [tags : Releases, at : 0 .. switches]
  /\ pc \in [Callers -> {"idle", "probing", "previewing", "parsing", "writing", "done"}]
  /\ \A c \in Callers :
       /\ (call[c] # None) <=> (pc[c] \notin {"idle", "done"})
       /\ call[c] # None => call[c] \in Calls
       /\ before[c] # None => before[c] \in 1 .. MaxVersion
       /\ flight[c] # None /\ pc[c] = "writing" => flight[c].verdict # "read"

Ended(how) == result # None /\ result.how = how
Asked(g) == g \in result.call.options

(* A novation that returns a contract was applied to the expected version  *)
(* and kept the period, if it was asked to, whatever Space was connected   *)
(* when, and whatever other clients wrote.                                 *)
GuaranteesHeld ==
  Ended("ok") /\ ~ result.call.preview =>
    /\ Asked("contract-version") => result.written.over = result.call.expected
    /\ Asked("keep-billing-period") => "keep-billing-period" \in result.written.honoured

(* "Nothing was written", a changed contract and a refusal all mean that   *)
(* this call wrote nothing; written=True means that it did.                *)
WrittenOrNot ==
  /\ \A how \in {"unsupported", "changed", "refused", "invalid"} : Ended(how) =>
       result.written = None
  /\ Ended("ignored") => result.written # None

(* ContractChangedError is raised only if the contract has changed since   *)
(* the expected version, be it by the early check or by Space.             *)
ChangedMeansChanged ==
  Ended("changed") => contract.version > result.call.expected

(* A private plan is accepted in spite of reject_private only by a Space   *)
(* that was exchanged since it told that it rejects them.                  *)
PrivateOnlyAfterSwitch ==
  Ended("ok") /\ ~ result.call.preview /\ Asked("reject-private") /\ result.call.private =>
    result.basis # None /\ result.written.at > result.basis

Unjustified == Ended("ignored") /\ result.call.options \subseteq result.written.honoured

(* A conditional novation that Space applied as asked is never reported as *)
(* one with an ignored option: the version ties the probe to the write.    *)
NoFalseAlarmIfConditional == Unjustified => ~ Asked("contract-version")

(* On an event loop, a preview describes what was asked for: the Space     *)
(* that answered knows every option the preview was given, although parse  *)
(* asks the client and not the answer. (In a thread, another call's answer *)
(* may come between.)                                                      *)
PreviewAsAsked ==
  ~ threaded /\ Ended("ok") /\ result.call.preview =>
    result.call.options \subseteq result.tags
=============================================================================
