------------------------ MODULE GuardedNovationProofs ------------------------
(***************************************************************************)
(* Theorems about GuardedNovation, for any number of callers, any releases *)
(* of Space and any bounds: what a guarded novation that returns has been  *)
(* given, and what its errors mean.                                        *)
(***************************************************************************)
EXTENDS GuardedNovation, TLAPS

USE NovationAssumption

Places == {"idle", "probing", "previewing", "parsing", "writing", "done"}

Types ==
  /\ threaded \in BOOLEAN
  /\ contract \in [version : 1 .. MaxVersion, period : 1 .. MaxVersion]
  /\ contract.period <= contract.version
  /\ release \in Releases
  /\ switches \in 0 .. MaxSwitches
  /\ pc \in [Callers -> Places]
  /\ call \in [Callers -> Calls \cup {None}]
  /\ before \in [Callers -> (1 .. MaxVersion) \cup {None}]
  /\ flight \in [Callers -> Answers \cup {None}]
  /\ basis \in [Callers -> Nat \cup {None}]
  /\ written \in [Callers -> Writes \cup {None}]

(* Capabilities as old as the last switch are those of the release.        *)
Current(tags, at) == at \in 0 .. switches /\ tags \in Releases /\ (at = switches => tags = release)

Known(told) == told # None => told \in [tags : SUBSET Guards, at : Nat] /\ Current(told.tags, told.at)

Asks(c, g) == g \in call[c].options

(* A call knows a version that the contract has had.                       *)
Called(c) ==
  /\ (call[c] # None) <=> (pc[c] \notin {"idle", "done"})
  /\ call[c] # None /\ Asks(c, "contract-version") => call[c].expected \in 1 .. contract.version
  /\ pc[c] = "writing" => ~ call[c].preview

(* As long as the version is the one expected, the period is the one read. *)
SamePeriod(c, period) ==
  Asks(c, "contract-version") /\ call[c].expected = contract.version => period = contract.period

(* An answer to a read.                                                    *)
Read(c) ==
  pc[c] \in {"probing", "previewing", "parsing"} /\ flight[c] # None =>
    /\ flight[c].period \in 1 .. contract.version
    /\ SamePeriod(c, flight[c].period)
    /\ flight[c].etag # None =>
         /\ flight[c].etag <= contract.version
         /\ Asks(c, "contract-version") => call[c].expected <= flight[c].etag

(* What a write relies on while it is not answered.                        *)
Unanswered(c) ==
  pc[c] = "writing" /\ flight[c] = None =>
    /\ before[c] # None => before[c] <= contract.version /\ SamePeriod(c, before[c])
    /\ call[c].options # {} =>
         basis[c] \in 0 .. switches /\ (basis[c] = switches => call[c].options \subseteq release)

(* What Space did with a write that it answered.                           *)
Refused(c) ==
  /\ flight[c].verdict \in {"changed", "refused"}
  /\ written[c] = None
  /\ flight[c].verdict = "changed" =>
       call[c].expected \in Int /\ call[c].expected < contract.version

Done(c) ==
  /\ flight[c].verdict = "written"
  /\ written[c] \in Writes
  /\ written[c].honoured = call[c].options \cap flight[c].tags
  /\ ("contract-version" \in flight[c].tags) <=> (flight[c].etag # None)
  /\ "contract-version" \in written[c].honoured => written[c].over = call[c].expected
  /\ "keep-billing-period" \in written[c].honoured =>
       /\ flight[c].period = flight[c].previous
       /\ "contract-version" \in written[c].honoured /\ before[c] # None => before[c] = flight[c].period
  /\ "keep-billing-period" \notin written[c].honoured =>
       flight[c].period # flight[c].previous /\ before[c] # flight[c].period
  /\ Asks(c, "reject-private") /\ call[c].private => basis[c] # None /\ written[c].at > basis[c]

Answered(c) == pc[c] = "writing" /\ flight[c] # None => Refused(c) \/ Done(c)

Inv(c) ==
  /\ Called(c) /\ Read(c) /\ Unanswered(c) /\ Answered(c)
  /\ flight[c] # None => Current(flight[c].tags, flight[c].at)
  /\ pc[c] # "writing" \/ flight[c] = None => written[c] = None
  /\ pc[c] = "parsing" => flight[c] # None /\ (~ threaded => caps.tags = flight[c].tags)

(* What the result says.                                                   *)
ResultInv ==
  /\ GuaranteesHeld /\ WrittenOrNot /\ PrivateOnlyAfterSwitch /\ NoFalseAlarmIfConditional
  /\ PreviewAsAsked
  /\ Ended("changed") => result.call.expected \in Int /\ contract.version > result.call.expected

IInv == Types /\ Known(caps) /\ Known(other) /\ ResultInv /\ \A c \in Callers : Inv(c)

-----------------------------------------------------------------------------
(* What a step does to the contract and to Space.                          *)
Evolves ==
  /\ contract' = contract \/ contract'.version > contract.version
  /\ (switches' = switches /\ release' = release) \/ switches' > switches

(* A step that another call, or Space, takes.                              *)
LeavesAlone(c) ==
  /\ pc'[c] = pc[c] /\ call'[c] = call[c] /\ before'[c] = before[c]
  /\ flight'[c] = flight[c] /\ basis'[c] = basis[c] /\ written'[c] = written[c]

(* The types hold at first.                                                *)
LEMMA InitTypes == Init => Types
BY DEF Init, Types, Places

(* The types after a call that ends, and after one that goes on.           *)
LEMMA EndTypes ==
  ASSUME Types, NEW c \in Callers, NEW w, NEW how, End(c, w, how), UNCHANGED <<threaded, space>>
  PROVE  Types'
<1>1. pc' \in [Callers -> Places]
  BY DEF End, Goto, Types, Places
<1>2. UNCHANGED <<threaded, contract, release, switches>>
  BY DEF space
<1>3. /\ call' \in [Callers -> Calls \cup {None}]
      /\ before' \in [Callers -> (1 .. MaxVersion) \cup {None}]
      /\ flight' \in [Callers -> Answers \cup {None}]
      /\ basis' \in [Callers -> Nat \cup {None}]
      /\ written' \in [Callers -> Writes \cup {None}]
  BY DEF End, Types
<1> QED  BY <1>1, <1>2, <1>3 DEF Types

LEMMA ProceedTypes ==
  ASSUME Types, NEW c \in Callers, NEW w \in Calls, NEW place \in Places,
         NEW period \in (1 .. MaxVersion) \cup {None}, NEW at \in Nat \cup {None},
         Proceed(c, w, place, period, at), UNCHANGED <<threaded, space>>
  PROVE  Types'
<1>1. pc' \in [Callers -> Places]
  BY DEF Proceed, Goto, Types
<1>2. UNCHANGED <<threaded, contract, release, switches, written>>
  BY DEF space, Proceed
<1>3. /\ call' \in [Callers -> Calls \cup {None}]
      /\ before' \in [Callers -> (1 .. MaxVersion) \cup {None}]
      /\ flight' \in [Callers -> Answers \cup {None}]
      /\ basis' \in [Callers -> Nat \cup {None}]
  BY DEF Proceed, Types
<1> QED  BY <1>1, <1>2, <1>3 DEF Types

(* Capabilities that were told stay as old as they are.                    *)
LEMMA StillKnown ==
  ASSUME Types, Types', Evolves, NEW tags, NEW at, Current(tags, at)
  PROVE  Current(tags, at)'
BY DEF Types, Evolves, Current

(* Other calls and Space do not invalidate what a call knows, for it only  *)
(* relies on the version it expects, and on when it was told of a release. *)
LEMMA Steady ==
  ASSUME Types, Types', NEW c \in Callers, Inv(c), LeavesAlone(c), Evolves,
         threaded' = threaded, caps' = caps \/ MayInterleave
  PROVE  Inv(c)'
<1> USE DEF LeavesAlone
<1>1. contract.version \in Nat /\ contract'.version \in Nat /\ contract.version <= contract'.version
  BY DEF Types, Evolves
<1>2. call[c] \in Calls \cup {None}
  BY DEF Types
<1>3. Called(c)'
  BY <1>1, <1>2 DEF Inv, Called, Asks, Calls
<1>4. ASSUME NEW period, call[c] # None, SamePeriod(c, period) PROVE SamePeriod(c, period)'
  BY <1>1, <1>2, <1>4 DEF Inv, Called, SamePeriod, Asks, Calls, Evolves
<1>5. Read(c)'
  <2>1. SUFFICES ASSUME pc[c] \in {"probing", "previewing", "parsing"}, flight[c] # None
                 PROVE  Read(c)'
    BY DEF Read
  <2>2. call[c] # None /\ flight[c] \in Answers
    BY <2>1 DEF Inv, Called, Types
  <2>3. SamePeriod(c, flight[c].period)'
    BY <1>4, <2>1, <2>2 DEF Inv, Read
  <2>4. flight[c].period \in 1 .. contract'.version
    BY <1>1, <2>1 DEF Inv, Read
  <2>5. flight[c].etag # None => flight[c].etag <= contract'.version
    BY <1>1, <2>1, <2>2 DEF Inv, Read, Answers
  <2> QED  BY <2>1, <2>3, <2>4, <2>5 DEF Inv, Read, Asks
<1>6. Unanswered(c)'
  <2>1. SUFFICES ASSUME pc[c] = "writing", flight[c] = None PROVE Unanswered(c)'
    BY DEF Unanswered
  <2>2. call[c] # None
    BY <2>1 DEF Inv, Called
  <2>3. before[c] # None => before[c] <= contract'.version /\ SamePeriod(c, before[c])'
    BY <1>1, <1>4, <2>1, <2>2 DEF Inv, Unanswered, Types
  <2>4. call[c].options # {} =>
          basis[c] \in 0 .. switches' /\ (basis[c] = switches' => call[c].options \subseteq release')
    BY <2>1 DEF Inv, Unanswered, Evolves, Types
  <2> QED  BY <2>3, <2>4 DEF Unanswered
<1>7. Answered(c)'
  <2>1. SUFFICES ASSUME pc[c] = "writing", flight[c] # None PROVE (Refused(c) \/ Done(c))'
    BY DEF Answered
  <2>2. CASE Refused(c)
    BY <1>1, <2>2 DEF Refused
  <2>3. CASE Done(c)
    BY <2>3 DEF Done, Asks
  <2> QED  BY <2>1, <2>2, <2>3 DEF Inv, Answered
<1>8. flight'[c] # None => Current(flight[c].tags, flight[c].at)'
  BY StillKnown DEF Inv
<1>9. pc'[c] = "parsing" => flight'[c] # None /\ (~ threaded' => caps'.tags = flight'[c].tags)
  BY DEF Inv, MayInterleave
<1>10. pc'[c] # "writing" \/ flight'[c] = None => written'[c] = None
  BY DEF Inv
<1>11. flight'[c] # None => Current(flight[c].tags, flight[c].at)' /\ flight'[c] = flight[c]
  BY <1>8
<1> QED  BY <1>3, <1>5, <1>6, <1>7, <1>9, <1>10, <1>11 DEF Inv

-----------------------------------------------------------------------------
(* Nothing that a result says is refuted later.                            *)
LEMMA StillSo ==
  ASSUME Types, Types', ResultInv, Evolves, result' = result, threaded' = threaded
  PROVE  ResultInv'
<1>1. contract.version \in Int /\ contract'.version \in Int /\ contract.version <= contract'.version
  BY DEF Types, Evolves
<1> QED
  BY <1>1 DEF ResultInv, GuaranteesHeld, WrittenOrNot, PrivateOnlyAfterSwitch, Unjustified,
              NoFalseAlarmIfConditional, PreviewAsAsked, Ended, Asked

(* A call that ends leaves nothing behind but its result.                  *)
LEMMA Ending ==
  ASSUME IInv, NEW c \in Callers, NEW w, NEW how, End(c, w, how),
         UNCHANGED <<threaded, space, other>>,
         caps' = caps \/ MayInterleave, Known(caps)', ResultInv'
  PROVE  IInv'
<1>1. Types'
  BY EndTypes DEF IInv
<1>2. Evolves
  BY DEF space, Evolves
<1>3. Known(other)'
  BY <1>1, <1>2, StillKnown DEF Known, IInv
<1>4. ASSUME NEW d \in Callers \ {c} PROVE Inv(d)'
  <2>1. LeavesAlone(d)
    BY DEF End, Goto, LeavesAlone, IInv, Types
  <2> QED  BY <1>1, <1>2, <2>1, Steady DEF IInv
<1>5. Inv(c)'
  <2>1. pc'[c] = "done" /\ call'[c] = None /\ flight'[c] = None /\ written'[c] = None
    BY DEF End, Goto, IInv, Types
  <2> QED  BY <2>1 DEF Inv, Called, Read, Unanswered, Answered
<1> QED  BY <1>1, <1>3, <1>4, <1>5 DEF IInv

(* A call that goes on must know what its write will rely on.              *)
LEMMA Proceeding ==
  ASSUME IInv, NEW c \in Callers, NEW w \in Calls, NEW place \in {"probing", "previewing", "writing"},
         NEW period \in (1 .. MaxVersion) \cup {None}, NEW at \in Nat \cup {None},
         pc[c] \in {"idle", "parsing"}, Proceed(c, w, place, period, at),
         "contract-version" \in w.options => w.expected \in 1 .. contract.version,
         place = "writing" =>
           /\ ~ w.preview
           /\ period # None =>
                /\ period <= contract.version
                /\ "contract-version" \in w.options /\ w.expected = contract.version =>
                     period = contract.period
           /\ w.options # {} => at \in 0 .. switches /\ (at = switches => w.options \subseteq release),
         UNCHANGED <<threaded, space, caps, other>>
  PROVE  IInv'
<1>1. Types'
  BY ProceedTypes DEF IInv, Places
<1>2. Evolves
  BY DEF space, Evolves
<1>3. Known(other)' /\ Known(caps)'
  BY <1>1, <1>2, StillKnown DEF Known, IInv
<1>4. ASSUME NEW d \in Callers \ {c} PROVE Inv(d)'
  <2>1. LeavesAlone(d)
    BY DEF Proceed, Goto, LeavesAlone, IInv, Types
  <2> QED  BY <1>1, <1>2, <2>1, Steady DEF IInv
<1>5. Inv(c)'
  <2>1. /\ pc'[c] = place /\ call'[c] = w /\ before'[c] = period
        /\ flight'[c] = None /\ basis'[c] = at /\ written'[c] = written[c]
    BY DEF Proceed, Goto, IInv, Types
  <2>2. written[c] = None
    BY DEF IInv, Inv
  <2>3. contract' = contract /\ switches' = switches /\ release' = release
    BY DEF space
  <2>4. Called(c)'
    BY <2>1, <2>3 DEF Called, Asks
  <2>5. Unanswered(c)'
    BY <2>1, <2>3 DEF Unanswered, SamePeriod, Asks
  <2> QED  BY <2>1, <2>2, <2>4, <2>5 DEF Inv, Read, Answered
<1>6. ResultInv'
  <2>1. result' = result
    BY DEF Proceed
  <2> QED  BY <1>1, <1>2, <2>1, StillSo DEF IInv
<1> QED  BY <1>1, <1>3, <1>4, <1>5, <1>6 DEF IInv

(* The capabilities known allow a write of what they have.                 *)
LEMMA Confirming ==
  ASSUME IInv, NEW c \in Callers, NEW w \in Calls,
         NEW period \in (1 .. MaxVersion) \cup {None},
         pc[c] \in {"idle", "parsing"}, Confirm(c, w, period), ~ w.preview,
         "contract-version" \in w.options => w.expected \in 1 .. contract.version,
         period # None =>
           /\ period <= contract.version
           /\ "contract-version" \in w.options /\ w.expected = contract.version =>
                period = contract.period,
         UNCHANGED <<threaded, space, caps, other>>
  PROVE  IInv'
<1>1. CASE caps # None /\ Required(w) \subseteq caps.tags
  <2>1. Proceed(c, w, "writing", period, caps.at)
    BY <1>1 DEF Confirm
  <2>2. /\ caps.at \in Nat \cup {None} /\ caps.at \in 0 .. switches
        /\ caps.at = switches => w.options \subseteq release
    BY <1>1 DEF IInv, Known, Current, Required
  <2> QED  BY <2>1, <2>2, Proceeding
<1>2. CASE ~ (caps # None /\ Required(w) \subseteq caps.tags)
  <2>1. End(c, w, "unsupported")
    BY <1>2 DEF Confirm
  <2>2. written[c] = None
    BY DEF IInv, Inv
  <2>3. result'.how = "unsupported" /\ result'.written = None
    BY <2>1, <2>2 DEF End
  <2>4. ResultInv'
    BY <2>3 DEF ResultInv, GuaranteesHeld, WrittenOrNot, PrivateOnlyAfterSwitch, Unjustified,
                NoFalseAlarmIfConditional, PreviewAsAsked, Ended
  <2>5. Known(caps)'
    BY DEF IInv, Known, Current, space
  <2> QED  BY <2>1, <2>4, <2>5, Ending
<1> QED  BY <1>1, <1>2

-----------------------------------------------------------------------------
(* One lemma per action.                                                   *)
LEMMA BeginStep ==
  ASSUME IInv, NEW c \in Callers, NEW w \in Calls, Begin(c, w)
  PROVE  IInv'
<1> USE DEF Begin
<1>1. written[c] = None /\ Known(caps)'
  BY DEF IInv, Inv, Known, Current, space
<1>2. CASE Empty(w)
  <2>1. End(c, w, "invalid")
    BY <1>2 DEF Empty, Sensible, Required
  <2>2. result'.how = "invalid" /\ result'.written = None
    BY <1>1, <2>1 DEF End
  <2>3. ResultInv'
    BY <2>2 DEF ResultInv, GuaranteesHeld, WrittenOrNot, PrivateOnlyAfterSwitch, Unjustified,
                NoFalseAlarmIfConditional, PreviewAsAsked, Ended
  <2> QED  BY <1>1, <2>1, <2>3, Ending
<1>3. CASE ~ Empty(w)
  <2>1. "contract-version" \in w.options => w.expected \in 1 .. contract.version
    BY <1>3 DEF Empty, Sensible
  <2>2. CASE w.preview
    <3>1. Proceed(c, w, "previewing", None, None)
      BY <1>3, <2>2
    <3> QED  BY <2>1, <3>1, Proceeding
  <2>3. CASE ~ w.preview /\ Required(w) = {}
    <3>1. Proceed(c, w, "writing", None, None)
      BY <1>3, <2>3
    <3> QED  BY <2>1, <2>3, <3>1, Proceeding DEF Required
  <2>4. CASE ~ w.preview /\ Required(w) # {} /\ caps = None
    <3>1. Proceed(c, w, "probing", None, None)
      BY <1>3, <2>4
    <3> QED  BY <2>1, <3>1, Proceeding
  <2>5. CASE ~ w.preview /\ Required(w) # {} /\ caps # None
    <3>1. Confirm(c, w, None)
      BY <1>3, <2>5
    <3> QED  BY <2>1, <2>5, <3>1, Confirming
  <2> QED  BY <2>2, <2>3, <2>4, <2>5
<1> QED  BY <1>2, <1>3

(* Space answers a request of the call.                                    *)
LEMMA Serving ==
  ASSUME IInv, NEW c \in Callers, NEW answer \in Answers,
         flight' = [flight EXCEPT ![c] = answer],
         contract' \in [version : 1 .. MaxVersion, period : 1 .. MaxVersion],
         contract'.period <= contract'.version, Evolves,
         written' \in [Callers -> Writes \cup {None}],
         \A d \in Callers \ {c} : written'[d] = written[d],
         UNCHANGED <<threaded, release, switches, caps, other, pc, call, before, basis, result>>,
         Inv(c)'
  PROVE  IInv'
<1>1. Types'
  BY DEF IInv, Types
<1>2. Known(caps)' /\ Known(other)'
  BY <1>1, StillKnown DEF Known, IInv
<1>3. ASSUME NEW d \in Callers \ {c} PROVE Inv(d)'
  <2>1. LeavesAlone(d)
    BY DEF LeavesAlone, IInv, Types
  <2> QED  BY <1>1, <2>1, Steady DEF IInv
<1>4. ResultInv'
  BY <1>1, StillSo DEF IInv
<1> QED  BY <1>1, <1>2, <1>3, <1>4 DEF IInv

LEMMA ServeReadStep ==
  ASSUME IInv, NEW c \in Callers, ServeRead(c)
  PROVE  IInv'
<1> DEFINE answer == Answer("read", contract.version, contract.period, None)
<1>1. /\ contract.version \in Nat /\ contract.period \in 1 .. contract.version
      /\ release \in SUBSET Guards /\ switches \in Nat /\ release \in Releases
  BY DEF IInv, Types
<1>2. answer \in Answers
  BY <1>1 DEF Answer, Answers
<1>3. /\ flight' = [flight EXCEPT ![c] = answer] /\ flight'[c] = answer
      /\ UNCHANGED <<threaded, contract, release, switches, caps, other, pc, call, before, basis,
                     written, result>>
      /\ pc[c] \in {"probing", "previewing"}
  BY DEF ServeRead, space, IInv, Types
<1>4. call[c] # None /\ call[c] \in Calls /\ written[c] = None /\ Called(c)
  BY <1>3 DEF IInv, Inv, Called, Types
<1>5. Inv(c)'
  <2>1. Read(c)'
    BY <1>1, <1>3, <1>4 DEF Read, SamePeriod, Called, Asks, Answer
  <2>2. Called(c)'
    BY <1>3, <1>4 DEF Called, Asks
  <2>3. Current(flight[c].tags, flight[c].at)'
    BY <1>1, <1>3 DEF Current, Answer
  <2> QED  BY <1>3, <1>4, <2>1, <2>2, <2>3 DEF Inv, Unanswered, Answered
<1>6. contract \in [version : 1 .. MaxVersion, period : 1 .. MaxVersion] /\ contract.period <= contract.version
      /\ written \in [Callers -> Writes \cup {None}]
  BY DEF IInv, Types
<1>7. Evolves
  BY <1>3 DEF Evolves
<1> HIDE DEF answer
<1> QED  BY <1>2, <1>3, <1>5, <1>6, <1>7, Serving

LEMMA ServeRefusalStep ==
  ASSUME IInv, NEW c \in Callers, ServeRefusal(c)
  PROVE  IInv'
<1>1. /\ contract.version \in Nat /\ contract.period \in 1 .. contract.version
      /\ release \in SUBSET Guards /\ switches \in Nat /\ release \in Releases
  BY DEF IInv, Types
<1>2. pc[c] = "writing" /\ flight[c] = None /\ written[c] = None
  BY DEF ServeRefusal, IInv, Inv
<1>3. call[c] # None /\ call[c] \in Calls /\ Called(c)
  BY <1>2 DEF IInv, Inv, Called, Types
<1>4. PICK verdict \in {"changed", "refused"} :
        /\ flight' = [flight EXCEPT ![c] = Answer(verdict, contract.version, contract.period, None)]
        /\ verdict = "changed" => "contract-version" \in Honoured(c) /\ call[c].expected # contract.version
  BY DEF ServeRefusal
<1> DEFINE answer == Answer(verdict, contract.version, contract.period, None)
<1>5. answer \in Answers
  BY <1>1 DEF Answer, Answers
<1>6. /\ flight' = [flight EXCEPT ![c] = answer] /\ flight'[c] = answer
      /\ UNCHANGED <<threaded, contract, release, switches, caps, other, pc, call, before, basis,
                     written, result>>
  BY <1>4 DEF ServeRefusal, space, IInv, Types
<1>7. Inv(c)'
  <2>1. verdict = "changed" => call[c].expected \in Int /\ call[c].expected < contract.version
    BY <1>1, <1>3, <1>4 DEF Honoured, Called, Asks
  <2>2. flight'[c].verdict = verdict
    BY <1>6 DEF Answer
  <2>3. Refused(c)'
    BY <1>2, <1>6, <2>1, <2>2 DEF Refused
  <2>4. Called(c)'
    BY <1>3, <1>6 DEF Called, Asks
  <2>5. Current(flight[c].tags, flight[c].at)'
    BY <1>1, <1>6 DEF Current, Answer
  <2>6. flight'[c] # None
    BY <1>5, <1>6 DEF Answers, Answer
  <2> QED  BY <1>2, <1>6, <2>3, <2>4, <2>5, <2>6 DEF Inv, Unanswered, Answered, Read
<1>8. /\ contract \in [version : 1 .. MaxVersion, period : 1 .. MaxVersion]
      /\ contract.period <= contract.version
      /\ written \in [Callers -> Writes \cup {None}]
  BY DEF IInv, Types
<1>9. Evolves
  BY <1>6 DEF Evolves
<1> HIDE DEF answer
<1> QED  BY <1>5, <1>6, <1>7, <1>8, <1>9, Serving

(* Space knew an option that the write relied on, unless it was exchanged  *)
(* since; a new period is a new one, so it differs from the one before.    *)
LEMMA ServeWriteStep ==
  ASSUME IInv, NEW c \in Callers, ServeWrite(c)
  PROVE  IInv'
<1> DEFINE kept == "keep-billing-period" \in Honoured(c)
           version == contract.version + 1
           period == IF kept THEN contract.period ELSE version
           answer == Answer("written", version, period, contract.period)
           write == [over |-> contract.version, honoured |-> Honoured(c), at |-> switches]
<1>1. /\ contract \in [version : 1 .. MaxVersion, period : 1 .. MaxVersion]
      /\ contract.version \in Nat /\ contract.period \in 1 .. contract.version
      /\ release \in SUBSET Guards /\ switches \in Nat /\ release \in Releases
      /\ written \in [Callers -> Writes \cup {None}]
      /\ before[c] \in Nat \cup {None}
  BY DEF IInv, Types
<1>2. pc[c] = "writing" /\ flight[c] = None
  BY DEF ServeWrite
<1>3. call[c] # None /\ call[c] \in Calls /\ Called(c) /\ Unanswered(c)
  BY <1>2 DEF IInv, Inv, Called, Types
<1>4. /\ flight' = [flight EXCEPT ![c] = answer] /\ flight'[c] = answer
      /\ contract' = [version |-> version, period |-> period]
      /\ written' = [written EXCEPT ![c] = write] /\ written'[c] = write
      /\ UNCHANGED <<threaded, release, switches, caps, other, pc, call, before, basis, result>>
  BY DEF ServeWrite, IInv, Types
<1>5. /\ contract.version < MaxVersion
      /\ "contract-version" \in Honoured(c) => call[c].expected = contract.version
      /\ ~ ("reject-private" \in Honoured(c) /\ call[c].private)
  BY DEF ServeWrite
<1>6. Honoured(c) = call[c].options \cap release /\ Honoured(c) \in SUBSET Guards
  BY <1>1 DEF Honoured
<1>7. answer \in Answers /\ write \in Writes
  BY <1>1, <1>6 DEF Answer, Answers, Writes
<1>8. /\ contract' \in [version : 1 .. MaxVersion, period : 1 .. MaxVersion]
      /\ contract'.period <= contract'.version
      /\ contract'.version = version /\ contract'.version > contract.version
  BY <1>1, <1>4, <1>5
<1>9. Evolves
  BY <1>4, <1>8 DEF Evolves
<1>10. written' \in [Callers -> Writes \cup {None}] /\ \A d \in Callers \ {c} : written'[d] = written[d]
  BY <1>1, <1>4, <1>7
<1>11. /\ answer.verdict = "written" /\ answer.tags = release /\ answer.at = switches
       /\ answer.period = period /\ answer.previous = contract.period
       /\ answer.etag = IF "contract-version" \in release THEN version ELSE None
       /\ write.over = contract.version /\ write.honoured = Honoured(c) /\ write.at = switches
  BY DEF Answer
<1> HIDE DEF answer, write
<1>12. Done(c)'
  <2>1. /\ flight'[c].verdict = "written" /\ written'[c] \in Writes
        /\ written'[c].honoured = call'[c].options \cap flight'[c].tags
        /\ "contract-version" \in written'[c].honoured => written'[c].over = call'[c].expected
    BY <1>4, <1>5, <1>6, <1>7, <1>11
  <2>2. ("contract-version" \in flight'[c].tags) <=> (flight'[c].etag # None)
    BY <1>1, <1>4, <1>11
  <2>3. before[c] # None => before[c] <= contract.version /\ SamePeriod(c, before[c])
    BY <1>2, <1>3 DEF Unanswered
  <2>4. ASSUME kept
        PROVE  /\ flight'[c].period = flight'[c].previous
               /\ "contract-version" \in Honoured(c) /\ before[c] # None => before[c] = flight'[c].period
    <3>1. flight'[c].period = flight'[c].previous /\ flight'[c].period = contract.period
      BY <1>4, <1>11, <2>4
    <3>2. "contract-version" \in Honoured(c) /\ before[c] # None => before[c] = contract.period
      BY <1>5, <1>6, <2>3 DEF SamePeriod, Asks
    <3> QED  BY <3>1, <3>2
  <2>5. ASSUME ~ kept
        PROVE  flight'[c].period # flight'[c].previous /\ before[c] # flight'[c].period
    <3>1. flight'[c].period = version /\ flight'[c].previous = contract.period
      BY <1>4, <1>11, <2>5
    <3> QED  BY <1>1, <2>3, <3>1
  <2>6. Asks(c, "reject-private") /\ call[c].private => basis[c] # None /\ written'[c].at > basis[c]
    <3>1. SUFFICES ASSUME "reject-private" \in call[c].options, call[c].private
                   PROVE  basis[c] # None /\ switches > basis[c]
      BY <1>4, <1>11 DEF Asks
    <3>2. basis[c] \in 0 .. switches /\ (basis[c] = switches => call[c].options \subseteq release)
      BY <1>2, <1>3, <3>1 DEF Unanswered
    <3>3. "reject-private" \notin release
      BY <1>5, <1>6, <3>1
    <3>4. basis[c] \in Int /\ basis[c] # switches /\ basis[c] <= switches
      BY <1>1, <3>1, <3>2, <3>3
    <3> QED  BY <1>1, <3>4
  <2>7. /\ "keep-billing-period" \in written'[c].honoured =>
              /\ flight'[c].period = flight'[c].previous
              /\ "contract-version" \in written'[c].honoured /\ before'[c] # None =>
                   before'[c] = flight'[c].period
        /\ "keep-billing-period" \notin written'[c].honoured =>
              flight'[c].period # flight'[c].previous /\ before'[c] # flight'[c].period
    <3>1. written'[c].honoured = Honoured(c) /\ before'[c] = before[c]
      BY <1>4, <1>11
    <3> QED  BY <2>4, <2>5, <3>1
  <2>8. (Asks(c, "reject-private") /\ call[c].private)' => basis'[c] # None /\ written'[c].at > basis'[c]
    BY <1>4, <2>6 DEF Asks
  <2> QED  BY <2>1, <2>2, <2>7, <2>8 DEF Done
<1>13. Inv(c)'
  <2>1. Called(c)'
    BY <1>1, <1>3, <1>4, <1>8 DEF Called, Asks
  <2>2. Current(flight[c].tags, flight[c].at)'
    BY <1>1, <1>4, <1>11 DEF Current
  <2>3. flight'[c] # None /\ pc'[c] = "writing"
    BY <1>2, <1>4, <1>7
  <2> QED  BY <1>12, <2>1, <2>2, <2>3 DEF Inv, Unanswered, Answered, Read
<1> QED  BY <1>4, <1>7, <1>8, <1>9, <1>10, <1>13, Serving

LEMMA ReceiveReadStep ==
  ASSUME IInv, NEW c \in Callers, ReceiveRead(c)
  PROVE  IInv'
<1>1. /\ pc' = [pc EXCEPT ![c] = "parsing"] /\ pc'[c] = "parsing"
      /\ caps' = [tags |-> flight[c].tags, at |-> flight[c].at]
      /\ UNCHANGED <<threaded, contract, release, switches, other, call, before, flight, basis,
                     written, result>>
      /\ pc[c] \in {"probing", "previewing"} /\ flight[c] # None /\ MayInterleave
  BY DEF ReceiveRead, Goto, Observed, space, local, IInv, Types
<1>2. Types'
  BY <1>1 DEF IInv, Types, Places
<1>3. Evolves
  BY <1>1 DEF Evolves
<1>4. flight[c] \in Answers /\ Current(flight[c].tags, flight[c].at)
  BY <1>1 DEF IInv, Inv, Types
<1>5. Known(caps)'
  BY <1>1, <1>4 DEF Known, Current, Answers
<1>6. Known(other)'
  BY <1>2, <1>3, <1>1, StillKnown DEF Known, IInv
<1>7. ASSUME NEW d \in Callers \ {c} PROVE Inv(d)'
  <2>1. LeavesAlone(d)
    BY <1>1 DEF LeavesAlone, IInv, Types
  <2> QED  BY <1>1, <1>2, <1>3, <2>1, Steady DEF IInv
<1>8. Inv(c)'
  <2>1. Inv(c)
    BY DEF IInv
  <2>2. Called(c)' /\ Read(c)'
    BY <1>1, <2>1 DEF Inv, Called, Read, SamePeriod, Asks
  <2>3. Current(flight[c].tags, flight[c].at)'
    BY <1>1, <1>4 DEF Current
  <2>4. written'[c] = None
    BY <1>1, <2>1 DEF Inv
  <2> QED  BY <1>1, <1>5, <2>2, <2>3, <2>4 DEF Inv, Unanswered, Answered
<1>9. ResultInv'
  BY <1>1, <1>2, <1>3, StillSo DEF IInv
<1> QED  BY <1>2, <1>5, <1>6, <1>7, <1>8, <1>9 DEF IInv

(* On an event loop, nothing comes between the answer and its use.         *)
LEMMA ParsePreviewStep ==
  ASSUME IInv, NEW c \in Callers, ParsePreview(c)
  PROVE  IInv'
<1> DEFINE known == IF caps = None THEN {} ELSE caps.tags
           how == IF call[c].options \subseteq known THEN "ok" ELSE "unsupported"
<1>1. End(c, call[c], how) /\ pc[c] = "parsing" /\ call[c].preview
  BY DEF ParsePreview
<1>2. flight[c] # None /\ (~ threaded => caps.tags = flight[c].tags) /\ written[c] = None
  BY <1>1 DEF IInv, Inv
<1>3. /\ result'.how = how /\ result'.call = call[c] /\ result'.written = None
      /\ result'.tags = flight[c].tags
  BY <1>1, <1>2 DEF End
<1>4. UNCHANGED <<threaded, space, caps, other>> /\ Known(caps)'
  BY DEF ParsePreview, IInv, Known, Current, space
<1>5. ResultInv'
  <2>1. how \in {"ok", "unsupported"}
    OBVIOUS
  <2>2. PreviewAsAsked'
    BY <1>2, <1>3, <1>4 DEF PreviewAsAsked, Ended
  <2> HIDE DEF how
  <2> QED
    BY <1>1, <1>3, <2>1, <2>2 DEF ResultInv, GuaranteesHeld, WrittenOrNot, PrivateOnlyAfterSwitch,
                                  Unjustified, NoFalseAlarmIfConditional, Ended
<1> HIDE DEF how
<1> QED  BY <1>1, <1>4, <1>5, Ending

LEMMA ParseProbeStep ==
  ASSUME IInv, NEW c \in Callers, ParseProbe(c)
  PROVE  IInv'
<1>1. /\ pc[c] = "parsing" /\ ~ call[c].preview
      /\ UNCHANGED <<threaded, space, caps, other>>
  BY DEF ParseProbe
<1>2. flight[c] # None /\ written[c] = None /\ call[c] \in Calls /\ flight[c] \in Answers
  BY <1>1 DEF IInv, Inv, Called, Types
<1>3. Called(c) /\ Read(c)
  BY DEF IInv, Inv
<1>4. "contract-version" \in call[c].options => call[c].expected \in 1 .. contract.version
  BY <1>1, <1>3 DEF Called, Asks
<1>5. CASE "contract-version" \in call[c].options /\ Differs(c) /\ End(c, call[c], "changed")
  <2>1. flight[c].etag # None /\ flight[c].etag # call[c].expected
    BY <1>5 DEF Differs
  <2>2. flight[c].etag \in Nat /\ flight[c].etag <= contract.version /\ call[c].expected <= flight[c].etag
    BY <1>1, <1>2, <1>3, <1>5, <2>1 DEF Read, Asks, Answers
  <2>3. contract.version \in Nat
    BY DEF IInv, Types
  <2>4. call[c].expected \in Int /\ contract.version > call[c].expected
    BY <1>4, <1>5, <2>1, <2>2, <2>3
  <2>5. /\ result'.how = "changed" /\ result'.call = call[c] /\ result'.written = None
        /\ contract' = contract
    BY <1>1, <1>2, <1>5 DEF End, space
  <2>6. ResultInv'
    BY <2>4, <2>5 DEF ResultInv, GuaranteesHeld, WrittenOrNot, PrivateOnlyAfterSwitch, Unjustified,
                      NoFalseAlarmIfConditional, PreviewAsAsked, Ended
  <2>7. Known(caps)'
    BY <1>1 DEF IInv, Known, Current, space
  <2> QED  BY <1>1, <1>5, <2>6, <2>7, Ending
<1>6. CASE Confirm(c, call[c], flight[c].period)
  <2>1. flight[c].period \in 1 .. contract.version /\ contract.version \in 1 .. MaxVersion
    BY <1>1, <1>2, <1>3 DEF Read, IInv, Types
  <2>2. /\ flight[c].period <= contract.version
        /\ flight[c].period \in (1 .. MaxVersion) \cup {None}
    BY <2>1
  <2>3. "contract-version" \in call[c].options /\ call[c].expected = contract.version =>
          flight[c].period = contract.period
    BY <1>1, <1>2, <1>3 DEF Read, SamePeriod, Asks
  <2> QED  BY <1>1, <1>2, <1>4, <1>6, <2>2, <2>3, Confirming
<1> QED  BY <1>5, <1>6 DEF ParseProbe

(* Signs of ignored options are found exactly if an option was ignored, at *)
(* least where the version ties the write to what was read before.         *)
LEMMA ReceiveWriteStep ==
  ASSUME IInv, NEW c \in Callers, ReceiveWrite(c)
  PROVE  IInv'
<1> DEFINE how == CASE flight[c].verdict # "written" -> flight[c].verdict
                    [] flight[c].verdict = "written" /\ Ignored(c) -> "ignored"
                    [] OTHER -> "ok"
<1>1. /\ pc[c] = "writing" /\ flight[c] # None /\ MayInterleave
      /\ caps' = [tags |-> flight[c].tags, at |-> flight[c].at]
      /\ End(c, call[c], how) /\ UNCHANGED <<threaded, space, other>>
  BY DEF ReceiveWrite, Observed
<1>2. /\ flight[c] \in Answers /\ Current(flight[c].tags, flight[c].at)
      /\ call[c] \in Calls /\ ~ call[c].preview /\ (Refused(c) \/ Done(c))
  BY <1>1 DEF IInv, Inv, Called, Answered, Types
<1>3. Known(caps)'
  BY <1>1, <1>2 DEF Known, Current, Answers, space
<1>4. /\ result'.how = how /\ result'.call = call[c] /\ result'.written = written[c]
      /\ result'.basis = basis[c] /\ contract' = contract
  BY <1>1 DEF End, space
<1>5. CASE Refused(c)
  <2>1. how = flight[c].verdict /\ how \in {"changed", "refused"} /\ written[c] = None
    BY <1>5 DEF Refused
  <2>2. how = "changed" => call[c].expected \in Int /\ call[c].expected < contract.version
    BY <1>5, <2>1 DEF Refused
  <2>3. contract.version \in Nat
    BY DEF IInv, Types
  <2> HIDE DEF how
  <2>4. ResultInv'
    BY <1>4, <2>1, <2>2, <2>3 DEF ResultInv, GuaranteesHeld, WrittenOrNot, PrivateOnlyAfterSwitch,
         Unjustified, NoFalseAlarmIfConditional, PreviewAsAsked, Ended
  <2> QED  BY <1>1, <1>3, <2>4, Ending
<1>6. CASE Done(c)
  <2>1. written[c] # None /\ how = IF Ignored(c) THEN "ignored" ELSE "ok"
    BY <1>6 DEF Done
  <2> HIDE DEF how
  <2>2. ASSUME ~ Ignored(c)
        PROVE  /\ Asks(c, "contract-version") => written[c].over = call[c].expected
               /\ Asks(c, "keep-billing-period") => "keep-billing-period" \in written[c].honoured
    BY <1>6, <2>2 DEF Done, Ignored, Previous, Asks
  <2>3. ASSUME Ignored(c), call[c].options \subseteq written[c].honoured
        PROVE  ~ Asks(c, "contract-version")
    BY <1>6, <2>3 DEF Done, Ignored, Previous, Asks
  <2>4. GuaranteesHeld'
    BY <1>4, <2>1, <2>2 DEF GuaranteesHeld, Ended, Asked, Asks
  <2>5. NoFalseAlarmIfConditional'
    BY <1>4, <2>1, <2>3 DEF NoFalseAlarmIfConditional, Unjustified, Ended, Asked, Asks
  <2>6. PrivateOnlyAfterSwitch'
    BY <1>4, <1>6 DEF PrivateOnlyAfterSwitch, Done, Asked, Asks
  <2>7. WrittenOrNot' /\ PreviewAsAsked' /\ ~ Ended("changed")'
    BY <1>2, <1>4, <2>1 DEF WrittenOrNot, PreviewAsAsked, Ended
  <2>8. ResultInv'
    BY <2>4, <2>5, <2>6, <2>7 DEF ResultInv
  <2> QED  BY <1>1, <1>3, <2>8, Ending
<1> QED  BY <1>2, <1>5, <1>6

LEMMA LoseStep ==
  ASSUME IInv, NEW c \in Callers, Lose(c)
  PROVE  IInv'
<1>1. End(c, call[c], "lost") /\ UNCHANGED <<threaded, space, caps, other>>
  BY DEF Lose
<1>2. result'.how = "lost"
  BY <1>1 DEF End
<1>3. ResultInv'
  BY <1>2 DEF ResultInv, GuaranteesHeld, WrittenOrNot, PrivateOnlyAfterSwitch, Unjustified,
              NoFalseAlarmIfConditional, PreviewAsAsked, Ended
<1>4. Known(caps)'
  BY <1>1 DEF IInv, Known, Current, space
<1> QED  BY <1>1, <1>3, <1>4, Ending

(* Steps of Space, of other clients, and of other calls of this client.    *)
LEMMA Surrounding ==
  ASSUME IInv, Types', Evolves, UNCHANGED <<threaded, pc, local, result>>,
         Known(caps)', Known(other)', caps' = caps \/ MayInterleave
  PROVE  IInv'
<1>1. ASSUME NEW d \in Callers PROVE Inv(d)'
  <2>1. LeavesAlone(d)
    BY DEF LeavesAlone, local
  <2> QED  BY <2>1, Steady DEF IInv
<1>2. ResultInv'
  BY StillSo DEF IInv
<1> QED  BY <1>1, <1>2 DEF IInv

LEMMA SurroundingStep ==
  ASSUME IInv,
         ServeOther \/ Learn \/ Forget \/ Elsewhere \/ (\E r \in Releases : Switch(r)) \/ UNCHANGED vars
  PROVE  IInv'
<1>1. UNCHANGED <<threaded, pc, local, result>>
  BY DEF ServeOther, Learn, Forget, Elsewhere, Switch, vars
<1>2. caps' = caps \/ MayInterleave
  BY DEF ServeOther, Learn, Forget, Elsewhere, Switch, vars
<1>3. Types /\ Known(caps) /\ Known(other)
  BY DEF IInv
<1>4. CASE ServeOther \/ Learn \/ Forget \/ UNCHANGED vars
  <2>1. UNCHANGED <<contract, release, switches>>
    BY <1>4 DEF ServeOther, Learn, Forget, vars, space
  <2>2. Types' /\ Evolves
    BY <1>1, <1>3, <2>1 DEF Types, Evolves, local
  <2>3. \A told \in {None, caps, other} : told # None =>
          told \in [tags : SUBSET Guards, at : Nat] /\ Current(told.tags, told.at)'
    BY <1>3, <2>1 DEF Known, Current
  <2>4. ASSUME other' = [tags |-> release, at |-> switches] PROVE Known(other)'
    BY <1>3, <2>1, <2>4 DEF Known, Current, Types
  <2>5. caps' \in {None, caps, other}
    BY <1>4 DEF ServeOther, Learn, Forget, vars
  <2>6. other' \in {None, caps, other} \/ other' = [tags |-> release, at |-> switches]
    BY <1>4 DEF ServeOther, Learn, Forget, vars
  <2>7. Known(caps)' /\ Known(other)'
    BY <2>3, <2>4, <2>5, <2>6 DEF Known
  <2> QED  BY <1>1, <1>2, <2>2, <2>7, Surrounding
<1>5. CASE Elsewhere
  <2>1. /\ contract' \in [version : 1 .. MaxVersion, period : 1 .. MaxVersion]
        /\ contract'.period <= contract'.version /\ contract'.version > contract.version
        /\ UNCHANGED <<release, switches, caps, other>>
    BY <1>3, <1>5 DEF Elsewhere, Types
  <2>2. Types' /\ Evolves
    BY <1>1, <1>3, <2>1 DEF Types, Evolves, local
  <2>3. Known(caps)' /\ Known(other)'
    BY <1>3, <2>1 DEF Known, Current
  <2> QED  BY <1>1, <1>2, <2>2, <2>3, Surrounding
<1>6. ASSUME NEW r \in Releases, Switch(r) PROVE IInv'
  <2>1. /\ release' = r /\ switches' = switches + 1 /\ switches' \in 0 .. MaxSwitches
        /\ UNCHANGED <<contract, caps, other>>
    BY <1>3, <1>6 DEF Switch, Types
  <2>2. switches \in Nat /\ MaxSwitches \in Nat
    BY <1>3 DEF Types
  <2>3. Types' /\ Evolves
    BY <1>1, <1>3, <1>6, <2>1, <2>2 DEF Types, Evolves, local
  <2>4. Known(caps)' /\ Known(other)'
    BY <1>3, <2>1, <2>3, StillKnown DEF Known
  <2> QED  BY <1>1, <1>2, <2>3, <2>4, Surrounding
<1> QED  BY <1>4, <1>5, <1>6

LEMMA NextIInv == IInv /\ [Next]_vars => IInv'
<1> SUFFICES ASSUME IInv, [Next]_vars PROVE IInv'
  OBVIOUS
<1>1. ASSUME NEW c \in Callers, NEW w \in Calls, Begin(c, w) PROVE IInv'
  BY <1>1, BeginStep
<1>2. ASSUME NEW c \in Callers, ServeRead(c) \/ ServeRefusal(c) \/ ServeWrite(c) PROVE IInv'
  BY <1>2, ServeReadStep, ServeRefusalStep, ServeWriteStep
<1>3. ASSUME NEW c \in Callers, ReceiveRead(c) \/ ParsePreview(c) \/ ParseProbe(c) PROVE IInv'
  BY <1>3, ReceiveReadStep, ParsePreviewStep, ParseProbeStep
<1>4. ASSUME NEW c \in Callers, ReceiveWrite(c) \/ Lose(c) PROVE IInv'
  BY <1>4, ReceiveWriteStep, LoseStep
<1>5. CASE ServeOther \/ Learn \/ Forget \/ Elsewhere \/ (\E r \in Releases : Switch(r)) \/ UNCHANGED vars
  BY <1>5, SurroundingStep
<1> QED  BY <1>1, <1>2, <1>3, <1>4, <1>5 DEF Next

LEMMA InitIInv == Init => IInv
<1> SUFFICES ASSUME Init PROVE IInv
  OBVIOUS
<1>1. ASSUME NEW c \in Callers PROVE Inv(c)
  <2>1. pc[c] = "idle" /\ call[c] = None /\ flight[c] = None /\ written[c] = None
    BY DEF Init
  <2> QED  BY <2>1 DEF Inv, Called, Read, Unanswered, Answered
<1>2. ResultInv
  BY DEF Init, ResultInv, GuaranteesHeld, WrittenOrNot, PrivateOnlyAfterSwitch, Unjustified,
         NoFalseAlarmIfConditional, PreviewAsAsked, Ended
<1>3. Known(caps) /\ Known(other)
  BY DEF Init, Known
<1> QED  BY <1>1, <1>2, <1>3, InitTypes DEF IInv

(* The invariant that every theorem below is part of.                      *)
LEMMA Invariant == Spec => []IInv
BY InitIInv, NextIInv, PTL DEF Spec

-----------------------------------------------------------------------------
(* The variables have their types, and no call takes the answer to its     *)
(* probe for the one to its write.                                         *)
THEOREM TypeCorrect == Spec => []TypeOK
<1>1. IInv => TypeOK
  <2> SUFFICES ASSUME IInv PROVE TypeOK
    OBVIOUS
  <2>1. \A told : told # None /\ Known(told) => told \in [tags : Releases, at : 0 .. switches]
    BY DEF Known, Current
  <2>2. {caps, other} \subseteq {None} \cup [tags : Releases, at : 0 .. switches]
    BY <2>1 DEF IInv
  <2>3. ASSUME NEW c \in Callers
        PROVE  /\ (call[c] # None) <=> (pc[c] \notin {"idle", "done"})
               /\ call[c] # None => call[c] \in Calls
               /\ before[c] # None => before[c] \in 1 .. MaxVersion
               /\ flight[c] # None /\ pc[c] = "writing" => flight[c].verdict # "read"
    BY DEF IInv, Inv, Called, Answered, Refused, Done, Types
  <2> QED  BY <2>2, <2>3 DEF TypeOK, IInv, Types, Places
<1> QED  BY <1>1, Invariant, PTL

(* A novation that returns a contract got the version and the period it    *)
(* asked for, whatever other clients wrote and whenever Space was          *)
(* exchanged: who ignores an option answers without a version, or with a   *)
(* period that is neither the one before nor the probe's.                  *)
THEOREM ReturnedMeansGuaranteed == Spec => []GuaranteesHeld
BY Invariant, PTL DEF IInv, ResultInv

(* The errors that say that nothing was written are right, and so is the   *)
(* one that says that something was.                                       *)
THEOREM ErrorsTellWhatWasWritten == Spec => []WrittenOrNot
BY Invariant, PTL DEF IInv, ResultInv

(* A ContractChangedError names a change that there was: an ETag, and the  *)
(* version Space compares, are never older than the one the caller has.    *)
THEOREM ChangedErrorIsTrue == Spec => []ChangedMeansChanged
<1>1. IInv => ChangedMeansChanged
  BY DEF IInv, ResultInv, ChangedMeansChanged
<1> QED  BY <1>1, Invariant, PTL

(* Only a Space that was exchanged after the client was told that it       *)
(* rejects private plans can accept one.                                   *)
THEOREM PrivateNeedsSwitch == Spec => []PrivateOnlyAfterSwitch
BY Invariant, PTL DEF IInv, ResultInv

(* A conditional novation that was applied as asked is never reported as   *)
(* ignored: its version is the one the probe read the period of.           *)
THEOREM ConditionalHasNoFalseAlarm == Spec => []NoFalseAlarmIfConditional
BY Invariant, PTL DEF IInv, ResultInv

(* The preview that a task gets was made by a Space that knew its options. *)
THEOREM PreviewAnswersItsOptions == Spec => []PreviewAsAsked
BY Invariant, PTL DEF IInv, ResultInv
=============================================================================
