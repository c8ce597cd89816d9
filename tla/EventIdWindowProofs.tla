------------------------- MODULE EventIdWindowProofs -------------------------
(***************************************************************************)
(* EventIdWindow never delivers an event twice and implements              *)
(* EventDelivery, for every set of ids, limit and window.                  *)
(***************************************************************************)
EXTENDS EventIdWindow, SequenceTheorems, TLAPS

(* The inductive invariant: NeverTwice alone says nothing of the ids held, *)
(* which is what the next answer depends on.                               *)
IInv == TypeOK /\ InOrder /\ HoldsTheRecent /\ NeverTwice

(* What accept() has left after its first loop: ids that are all in the    *)
(* window, still the latest deliveries.                                    *)
KeptIsRecent(kept) ==
  /\ kept \in Seq(Sighting)
  /\ Len(kept) <= MaxEntries
  /\ Len(kept) <= Len(delivered)
  /\ \A i \in DOMAIN kept :
       /\ kept[i] = delivered[Len(delivered) - Len(kept) + i]
       /\ now - kept[i].at <= Window
  /\ \A i \in 1..(Len(delivered) - Len(kept)) :
       \/ now - delivered[i].at > Window
       \/ Len(delivered) - i >= MaxEntries

-----------------------------------------------------------------------------
(* Every sighting in a sequence carries a time.                            *)
LEMMA SightingsHaveTimes ==
  ASSUME NEW s \in Seq(Sighting), NEW i \in 1..Len(s)
  PROVE  s[i] \in Sighting /\ s[i].at \in Nat
<1>1. s[i] \in Sighting
  BY ElementOfSeq
<1> QED BY <1>1 DEF Sighting

(* The first loop of accept() drops only ids out of the window and leaves  *)
(* none of those.                                                          *)
LEMMA PurgeKeepsTheRecent ==
  ASSUME IInv, NEW n \in 0..Len(seen), ExpiredPrefix(n)
  PROVE  KeptIsRecent(SubSeq(seen, n + 1, Len(seen)))
<1> DEFINE kept == SubSeq(seen, n + 1, Len(seen))
<1>1. seen \in Seq(Sighting) /\ delivered \in Seq(Sighting) /\ now \in Nat
      /\ Len(seen) <= MaxEntries /\ Len(seen) <= Len(delivered)
  BY DEF IInv, TypeOK, HoldsTheRecent
<1>2. /\ kept \in Seq(Sighting)
      /\ Len(kept) = Len(seen) - n
      /\ \A i \in 1..(Len(seen) - n) : kept[i] = seen[n + i]
  BY <1>1
<1> HIDE DEF kept
<1>3. ASSUME NEW i \in DOMAIN kept
      PROVE  /\ kept[i] = delivered[Len(delivered) - Len(kept) + i]
             /\ now - kept[i].at <= Window
  <2>1. i \in 1..(Len(seen) - n) /\ n + i \in DOMAIN seen /\ n + 1 \in DOMAIN seen
    BY <1>1, <1>2
  <2>2. /\ kept[i] = delivered[Gone + n + i]
        /\ seen[n + 1] = delivered[Gone + n + 1]
        /\ kept[i] = seen[n + i]
    <3>1. \A k \in DOMAIN seen : seen[k] = delivered[Gone + k]
      BY DEF IInv, HoldsTheRecent
    <3>2. Gone \in Nat
      BY <1>1 DEF Gone
    <3>3. /\ seen[n + i] = delivered[Gone + (n + i)]
          /\ seen[n + 1] = delivered[Gone + (n + 1)]
      BY <2>1, <3>1
    <3>4. Gone + (n + i) = Gone + n + i /\ Gone + (n + 1) = Gone + n + 1
      BY <1>1, <2>1, <3>2
    <3> HIDE DEF Gone
    <3> QED BY <1>2, <2>1, <3>3, <3>4
  <2>3. /\ Gone + n + i \in DOMAIN delivered
        /\ Gone + n + 1 \in DOMAIN delivered
        /\ Gone + n + 1 <= Gone + n + i
    BY <1>1, <2>1 DEF Gone
  <2>4. delivered[Gone + n + 1].at <= delivered[Gone + n + i].at
    BY <2>3 DEF IInv, InOrder
  <2>5. now - seen[n + 1].at <= Window
    BY <1>1, <2>1 DEF ExpiredPrefix
  <2>6. delivered[Gone + n + 1].at \in Nat /\ delivered[Gone + n + i].at \in Nat
    BY <1>1, <2>3, SightingsHaveTimes
  <2>7. now - kept[i].at <= Window
    <3>1. kept[i].at = delivered[Gone + n + i].at /\ seen[n + 1].at = delivered[Gone + n + 1].at
      BY <2>2
    <3>2. seen[n + 1].at \in Nat /\ kept[i].at \in Nat /\ seen[n + 1].at <= kept[i].at
      BY <2>4, <2>6, <3>1
    <3> QED BY <1>1, <2>5, <3>2, WindowAssumption
  <2>8. Gone + n + i = Len(delivered) - Len(kept) + i
    BY <1>1, <1>2, <2>1 DEF Gone
  <2> QED BY <2>2, <2>7, <2>8
<1>4. ASSUME NEW i \in 1..(Len(delivered) - Len(kept))
      PROVE  now - delivered[i].at > Window \/ Len(delivered) - i >= MaxEntries
  <2>1. CASE i <= Gone
    BY <1>1, <2>1 DEF IInv, HoldsTheRecent, Gone
  <2>2. CASE i > Gone
    <3>1. i - Gone \in 1..n /\ i - Gone \in DOMAIN seen
      BY <1>1, <1>2, <2>2 DEF Gone
    <3>2. now - seen[i - Gone].at > Window
      BY <3>1 DEF ExpiredPrefix
    <3>3. seen[i - Gone] = delivered[Gone + (i - Gone)]
      BY <3>1 DEF IInv, HoldsTheRecent
    <3>4. Gone + (i - Gone) = i
      BY <1>1 DEF Gone
    <3> QED BY <3>2, <3>3, <3>4
  <2> QED BY <1>1, <2>1, <2>2 DEF Gone
<1>5. KeptIsRecent(kept)
  BY <1>1, <1>2, <1>3, <1>4, WindowAssumption DEF KeptIsRecent
<1> QED BY <1>5 DEF kept

(* After the first loop, holding an id is remembering it.                  *)
LEMMA HoldsIsRemembered ==
  ASSUME IInv, NEW kept, KeptIsRecent(kept), NEW id
  PROVE  Holds(kept, id) <=> Promise!Remembered(id)
<1>1. delivered \in Seq(Sighting) /\ now \in Nat
  BY DEF IInv, TypeOK
<1>2. /\ kept \in Seq(Sighting)
      /\ Len(kept) <= MaxEntries
      /\ Len(kept) <= Len(delivered)
  BY DEF KeptIsRecent
<1>3. ASSUME NEW i \in DOMAIN kept, kept[i].id = id
      PROVE  Promise!Remembered(id)
  <2> DEFINE j == Len(delivered) - Len(kept) + i
  <2>1. j \in DOMAIN delivered /\ Len(delivered) - j < MaxEntries
    BY <1>1, <1>2, WindowAssumption
  <2>2. delivered[j] = kept[i] /\ now - kept[i].at <= Window
    BY DEF KeptIsRecent
  <2> QED BY <1>3, <2>1, <2>2 DEF Promise!Remembered
<1>4. ASSUME NEW j \in DOMAIN delivered, delivered[j].id = id,
             now - delivered[j].at <= Window, Len(delivered) - j < MaxEntries
      PROVE  Holds(kept, id)
  <2> DEFINE i == j - (Len(delivered) - Len(kept))
  <2>0. delivered[j].at \in Nat
    BY <1>1, SightingsHaveTimes
  <2>1. ~ (j \in 1..(Len(delivered) - Len(kept)))
    BY <1>1, <1>2, <1>4, <2>0, WindowAssumption DEF KeptIsRecent
  <2>2. i \in DOMAIN kept /\ Len(delivered) - Len(kept) + i = j
    BY <1>1, <1>2, <2>1
  <2>3. kept[i] = delivered[j]
    BY <2>2 DEF KeptIsRecent
  <2> QED BY <1>4, <2>2, <2>3 DEF Holds
<1> QED BY <1>3, <1>4 DEF Holds, Promise!Remembered

-----------------------------------------------------------------------------
(* Delivering an event keeps the invariant.                                *)
LEMMA RecordKeepsIInv ==
  ASSUME IInv, NEW kept, KeptIsRecent(kept), NEW id \in Ids,
         ~ Holds(kept, id), Record(kept, id), UNCHANGED now
  PROVE  IInv'
<1> DEFINE new == [id |-> id, at |-> now]
           all == Append(kept, new)
<1>1. /\ delivered \in Seq(Sighting) /\ now \in Nat /\ new \in Sighting
      /\ kept \in Seq(Sighting) /\ Len(kept) <= MaxEntries
      /\ Len(kept) <= Len(delivered)
  BY DEF IInv, TypeOK, KeptIsRecent, Sighting
<1>2. /\ delivered' = Append(delivered, new) /\ now' = now
      /\ verdict' = TRUE /\ seen' = Trim(all)
  BY DEF Record
<1>3. /\ delivered' \in Seq(Sighting)
      /\ Len(delivered') = Len(delivered) + 1
      /\ delivered'[Len(delivered) + 1] = new
      /\ \A i \in 1..Len(delivered) : delivered'[i] = delivered[i]
  BY <1>1, <1>2
<1>4. /\ all \in Seq(Sighting) /\ Len(all) = Len(kept) + 1
      /\ all[Len(kept) + 1] = new
      /\ \A i \in 1..Len(kept) : all[i] = kept[i]
  BY <1>1
<1>5. \A i \in 1..Len(all) : all[i] = delivered'[Len(delivered') - Len(all) + i]
  <2> SUFFICES ASSUME NEW i \in 1..Len(all)
               PROVE  all[i] = delivered'[Len(delivered') - Len(all) + i]
    OBVIOUS
  <2>1. CASE i <= Len(kept)
    <3>1. i \in DOMAIN kept /\ Len(delivered') - Len(all) + i \in 1..Len(delivered)
      BY <1>1, <1>3, <1>4, <2>1
    <3>2. kept[i] = delivered[Len(delivered) - Len(kept) + i]
      BY <3>1 DEF KeptIsRecent
    <3>3. Len(delivered') - Len(all) + i = Len(delivered) - Len(kept) + i
      BY <1>1, <1>3, <1>4
    <3> QED BY <1>3, <1>4, <2>1, <3>1, <3>2, <3>3
  <2>2. CASE i = Len(kept) + 1
    BY <1>1, <1>3, <1>4, <2>2
  <2> QED BY <1>1, <1>4, <2>1, <2>2
<1>6. /\ seen' \in Seq(Sighting) /\ Len(seen') <= MaxEntries
      /\ Len(seen') <= Len(delivered')
      /\ \A i \in 1..Len(seen') : seen'[i] = all[Len(all) - Len(seen') + i]
      /\ Len(seen') = Len(all) \/ Len(seen') = MaxEntries
      /\ Len(seen') <= Len(all)
  <2>1. CASE Len(all) > MaxEntries
    <3>1. seen' = SubSeq(all, Len(all) - MaxEntries + 1, Len(all))
      BY <1>2, <2>1 DEF Trim
    <3>2. Len(seen') = MaxEntries /\ seen' \in Seq(Sighting)
          /\ \A i \in 1..MaxEntries : seen'[i] = all[Len(all) - MaxEntries + i]
      <4>1. \A k \in (Len(all) - MaxEntries + 1)..Len(all) : all[k] \in Sighting
        BY <1>4, <2>1, ElementOfSeq, WindowAssumption
      <4> HIDE DEF all
      <4> QED BY <1>4, <2>1, <3>1, <4>1, SubSeqProperties, WindowAssumption
    <3> HIDE DEF all
    <3>3. \A i \in 1..Len(seen') : Len(all) - Len(seen') + i = Len(all) - MaxEntries + i
      BY <1>4, <3>2, WindowAssumption
    <3>4. Len(seen') <= Len(delivered') /\ Len(seen') <= Len(all)
      BY <1>1, <1>3, <1>4, <2>1, <3>2, WindowAssumption
    <3> QED BY <3>2, <3>3, <3>4, WindowAssumption
  <2>2. CASE ~ (Len(all) > MaxEntries)
    <3>1. seen' = all
      BY <1>2, <2>2 DEF Trim
    <3> QED BY <1>1, <1>3, <1>4, <2>2, <3>1, WindowAssumption
  <2> QED BY <2>1, <2>2
<1>7. TypeOK'
  BY <1>1, <1>2, <1>3, <1>6 DEF TypeOK
<1>8. InOrder'
  <2>1. \A i \in 1..Len(delivered) : delivered[i].at \in Nat /\ delivered[i].at <= now
    BY <1>1, SightingsHaveTimes DEF IInv, InOrder
  <2>2. \A i \in DOMAIN delivered' : delivered'[i].at <= now'
    BY <1>1, <1>2, <1>3, <2>1
  <2>3. ASSUME NEW i \in DOMAIN delivered', NEW j \in DOMAIN delivered', i <= j
        PROVE  delivered'[i].at <= delivered'[j].at
    <3>1. CASE j <= Len(delivered)
      BY <1>1, <1>3, <2>3, <3>1 DEF IInv, InOrder
    <3>2. CASE j = Len(delivered) + 1
      BY <1>1, <1>2, <1>3, <2>2, <3>2
    <3> QED BY <1>1, <1>3, <3>1, <3>2
  <2> QED BY <2>2, <2>3 DEF InOrder
<1>9. HoldsTheRecent'
  <2>1. \A i \in DOMAIN seen' : seen'[i] = delivered'[Gone' + i]
    <3> SUFFICES ASSUME NEW i \in DOMAIN seen'
                 PROVE  seen'[i] = delivered'[Gone' + i]
      OBVIOUS
    <3>1. i \in 1..Len(seen') /\ Len(all) - Len(seen') + i \in 1..Len(all)
      BY <1>4, <1>6
    <3>2. seen'[i] = delivered'[Len(delivered') - Len(all) + (Len(all) - Len(seen') + i)]
      BY <1>5, <1>6, <3>1
    <3>3. Len(delivered') - Len(all) + (Len(all) - Len(seen') + i) = Gone' + i
      BY <1>3, <1>4, <1>6, <3>1 DEF Gone
    <3> QED BY <3>2, <3>3
  <2>2. ASSUME NEW i \in 1..Gone'
        PROVE  \/ now' - delivered'[i].at > Window
               \/ Len(delivered') - i >= MaxEntries
    <3>1. i \in 1..Len(delivered') /\ i <= Len(delivered') - Len(seen')
      BY <1>3, <1>6 DEF Gone
    <3>2. CASE Len(seen') = MaxEntries
      BY <1>3, <1>6, <3>1, <3>2, WindowAssumption
    <3>3. CASE Len(seen') = Len(all)
      <4>1. i \in 1..(Len(delivered) - Len(kept)) /\ i \in 1..Len(delivered)
        BY <1>1, <1>3, <1>4, <3>1, <3>3
      <4>2. now - delivered[i].at > Window \/ Len(delivered) - i >= MaxEntries
        BY <4>1 DEF KeptIsRecent
      <4> QED BY <1>1, <1>2, <1>3, <4>1, <4>2, WindowAssumption
    <3> QED BY <1>6, <3>2, <3>3
  <2> QED BY <1>6, <2>1, <2>2 DEF HoldsTheRecent
<1>10. NeverTwice'
  <2> SUFFICES ASSUME NEW i \in DOMAIN delivered', NEW j \in DOMAIN delivered',
                      i < j, delivered'[i].id = delivered'[j].id
               PROVE  \/ delivered'[j].at - delivered'[i].at > Window
                      \/ j - i > MaxEntries
    BY DEF NeverTwice
  <2>1. CASE j <= Len(delivered)
    <3>1. i \in DOMAIN delivered /\ j \in DOMAIN delivered
      BY <1>1, <1>3, <2>1
    <3>2. delivered'[i] = delivered[i] /\ delivered'[j] = delivered[j]
      BY <1>1, <1>3, <3>1
    <3> QED BY <3>1, <3>2 DEF IInv, NeverTwice
  <2>2. CASE j = Len(delivered) + 1
    <3>1. i \in DOMAIN delivered /\ delivered[i].id = id /\ delivered[i].at \in Nat
      BY <1>1, <1>3, <2>2, SightingsHaveTimes
    <3>2. ~ Promise!Remembered(id)
      BY HoldsIsRemembered
    <3>3. ~ (now - delivered[i].at <= Window) \/ ~ (Len(delivered) - i < MaxEntries)
      BY <3>1, <3>2 DEF Promise!Remembered
    <3> QED BY <1>1, <1>3, <2>2, <3>1, <3>3, WindowAssumption
  <2> QED BY <1>1, <1>3, <2>1, <2>2
<1> QED BY <1>7, <1>8, <1>9, <1>10 DEF IInv

(* Dropping a copy keeps the invariant: only ids out of the window left.   *)
LEMMA RefuseKeepsIInv ==
  ASSUME IInv, NEW kept, KeptIsRecent(kept), Refuse(kept), UNCHANGED now
  PROVE  IInv'
<1>1. seen' = kept /\ delivered' = delivered /\ now' = now /\ verdict' = FALSE
  BY DEF Refuse
<1>2. TypeOK' /\ InOrder' /\ NeverTwice'
  BY <1>1 DEF IInv, TypeOK, InOrder, NeverTwice, KeptIsRecent
<1>3. HoldsTheRecent'
  BY <1>1 DEF HoldsTheRecent, KeptIsRecent, Gone
<1> QED BY <1>2, <1>3 DEF IInv

LEMMA InitIInv == Init => IInv
  BY WindowAssumption
  DEF Init, IInv, TypeOK, InOrder, HoldsTheRecent, Gone, NeverTwice

LEMMA NextIInv == IInv /\ [Next]_vars => IInv'
<1> SUFFICES ASSUME IInv, [Next]_vars PROVE IInv'
  OBVIOUS
<1>1. CASE \E id \in Ids : Accept(id)
  <2> PICK id \in Ids : Accept(id)
    BY <1>1
  <2> PICK n \in 0..Len(seen) :
         /\ ExpiredPrefix(n)
         /\ LET kept == SubSeq(seen, n + 1, Len(seen))
            IN \/ ~ Holds(kept, id) /\ Record(kept, id)
               \/ Holds(kept, id) /\ Refuse(kept)
    BY DEF Accept
  <2> DEFINE kept == SubSeq(seen, n + 1, Len(seen))
  <2>1. KeptIsRecent(kept)
    BY PurgeKeepsTheRecent
  <2>2. UNCHANGED now
    BY DEF Accept
  <2> HIDE DEF kept
  <2>3. CASE ~ Holds(kept, id) /\ Record(kept, id)
    BY <2>1, <2>2, <2>3, RecordKeepsIInv
  <2>4. CASE Refuse(kept)
    BY <2>1, <2>2, <2>4, RefuseKeepsIInv
  <2> QED BY <2>3, <2>4 DEF kept
<1>2. CASE Clear
  BY <1>2, WindowAssumption
  DEF Clear, IInv, TypeOK, InOrder, HoldsTheRecent, Gone, NeverTwice
<1>3. CASE Tick
  <2>1. seen' = seen /\ delivered' = delivered /\ verdict' = verdict /\ now' = now + 1
    BY <1>3 DEF Tick
  <2>2. /\ delivered \in Seq(Sighting) /\ now \in Nat /\ seen \in Seq(Sighting)
        /\ \A i \in DOMAIN delivered : delivered[i].at \in Nat
    BY SightingsHaveTimes DEF IInv, TypeOK
  <2>3. TypeOK' /\ NeverTwice'
    BY <2>1, <2>2 DEF IInv, TypeOK, NeverTwice
  <2>4. InOrder'
    BY <2>1, <2>2 DEF IInv, InOrder
  <2>5. HoldsTheRecent'
    <3>1. /\ Len(seen') <= Len(delivered')
          /\ \A i \in DOMAIN seen' : seen'[i] = delivered'[Gone' + i]
      BY <2>1 DEF IInv, HoldsTheRecent, Gone
    <3>2. ASSUME NEW i \in 1..Gone'
          PROVE  \/ now' - delivered'[i].at > Window
                 \/ Len(delivered') - i >= MaxEntries
      <4>1. i \in 1..Gone /\ i \in DOMAIN delivered
        BY <2>1, <2>2 DEF Gone, IInv, HoldsTheRecent
      <4>2. now - delivered[i].at > Window \/ Len(delivered) - i >= MaxEntries
        BY <4>1 DEF IInv, HoldsTheRecent
      <4> QED BY <2>1, <2>2, <4>1, <4>2, WindowAssumption
    <3> QED BY <3>1, <3>2 DEF HoldsTheRecent
  <2> QED BY <2>3, <2>4, <2>5 DEF IInv
<1>4. CASE UNCHANGED vars
  BY <1>4 DEF vars, IInv, TypeOK, InOrder, HoldsTheRecent, Gone, NeverTwice
<1> QED BY <1>1, <1>2, <1>3, <1>4 DEF Next

(* The inductive invariant holds of every behaviour of EventIdWindow.      *)
THEOREM Invariance == Spec => []IInv
  BY InitIInv, NextIInv, PTL DEF Spec

(* Types hold and at most MaxEntries ids are ever held, for every limit    *)
(* and window.                                                             *)
THEOREM TypeCorrect == Spec => []TypeOK
<1>1. IInv => TypeOK
  BY DEF IInv
<1> QED BY <1>1, Invariance, PTL

(* accept() holds exactly the latest deliveries and forgets none that      *)
(* still counts.                                                           *)
THEOREM RecentHeld == Spec => []HoldsTheRecent
<1>1. IInv => HoldsTheRecent
  BY DEF IInv
<1> QED BY <1>1, Invariance, PTL

(* No event is delivered twice within the window, for every set of ids,    *)
(* limit and window.                                                       *)
THEOREM DeliveredOnce == Spec => []NeverTwice
<1>1. IInv => NeverTwice
  BY DEF IInv
<1> QED BY <1>1, Invariance, PTL

-----------------------------------------------------------------------------
LEMMA StepKeepsThePromise ==
  ASSUME IInv, [Next]_vars
  PROVE  [Promise!Next]_(Promise!vars)
<1>1. CASE \E id \in Ids : Accept(id)
  <2> PICK id \in Ids : Accept(id)
    BY <1>1
  <2> PICK n \in 0..Len(seen) :
         /\ ExpiredPrefix(n)
         /\ LET kept == SubSeq(seen, n + 1, Len(seen))
            IN \/ ~ Holds(kept, id) /\ Record(kept, id)
               \/ Holds(kept, id) /\ Refuse(kept)
    BY DEF Accept
  <2> DEFINE kept == SubSeq(seen, n + 1, Len(seen))
  <2>1. Holds(kept, id) <=> Promise!Remembered(id)
    BY PurgeKeepsTheRecent, HoldsIsRemembered
  <2>2. UNCHANGED now
    BY DEF Accept
  <2> HIDE DEF kept
  <2>3. CASE ~ Holds(kept, id) /\ Record(kept, id)
    BY <2>1, <2>2, <2>3 DEF Record, Promise!Deliver, Promise!Next
  <2>4. CASE Holds(kept, id) /\ Refuse(kept)
    BY <2>1, <2>2, <2>4 DEF Refuse, Promise!Drop, Promise!Next
  <2> QED BY <2>3, <2>4 DEF kept
<1>2. CASE Clear
  BY <1>2 DEF Clear, Promise!Forget, Promise!Next
<1>3. CASE Tick
  BY <1>3 DEF Tick, Promise!Tick, Promise!Next
<1>4. CASE UNCHANGED vars
  BY <1>4 DEF vars, Promise!vars
<1> QED BY <1>1, <1>2, <1>3, <1>4 DEF Next

(* EventIdWindow implements EventDelivery: it drops a copy exactly when    *)
(* one is remembered, for every limit and window.                          *)
THEOREM ImplementsDelivery == Spec => KeepsThePromise
<1>1. Init => Promise!Init
  BY DEF Init, Promise!Init
<1>2. IInv /\ [Next]_vars => [Promise!Next]_(Promise!vars)
  BY StepKeepsThePromise
<1> QED BY <1>1, <1>2, Invariance, PTL DEF Spec, KeepsThePromise, Promise!Spec
=============================================================================
