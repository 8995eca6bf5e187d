------------------------ MODULE AlarmPublisher_proofs ------------------------
(***************************************************************************)
(* The alarm publisher for every ring size and any number of PVs, slots,   *)
(* updates and failures.                                                   *)
(*                                                                         *)
(* The argument: a slot that was once current stays current until it is    *)
(* superseded for good, because a reload retires an active slot only after *)
(* the older ones of its name.  What was queued, is being sent, or was     *)
(* recorded belongs to such a slot, so a record of another slot is a newer *)
(* one's, and records of the same slot follow the revisions.               *)
(***************************************************************************)
EXTENDS AlarmPublisher, SequenceTheorems, TLAPS

\* Older slots of the name, and the slot itself, are gone for good.
Over(i) == \A j \in slots : slot[j].name = slot[i].name /\ j <= i => slot[j].retired
Newer(i) == \E j \in slots : i < j /\ slot[j].name = slot[i].name /\ Usable(j)
Superseded(i) == Over(i) \/ Newer(i)
\* What the worker has once found current.
Seen(i) == i \in Ids /\ (current(i) \/ Superseded(i))

\* The transitions that are queued, being sent or the last that were recorded.
Record(n) == [slot |-> sent[n][1], state |-> last[n], revision |-> sent[n][2]]
Known ==
  Range(ring) \cup {e \in {event} : selected # 0}
    \cup {Record(n) : n \in {m \in Names : sent[m][1] # 0}}

\* The state that a transition carries is the slot's, unless that has changed since.
Carries(e) ==
  /\ Seen(e.slot) /\ 0 < e.revision /\ e.revision <= slot[e.slot].revision
  /\ e.revision = slot[e.slot].revision => e.state = slot[e.slot].latest

KnownInv == \A e \in Known : Carries(e)

\* What is recorded comes before what is being sent, and that before what is queued.
OrderInv ==
  /\ \A p, q \in DOMAIN ring : p < q /\ ring[p].slot = ring[q].slot
                                => ring[p].revision < ring[q].revision
  /\ \A n \in Names : sent[n][1] # 0 => slot[sent[n][1]].name = n
  /\ \A n \in Names, p \in DOMAIN ring :
       ring[p].slot = sent[n][1] => sent[n][2] <= ring[p].revision
  /\ selected # 0 =>
       /\ event.slot = selected
       /\ \A p \in DOMAIN ring : ring[p].slot = selected => event.revision < ring[p].revision
       /\ LET s == sent[slot[selected].name] IN
          s[1] < selected \/ (s[1] = selected /\ s[2] <= event.revision)

\* Transition p of slot i is the present state, or the next one is queued behind it.
NoGap(p, i) ==
  \/ ring[p].revision = slot[i].revision
  \/ \E q \in DOMAIN ring : p < q /\ ring[q].slot = i /\ ring[q].revision = ring[p].revision + 1

GapInv == \A p \in DOMAIN ring, i \in Ids : ring[p].slot = i /\ current(i) => NoGap(p, i)

DeliveredInv ==
  \A i \in Ids : slot[i].delivered > 0 =>
    LET s == sent[slot[i].name] IN i < s[1] \/ (i = s[1] /\ slot[i].delivered <= s[2])

RingInv == ring # <<>> => enabled /\ live /\ ~recovering

DataInv == KnownInv /\ OrderInv /\ GapInv /\ DeliveredInv /\ RingInv
IInv == TypeOK /\ DataInv /\ NoMissedAlarm

-----------------------------------------------------------------------------
(* Slots *)

\* The ids are 1 .. nextId, and the fields of a slot have their types.
LEMMA SlotTypes ==
  ASSUME TypeOK
  PROVE  /\ Ids = 1..Len(slot) /\ Len(slot) \in Nat
         /\ \A i \in Ids :
              /\ slot[i] \in Slots /\ i \in Nat \ {0}
              /\ slot[i].name \in Names /\ slot[i].latest \in Alarms
              /\ slot[i].revision \in Nat \ {0} /\ slot[i].delivered \in Nat
              /\ slot[i].active \in BOOLEAN /\ slot[i].retired \in BOOLEAN
<1>1. slot \in Seq(Slots) BY DEF TypeOK
<1>2. Ids = 1..Len(slot) /\ Len(slot) \in Nat /\ \A i \in Ids : slot[i] \in Slots BY <1>1 DEF Ids
<1>3. QED BY <1>2 DEF Slots

\* An assignment to fields of one slot.
LEMMA ReplaceSlot ==
  ASSUME TypeOK, NEW i \in Ids, NEW r \in Slots, slot' = [slot EXCEPT ![i] = r]
  PROVE  /\ slot' \in Seq(Slots) /\ Ids' = Ids /\ slot'[i] = r
         /\ \A k \in Ids : k # i => slot'[k] = slot[k]
<1>1. slot \in Seq(Slots) /\ i \in 1..Len(slot) BY SlotTypes DEF TypeOK
<1>2. QED BY <1>1, ExceptSeq DEF Ids

\* prepare()
LEMMA PrepareSlot ==
  ASSUME TypeOK, NEW n \in Names, NEW a \in Alarms, prepare(n, a)
  PROVE  /\ slot' \in Seq(Slots) /\ Ids' = Ids \cup {Len(slot) + 1} /\ Len(slot) + 1 \notin Ids
         /\ \A k \in Ids : slot'[k] = slot[k] /\ k < Len(slot) + 1
         /\ ~slot'[Len(slot) + 1].active /\ slot'[Len(slot) + 1].delivered = 0
         /\ slots' = slots \cup {Len(slot) + 1}
<1> DEFINE r == [name |-> n, latest |-> a, revision |-> 1, delivered |-> 0, deliveredEpoch |-> 0,
                 active |-> FALSE, retired |-> FALSE, force |-> TRUE]
<1>1. slot \in Seq(Slots) /\ slot' = Append(slot, r) /\ slots' = slots \cup {Len(slot) + 1}
  BY DEF TypeOK, prepare
<1>2. r \in Slots BY DEF Slots
<1>3. /\ Append(slot, r) \in Seq(Slots) /\ Len(Append(slot, r)) = Len(slot) + 1
      /\ \A k \in 1..Len(slot) : Append(slot, r)[k] = slot[k]
      /\ Append(slot, r)[Len(slot) + 1] = r
  <2> HIDE DEF r
  <2> QED BY <1>1, <1>2, AppendProperties
<1>4. DOMAIN Append(slot, r) = 1..(Len(slot) + 1) BY <1>3
<1>5. QED BY <1>1, <1>3, <1>4, SlotTypes DEF Ids

\* activate()
LEMMA ActivateSlot ==
  ASSUME TypeOK, NEW i \in Ids, activate(i)
  PROVE  /\ slot' \in Seq(Slots) /\ Ids' = Ids
         /\ \A k \in Ids : k # i => slot'[k] = slot[k]
         /\ slot'[i].name = slot[i].name /\ slot'[i].latest = slot[i].latest
         /\ slot'[i].revision = slot[i].revision /\ slot'[i].delivered = slot[i].delivered
         /\ slot'[i].active /\ ~slot[i].retired /\ ~slot'[i].retired
<1> DEFINE r == [slot[i] EXCEPT !.active = TRUE, !.force = TRUE]
<1>1. slot \in Seq(Slots) /\ slot[i] \in Slots BY SlotTypes DEF TypeOK
<1>2. r \in Slots BY <1>1 DEF Slots
<1>3. slot' = [slot EXCEPT ![i] = r] /\ ~slot[i].retired BY <1>1 DEF activate, Ids
<1>4. /\ r.name = slot[i].name /\ r.latest = slot[i].latest /\ r.revision = slot[i].revision
      /\ r.delivered = slot[i].delivered /\ r.active /\ r.retired = slot[i].retired
  BY <1>1 DEF Slots
<1> HIDE DEF r
<1>5. QED BY <1>2, <1>3, <1>4, ReplaceSlot

\* retire() and ~Registration()
LEMMA RetireSlot ==
  ASSUME TypeOK, NEW i \in Ids, retire(i) \/ remove(i)
  PROVE  /\ slot' \in Seq(Slots) /\ Ids' = Ids
         /\ \A k \in Ids : k # i => slot'[k] = slot[k]
         /\ slot'[i].name = slot[i].name /\ slot'[i].latest = slot[i].latest
         /\ slot'[i].revision = slot[i].revision /\ slot'[i].delivered = slot[i].delivered
         /\ slot'[i].retired
<1> DEFINE r == [slot[i] EXCEPT !.active = FALSE, !.retired = TRUE]
<1>1. slot \in Seq(Slots) /\ slot[i] \in Slots BY SlotTypes DEF TypeOK
<1>2. r \in Slots BY <1>1 DEF Slots
<1>3. slot' = [slot EXCEPT ![i] = r] BY <1>1 DEF retire, remove, Ids
<1>4. /\ r.name = slot[i].name /\ r.latest = slot[i].latest /\ r.revision = slot[i].revision
      /\ r.delivered = slot[i].delivered /\ r.retired
  BY <1>1 DEF Slots
<1> HIDE DEF r
<1>5. QED BY <1>2, <1>3, <1>4, ReplaceSlot

\* update()
LEMMA UpdateSlot ==
  ASSUME TypeOK, NEW i \in Ids, NEW a \in Alarms, update(i, a)
  PROVE  /\ slot' \in Seq(Slots) /\ Ids' = Ids
         /\ \A k \in Ids : k # i => slot'[k] = slot[k]
         /\ slot'[i].name = slot[i].name /\ slot'[i].latest = a
         /\ slot'[i].revision = slot[i].revision + 1 /\ slot'[i].delivered = slot[i].delivered
         /\ slot'[i].active = slot[i].active /\ slot'[i].retired = slot[i].retired
<1> DEFINE r == [slot[i] EXCEPT !.latest = a, !.revision = slot[i].revision + 1]
<1>1. /\ slot \in Seq(Slots) /\ slot[i] \in Slots /\ slot[i].revision + 1 \in Nat \ {0}
  <2>1. slot[i] \in Slots /\ slot[i].revision \in Nat \ {0} BY SlotTypes
  <2>2. slot \in Seq(Slots) BY DEF TypeOK
  <2>3. QED BY <2>1, <2>2
<1>2. r \in Slots
  <2> DEFINE v == slot[i].revision + 1
  <2> HIDE DEF v
  <2>1. v \in Nat \ {0} BY <1>1 DEF v
  <2>2. [slot[i] EXCEPT !.latest = a, !.revision = v] \in Slots BY <1>1, <2>1 DEF Slots
  <2>3. QED BY <2>2 DEF v
<1>3. slot' = [slot EXCEPT ![i] = r] BY <1>1 DEF update, Ids
<1>4. /\ r.name = slot[i].name /\ r.latest = a /\ r.revision = slot[i].revision + 1
      /\ r.delivered = slot[i].delivered /\ r.active = slot[i].active
      /\ r.retired = slot[i].retired
  BY <1>1 DEF Slots
<1> HIDE DEF r
<1>5. QED BY <1>2, <1>3, <1>4, ReplaceSlot

\* The end of a send that Redis accepted.
LEMMA DeliverSlot ==
  ASSUME TypeOK, MarkDelivered
  PROVE  /\ slot' \in Seq(Slots) /\ Ids' = Ids
         /\ \A k \in Ids :
              /\ slot'[k].name = slot[k].name /\ slot'[k].latest = slot[k].latest
              /\ slot'[k].revision = slot[k].revision
              /\ slot'[k].active = slot[k].active /\ slot'[k].retired = slot[k].retired
              /\ \/ slot'[k].delivered = slot[k].delivered
                 \/ k = selected /\ slot'[k].delivered = event.revision
<1>1. CASE selected # 0 /\ current(selected)
  <2> DEFINE i == selected
             r == [slot[i] EXCEPT !.delivered = IF @ < event.revision THEN event.revision ELSE @,
                                  !.deliveredEpoch = sendingEpoch, !.force = FALSE]
  <2>1. i \in Ids /\ event.revision \in Nat /\ sendingEpoch \in Nat
    BY <1>1 DEF current, TypeOK, Events
  <2>2. slot \in Seq(Slots) /\ slot[i] \in Slots BY <2>1, SlotTypes DEF TypeOK
  <2>3. r \in Slots BY <2>1, <2>2 DEF Slots
  <2>4. slot' = [slot EXCEPT ![i] = r] BY <1>1, <2>1, <2>2 DEF MarkDelivered, Ids
  <2>5. /\ r.name = slot[i].name /\ r.latest = slot[i].latest /\ r.revision = slot[i].revision
        /\ r.active = slot[i].active /\ r.retired = slot[i].retired
        /\ r.delivered = slot[i].delivered \/ r.delivered = event.revision
    BY <2>2 DEF Slots
  <2> HIDE DEF r
  <2>6. QED BY <2>1, <2>3, <2>4, <2>5, ReplaceSlot
<1>2. CASE ~(selected # 0 /\ current(selected)) BY <1>2 DEF MarkDelivered, TypeOK, Ids
<1>3. QED BY <1>1, <1>2

-----------------------------------------------------------------------------
(* What was once current *)

\* A superseded slot is not current, and a current one is the newest seen.
LEMMA SeenOrder ==
  ASSUME TypeOK, NEW i \in Ids, NEW s \in Ids, slot[s].name = slot[i].name, Seen(s), current(i)
  PROVE  s <= i /\ (s = i => ~Superseded(s))
<1>1. i \in Nat /\ s \in Nat /\ \A j \in slots : j \in Nat BY SlotTypes DEF TypeOK
<1>2. i \in slots /\ ~slot[i].retired BY DEF current, Usable
<1>3. CASE current(s) BY <1>1, <1>2, <1>3 DEF current, Superseded, Over, Newer
<1>4. CASE Over(s) BY <1>1, <1>2, <1>4 DEF Over
<1>5. CASE Newer(s) BY <1>1, <1>5 DEF Newer, current
<1>6. QED BY <1>3, <1>4, <1>5 DEF Seen, Superseded

\* Steps other than those of registrations.
LEMMA SeenKept ==
  ASSUME TypeOK, Ids' = Ids, slots' = slots,
         \A k \in Ids : /\ slot'[k].name = slot[k].name /\ slot'[k].active = slot[k].active
                        /\ slot'[k].retired = slot[k].retired
  PROVE  \A i \in Ids : /\ current(i)' = current(i) /\ Superseded(i)' = Superseded(i)
                        /\ Seen(i)' = Seen(i)
<1>1. slots \subseteq Ids BY DEF TypeOK
<1> TAKE i \in Ids
<1>2. \A k \in Ids : Usable(k)' = Usable(k) BY DEF Usable
<1>3. current(i)' = current(i) BY <1>1, <1>2 DEF current
<1>4. Over(i)' = Over(i) BY <1>1 DEF Over
<1>5. Newer(i)' = Newer(i) BY <1>1, <1>2 DEF Newer
<1>6. QED BY <1>3, <1>4, <1>5 DEF Superseded, Seen

\* A slot that was current stays current or is superseded for good: retire() and
\* ~Registration() find the older slots of its name retired.
LEMMA SeenNext ==
  ASSUME TypeOK, NEW i \in Ids,
         \/ \E n \in Names, a \in Alarms : prepare(n, a)
         \/ \E k \in Ids : activate(k) \/ retire(k) \/ remove(k)
  PROVE  /\ Superseded(i) => Superseded(i)'
         /\ current(i) => current(i)' \/ Superseded(i)'
<1>1. slots \subseteq Ids /\ \A k \in Ids : k \in Nat BY SlotTypes DEF TypeOK
<1>2. ASSUME NEW n \in Names, NEW a \in Alarms, prepare(n, a)
      PROVE  (Superseded(i) => Superseded(i)') /\ (current(i) => current(i)')
  <2> PICK m \in Nat : m = Len(slot) + 1 BY SlotTypes
  <2>1. /\ \A k \in Ids : slot'[k] = slot[k] /\ k < m /\ Usable(k)' = Usable(k)
        /\ slots' = slots \cup {m} /\ ~Usable(m)'
    BY <1>2, PrepareSlot DEF Usable
  <2>2. Over(i) => Over(i)' BY <1>1, <2>1 DEF Over
  <2>3. Newer(i) => Newer(i)' BY <1>1, <2>1 DEF Newer
  <2>4. current(i) => current(i)' BY <1>1, <2>1 DEF current
  <2>5. QED BY <2>2, <2>3, <2>4 DEF Superseded
<1>3. ASSUME NEW k \in Ids, activate(k)
      PROVE  /\ Superseded(i) => Superseded(i)'
             /\ current(i) => current(i)' \/ Superseded(i)'
  <2>1. /\ \A j \in Ids : slot'[j].name = slot[j].name /\ (slot[j].retired => slot'[j].retired)
        /\ \A j \in Ids : Usable(j) => Usable(j)'
        /\ \A j \in Ids : j # k => Usable(j)' = Usable(j)
        /\ Usable(k)' /\ slots' = slots /\ k \in slots
    <3>1. /\ \A j \in Ids : j # k => slot'[j] = slot[j]
          /\ slot'[k].name = slot[k].name /\ slot'[k].active /\ ~slot[k].retired /\ ~slot'[k].retired
      BY <1>3, ActivateSlot
    <3>2. slots' = slots /\ k \in slots BY <1>3 DEF activate
    <3>3. \A j \in Ids : slot'[j].name = slot[j].name /\ (slot[j].retired => slot'[j].retired)
      BY <3>1
    <3>4. \A j \in Ids : j # k => Usable(j)' = Usable(j) BY <3>1 DEF Usable
    <3>5. Usable(k)' BY <3>1 DEF Usable
    <3>6. QED BY <3>2, <3>3, <3>4, <3>5
  <2>2. Over(i) => Over(i)' BY <1>1, <2>1 DEF Over
  <2>3. Newer(i) => Newer(i)' BY <1>1, <2>1 DEF Newer
  <2>4. ASSUME current(i) PROVE current(i)' \/ Newer(i)'
    <3>1. CASE i < k /\ slot[k].name = slot[i].name BY <2>1, <3>1 DEF Newer
    <3>2. CASE ~(i < k /\ slot[k].name = slot[i].name) BY <1>1, <2>1, <2>4, <3>2 DEF current
    <3>3. QED BY <3>1, <3>2
  <2>5. QED BY <2>2, <2>3, <2>4 DEF Superseded
<1>4. ASSUME NEW k \in Ids, retire(k) \/ remove(k)
      PROVE  /\ Superseded(i) => Superseded(i)'
             /\ current(i) => current(i)' \/ Superseded(i)'
  <2>1. /\ \A j \in Ids : slot'[j].name = slot[j].name /\ (slot[j].retired => slot'[j].retired)
        /\ \A j \in Ids : j # k => Usable(j)' = Usable(j)
        /\ slot'[k].retired /\ ~Usable(k)' /\ slots' \subseteq slots /\ slots \ {k} \subseteq slots'
        /\ Usable(k) => \A j \in slots : slot[j].name = slot[k].name /\ j < k => slot[j].retired
    <3>1. /\ \A j \in Ids : j # k => slot'[j] = slot[j]
          /\ slot'[k].name = slot[k].name /\ slot'[k].retired
      BY <1>4, RetireSlot
    <3>2. slots' \subseteq slots /\ slots \ {k} \subseteq slots' BY <1>4 DEF retire, remove
    <3>3. Usable(k) => \A j \in slots : slot[j].name = slot[k].name /\ j < k => slot[j].retired
      BY <1>4 DEF Usable, retire, remove, Oldest
    <3>4. \A j \in Ids : slot'[j].name = slot[j].name /\ (slot[j].retired => slot'[j].retired)
      BY <3>1
    <3>5. \A j \in Ids : j # k => Usable(j)' = Usable(j) BY <3>1 DEF Usable
    <3>6. ~Usable(k)' BY <3>1 DEF Usable
    <3>7. QED BY <3>1, <3>2, <3>3, <3>4, <3>5, <3>6
  <2>2. Over(i) => Over(i)' BY <1>1, <2>1 DEF Over
  <2>3. Usable(k) /\ slot[k].name = slot[i].name /\ i <= k => Over(i)' BY <1>1, <2>1 DEF Over
  <2>4. ASSUME Newer(i) PROVE Newer(i)' \/ Over(i)'
    <3>1. PICK j \in slots : i < j /\ slot[j].name = slot[i].name /\ Usable(j) BY <2>4 DEF Newer
    <3>2. CASE j = k BY <1>1, <2>3, <3>1, <3>2
    <3>3. CASE j # k BY <1>1, <2>1, <3>1, <3>3 DEF Newer
    <3>4. QED BY <3>2, <3>3
  <2>5. ASSUME current(i) PROVE current(i)' \/ Over(i)'
    <3>1. CASE i = k BY <1>1, <2>3, <2>5, <3>1 DEF current
    <3>2. CASE i # k BY <1>1, <2>1, <2>5, <3>2 DEF current
    <3>3. QED BY <3>1, <3>2
  <2>6. QED BY <2>2, <2>4, <2>5 DEF Superseded
<1>5. QED BY <1>2, <1>3, <1>4

-----------------------------------------------------------------------------
(* Steps *)

\* Types of what is known.
LEMMA KnownTypes ==
  ASSUME TypeOK
  PROVE  /\ \A n \in Names : sent[n] \in Nat \X Nat /\ sent[n][1] \in Nat /\ sent[n][2] \in Nat
                            /\ Record(n) \in Events
         /\ Known \subseteq Events /\ DOMAIN ring = 1..Len(ring) /\ Len(ring) \in Nat
         /\ \A p \in DOMAIN ring : ring[p] \in Events /\ ring[p].revision \in Nat /\ ring[p].slot \in Nat
         /\ event.revision \in Nat /\ selected \in Nat
<1>1. ASSUME NEW n \in Names
      PROVE  sent[n] \in Nat \X Nat /\ sent[n][1] \in Nat /\ sent[n][2] \in Nat /\ Record(n) \in Events
  BY DEF TypeOK, Record, Events
<1>2. ring \in Seq(Events) /\ event \in Events /\ selected \in Nat BY DEF TypeOK
<1>3. DOMAIN ring = 1..Len(ring) /\ Len(ring) \in Nat /\ \A p \in DOMAIN ring : ring[p] \in Events
  BY <1>2
<1>4. Known \subseteq Events BY <1>1, <1>2, <1>3 DEF Known, Range
<1>5. \A e \in Events : e.revision \in Nat /\ e.slot \in Nat BY DEF Events
<1>6. QED BY <1>1, <1>2, <1>3, <1>4, <1>5

\* What KnownInv says of the three kinds.
LEMMA KnownFacts ==
  ASSUME TypeOK, KnownInv, OrderInv
  PROVE  /\ \A p \in DOMAIN ring : /\ ring[p].slot \in Ids /\ Seen(ring[p].slot)
                                   /\ ring[p].revision <= slot[ring[p].slot].revision
         /\ selected # 0 => /\ selected \in Ids /\ Seen(selected)
                            /\ event.revision <= slot[selected].revision
         /\ \A n \in Names : sent[n][1] # 0 =>
              /\ sent[n][1] \in Ids /\ Seen(sent[n][1]) /\ sent[n][2] <= slot[sent[n][1]].revision
              /\ sent[n][2] = slot[sent[n][1]].revision => last[n] = slot[sent[n][1]].latest
<1>1. \A p \in DOMAIN ring : ring[p] \in Known BY DEF Known, Range
<1>2. selected # 0 => event \in Known BY DEF Known
<1>3. \A n \in Names : sent[n][1] # 0 => Record(n) \in Known BY DEF Known
<1>4. \A n \in Names : /\ Record(n).slot = sent[n][1] /\ Record(n).revision = sent[n][2]
                       /\ Record(n).state = last[n]
  BY DEF Record
<1>5. \A e \in Known : /\ e.slot \in Ids /\ Seen(e.slot) /\ e.revision <= slot[e.slot].revision
                       /\ e.revision = slot[e.slot].revision => e.state = slot[e.slot].latest
  BY DEF KnownInv, Carries, Seen
<1>6. ASSUME NEW n \in Names, sent[n][1] # 0
      PROVE  /\ sent[n][1] \in Ids /\ Seen(sent[n][1]) /\ sent[n][2] <= slot[sent[n][1]].revision
             /\ sent[n][2] = slot[sent[n][1]].revision => last[n] = slot[sent[n][1]].latest
  <2>1. Record(n) \in Known BY <1>3, <1>6
  <2>2. QED BY <1>4, <1>5, <2>1
<1>7. QED BY <1>1, <1>2, <1>5, <1>6 DEF OrderInv

\* Steps that leave alone what is queued, sent and recorded, and no state changes.
LEMMA QuietData ==
  ASSUME TypeOK, DataInv, UNCHANGED <<ring, selected, event, last, sent>>,
         Ids \subseteq Ids', \A k \in Ids' \ Ids : slot'[k].delivered = 0,
         \A k \in Ids : /\ slot'[k].name = slot[k].name /\ slot'[k].latest = slot[k].latest
                        /\ slot'[k].revision = slot[k].revision
                        /\ slot'[k].delivered = slot[k].delivered
                        /\ Superseded(k) => Superseded(k)'
                        /\ current(k) => current(k)' \/ Superseded(k)',
         RingInv', slots' \subseteq Nat
  PROVE  DataInv'
<1> USE DEF DataInv
<1>1. \A k \in Ids : Seen(k) => Seen(k)' BY DEF Seen
<1>2. Known' = Known BY DEF Known, Record
<1>3. KnownInv' BY <1>1, <1>2 DEF KnownInv, Carries, Seen
<1>4. /\ \A n \in Names : sent[n][1] # 0 => sent[n][1] \in Ids
      /\ selected # 0 => selected \in Ids
  BY KnownFacts
<1>6. OrderInv' BY <1>4 DEF OrderInv
<1>7. DeliveredInv' BY DEF DeliveredInv
<1>8. GapInv'
  <2> SUFFICES ASSUME NEW p \in DOMAIN ring, NEW i \in Ids', ring[p].slot = i, current(i)'
               PROVE  NoGap(p, i)'
    BY DEF GapInv
  <2>1. ring[p] \in Known BY DEF Known, Range
  <2>2. i \in Ids /\ Seen(i) BY <2>1 DEF KnownInv, Carries, Seen
  <2>3. ~Superseded(i)'
    <3>1. i \in Nat BY <2>2, SlotTypes
    <3>2. QED BY <3>1 DEF Superseded, Over, Newer, current, Usable
  <2>4. current(i) BY <2>2, <2>3 DEF Seen
  <2>5. NoGap(p, i) BY <2>2, <2>4 DEF GapInv
  <2>6. QED BY <2>2, <2>5 DEF NoGap
<1>9. QED BY <1>3, <1>6, <1>7, <1>8

\* The ring after update().
LEMMA EnqueueRing ==
  ASSUME TypeOK, NEW i \in Ids, NEW a \in Alarms, NEW r \in Nat, Enqueue(i, a, r)
  PROVE  /\ ring' \in Seq(Events) /\ Len(ring') <= RingSize /\ epoch' \in Nat \ {0}
         /\ recovering' \in BOOLEAN
         /\ \/ /\ ring' = Append(ring, [slot |-> i, state |-> a, revision |-> r])
               /\ live /\ ~recovering'
            \/ ring' = <<>>
            \/ ring' = ring /\ (~live \/ recovering) /\ recovering' = recovering
<1>1. ring \in Seq(Events) /\ Len(ring) <= RingSize /\ RingSize \in Nat /\ Len(ring) \in Nat
  BY AlarmAssumption DEF TypeOK
<1>2. [slot |-> i, state |-> a, revision |-> r] \in Events BY SlotTypes DEF Events
<1>3. CASE live /\ ~recovering /\ Len(ring) < RingSize
  <2> DEFINE e == [slot |-> i, state |-> a, revision |-> r]
  <2>1. ring' = Append(ring, e) /\ epoch' = epoch /\ recovering' = recovering BY <1>3 DEF Enqueue
  <2>2. Append(ring, e) \in Seq(Events) /\ Len(Append(ring, e)) = Len(ring) + 1
    <3> HIDE DEF e
    <3> QED BY <1>1, <1>2, AppendProperties DEF e
  <2> HIDE DEF e
  <2>3. /\ ring' \in Seq(Events) /\ Len(ring') <= RingSize /\ epoch' \in Nat \ {0}
        /\ recovering' \in BOOLEAN /\ live /\ ~recovering'
    BY <1>1, <1>3, <2>1, <2>2 DEF TypeOK
  <2>4. QED BY <2>1, <2>3 DEF e
<1>4. CASE Len(ring) = RingSize
  <2>1. ring' = <<>> /\ epoch' = epoch + 1 /\ recovering' = TRUE BY <1>1, <1>4 DEF Enqueue
  <2>2. QED BY <1>1, <2>1 DEF TypeOK
<1>5. CASE ~(live /\ ~recovering) /\ Len(ring) # RingSize BY <1>1, <1>5 DEF Enqueue, TypeOK
<1>6. QED BY <1>1, <1>3, <1>4, <1>5

\* The ring after the worker has taken a transition.
LEMMA TakeRing ==
  ASSUME TypeOK, NEW p \in DOMAIN ring, ring' = SubSeq(ring, p + 1, Len(ring))
  PROVE  /\ ring' \in Seq(Events) /\ Len(ring') <= RingSize /\ DOMAIN ring' = 1..(Len(ring) - p)
         /\ \A k \in DOMAIN ring' : k + p \in DOMAIN ring /\ ring'[k] = ring[k + p]
<1>1. /\ ring \in Seq(Events) /\ Len(ring) <= RingSize /\ RingSize \in Nat /\ Len(ring) \in Nat
      /\ DOMAIN ring = 1..Len(ring)
  BY AlarmAssumption DEF TypeOK
<1>2. p \in 1..Len(ring) BY <1>1
<1>3. /\ ring' \in Seq(Events) /\ Len(ring') = Len(ring) - p
      /\ \A k \in 1..(Len(ring) - p) : ring'[k] = ring[k + p]
  <2> DEFINE m == p + 1
             n == Len(ring)
  <2>1. m \in Int /\ n \in Int /\ \A k \in m..n : ring[k] \in Events BY <1>1, <1>2
  <2> HIDE DEF m, n
  <2>2. /\ ring' \in Seq(Events) /\ Len(ring') = IF m <= n THEN n - m + 1 ELSE 0
        /\ \A k \in 1..(n - m + 1) : ring'[k] = ring[m + k - 1]
    <3>1. ring' = SubSeq(ring, m, n) BY DEF m, n
    <3>2. /\ SubSeq(ring, m, n) \in Seq(Events) /\ Len(SubSeq(ring, m, n)) = IF m <= n THEN n - m + 1 ELSE 0
          /\ \A k \in 1..(n - m + 1) : SubSeq(ring, m, n)[k] = ring[m + k - 1]
      BY <2>1, SubSeqProperties
    <3>3. QED BY ZenonT(30), <3>1, <3>2
  <2>3. n - m + 1 = Len(ring) - p /\ \A k \in 1..(Len(ring) - p) : m + k - 1 = k + p BY <1>1, <1>2 DEF m, n
  <2>4. (IF m <= n THEN n - m + 1 ELSE 0) = Len(ring) - p BY <1>1, <1>2 DEF m, n
  <2>5. QED BY ZenonT(30), <2>2, <2>3, <2>4
<1>4. DOMAIN ring' = 1..(Len(ring) - p) BY <1>3
<1>5. \A k \in 1..(Len(ring) - p) : k + p \in DOMAIN ring BY <1>1, <1>2
<1>6. Len(ring') <= RingSize BY <1>1, <1>2, <1>3
<1>7. QED BY ZenonT(30), <1>3, <1>4, <1>5, <1>6

\* Every step keeps the types.
LEMMA TypeNext == ASSUME TypeOK, [Next]_vars PROVE TypeOK'
<1>0. <<>> \in Seq(Events) /\ Len(<<>>) <= RingSize BY AlarmAssumption
<1>1. ASSUME NEW n \in Names, NEW a \in Alarms, prepare(n, a) PROVE TypeOK'
  <2>1. slot' \in Seq(Slots) /\ slots' \subseteq Ids' BY <1>1, PrepareSlot DEF TypeOK
  <2>2. QED BY <1>1, <2>1 DEF prepare, flags, sendVars, redisVars, TypeOK
<1>2. ASSUME NEW i \in Ids, activate(i) \/ retire(i) \/ remove(i) PROVE TypeOK'
  <2>1. slot' \in Seq(Slots) /\ Ids' = Ids BY <1>2, ActivateSlot, RetireSlot
  <2>2. QED
    BY <1>2, <2>1 DEF activate, retire, remove, notify_all, flags, sendVars, redisVars, TypeOK
<1>3. ASSUME NEW i \in Ids, NEW a \in Alarms, update(i, a) PROVE TypeOK'
  <2>1. slot' \in Seq(Slots) /\ Ids' = Ids BY <1>3, UpdateSlot
  <2>2. slot[i].revision + 1 \in Nat BY SlotTypes
  <2>3. /\ ring' \in Seq(Events) /\ Len(ring') <= RingSize /\ epoch' \in Nat \ {0}
        /\ recovering' \in BOOLEAN
    BY <1>3, <2>2, EnqueueRing DEF update, TypeOK
  <2>4. QED BY <1>3, <2>1, <2>3 DEF update, notify_all, flags, sendVars, redisVars, TypeOK
<1>4. CASE SendTransition
  <2>1. PICK p \in Fresh : Sends(ring[p]) /\ ring' = SubSeq(ring, p + 1, Len(ring))
    BY <1>4 DEF SendTransition
  <2>2. p \in DOMAIN ring BY DEF Fresh
  <2>3. ring' \in Seq(Events) /\ Len(ring') <= RingSize BY <2>1, <2>2, TakeRing
  <2>4. ring[p] \in Events /\ ring[p].slot \in Nat BY <2>2, KnownTypes
  <2>5. QED BY <1>4, <2>1, <2>3, <2>4
        DEF SendTransition, Sends, slotVars, flags, redisVars, TypeOK, Ids
<1>5. ASSUME NEW i \in Ids, Reconcile(i) PROVE TypeOK'
  <2>1. [slot |-> i, state |-> slot[i].latest, revision |-> slot[i].revision] \in Events /\ i \in Nat
    BY SlotTypes DEF Events
  <2>2. QED BY <1>0, <1>5, <2>1 DEF Reconcile, Sends, slotVars, flags, redisVars, TypeOK, Ids
<1>6. CASE WorkerIdle
  <2>1. NoEvent \in Events /\ NoEvent.slot = 0 BY DEF NoEvent, Events
  <2>2. QED BY <1>0, <1>6, <2>1
        DEF WorkerIdle, Sends, slotVars, flags, sendVars, redisVars, TypeOK, Ids
<1>7. ASSUME Recorded \/ UNCHANGED <<last, sent>>
      PROVE  last' \in [Names -> Alarms \cup {"none"}] /\ sent' \in [Names -> Nat \X Nat]
  <2>1. event.state \in Alarms \cup {"none"} /\ <<selected, event.revision>> \in Nat \X Nat
    BY DEF TypeOK, Events
  <2>2. QED BY <1>7, <2>1 DEF Recorded, TypeOK
<1>8. NoEvent \in Events BY DEF NoEvent, Events
<1>9. CASE SendAccepted
  <2>1. slot' \in Seq(Slots) /\ Ids' = Ids BY <1>9, DeliverSlot DEF SendAccepted
  <2>2. QED BY <1>7, <1>8, <1>9, <2>1 DEF SendAccepted, Done, flags, TypeOK
<1>10. CASE SendFails
  <2>1. Recorded \/ UNCHANGED <<last, sent>> BY <1>10 DEF SendFails
  <2>2. /\ slot' = slot /\ slots' = slots /\ lastId' = lastId /\ enabled' = enabled
        /\ stopping' = stopping /\ live' \in BOOLEAN /\ ring' = <<>> /\ epoch' = epoch + 1
        /\ recovering' = TRUE /\ pc' \in {"loop", "backoff"} /\ failures' = failures + 1
        /\ selected' = 0 /\ event' = NoEvent /\ sendingEpoch' = 0 /\ due' = FALSE
    BY <1>10 DEF SendFails, Done, slotVars, flags, TypeOK
  <2>3. last' \in [Names -> Alarms \cup {"none"}] /\ sent' \in [Names -> Nat \X Nat] BY <1>7, <2>1
  <2>4. epoch' \in Nat \ {0} /\ failures' \in Nat BY <2>2 DEF TypeOK
  <2>5. ring' \in Seq(Events) /\ Len(ring') <= RingSize BY <1>0, <2>2
  <2>6. slot' \in Seq(Slots) /\ slots' \subseteq Ids' BY <2>2 DEF TypeOK, Ids
  <2>7. QED BY <1>8, <2>2, <2>3, <2>4, <2>5, <2>6 DEF TypeOK
<1>11. CASE WorkerExits \/ WorkerDisabled \/ RetryDue \/ HeartbeatDue \/ enable \/ stop \/ UNCHANGED vars
  <2>1. CASE WorkerExits \/ WorkerDisabled
    BY <2>1 DEF WorkerExits, WorkerDisabled, slotVars, flags, sendVars, redisVars, TypeOK, Ids
  <2>2. CASE RetryDue \/ HeartbeatDue
    BY <2>2 DEF RetryDue, HeartbeatDue, notify_all, slotVars, flags, sendVars, redisVars, TypeOK, Ids
  <2>3. CASE enable \/ stop
    BY <2>3 DEF enable, stop, notify_all, slotVars, flags, sendVars, redisVars, TypeOK, Ids
  <2>4. CASE UNCHANGED vars
    BY <2>4 DEF vars, slotVars, flags, sendVars, redisVars, TypeOK, Ids
  <2>5. QED BY <1>11, <2>1, <2>2, <2>3, <2>4
<1>12. QED BY <1>1, <1>2, <1>3, <1>4, <1>5, <1>6, <1>9, <1>10, <1>11 DEF Next, WorkerStep, RuntimeStep

\* Registrations come and go: the data invariant.
LEMMA RegistrationData ==
  ASSUME TypeOK, TypeOK', DataInv,
         \/ \E n \in Names, a \in Alarms : prepare(n, a)
         \/ \E k \in Ids : activate(k) \/ retire(k) \/ remove(k)
  PROVE  DataInv'
<1>1. /\ UNCHANGED <<ring, selected, event, last, sent, enabled, live, recovering>>
      /\ Ids \subseteq Ids' /\ \A k \in Ids' \ Ids : slot'[k].delivered = 0
      /\ \A k \in Ids : /\ slot'[k].name = slot[k].name /\ slot'[k].latest = slot[k].latest
                        /\ slot'[k].revision = slot[k].revision
                        /\ slot'[k].delivered = slot[k].delivered
  <2>1. CASE \E n \in Names, a \in Alarms : prepare(n, a)
    BY <2>1, PrepareSlot DEF prepare, flags, sendVars, redisVars
  <2>2. ASSUME NEW j \in Ids, activate(j)
        PROVE  /\ UNCHANGED <<ring, selected, event, last, sent, enabled, live, recovering>>
               /\ Ids' = Ids
               /\ \A k \in Ids : /\ slot'[k].name = slot[k].name /\ slot'[k].latest = slot[k].latest
                                 /\ slot'[k].revision = slot[k].revision
                                 /\ slot'[k].delivered = slot[k].delivered
    <3>1. UNCHANGED <<ring, selected, event, last, sent, enabled, live, recovering>>
      BY <2>2 DEF activate, flags, sendVars, redisVars
    <3>2. /\ Ids' = Ids /\ \A k \in Ids : k # j => slot'[k] = slot[k]
          /\ slot'[j].name = slot[j].name /\ slot'[j].latest = slot[j].latest
          /\ slot'[j].revision = slot[j].revision /\ slot'[j].delivered = slot[j].delivered
      BY <2>2, ActivateSlot
    <3>3. QED BY <3>1, <3>2
  <2>3. CASE \E k \in Ids : retire(k) \/ remove(k)
    BY <2>3, RetireSlot DEF retire, remove, flags, sendVars, redisVars
  <2>4. QED BY <2>1, <2>2, <2>3
<1>2. \A k \in Ids : /\ Superseded(k) => Superseded(k)'
                     /\ current(k) => current(k)' \/ Superseded(k)'
  BY SeenNext
<1>3. slots' \subseteq Nat
  <2>1. slot' \in Seq(Slots) /\ slots' \subseteq Ids' BY DEF TypeOK
  <2>2. QED BY <2>1 DEF Ids
<1>4. RingInv' BY <1>1 DEF DataInv, RingInv
<1>5. QED BY <1>1, <1>2, <1>3, <1>4, QuietData

\* Steps of the worker, enable() and stop() that send nothing and end no send.
LEMMA IdleData ==
  ASSUME TypeOK, TypeOK', DataInv,
         \/ WorkerExits \/ WorkerDisabled \/ RetryDue
         \/ HeartbeatDue \/ enable \/ stop \/ UNCHANGED vars
  PROVE  DataInv'
<1>1. /\ UNCHANGED <<slot, slots, ring, selected, event, last, sent, live, recovering>>
      /\ enabled => enabled'
  BY DEF WorkerExits, WorkerDisabled, RetryDue, HeartbeatDue, enable, stop, vars, slotVars, flags,
         sendVars, redisVars
<1>2. Ids' = Ids /\ slots' \subseteq Nat BY <1>1, SlotTypes DEF Ids, TypeOK
<1>3. \A k \in Ids : current(k)' = current(k) /\ Superseded(k)' = Superseded(k)
  BY <1>1, <1>2, SeenKept
<1>4. RingInv' BY <1>1 DEF DataInv, RingInv
<1>5. QED BY <1>1, <1>2, <1>3, <1>4, QuietData

\* The ring of update(): it keeps what it holds and gets the new state if the slot is
\* current, or it is empty afterwards.
LEMMA UpdateRing ==
  ASSUME TypeOK, RingInv, NEW i \in Ids, NEW a \in Alarms, update(i, a)
  PROVE  LET e == [slot |-> i, state |-> a, revision |-> slot[i].revision + 1] IN
         \/ /\ DOMAIN ring' = 1..(Len(ring) + 1) /\ ring'[Len(ring) + 1] = e
            /\ \A p \in DOMAIN ring : ring'[p] = ring[p]
            /\ current(i) /\ enabled' /\ live' /\ ~recovering'
         \/ ring' = <<>>
         \/ ring' = ring /\ ~current(i) /\ UNCHANGED <<enabled, live, recovering>>
<1> DEFINE e == [slot |-> i, state |-> a, revision |-> slot[i].revision + 1]
<1>1. slot[i].revision + 1 \in Nat /\ ring \in Seq(Events) /\ Len(ring) \in Nat
  BY SlotTypes DEF TypeOK
<1>2. e \in Events BY <1>1, SlotTypes DEF Events
<1>3. CASE enabled /\ current(i)
  <2>1. /\ Enqueue(i, a, slot[i].revision + 1) /\ enabled' = enabled /\ live' = live
    BY <1>3 DEF update, flags
  <2>2. \/ ring' = Append(ring, e) /\ live /\ ~recovering'
        \/ ring' = <<>>
        \/ ring' = ring /\ (~live \/ recovering)
    BY <1>1, <2>1, EnqueueRing
  <2>3. ring' = ring /\ (~live \/ recovering) => ring' = <<>> BY DEF RingInv
  <2>4. ASSUME ring' = Append(ring, e)
        PROVE  /\ DOMAIN ring' = 1..(Len(ring) + 1) /\ ring'[Len(ring) + 1] = e
               /\ \A p \in DOMAIN ring : ring'[p] = ring[p]
    <3> HIDE DEF e
    <3>1. /\ ring' \in Seq(Events) /\ Len(ring') = Len(ring) + 1
          /\ ring'[Len(ring) + 1] = e /\ \A p \in 1..Len(ring) : ring'[p] = ring[p]
      BY <1>1, <1>2, <2>4, AppendProperties
    <3>2. QED BY <1>1, <3>1
  <2>5. QED BY <1>3, <2>1, <2>2, <2>3, <2>4
<1>4. CASE ~enabled
  <2>1. ring' = ring /\ ring = <<>> BY <1>4 DEF update, RingInv
  <2>2. QED BY <2>1
<1>5. CASE enabled /\ ~current(i) BY <1>5 DEF update, flags
<1>6. QED BY <1>3, <1>4, <1>5

\* update(): the data invariant.
LEMMA UpdateData ==
  ASSUME TypeOK, DataInv, NEW i \in Ids, NEW a \in Alarms, update(i, a)
  PROVE  DataInv'
<1> USE DEF DataInv
<1> DEFINE r == slot[i].revision + 1
           e == [slot |-> i, state |-> a, revision |-> r]
<1>1. /\ UNCHANGED <<slots, selected, event, last, sent>> /\ i \in slots
      /\ Ids' = Ids /\ \A k \in Ids : k # i => slot'[k] = slot[k]
      /\ slot'[i].name = slot[i].name /\ slot'[i].latest = a /\ slot'[i].revision = r
      /\ slot'[i].delivered = slot[i].delivered
      /\ slot'[i].active = slot[i].active /\ slot'[i].retired = slot[i].retired
  BY UpdateSlot DEF update, sendVars, redisVars
<1>2. \A k \in Ids : /\ current(k)' = current(k) /\ Superseded(k)' = Superseded(k)
                     /\ Seen(k)' = Seen(k)
  BY <1>1, SeenKept
<1>3. /\ r \in Nat \ {0} /\ slot[i].revision \in Nat /\ slot[i].revision < r
      /\ DOMAIN ring = 1..Len(ring) /\ Len(ring) \in Nat
      /\ \A k \in Ids : slot[k].revision \in Nat /\ k \in Nat
  BY SlotTypes, KnownTypes
<1>4. \/ /\ DOMAIN ring' = 1..(Len(ring) + 1) /\ ring'[Len(ring) + 1] = e
         /\ \A p \in DOMAIN ring : ring'[p] = ring[p]
         /\ current(i) /\ enabled' /\ live' /\ ~recovering'
      \/ ring' = <<>>
      \/ ring' = ring /\ ~current(i) /\ UNCHANGED <<enabled, live, recovering>>
  BY UpdateRing
<1>5. e.slot = i /\ e.state = a /\ e.revision = r OBVIOUS
<1> HIDE DEF e, r
<1>6. \A p \in DOMAIN ring' : \/ p \in DOMAIN ring /\ ring'[p] = ring[p]
                              \/ p = Len(ring) + 1 /\ ring'[p] = e /\ current(i)
  BY <1>3, <1>4
<1>7. Known' \subseteq Known \cup {e} /\ (e \in Known' \ Known => current(i))
  <2>1. \A x \in Range(ring)' : x \in Range(ring) \/ (x = e /\ current(i)) BY <1>6 DEF Range
  <2>2. QED BY <1>1, <2>1 DEF Known, Record
<1>8. KnownInv'
  <2> SUFFICES ASSUME NEW x \in Known' PROVE Carries(x)' BY DEF KnownInv
  <2>1. CASE x \in Known
    <3>1. /\ x.slot \in Ids /\ Seen(x.slot) /\ 0 < x.revision /\ x.revision <= slot[x.slot].revision
          /\ x.revision = slot[x.slot].revision => x.state = slot[x.slot].latest
          /\ x.revision \in Nat
      BY <2>1, KnownTypes DEF KnownInv, Carries, Seen, Events
    <3>2. CASE x.slot = i
      <4>1. Seen(i)' BY <1>2, <3>1, <3>2
      <4>2. x.revision <= slot[i].revision BY <3>1, <3>2
      <4>3. x.revision < r BY <1>3, <3>1, <4>2
      <4>4. r \in Nat /\ x.revision \in Nat BY <1>3, <3>1
      <4>5. x.revision <= r /\ x.revision # r BY <4>3, <4>4
      <4>6. slot'[i].revision = r BY <1>1
      <4>7. QED BY <3>1, <3>2, <4>1, <4>5, <4>6 DEF Carries
    <3>3. CASE x.slot # i BY <1>1, <1>2, <1>3, <3>1, <3>3 DEF Carries
    <3>4. QED BY <3>2, <3>3
  <2>2. CASE x \notin Known
    <3>1. x = e /\ current(i) BY <1>7, <2>2
    <3>2. Seen(i)' BY <1>2, <3>1 DEF Seen
    <3>3. x.slot = i /\ x.revision = slot'[i].revision /\ x.state = slot'[i].latest
      BY <1>1, <1>5, <3>1
    <3>4. x.revision \in Nat /\ 0 < x.revision BY <1>3, <1>5, <3>1
    <3>5. slot'[x.slot].revision = x.revision /\ slot'[x.slot].latest = x.state /\ Seen(x.slot)'
      BY <3>2, <3>3
    <3>6. x.revision <= slot'[x.slot].revision BY <3>4, <3>5
    <3>7. QED BY <3>4, <3>5, <3>6 DEF Carries
  <2>3. QED BY <2>1, <2>2
<1>9. OrderInv'
  <2>1. /\ \A p \in DOMAIN ring : ring[p].slot = i => ring[p].revision < r
        /\ selected = i => event.revision < r
        /\ \A n \in Names : sent[n][1] = i => sent[n][2] <= r
        /\ \A p \in DOMAIN ring : ring[p].revision \in Nat
        /\ selected # 0 => selected \in Ids
        /\ \A n \in Names : sent[n][1] # 0 => sent[n][1] \in Ids
    <3>1. KnownInv /\ OrderInv /\ i # 0 BY SlotTypes
    <3>2. /\ \A p \in DOMAIN ring : ring[p].revision <= slot[ring[p].slot].revision
          /\ selected # 0 => selected \in Ids /\ event.revision <= slot[selected].revision
          /\ \A n \in Names : sent[n][1] # 0 =>
               sent[n][1] \in Ids /\ sent[n][2] <= slot[sent[n][1]].revision
      BY <3>1, KnownFacts
    <3>3. /\ \A p \in DOMAIN ring : ring[p].revision \in Nat
          /\ \A n \in Names : sent[n][2] \in Nat
          /\ event.revision \in Nat
      BY KnownTypes
    <3>4. ASSUME NEW p \in DOMAIN ring, ring[p].slot = i PROVE ring[p].revision < r
      <4>1. ring[p].revision <= slot[i].revision /\ ring[p].revision \in Nat BY <3>2, <3>3, <3>4
      <4>2. QED BY <1>3, <4>1
    <3>5. selected = i => event.revision < r BY <1>3, <3>1, <3>2, <3>3
    <3>6. \A n \in Names : sent[n][1] = i => sent[n][2] <= r BY <1>3, <3>1, <3>2, <3>3
    <3>7. QED BY <3>2, <3>3, <3>4, <3>5, <3>6
  <2>2. ASSUME NEW p \in DOMAIN ring', NEW q \in DOMAIN ring', p < q, ring'[p].slot = ring'[q].slot
        PROVE  ring'[p].revision < ring'[q].revision
    <3>1. CASE q \in DOMAIN ring /\ ring'[q] = ring[q]
      <4>1. p \in DOMAIN ring /\ ring'[p] = ring[p] BY <1>3, <1>6, <2>2, <3>1
      <4>2. ring[p].slot = ring[q].slot BY <2>2, <3>1, <4>1
      <4>3. ring[p].revision < ring[q].revision BY <2>2, <3>1, <4>1, <4>2 DEF OrderInv
      <4>4. QED BY <3>1, <4>1, <4>3
    <3>2. CASE q = Len(ring) + 1 /\ ring'[q] = e
      <4>1. p \in DOMAIN ring /\ ring'[p] = ring[p] BY <1>3, <1>6, <2>2, <3>2
      <4>2. ring[p].slot = i BY <1>5, <2>2, <3>2, <4>1
      <4>3. QED BY <1>5, <2>1, <3>2, <4>1, <4>2
    <3>3. QED BY <1>6, <3>1, <3>2
  <2>3. ASSUME NEW n \in Names, sent[n][1] # 0 PROVE slot'[sent[n][1]].name = n
    BY <1>1, <2>1, <2>3 DEF OrderInv
  <2>4. ASSUME NEW n \in Names, NEW p \in DOMAIN ring', ring'[p].slot = sent[n][1]
        PROVE  sent[n][2] <= ring'[p].revision
    BY <1>5, <1>6, <2>1, <2>4 DEF OrderInv
  <2>5. ASSUME selected # 0
        PROVE  /\ event.slot = selected
               /\ \A p \in DOMAIN ring' : ring'[p].slot = selected => event.revision < ring'[p].revision
               /\ slot'[selected].name = slot[selected].name
    <3>1. /\ selected \in Ids /\ event.slot = selected
          /\ \A p \in DOMAIN ring : ring[p].slot = selected => event.revision < ring[p].revision
      BY <2>1, <2>5 DEF OrderInv
    <3>2. slot'[selected].name = slot[selected].name BY <1>1, <3>1
    <3>3. \A p \in DOMAIN ring' : ring'[p].slot = selected => event.revision < ring'[p].revision
      BY <1>5, <1>6, <2>1, <3>1
    <3>4. QED BY <3>1, <3>2, <3>3
  <2>6. QED BY <1>1, <2>2, <2>3, <2>4, <2>5 DEF OrderInv
<1>10. GapInv'
  <2> SUFFICES ASSUME NEW p \in DOMAIN ring', NEW k \in Ids, ring'[p].slot = k, current(k)
               PROVE  \/ ring'[p].revision = slot'[k].revision
                      \/ \E q \in DOMAIN ring' : /\ p < q /\ ring'[q].slot = k
                                                 /\ ring'[q].revision = ring'[p].revision + 1
    <3>1. ASSUME NEW p \in DOMAIN ring', NEW k \in Ids, ring'[p].slot = k, current(k) PROVE NoGap(p, k)'
      BY <3>1 DEF NoGap
    <3>2. QED BY <1>1, <1>2, <3>1 DEF GapInv
  <2>1. CASE p = Len(ring) + 1 /\ ring'[p] = e BY <1>1, <1>5, <2>1
  <2>2. CASE p \in DOMAIN ring /\ ring'[p] = ring[p]
    <3>1. \/ ring[p].revision = slot[k].revision
          \/ \E q \in DOMAIN ring : p < q /\ ring[q].slot = k /\ ring[q].revision = ring[p].revision + 1
      <4>1. NoGap(p, k) BY <2>2 DEF GapInv
      <4>2. QED BY <4>1 DEF NoGap
    <3>2. ring' # <<>> OBVIOUS
    <3>3. ASSUME NEW q \in DOMAIN ring PROVE q \in DOMAIN ring' /\ ring'[q] = ring[q]
      <4>1. q \in 1..(Len(ring) + 1) BY <1>3
      <4>2. QED BY <1>4, <3>2, <4>1
    <3>4. CASE k # i
      <4>1. slot'[k].revision = slot[k].revision BY <1>1, <3>4
      <4>2. CASE ring[p].revision = slot[k].revision BY <2>2, <4>1, <4>2
      <4>3. CASE ring[p].revision # slot[k].revision
        <5>1. PICK q \in DOMAIN ring : /\ p < q /\ ring[q].slot = k
                                       /\ ring[q].revision = ring[p].revision + 1
          BY <3>1, <4>3
        <5>2. QED BY <2>2, <3>3, <5>1
      <4>4. QED BY <4>2, <4>3
    <3>5. CASE k = i
      <4>1. Len(ring) + 1 \in DOMAIN ring' /\ ring'[Len(ring) + 1] = e BY <1>3, <1>4, <3>2, <3>5
      <4>2. p < Len(ring) + 1 BY <1>3, <2>2
      <4>3. CASE ring[p].revision = slot[k].revision
        BY <1>5, <2>2, <3>5, <4>1, <4>2, <4>3 DEF r
      <4>4. CASE ring[p].revision # slot[k].revision
        <5>1. PICK q \in DOMAIN ring : /\ p < q /\ ring[q].slot = k
                                       /\ ring[q].revision = ring[p].revision + 1
          BY <3>1, <4>4
        <5>2. QED BY <2>2, <3>3, <5>1
      <4>5. QED BY <4>3, <4>4
    <3>6. QED BY <3>4, <3>5
  <2>3. QED BY <1>6, <2>1, <2>2
<1>11. DeliveredInv'
  <2>1. \A k \in Ids : slot'[k].delivered = slot[k].delivered /\ slot'[k].name = slot[k].name BY <1>1
  <2>2. Ids' = Ids /\ sent' = sent BY <1>1
  <2>3. DeliveredInv OBVIOUS
  <2>4. QED BY ZenonT(30), <2>1, <2>2, <2>3 DEF DeliveredInv
<1>12. RingInv' BY <1>4 DEF RingInv
<1>13. QED BY <1>8, <1>9, <1>10, <1>11, <1>12

\* A current slot is not older than the last record of its name.
LEMMA CurrentNotOlder ==
  ASSUME TypeOK, DataInv, NEW i \in Ids, current(i), NEW r \in Nat,
         sent[slot[i].name][1] = i => sent[slot[i].name][2] <= r
  PROVE  LET s == sent[slot[i].name] IN s[1] < i \/ (s[1] = i /\ s[2] <= r)
<1> DEFINE n == slot[i].name
           s == sent[n][1]
<1>1. n \in Names /\ i \in Nat \ {0} BY SlotTypes
<1>2. s \in Nat BY <1>1, KnownTypes
<1>3. CASE s = 0 BY <1>1, <1>3
<1>4. CASE s # 0
  <2>1. KnownInv /\ OrderInv BY DEF DataInv
  <2>2. s \in Ids /\ Seen(s) BY <1>1, <1>4, <2>1, KnownFacts
  <2>3. slot[s].name = n BY <1>1, <1>4, <2>1 DEF OrderInv
  <2>4. s <= i BY <2>2, <2>3, SeenOrder
  <2>5. QED BY <1>1, <1>2, <2>4
<1>5. QED BY <1>3, <1>4

\* The ring without its first d transitions.
Shifted(d) ==
  /\ DOMAIN ring' \subseteq Nat
  /\ \A k \in DOMAIN ring' : k + d \in DOMAIN ring /\ ring'[k] = ring[k + d]
  /\ \A q \in DOMAIN ring : q > d => q - d \in DOMAIN ring'

\* The worker drops the first d transitions of the ring, and sends x or what it sent
\* before.
LEMMA ShiftData ==
  ASSUME TypeOK, DataInv, UNCHANGED <<slot, slots, last, sent>>, RingInv', NEW d \in Nat,
         Shifted(d), NEW x \in Events, event' = x,
         selected' # 0 =>
           /\ x.slot = selected' /\ Carries(x)
           /\ \A k \in DOMAIN ring' : ring'[k].slot = x.slot => x.revision < ring'[k].revision
           /\ LET s == sent[slot[x.slot].name] IN s[1] < x.slot \/ (s[1] = x.slot /\ s[2] <= x.revision)
  PROVE  DataInv'
<1> USE DEF DataInv
<1>0. DOMAIN ring \subseteq Nat
  <2>1. DOMAIN ring = 1..Len(ring) BY KnownTypes
  <2>2. QED BY <2>1
<1>1. Ids' = Ids BY DEF Ids
<1>2. \A k \in Ids : current(k)' = current(k) /\ Seen(k)' = Seen(k) BY <1>1, SeenKept
<1>3. ASSUME NEW y \in Known' PROVE y \in Known \/ (y = x /\ selected' # 0)
  <2>1. CASE y \in Range(ring)'
    <3>1. PICK k \in DOMAIN ring' : y = ring'[k] BY <2>1 DEF Range
    <3>2. k + d \in DOMAIN ring /\ y = ring[k + d] BY <3>1 DEF Shifted
    <3>3. y \in Range(ring) BY <3>2 DEF Range
    <3>4. QED BY <3>3 DEF Known
  <2>2. CASE y \notin Range(ring)' BY <1>3, <2>2 DEF Known, Record
  <2>3. QED BY <2>1, <2>2
<1>4. KnownInv'
  <2> SUFFICES ASSUME NEW y \in Known' PROVE Carries(y)' BY DEF KnownInv
  <2>1. Carries(y) BY <1>3 DEF KnownInv
  <2>2. QED BY <1>1, <1>2, <2>1 DEF Carries, Seen
<1>5. \A k \in DOMAIN ring' : k \in Nat /\ k + d \in DOMAIN ring /\ ring'[k] = ring[k + d]
  BY DEF Shifted
<1>6. OrderInv'
  <2>1. ASSUME NEW p \in DOMAIN ring', NEW q \in DOMAIN ring', p < q, ring'[p].slot = ring'[q].slot
        PROVE  ring'[p].revision < ring'[q].revision
    <3>1. p \in Nat /\ q \in Nat BY <1>5
    <3>2. p + d < q + d BY <2>1, <3>1
    <3>3. /\ p + d \in DOMAIN ring /\ ring'[p] = ring[p + d]
          /\ q + d \in DOMAIN ring /\ ring'[q] = ring[q + d]
      BY <1>5
    <3>4. QED BY <2>1, <3>2, <3>3 DEF OrderInv
  <2>2. ASSUME NEW n \in Names, NEW p \in DOMAIN ring', ring'[p].slot = sent[n][1]
        PROVE  sent[n][2] <= ring'[p].revision
    <3>1. p + d \in DOMAIN ring /\ ring'[p] = ring[p + d] BY <1>5
    <3>2. QED BY <2>2, <3>1 DEF OrderInv
  <2>3. QED BY <2>1, <2>2 DEF OrderInv
<1>7. GapInv'
  <2> SUFFICES ASSUME NEW p \in DOMAIN ring', NEW k \in Ids, ring'[p].slot = k, current(k)
               PROVE  NoGap(p, k)'
    BY <1>1, <1>2 DEF GapInv
  <2>1. CASE ring'[p].revision = slot[k].revision BY <1>1, <2>1 DEF NoGap
  <2>2. CASE ring'[p].revision # slot[k].revision
    <3>1. PICK q \in DOMAIN ring : /\ p + d < q /\ ring[q].slot = k
                                  /\ ring[q].revision = ring[p + d].revision + 1
      <4>1. p + d \in DOMAIN ring /\ ring'[p] = ring[p + d] BY <1>5
      <4>2. ring[p + d].slot = k /\ ring[p + d].revision # slot[k].revision BY <2>2, <4>1
      <4>3. NoGap(p + d, k) BY <4>1, <4>2 DEF GapInv
      <4>4. QED BY <4>2, <4>3 DEF NoGap
    <3> DEFINE o == q - d
    <3>2. p \in Nat /\ q \in Nat BY <1>0, <1>5
    <3>3. q > d /\ p < o /\ o + d = q BY <3>1, <3>2
    <3>4. o \in DOMAIN ring' BY <3>3 DEF Shifted
    <3> HIDE DEF o
    <3>5. ring'[o] = ring[o + d] /\ ring'[p] = ring[p + d] BY <1>5, <3>4
    <3>6. ring'[o].slot = k /\ ring'[o].revision = ring'[p].revision + 1 BY <3>1, <3>3, <3>5
    <3>7. QED BY <3>3, <3>4, <3>6 DEF NoGap
  <2>3. QED BY <2>1, <2>2
<1>8. DeliveredInv' BY <1>1 DEF DeliveredInv
<1>9. QED BY <1>4, <1>6, <1>7, <1>8

\* The worker takes a transition, reconciles a slot, or finds nothing to do.
LEMMA WorkerData ==
  ASSUME TypeOK, DataInv, SendTransition \/ (\E i \in Ids : Reconcile(i)) \/ WorkerIdle
  PROVE  DataInv'
<1>0. /\ DOMAIN ring = 1..Len(ring) /\ Len(ring) \in Nat /\ KnownInv /\ OrderInv /\ RingInv
      /\ \A p \in DOMAIN ring : ring[p] \in Events /\ ring[p].revision \in Nat
  BY KnownTypes DEF DataInv
<1>1. CASE SendTransition
  <2>1. PICK p \in Fresh : Sends(ring[p]) /\ ring' = SubSeq(ring, p + 1, Len(ring))
    BY <1>1 DEF SendTransition
  <2>2. p \in DOMAIN ring /\ p \in Nat /\ current(ring[p].slot) BY <1>0 DEF Fresh
  <2>3. /\ DOMAIN ring' = 1..(Len(ring) - p)
        /\ \A k \in DOMAIN ring' : k + p \in DOMAIN ring /\ ring'[k] = ring[k + p]
    BY <2>1, <2>2, TakeRing
  <2>4. /\ UNCHANGED <<slot, slots, last, sent, enabled, live, recovering>>
        /\ event' = ring[p] /\ selected' = ring[p].slot
    BY <1>1, <2>1 DEF SendTransition, Sends, slotVars, flags, redisVars
  <2>5. PICK x \in Events : x = ring[p] BY <1>0, <2>2
  <2>6. x.slot \in Ids /\ x.revision \in Nat /\ Carries(x)
    BY <1>0, <2>2, <2>5, KnownFacts DEF KnownInv, Known, Range
  <2>7. \A k \in DOMAIN ring' : ring'[k].slot = x.slot => x.revision < ring'[k].revision
    <3>1. \A q \in DOMAIN ring : p < q /\ ring[p].slot = ring[q].slot
                                  => ring[p].revision < ring[q].revision
      BY <1>0, <2>2 DEF OrderInv
    <3>2. \A k \in DOMAIN ring' : p < k + p BY <1>0, <2>2, <2>3
    <3>3. QED BY <2>3, <2>5, <3>1, <3>2
  <2>8. \A n \in Names : sent[n][1] = x.slot => sent[n][2] <= x.revision
    BY <1>0, <2>2, <2>5 DEF OrderInv
  <2>9. LET s == sent[slot[x.slot].name] IN s[1] < x.slot \/ (s[1] = x.slot /\ s[2] <= x.revision)
    <3>1. current(x.slot) /\ slot[x.slot].name \in Names BY <2>2, <2>5, <2>6, SlotTypes
    <3>2. QED BY <2>6, <2>8, <3>1, CurrentNotOlder
  <2>10. RingInv' BY <1>0, <2>2, <2>4 DEF RingInv
  <2>11. Shifted(p)
    <3>1. DOMAIN ring' \subseteq Nat BY <2>3
    <3>2. \A q \in DOMAIN ring : q > p => q - p \in DOMAIN ring' BY <1>0, <2>2, <2>3
    <3>3. QED BY <2>3, <3>1, <3>2 DEF Shifted
  <2>12. QED BY <2>2, <2>4, <2>5, <2>6, <2>7, <2>9, <2>10, <2>11, ShiftData
<1>2. ASSUME ring' = <<>>
      PROVE  DOMAIN ring' = {} /\ RingInv' /\ Shifted(Len(ring))
  <2>1. DOMAIN ring' = {} /\ RingInv'
    <3>1. DOMAIN ring' = {} BY <1>2
    <3>2. RingInv' BY ZenonT(30), <1>2 DEF RingInv
    <3>3. QED BY <3>1, <3>2
  <2>2. \A q \in DOMAIN ring : ~(q > Len(ring)) BY <1>0
  <2>3. QED BY <2>1, <2>2 DEF Shifted
<1>3. ASSUME NEW i \in Ids, Reconcile(i) PROVE DataInv'
  <2>1. /\ i \in Nat \ {0} /\ slot[i].revision \in Nat \ {0} /\ slot[i].latest \in Alarms
        /\ slot[i].name \in Names
    BY SlotTypes
  <2>2. PICK x \in Events : x = [slot |-> i, state |-> slot[i].latest, revision |-> slot[i].revision]
    BY <2>1 DEF Events
  <2>3. x.slot = i /\ x.state = slot[i].latest /\ x.revision = slot[i].revision BY <2>2
  <2>4. /\ UNCHANGED <<slot, slots, last, sent>> /\ ring' = <<>> /\ event' = x /\ selected' = i
        /\ current(i)
    <3>1. UNCHANGED <<slot, slots, last, sent>> /\ ring' = <<>> BY <1>3 DEF Reconcile, slotVars, redisVars
    <3>2. Sends(x) BY <1>3, <2>2 DEF Reconcile
    <3>3. event' = x /\ selected' = i BY <2>3, <3>2 DEF Sends
    <3>4. i \in Candidates BY <1>3 DEF Reconcile, NextAfter
    <3>5. QED BY <3>1, <3>3, <3>4 DEF Candidates
  <2>5. Carries(x) BY <2>1, <2>3, <2>4 DEF Carries, Seen
  <2>6. sent[slot[i].name][1] = i => sent[slot[i].name][2] <= slot[i].revision
    BY <1>0, <2>1, KnownFacts
  <2>7. LET s == sent[slot[i].name] IN s[1] < i \/ (s[1] = i /\ s[2] <= slot[i].revision)
    BY <2>1, <2>4, <2>6, CurrentNotOlder
  <2>8. QED BY <1>0, <1>2, <2>3, <2>4, <2>5, <2>7, ShiftData
<1>4. CASE WorkerIdle
  <2>1. UNCHANGED <<slot, slots, last, sent>> /\ ring' = <<>>
    BY <1>4 DEF WorkerIdle, slotVars, redisVars
  <2>2. selected' = 0 \/ (selected' = selected /\ event' = event)
    BY <1>4 DEF WorkerIdle, Sends, NoEvent, sendVars
  <2>3. event' \in Events BY <1>4 DEF WorkerIdle, Sends, NoEvent, sendVars, Events, TypeOK
  <2>4. PICK x \in Events : x = event' BY <2>3
  <2>5. selected' # 0 => event \in Known /\ x = event BY <2>2, <2>4 DEF Known
  <2>6. selected' # 0 => Carries(x) BY <1>0, <2>5 DEF KnownInv
  <2>7. selected' # 0 =>
          /\ x.slot = selected'
          /\ LET s == sent[slot[x.slot].name] IN
             s[1] < x.slot \/ (s[1] = x.slot /\ s[2] <= x.revision)
    BY <1>0, <2>2, <2>5 DEF OrderInv
  <2>8. QED BY <1>0, <1>2, <2>1, <2>4, <2>6, <2>7, ShiftData
<1>5. QED BY <1>1, <1>3, <1>4

\* A send ends: what Redis records is the event, which no record is ahead of.
LEMMA RecordData ==
  ASSUME TypeOK, DataInv, SendAccepted \/ SendFails
  PROVE  DataInv'
<1> USE DEF DataInv
<1>1. /\ slots' = slots /\ selected' = 0 /\ Ids' = Ids
      /\ \A k \in Ids :
           /\ slot'[k].name = slot[k].name /\ slot'[k].latest = slot[k].latest
           /\ slot'[k].revision = slot[k].revision
           /\ slot'[k].active = slot[k].active /\ slot'[k].retired = slot[k].retired
  <2>1. CASE SendAccepted BY <2>1, DeliverSlot DEF SendAccepted, Done
  <2>2. CASE SendFails BY <2>2 DEF SendFails, Done, slotVars, Ids
  <2>3. QED BY <2>1, <2>2
<1>2. \A k \in Ids : current(k)' = current(k) /\ Seen(k)' = Seen(k) BY <1>1, SeenKept
<1>3. \/ SendAccepted /\ Recorded /\ ring' = ring
      \/ Recorded /\ slot' = slot /\ ring' = <<>>
      \/ UNCHANGED <<last, sent, slot>> /\ ring' = <<>>
  BY DEF SendAccepted, SendFails, slotVars
<1>4. /\ DOMAIN ring = 1..Len(ring) /\ Len(ring) \in Nat /\ event.revision \in Nat /\ selected \in Nat
      /\ \A n \in Names : sent[n] \in Nat \X Nat /\ sent[n][1] \in Nat /\ sent[n][2] \in Nat
      /\ \A k \in Ids : k \in Nat \ {0} /\ slot[k].name \in Names /\ slot[k].delivered \in Nat
  BY KnownTypes, SlotTypes
<1>5. selected # 0 => /\ selected \in Ids /\ event \in Known /\ event.slot = selected
                      /\ slot[selected].name \in Names
  BY <1>4, KnownFacts DEF Known, OrderInv
<1>6. ASSUME NEW n \in Names
      PROVE  \/ sent'[n] = sent[n] /\ last'[n] = last[n]
             \/ /\ selected # 0 /\ n = slot[selected].name /\ Recorded
                /\ sent'[n] = <<selected, event.revision>> /\ last'[n] = event.state
  BY <1>3, <1>5 DEF Recorded, TypeOK
<1>7. \A p \in DOMAIN ring' : p \in DOMAIN ring /\ ring'[p] = ring[p] BY <1>3
<1>8. KnownInv'
  <2> SUFFICES ASSUME NEW y \in Known' PROVE Carries(y)' BY DEF KnownInv
  <2>1. y \in Known
    <3>1. CASE y \in Range(ring)' BY <1>7, <3>1 DEF Known, Range
    <3>2. CASE y \notin Range(ring)'
      <4>1. PICK n \in Names : sent'[n][1] # 0 /\ y = Record(n)' BY <1>1, <3>2 DEF Known
      <4>2. y = [slot |-> sent'[n][1], state |-> last'[n], revision |-> sent'[n][2]]
        BY <4>1 DEF Record
      <4>3. CASE sent'[n] = sent[n] /\ last'[n] = last[n] BY <4>1, <4>2, <4>3 DEF Known, Record
      <4>4. CASE selected # 0 /\ sent'[n] = <<selected, event.revision>> /\ last'[n] = event.state
        <5>1. event \in Events BY DEF TypeOK
        <5>2. event = [slot |-> event.slot, state |-> event.state, revision |-> event.revision]
          BY <5>1 DEF Events
        <5>3. QED BY <1>5, <4>2, <4>4, <5>2
      <4>5. QED BY <1>6, <4>3, <4>4
    <3>3. QED BY <3>1, <3>2
  <2>2. Carries(y) BY <2>1 DEF KnownInv
  <2>3. QED BY <1>1, <1>2, <2>2 DEF Carries, Seen
<1>9. OrderInv'
  <2>1. ASSUME NEW p \in DOMAIN ring', NEW q \in DOMAIN ring', p < q, ring'[p].slot = ring'[q].slot
        PROVE  ring'[p].revision < ring'[q].revision
    <3>1. /\ p \in DOMAIN ring /\ ring'[p] = ring[p]
          /\ q \in DOMAIN ring /\ ring'[q] = ring[q]
      BY <1>7
    <3>2. ring[p].slot = ring[q].slot BY <2>1, <3>1
    <3>3. ring[p].revision < ring[q].revision BY <2>1, <3>1, <3>2 DEF OrderInv
    <3>4. QED BY <3>1, <3>3
  <2>2. ASSUME NEW n \in Names, sent'[n][1] # 0 PROVE slot'[sent'[n][1]].name = n
    <3>1. CASE sent'[n] = sent[n]
      <4>1. sent[n][1] \in Ids BY <2>2, <3>1, KnownFacts
      <4>2. slot[sent[n][1]].name = n BY <2>2, <3>1 DEF OrderInv
      <4>3. QED BY <1>1, <3>1, <4>1, <4>2
    <3>2. CASE selected # 0 /\ n = slot[selected].name /\ sent'[n] = <<selected, event.revision>>
      <4>1. selected \in Ids BY <1>5, <3>2
      <4>2. sent'[n][1] = selected /\ slot'[selected].name = slot[selected].name BY <1>1, <3>2, <4>1
      <4>3. QED BY <3>2, <4>2
    <3>3. QED BY <1>6, <3>1, <3>2
  <2>3. ASSUME NEW n \in Names, NEW p \in DOMAIN ring', ring'[p].slot = sent'[n][1]
        PROVE  sent'[n][2] <= ring'[p].revision
    <3>1. p \in DOMAIN ring /\ ring'[p] = ring[p] /\ ring[p].revision \in Nat BY <1>7, KnownTypes
    <3>2. CASE sent'[n] = sent[n] BY <2>3, <3>1, <3>2 DEF OrderInv
    <3>3. CASE selected # 0 /\ sent'[n] = <<selected, event.revision>>
      <4>1. ring[p].slot = selected BY <2>3, <3>1, <3>3
      <4>2. event.revision < ring[p].revision BY <3>1, <3>3, <4>1 DEF OrderInv
      <4>3. sent'[n][2] = event.revision BY <3>3
      <4>4. QED BY <1>4, <3>1, <4>2, <4>3
    <3>4. QED BY <1>6, <3>2, <3>3
  <2>4. QED BY <1>1, <2>1, <2>2, <2>3 DEF OrderInv
<1>10. GapInv'
  <2>1. CASE ring' = ring
    <3> SUFFICES ASSUME NEW p \in DOMAIN ring, NEW k \in Ids, ring[p].slot = k, current(k)
                 PROVE  NoGap(p, k)'
      BY <1>1, <1>2, <2>1 DEF GapInv
    <3>1. slot'[k].revision = slot[k].revision BY <1>1
    <3>2. NoGap(p, k) BY DEF GapInv
    <3>3. QED BY <2>1, <3>1, <3>2 DEF NoGap
  <2>2. CASE ring' = <<>>
    <3>1. DOMAIN ring' = {} BY <2>2
    <3>2. QED BY <3>1 DEF GapInv
  <2>3. QED BY <1>3, <2>1, <2>2
<1>11. DeliveredInv'
  <2> SUFFICES ASSUME NEW i \in Ids, slot'[i].delivered > 0
               PROVE  LET s == sent'[slot[i].name] IN
                      i < s[1] \/ (i = s[1] /\ slot'[i].delivered <= s[2])
    BY <1>1 DEF DeliveredInv
  <2> DEFINE n == slot[i].name
  <2>1. n \in Names /\ i \in Nat \ {0} /\ slot[i].delivered \in Nat BY <1>4
  <2>2. \/ slot'[i].delivered = slot[i].delivered
        \/ i = selected /\ slot'[i].delivered = event.revision /\ Recorded
    BY <1>3, DeliverSlot DEF SendAccepted
  <2>3. slot[i].delivered > 0 => i < sent[n][1] \/ (i = sent[n][1] /\ slot[i].delivered <= sent[n][2])
    BY DEF DeliveredInv
  <2>4. CASE selected # 0 /\ n = slot[selected].name /\ sent'[n] = <<selected, event.revision>>
    <3>1. sent[n][1] < selected \/ (sent[n][1] = selected /\ sent[n][2] <= event.revision)
      BY <2>4 DEF OrderInv
    <3>2. sent'[n][1] = selected /\ sent'[n][2] = event.revision BY <2>4
    <3>3. sent[n][1] \in Nat /\ sent[n][2] \in Nat /\ selected \in Nat /\ event.revision \in Nat
      BY <1>4, <2>1
    <3>4. CASE i = selected /\ slot'[i].delivered = event.revision BY <3>2, <3>3, <3>4
    <3>5. CASE slot'[i].delivered = slot[i].delivered
      <4>1. i < sent[n][1] \/ (i = sent[n][1] /\ slot[i].delivered <= sent[n][2]) BY <2>3, <3>5
      <4>2. CASE i < sent[n][1]
        <5>1. i < selected
          <6>1. i \in Nat BY <2>1
          <6>2. QED BY <3>1, <3>3, <4>2, <6>1
        <5>2. QED BY <3>2, <5>1
      <4>3. CASE i = sent[n][1] /\ slot[i].delivered <= sent[n][2]
        <5>1. i < selected \/ (i = selected /\ slot[i].delivered <= event.revision)
          BY <2>1, <3>1, <3>3, <4>3
        <5>2. QED BY <3>2, <3>5, <5>1
      <4>4. QED BY <4>1, <4>2, <4>3
    <3>6. QED BY <2>2, <3>4, <3>5
  <2>5. CASE sent'[n] = sent[n] /\ ~(i = selected /\ Recorded) BY <2>2, <2>3, <2>5
  <2>6. i = selected /\ Recorded => sent'[n] = <<selected, event.revision>>
    BY <2>1 DEF Recorded, TypeOK
  <2>7. QED BY <1>6, <2>1, <2>4, <2>5, <2>6
<1>12. RingInv' BY <1>3 DEF RingInv, SendAccepted, flags
<1>13. QED BY <1>8, <1>9, <1>10, <1>11, <1>12

\* Whatever gives a waiting worker something to do also wakes it.
LEMMA MissedNext == ASSUME TypeOK, NoMissedAlarm, [Next]_vars PROVE NoMissedAlarm'
<1> SUFFICES ASSUME pc' = "asleep", enabled' PROVE ring' = <<>> /\ Candidates' = {} /\ ~stopping'
  BY DEF NoMissedAlarm
<1>1. CASE WorkerIdle
  <2>1. /\ ring' = <<>> /\ Candidates = {} /\ ~stopping'
        /\ slot' = slot /\ slots' = slots /\ epoch' = epoch
    BY <1>1 DEF WorkerIdle, Ready, slotVars, flags
  <2>2. Candidates' = Candidates BY <2>1 DEF Candidates, current, pending, Usable
  <2>3. QED BY <2>1, <2>2
<1>2. ASSUME NEW n \in Names, NEW a \in Alarms, prepare(n, a)
      PROVE  ring' = <<>> /\ Candidates' = {} /\ ~stopping'
  <2> PICK m \in Nat : m = Len(slot) + 1 BY SlotTypes
  <2>1. /\ slots \subseteq Ids /\ slots' = slots \cup {m} /\ ~slot'[m].active
        /\ \A k \in Ids : slot'[k] = slot[k]
    BY <1>2, PrepareSlot DEF TypeOK
  <2>2. /\ pc = "asleep" /\ enabled /\ ring' = ring /\ stopping' = stopping /\ epoch' = epoch
    BY <1>2 DEF prepare, flags
  <2>3. ring = <<>> /\ Candidates = {} /\ ~stopping BY <2>2 DEF NoMissedAlarm
  <2>4. Candidates' \subseteq Candidates
    <3> SUFFICES ASSUME NEW k \in slots', current(k)', pending(k)'
                 PROVE  k \in slots /\ current(k) /\ pending(k)
      BY DEF Candidates
    <3>1. k # m /\ k \in slots BY <2>1 DEF current, Usable
    <3>2. slot'[k] = slot[k] BY <2>1, <3>1
    <3>3. pending(k) BY <2>2, <3>2 DEF pending
    <3>4. current(k) BY <2>1, <3>1, <3>2 DEF current, Usable
    <3>5. QED BY <3>1, <3>3, <3>4
  <2>5. QED BY <2>2, <2>3, <2>4
<1>3. CASE HeartbeatDue \/ UNCHANGED vars
  <2>1. /\ pc = "asleep" /\ enabled /\ ring' = ring /\ stopping' = stopping /\ epoch' = epoch
        /\ slot' = slot /\ slots' = slots
    BY <1>3 DEF HeartbeatDue, vars, slotVars, flags
  <2>2. Candidates' = Candidates BY <2>1 DEF Candidates, current, pending, Usable
  <2>3. QED BY <2>1, <2>2 DEF NoMissedAlarm
<1>4. QED
  BY <1>1, <1>2, <1>3 DEF Next, WorkerStep, RuntimeStep, WorkerExits, WorkerDisabled, SendTransition,
     Reconcile, Sends, SendAccepted, SendFails, RetryDue, activate, retire, remove, update, notify_all,
     enable, stop, flags

-----------------------------------------------------------------------------
(* Theorems *)

\* The publisher starts with no slot and an empty ring.
LEMMA InitInv == Init => IInv
<1> SUFFICES ASSUME Init PROVE IInv OBVIOUS
<1>1. slot = <<>> /\ ring = <<>> /\ Ids = {} BY DEF Init, Ids
<1>2. slot \in Seq(Slots) /\ ring \in Seq(Events) /\ Len(ring) <= RingSize
  BY <1>1, AlarmAssumption
<1>3. NoEvent \in Events BY DEF NoEvent, Events
<1>4. TypeOK
  <2>1. last \in [Names -> Alarms \cup {"none"}] /\ sent \in [Names -> Nat \X Nat] BY DEF Init
  <2>2. slots \subseteq Ids BY <1>1 DEF Init
  <2>3. /\ enabled \in BOOLEAN /\ stopping \in BOOLEAN /\ recovering \in BOOLEAN
        /\ live \in BOOLEAN /\ due \in BOOLEAN
    BY DEF Init
  <2>4. /\ lastId \in Nat /\ epoch \in Nat \ {0} /\ selected \in Nat /\ event \in Events
        /\ sendingEpoch \in Nat /\ failures \in Nat /\ pc = "loop"
    BY <1>3 DEF Init
  <2>5. QED BY <1>2, <2>1, <2>2, <2>3, <2>4 DEF TypeOK
<1>5. Known = {} BY <1>1 DEF Init, Known, Range
<1>6. DataInv
  <2>1. DOMAIN ring = {} BY <1>1
  <2>2. KnownInv BY <1>5 DEF KnownInv
  <2>3. selected = 0 /\ \A n \in Names : sent[n][1] = 0 BY DEF Init
  <2>4. OrderInv BY <2>1, <2>3 DEF OrderInv
  <2>5. GapInv BY <2>1 DEF GapInv
  <2>6. DeliveredInv BY <1>1 DEF DeliveredInv
  <2>7. RingInv BY <1>1 DEF RingInv
  <2>8. QED BY <2>2, <2>4, <2>5, <2>6, <2>7 DEF DataInv
<1>7. NoMissedAlarm BY DEF Init, NoMissedAlarm
<1>8. QED BY <1>4, <1>6, <1>7 DEF IInv

\* Every step of the worker and of the runtimes keeps the inductive invariant.
LEMMA NextInv == ASSUME IInv, [Next]_vars PROVE IInv'
<1>1. TypeOK /\ DataInv /\ NoMissedAlarm BY DEF IInv
<1>2. TypeOK' BY <1>1, TypeNext
<1>3. NoMissedAlarm' BY <1>1, MissedNext
<1>4. DataInv'
  <2>1. CASE WorkerStep
    BY <1>1, <1>2, <2>1, IdleData, WorkerData, RecordData DEF WorkerStep
  <2>2. CASE RuntimeStep
    BY <1>1, <1>2, <2>2, RegistrationData, UpdateData DEF RuntimeStep
  <2>3. CASE enable \/ stop \/ HeartbeatDue \/ UNCHANGED vars
    BY <1>1, <1>2, <2>3, IdleData
  <2>4. QED BY <2>1, <2>2, <2>3 DEF Next
<1>5. QED BY <1>2, <1>3, <1>4 DEF IInv

\* The inductive invariant of the publisher.
THEOREM Invariance == Spec => []IInv
BY InitInv, NextInv, PTL DEF Spec

\* Types, and the bound on the transitions that update() queues.
THEOREM TypeCorrect == Spec => []TypeOK
<1>1. IInv => TypeOK BY DEF IInv
<1>2. QED BY <1>1, Invariance, PTL

\* The worker of run() never waits for a change while it has something to send.
THEOREM Woken == Spec => []NoMissedAlarm
<1>1. IInv => NoMissedAlarm BY DEF IInv
<1>2. QED BY <1>1, Invariance, PTL

\* What update() has queued for a current slot is complete and in order, whatever
\* the size of the ring.
THEOREM Complete == Spec => []QueueComplete
<1>1. ASSUME IInv PROVE QueueComplete
  <2>1. TypeOK /\ KnownInv /\ OrderInv /\ GapInv BY <1>1 DEF IInv, DataInv
  <2>2. \A p \in DOMAIN ring : ring[p].slot \in Ids BY <2>1, KnownFacts
  <2> SUFFICES ASSUME NEW p \in DOMAIN ring, current(ring[p].slot)
               PROVE  LET i == ring[p].slot
                          later == {q \in DOMAIN ring : p < q /\ ring[q].slot = i}
                      IN /\ \A q \in later : ring[p].revision < ring[q].revision
                         /\ \/ ring[p].revision = slot[i].revision
                            \/ \E q \in later : ring[q].revision = ring[p].revision + 1
    BY DEF QueueComplete
  <2> DEFINE i == ring[p].slot
  <2>3. ASSUME NEW q \in DOMAIN ring, p < q, ring[q].slot = i PROVE ring[p].revision < ring[q].revision
    BY <2>1, <2>3 DEF OrderInv
  <2>4. NoGap(p, i) BY <2>1, <2>2 DEF GapInv
  <2>5. QED BY <2>3, <2>4 DEF NoGap
<1>2. QED BY <1>1, Invariance, PTL

\* When status() says "ready", the stream holds the current state of every active PV.
THEOREM ReadyDelivered == Spec => []ReadyMeansDelivered
<1>1. ASSUME IInv PROVE ReadyMeansDelivered
  <2>1. TypeOK /\ DataInv /\ KnownInv /\ OrderInv /\ DeliveredInv BY <1>1 DEF IInv, DataInv
  <2> SUFFICES ASSUME StatusReady, NEW i \in slots, current(i) PROVE last[slot[i].name] = slot[i].latest
    BY DEF ReadyMeansDelivered
  <2> DEFINE n == slot[i].name
             s == sent[n]
  <2>2. /\ i \in Ids /\ i \in Nat \ {0} /\ n \in Names /\ slot[i].revision \in Nat \ {0}
        /\ slot[i].delivered \in Nat
    BY <2>1, SlotTypes DEF TypeOK
  <2>3. s[1] \in Nat /\ s[2] \in Nat BY <2>1, <2>2, KnownTypes
  <2>4. slot[i].delivered >= slot[i].revision /\ slot[i].delivered > 0
    BY <2>2 DEF StatusReady, pending
  <2>5. i < s[1] \/ (i = s[1] /\ slot[i].delivered <= s[2]) BY <2>1, <2>2, <2>4 DEF DeliveredInv
  <2> HIDE DEF s, n
  <2>6. s[1] # 0 BY <2>2, <2>3, <2>5
  <2> USE DEF s, n
  <2>7. /\ s[1] \in Ids /\ Seen(s[1]) /\ s[2] <= slot[s[1]].revision
        /\ s[2] = slot[s[1]].revision => last[n] = slot[s[1]].latest
    BY <2>1, <2>2, <2>6, KnownFacts
  <2>8. slot[s[1]].name = n BY <2>1, <2>2, <2>6 DEF OrderInv
  <2>9. s[1] <= i BY <2>1, <2>2, <2>7, <2>8, SeenOrder
  <2>10. s[1] = i /\ slot[i].delivered <= s[2]
    <3> HIDE DEF s, n
    <3>1. ~(i < s[1]) BY <2>2, <2>3, <2>9
    <3>2. QED BY <2>5, <3>1
  <2>11. s[2] <= slot[i].revision BY <2>7, <2>10
  <2>12. s[2] = slot[i].revision
    <3> HIDE DEF s, n
    <3>1. QED BY <2>2, <2>3, <2>4, <2>10, <2>11
  <2>13. QED BY <2>7, <2>10, <2>12
<1>2. QED BY <1>1, Invariance, PTL

\* The stream never goes back: what the worker sends, queued, reconciled or repeated
\* after a failure, is not older than the last record of its name.
THEOREM Monotone == Spec => NeverOlder
<1> DEFINE A == \A n \in Names : \/ sent'[n][1] > sent[n][1]
                                 \/ sent'[n][1] = sent[n][1] /\ sent'[n][2] >= sent[n][2]
<1>1. ASSUME IInv, Next PROVE A
  <2>1. TypeOK /\ OrderInv BY <1>1 DEF IInv, DataInv
  <2> SUFFICES ASSUME NEW n \in Names
               PROVE  \/ sent'[n][1] > sent[n][1]
                      \/ sent'[n][1] = sent[n][1] /\ sent'[n][2] >= sent[n][2]
    OBVIOUS
  <2>2. /\ sent[n][1] \in Nat /\ sent[n][2] \in Nat /\ selected \in Nat /\ event.revision \in Nat
    BY <2>1, KnownTypes
  <2>3. CASE sent' = sent BY <2>2, <2>3
  <2>4. CASE Recorded /\ sent' # sent
    <3>1. selected # 0 /\ sent' = [sent EXCEPT ![slot[selected].name] = <<selected, event.revision>>]
      BY <2>4 DEF Recorded
    <3>2. CASE n # slot[selected].name
      <4>1. sent'[n] = sent[n] BY <2>1, <3>1, <3>2 DEF TypeOK
      <4>2. QED BY <2>2, <4>1
    <3>3. CASE n = slot[selected].name
      <4>1. sent'[n][1] = selected /\ sent'[n][2] = event.revision BY <2>1, <3>1, <3>3 DEF TypeOK
      <4>2. sent[n][1] < selected \/ (sent[n][1] = selected /\ sent[n][2] <= event.revision)
        BY <2>1, <3>1, <3>3 DEF OrderInv
      <4>3. QED BY <2>2, <4>1, <4>2
    <3>4. QED BY <3>2, <3>3
  <2>5. sent' = sent \/ Recorded
    BY <1>1 DEF Next, WorkerStep, RuntimeStep, WorkerExits, WorkerDisabled, SendTransition, WorkerIdle,
       Reconcile, SendAccepted, SendFails, RetryDue, prepare, activate, retire, remove, update, enable,
       stop, HeartbeatDue, redisVars
  <2>6. QED BY <2>3, <2>4, <2>5
<1>2. IInv /\ [Next]_vars => [A]_vars BY <1>1
<1>3. QED BY <1>2, Invariance, PTL DEF Spec, NeverOlder
=============================================================================
