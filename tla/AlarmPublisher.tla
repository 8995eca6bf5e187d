--------------------------- MODULE AlarmPublisher ---------------------------
(***************************************************************************)
(* The alarm publisher of src/src/alarm_worker.cpp.  Runtimes keep their   *)
(* alarm state in slots; one worker sends the states to a Redis stream,    *)
(* from a bounded ring of transitions while delivery is healthy and by     *)
(* reconciling every current slot after a failure or an overload.  Every   *)
(* action is one critical section of Impl::mutex; a call to Redis happens  *)
(* between Sends and its outcome, SendAccepted or SendFails.               *)
(*                                                                         *)
(* An alarm state is an encoded StoredState; the counters of status() that *)
(* only report are left out.                                               *)
(***************************************************************************)
EXTENDS Integers, Sequences, FiniteSets, Functions

CONSTANTS
  Names,        \* PV names
  Alarms,       \* encoded alarm states
  RingSize,     \* options.queueEntries
  StateSlots,   \* the slots that fit into options.stateBytes
  MaxSlots,     \* bound: registrations ever prepared
  MaxUpdates,   \* bound: changes of alarm state
  MaxFailures   \* bound: Redis calls that fail

ASSUME AlarmAssumption ==
  /\ RingSize \in Nat \ {0} /\ StateSlots \in Nat
  /\ MaxSlots \in Nat /\ MaxUpdates \in Nat /\ MaxFailures \in Nat

VARIABLES
  slot,        \* slot[id]: the fields of a Slot; nextId = Len(slot)
  slots,       \* the ids in `slots` and in `names`
  ring,        \* the transitions from head on; count = Len(ring)
  lastId, epoch, enabled, stopping, recovering, live,
  pc,          \* the worker: "loop", "asleep", "backoff", "sending" or "exit"
  selected,    \* the slot the worker is sending, 0 for a ping
  event,       \* the transition it is sending
  sendingEpoch,
  due,         \* the heartbeat time has come
  failures,    \* Redis calls that failed
  last,        \* history: the last record of each name in the stream
  sent         \* history: the slot and revision of that record

slotVars == <<slot, slots>>
flags == <<enabled, stopping>>
sendVars == <<selected, event, sendingEpoch>>
redisVars == <<failures, last, sent>>
vars == <<slotVars, ring, lastId, epoch, flags, recovering, live, pc, sendVars, due, redisVars>>

Slots == [name : Names, latest : Alarms, revision : Nat \ {0}, delivered : Nat,
          deliveredEpoch : Nat, active : BOOLEAN, retired : BOOLEAN, force : BOOLEAN]
Ids == DOMAIN slot
Events == [slot : Nat, state : Alarms \cup {"none"}, revision : Nat]
NoEvent == [slot |-> 0, state |-> "none", revision |-> 0]

Init ==
  /\ slot = <<>> /\ slots = {} /\ ring = <<>>
  /\ lastId = 0 /\ epoch = 1 /\ enabled = FALSE /\ stopping = FALSE
  /\ recovering = TRUE /\ live = FALSE
  /\ pc = "loop" /\ selected = 0 /\ event = NoEvent /\ sendingEpoch = 0 /\ due = TRUE
  /\ failures = 0 /\ last = [n \in Names |-> "none"] /\ sent = [n \in Names |-> <<0, 0>>]

\* changed.notify_all(): a wait without predicate returns; the back-off after a
\* failure tests `stopping` and goes on waiting.
notify_all == pc' = IF pc = "asleep" THEN "loop" ELSE pc

Usable(i) == slot[i].active /\ ~slot[i].retired

\* Mutant of current: an older registration of the name counts as well.
usableIsCurrent(i) == i \in slots /\ Usable(i)

\* current(): the newest usable slot of its name.
current(i) ==
  /\ i \in slots /\ Usable(i)
  /\ \A j \in slots : slot[j].name = slot[i].name /\ Usable(j) => j <= i

pending(i) ==
  \/ slot[i].force
  \/ slot[i].deliveredEpoch # epoch
  \/ slot[i].delivered < slot[i].revision

-----------------------------------------------------------------------------
(* Registrations *)

\* The reservation lives as long as the slot, which the worker may hold.
Reserved == slots \cup ({selected} \ {0})

prepare(n, a) ==
  /\ ~stopping /\ Cardinality(Reserved) < StateSlots /\ Len(slot) < MaxSlots
  /\ slot' = Append(slot, [name |-> n, latest |-> a, revision |-> 1, delivered |-> 0,
                           deliveredEpoch |-> 0, active |-> FALSE, retired |-> FALSE,
                           force |-> TRUE])
  /\ slots' = slots \cup {Len(slot) + 1}
  /\ UNCHANGED <<ring, lastId, epoch, flags, recovering, live, pc, sendVars, due, redisVars>>

\* Registration::activate()
activate(i) ==
  /\ i \in slots /\ ~slot[i].retired /\ ~slot[i].active
  /\ slot' = [slot EXCEPT ![i].active = TRUE, ![i].force = TRUE]
  /\ notify_all
  /\ UNCHANGED <<slots, ring, lastId, epoch, flags, recovering, live, sendVars, due, redisVars>>

\* How app.cpp uses registrations: a reload activates the runtime that replaces
\* another and then retires the other, so that an active slot is never retired
\* before the older slots of its name.  One that was never active may go first.  A
\* refresh that fails between the two steps (RefreshFails of Application) can leave an
\* older slot active until its last user lets it go; this order is left out here.
Oldest(i) == Usable(i) => \A j \in slots : slot[j].name = slot[i].name /\ j < i => slot[j].retired

\* Registration::retire()
retire(i) ==
  /\ i \in slots /\ ~slot[i].retired /\ Oldest(i)
  /\ slot' = [slot EXCEPT ![i].active = FALSE, ![i].retired = TRUE]
  /\ notify_all
  /\ UNCHANGED <<slots, ring, lastId, epoch, flags, recovering, live, sendVars, due, redisVars>>

\* ~Registration()
remove(i) ==
  /\ i \in slots /\ Oldest(i)
  /\ slot' = [slot EXCEPT ![i].active = FALSE, ![i].retired = TRUE]
  /\ slots' = slots \ {i}
  /\ notify_all
  /\ UNCHANGED <<ring, lastId, epoch, flags, recovering, live, sendVars, due, redisVars>>

-----------------------------------------------------------------------------
(* update() *)

\* Mutant of Enqueue: a full ring drops the new transition and nothing else.
EnqueueOrDrop(i, a, r) ==
  /\ ring' = IF live /\ ~recovering /\ Len(ring) < RingSize
             THEN Append(ring, [slot |-> i, state |-> a, revision |-> r]) ELSE ring
  /\ UNCHANGED <<epoch, recovering>>

\* Record a transition, or leave it to reconciliation; a full ring is discarded.
Enqueue(i, a, r) ==
  IF live /\ ~recovering /\ Len(ring) < RingSize
  THEN /\ ring' = Append(ring, [slot |-> i, state |-> a, revision |-> r])
       /\ UNCHANGED <<epoch, recovering>>
  ELSE IF Len(ring) = RingSize
       THEN ring' = <<>> /\ epoch' = epoch + 1 /\ recovering' = TRUE
       ELSE UNCHANGED <<ring, epoch, recovering>>

Updates == FoldFunction(LAMBDA s, n : n + s.revision - 1, 0, slot)

update(i, a) ==
  LET r == slot[i].revision + 1 IN
  /\ i \in slots /\ ~stopping /\ ~slot[i].retired /\ slot[i].latest # a
  /\ Updates < MaxUpdates
  /\ slot' = [slot EXCEPT ![i].latest = a, ![i].revision = r]
  /\ IF enabled /\ current(i) THEN Enqueue(i, a, r) ELSE UNCHANGED <<ring, epoch, recovering>>
  /\ notify_all
  /\ UNCHANGED <<slots, lastId, flags, live, sendVars, due, redisVars>>

-----------------------------------------------------------------------------
(* AlarmPublisher::activate() and stop() *)

enable ==
  /\ ~enabled
  /\ enabled' = TRUE
  /\ notify_all
  /\ UNCHANGED <<slotVars, ring, lastId, epoch, stopping, recovering, live, sendVars, due, redisVars>>

stop ==
  /\ ~stopping
  /\ stopping' = TRUE
  /\ pc' = IF pc \in {"asleep", "backoff"} THEN "loop" ELSE pc
  /\ UNCHANGED <<slotVars, ring, lastId, epoch, enabled, recovering, live, sendVars, due, redisVars>>

-----------------------------------------------------------------------------
(* run() *)

Ready == pc = "loop" /\ ~stopping /\ enabled

\* The queued transitions whose slot is still current, by position.
Fresh == {p \in DOMAIN ring : current(ring[p].slot)}
Candidates == {i \in slots : current(i) /\ pending(i)}

WorkerExits ==
  /\ pc = "loop" /\ stopping
  /\ pc' = "exit"
  /\ UNCHANGED <<slotVars, ring, lastId, epoch, flags, recovering, live, sendVars, due, redisVars>>

WorkerDisabled ==
  /\ pc = "loop" /\ ~stopping /\ ~enabled
  /\ pc' = "asleep"
  /\ UNCHANGED <<slotVars, ring, lastId, epoch, flags, recovering, live, sendVars, due, redisVars>>

Sends(e) == pc' = "sending" /\ selected' = e.slot /\ event' = e /\ sendingEpoch' = epoch

\* Take the first fresh transition; the stale ones before it are dropped.
SendTransition ==
  /\ Ready
  /\ \E p \in Fresh : /\ \A q \in Fresh : p <= q
                      /\ Sends(ring[p])
                      /\ ring' = SubSeq(ring, p + 1, Len(ring))
  /\ UNCHANGED <<slotVars, lastId, epoch, flags, recovering, live, due, redisVars>>

\* upper_bound(lastId), then round the map.
NextAfter(i, S) ==
  /\ i \in S
  /\ \/ i > lastId /\ \A j \in S : j > lastId => i <= j
     \/ \A j \in S : j <= lastId /\ i <= j

\* No transition is left: send the state of the next slot that needs it.
Reconcile(i) ==
  /\ Ready /\ Fresh = {} /\ NextAfter(i, Candidates)
  /\ Sends([slot |-> i, state |-> slot[i].latest, revision |-> slot[i].revision])
  /\ ring' = <<>> /\ lastId' = i
  /\ UNCHANGED <<slotVars, epoch, flags, recovering, live, due, redisVars>>

\* Nothing to send: recovery is over if Redis answers, and the worker waits for a
\* change or for the heartbeat, which pings.
WorkerIdle ==
  LET hasActive == \E i \in slots : current(i) IN
  /\ Ready /\ Fresh = {} /\ Candidates = {}
  /\ ring' = <<>>
  /\ recovering' = (recovering /\ ~live)
  /\ IF hasActive /\ due THEN Sends(NoEvent) ELSE pc' = "asleep" /\ UNCHANGED sendVars
  /\ UNCHANGED <<slotVars, lastId, epoch, flags, live, due, redisVars>>

\* The heartbeat time comes; a worker that waits for it (some slot is current) wakes.
HeartbeatDue ==
  /\ ~due
  /\ due' = TRUE
  /\ pc' = IF pc = "asleep" /\ enabled /\ \E i \in slots : current(i) THEN "loop" ELSE pc
  /\ UNCHANGED <<slotVars, ring, lastId, epoch, flags, recovering, live, sendVars, redisVars>>

RetryDue ==
  /\ pc = "backoff"
  /\ pc' = "loop"
  /\ UNCHANGED <<slotVars, ring, lastId, epoch, flags, recovering, live, sendVars, due, redisVars>>

\* The stream gets the record of the event being sent.
Recorded ==
  IF selected = 0 THEN UNCHANGED <<last, sent>>
  ELSE /\ last' = [last EXCEPT ![slot[selected].name] = event.state]
       /\ sent' = [sent EXCEPT ![slot[selected].name] = <<selected, event.revision>>]

\* Mutant of MarkDelivered: whatever is latest counts as delivered.
MarkLatestDelivered ==
  slot' = IF selected # 0 /\ current(selected)
          THEN [slot EXCEPT ![selected].delivered = slot[selected].revision,
                            ![selected].deliveredEpoch = sendingEpoch, ![selected].force = FALSE]
          ELSE slot

MarkDelivered ==
  slot' = IF selected # 0 /\ current(selected)
          THEN [slot EXCEPT ![selected].delivered = IF @ < event.revision THEN event.revision ELSE @,
                            ![selected].deliveredEpoch = sendingEpoch, ![selected].force = FALSE]
          ELSE slot

Done == selected' = 0 /\ event' = NoEvent /\ sendingEpoch' = 0 /\ due' = FALSE

SendAccepted ==
  /\ pc = "sending"
  /\ Recorded /\ MarkDelivered
  /\ live' = TRUE
  /\ pc' = "loop" /\ Done
  /\ UNCHANGED <<slots, ring, lastId, epoch, flags, recovering, failures>>

\* Redis answers with an error, or the call fails before or after Redis recorded
\* the state: history is given up and everything is sent again.
SendFails ==
  /\ pc = "sending" /\ failures < MaxFailures
  /\ failures' = failures + 1
  /\ \/ UNCHANGED <<live, last, sent>>
     \/ live' = FALSE /\ UNCHANGED <<last, sent>>
     \/ live' = FALSE /\ Recorded
  /\ ring' = <<>> /\ epoch' = epoch + 1 /\ recovering' = TRUE
  /\ pc' = IF stopping THEN "loop" ELSE "backoff"
  /\ Done
  /\ UNCHANGED <<slotVars, lastId, flags>>

WorkerStep ==
  \/ WorkerExits \/ WorkerDisabled \/ SendTransition \/ WorkerIdle
  \/ \E i \in Ids : Reconcile(i)
  \/ SendAccepted \/ SendFails \/ RetryDue

RuntimeStep ==
  \/ \E n \in Names, a \in Alarms : prepare(n, a)
  \/ \E i \in Ids : activate(i) \/ retire(i) \/ remove(i)
  \/ \E i \in Ids, a \in Alarms : update(i, a)

Next == WorkerStep \/ RuntimeStep \/ enable \/ stop \/ HeartbeatDue

Spec == Init /\ [][Next]_vars
FairSpec == Spec /\ WF_vars(WorkerStep)

-----------------------------------------------------------------------------
(* Properties *)

\* Every variable keeps the shape of its C++ counterpart; the ring is bounded.
TypeOK ==
  /\ slot \in Seq(Slots)
  /\ slots \subseteq Ids /\ lastId \in Nat /\ epoch \in Nat \ {0}
  /\ ring \in Seq(Events) /\ Len(ring) <= RingSize
  /\ enabled \in BOOLEAN /\ stopping \in BOOLEAN /\ recovering \in BOOLEAN
  /\ live \in BOOLEAN /\ due \in BOOLEAN
  /\ pc \in {"loop", "asleep", "backoff", "sending", "exit"}
  /\ selected \in Nat /\ event \in Events
  /\ sendingEpoch \in Nat /\ failures \in Nat
  /\ last \in [Names -> Alarms \cup {"none"}] /\ sent \in [Names -> Nat \X Nat]

\* A worker that waits for a change has nothing to send: every activation, update
\* and enable() that gives it work also wakes it.
NoMissedAlarm ==
  pc = "asleep" /\ enabled => ring = <<>> /\ Candidates = {} /\ ~stopping

\* status() says "ready": the stream's last record of every active PV is its
\* current alarm state.
StatusReady ==
  /\ enabled /\ ~stopping /\ live /\ ~recovering /\ ring = <<>>
  /\ \E i \in slots : current(i)
  /\ \A i \in slots : current(i) => ~pending(i)
ReadyMeansDelivered ==
  StatusReady => \A i \in slots : current(i) => last[slot[i].name] = slot[i].latest

\* docs/operations.md:147: healthy delivery preserves queued transitions in order.
\* A queued transition of a current slot is its present state, or the next one is
\* queued behind it.
QueueComplete ==
  \A p \in DOMAIN ring : current(ring[p].slot) =>
    LET i == ring[p].slot
        later == {q \in DOMAIN ring : p < q /\ ring[q].slot = i}
    IN /\ \A q \in later : ring[p].revision < ring[q].revision
       /\ \/ ring[p].revision = slot[i].revision
          \/ \E q \in later : ring[q].revision = ring[p].revision + 1

\* The records of a name never go back to a registration that was replaced, nor to
\* an older state of the same one, whatever mix of queued transitions, snapshots and
\* repetitions is sent.
NeverOlder ==
  [][\A n \in Names : \/ sent'[n][1] > sent[n][1]
                      \/ sent'[n][1] = sent[n][1] /\ sent'[n][2] >= sent[n][2]]_vars

\* While the publisher is enabled the last record of a PV is in the end its current
\* state, without another update, although Redis failed before.
CurrentStateDelivered ==
  \A i \in 1..MaxSlots :
    <>[](enabled /\ ~stopping /\ i \in Ids /\ current(i))
      => <>[](i \in Ids /\ last[slot[i].name] = slot[i].latest)
=============================================================================
