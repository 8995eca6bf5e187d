------------------------ MODULE OperationQueue_lanes ------------------------
(***************************************************************************)
(* The inductive invariant of OperationQueue, and the proofs that every    *)
(* step keeps its types, its lanes and its gauges.                         *)
(***************************************************************************)
EXTENDS OperationQueue, TLAPS

-----------------------------------------------------------------------------
(* The inductive invariant, by the part of the state it is about. *)

\* TypeOK, with lanes that hold any number where TypeOK has resident tickets.
Typed ==
  /\ now \in 0..MaxTime /\ work \in Seq(Work) /\ Len(work) <= MaxTasks
  /\ tasks \subseteq DOMAIN work /\ started \subseteq DOMAIN work
  /\ failed \subseteq DOMAIN work /\ deadlines \subseteq DOMAIN work
  /\ lanes \subseteq Keys /\ laneActive \subseteq Keys /\ laneReady \subseteq Keys
  /\ laneQueue \in [Keys -> Seq(Nat)] /\ runnable \in Seq(Keys)
  /\ counts \in [Stats -> Int]
  /\ workerPc \in [Workers -> Busy \cup {"wait", "exit"}]
  /\ workerTask \in [Workers -> Nat]
  /\ timerPc \in {"loop", "firing", "exit"} /\ timerTask \in Nat
  /\ timerWake \in 0..Forever /\ asleep \subseteq Workers \cup {Timer}
  /\ stopPc \in {"open", "reject", "closed"} /\ stopList \subseteq DOMAIN work
  /\ cancelling \subseteq DOMAIN work /\ rejected \subseteq DOMAIN work
  /\ thrown \subseteq DOMAIN work

\* A lane holds the tickets of its key that wait, each once, in order of submission.
LaneInv ==
  /\ \A k \in Keys : \A p \in DOMAIN laneQueue[k] :
       laneQueue[k][p] \in tasks \ started /\ work[laneQueue[k][p]].key = k
  /\ \A t \in tasks \ started :
       \E p \in DOMAIN laneQueue[work[t].key] : laneQueue[work[t].key][p] = t
  /\ \A k \in Keys : \A p, q \in DOMAIN laneQueue[k] :
       p < q => laneQueue[k][p] < laneQueue[k][q]

\* runnable holds each ready lane once.
Tokens ==
  /\ \A p \in DOMAIN runnable : runnable[p] \in laneReady
  /\ \A p, q \in DOMAIN runnable : runnable[p] = runnable[q] => p = q
  /\ \A k \in laneReady : \E p \in DOMAIN runnable : runnable[p] = k

\* A lane that waits for a worker has a token, an active lane has none.
TokenInv ==
  /\ lanes = laneActive \cup laneReady \cup {k \in Keys : laneQueue[k] # <<>>}
  /\ laneActive \cap laneReady = {}
  /\ Tokens
  /\ \A k \in Keys : k \notin laneActive /\ laneQueue[k] # <<>> => k \in laneReady

\* The busy workers hold the started tasks that are resident, one for each active lane.
WorkerInv ==
  /\ \A w \in Running : /\ workerTask[w] \in tasks \cap started
                        /\ work[workerTask[w]].key \in laneActive
  /\ OneActivePerKey
  /\ \A t \in tasks \cap started : \E w \in Running : workerTask[w] = t
  /\ \A w \in Workers : workerPc[w] = "exit" => stopped

\* While the queue is open a queued task has not failed; once it stops all have.
FailInv ==
  /\ stopPc = "open" => stopList = {} /\ failed \cap (tasks \ started) = {}
  /\ stopPc # "open" => tasks \subseteq failed
  /\ ToldByOneThread

DeadlineInv ==
  /\ deadlines \subseteq tasks
  /\ ~stopped => tasks \ failed \subseteq deadlines

WakeInv ==
  /\ asleep # {} => ~stopped
  /\ asleep \cap Workers # {} => runnable = <<>>
  /\ Timer \in asleep => \A t \in deadlines : timerWake <= work[t].deadline

IInv ==
  /\ Typed /\ LaneInv /\ TokenInv /\ WorkerInv /\ FailInv /\ ThrownByRun /\ DeadlineInv
  /\ WakeInv

(* A submission that throws spends its ticket number and nothing else: with that
   known, the lemmas are about the steps below, in which the catch block has done
   its work. *)

SubmitSpent(k, bytes, d) ==
  /\ ~stopped /\ Len(work) < MaxTasks
  /\ work' = Append(work, [key |-> k, charge |-> Charge(bytes), deadline |-> d])
  /\ UNCHANGED <<now, tasks, started, failed, deadlines, lanes, laneActive, laneReady, laneQueue,
                 runnable, counts, workerVars, timerVars, sleepVars, stopVars, replyVars>>

NetClientStep ==
  \/ \E k \in Keys, bytes \in Sizes, d \in 0..MaxTime :
       Submit(k, bytes, d) \/ SubmitSpent(k, bytes, d) \/ SubmitRejected(k, bytes, d)
  \/ \E t \in Ids : Cancel(t)
  \/ Stop

NetNext ==
  \/ NetClientStep \/ TimerStep \/ ReplyStep \/ StopClear \/ Tick
  \/ \E w \in Workers : WorkerStep(w) \/ RunEnds(w)
  \/ \E thread \in Workers \cup {Timer} : Wakes(thread)

-----------------------------------------------------------------------------
(* Sequences *)

\* Two sequences with the same elements, and what a concatenation holds.
LEMMA SequencesEqual ==
  ASSUME NEW S, NEW s \in Seq(S), NEW t \in Seq(S),
         Len(s) = Len(t), \A i \in 1..Len(s) : s[i] = t[i]
  PROVE  s = t
OBVIOUS

\* What concatenation returns.
LEMMA Concatenated ==
  ASSUME NEW S, NEW s \in Seq(S), NEW t \in Seq(S)
  PROVE  /\ s \o t \in Seq(S) /\ Len(s \o t) = Len(s) + Len(t)
         /\ \A i \in 1..Len(s) + Len(t) : (s \o t)[i] = IF i <= Len(s) THEN s[i] ELSE t[i - Len(s)]
<1>1. s \o t \in Seq(S) /\ Len(s \o t) = Len(s) + Len(t)
  OBVIOUS
<1>2. ASSUME NEW i \in 1..Len(s) + Len(t)
      PROVE  (s \o t)[i] = IF i <= Len(s) THEN s[i] ELSE t[i - Len(s)]
  OBVIOUS
<1>3. QED BY <1>1, <1>2


\* lane.queue.erase(position): the other entries keep their order.
LEMMA RemoveAtFacts ==
  ASSUME NEW S, NEW s \in Seq(S), NEW p \in 1..Len(s)
  PROVE  /\ RemoveAt(s, p) \in Seq(S)
         /\ Len(RemoveAt(s, p)) = Len(s) - 1
         /\ \A i \in 1..Len(s) - 1 :
              RemoveAt(s, p)[i] = IF i < p THEN s[i] ELSE s[i + 1]
<1> DEFINE a == SubSeq(s, 1, p - 1)
           b == SubSeq(s, p + 1, Len(s))
<1>1. a \in Seq(S) /\ Len(a) = p - 1 /\ \A i \in 1..p - 1 : a[i] = s[i]
  OBVIOUS
<1>2. b \in Seq(S) /\ Len(b) = Len(s) - p /\ \A i \in 1..Len(s) - p : b[i] = s[i + p]
  OBVIOUS
<1>3. RemoveAt(s, p) = a \o b
  BY DEF RemoveAt
<1> HIDE DEF a, b
<1>4. /\ a \o b \in Seq(S) /\ Len(a \o b) = Len(a) + Len(b)
      /\ \A i \in 1..Len(a) + Len(b) : (a \o b)[i] = IF i <= Len(a) THEN a[i] ELSE b[i - Len(a)]
  BY Zenon, <1>1, <1>2, Concatenated
<1>5. ASSUME NEW i \in 1..Len(s) - 1
      PROVE  (a \o b)[i] = IF i < p THEN s[i] ELSE s[i + 1]
  <2>1. CASE i < p
    BY <2>1, <1>1, <1>2, <1>4
  <2>2. CASE ~(i < p)
    <3>1. i - (p - 1) \in 1..Len(s) - p /\ i - (p - 1) + p = i + 1
      BY <2>2
    <3>2. b[i - (p - 1)] = s[i + 1]
      BY <3>1, <1>2
    <3>3. QED BY <2>2, <3>2, <1>1, <1>2, <1>4
  <2>3. QED BY Zenon, <2>1, <2>2
<1>6. QED
  BY <1>1, <1>2, <1>3, <1>4, <1>5

\* runnable.pop_front() and lane.queue.pop_front().
LEMMA PopFrontFacts ==
  ASSUME NEW S, NEW s \in Seq(S), s # <<>>
  PROVE  /\ Head(s) = s[1] /\ s[1] \in S /\ 1 \in DOMAIN s
         /\ Tail(s) \in Seq(S) /\ Len(Tail(s)) = Len(s) - 1
         /\ \A i \in 1..Len(s) - 1 : Tail(s)[i] = s[i + 1]
OBVIOUS

\* push_back().
LEMMA PushBackFacts ==
  ASSUME NEW S, NEW s \in Seq(S), NEW e \in S
  PROVE  /\ Append(s, e) \in Seq(S) /\ Len(Append(s, e)) = Len(s) + 1
         /\ \A i \in 1..Len(s) : Append(s, e)[i] = s[i]
         /\ Append(s, e)[Len(s) + 1] = e
         /\ Append(s, e) # s /\ Append(s, e) # <<>>
OBVIOUS

-----------------------------------------------------------------------------
(* The catch block of submit() *)

\* Erasing the entry that push_back() has just made.
LEMMA PushThenErase ==
  ASSUME NEW S, NEW s \in Seq(S), NEW e \in S
  PROVE  RemoveAt(Append(s, e), Len(Append(s, e))) = s
<1> DEFINE t == Append(s, e)
<1>1. /\ t \in Seq(S) /\ Len(t) = Len(s) + 1 /\ \A i \in 1..Len(s) : t[i] = s[i]
      /\ Len(s) \in Nat
  BY PushBackFacts
<1> HIDE DEF t
<1>2. Len(t) \in 1..Len(t)
  BY <1>1
<1>3. /\ RemoveAt(t, Len(t)) \in Seq(S) /\ Len(RemoveAt(t, Len(t))) = Len(t) - 1
      /\ \A i \in 1..Len(t) - 1 : RemoveAt(t, Len(t))[i] = IF i < Len(t) THEN t[i] ELSE t[i + 1]
  BY ZenonT(30), <1>1, <1>2, RemoveAtFacts
<1>4. \A i \in 1..Len(s) : RemoveAt(t, Len(t))[i] = s[i]
  BY <1>1, <1>3
<1>5. Len(RemoveAt(t, Len(t))) = Len(s)
  BY <1>1, <1>3
<1>6. RemoveAt(t, Len(t)) = s
  BY <1>3, <1>4, <1>5, SequencesEqual
<1> QED
  BY <1>6 DEF t

\* Whichever allocation fails, the catch block leaves what submit() found.
LEMMA ThrowUndone ==
  ASSUME Typed, TokenInv, NEW k \in Keys, NEW bytes \in Sizes, NEW d \in 0..MaxTime,
         NEW at \in Allocations, SubmitThrows(k, bytes, d, at)
  PROVE  SubmitSpent(k, bytes, d)
<1> DEFINE id == Len(work) + 1
           queue == IF at > 1 THEN Append(laneQueue[k], id) ELSE laneQueue[k]
           timed == IF at > 2 THEN deadlines \cup {id} ELSE deadlines
           indexed == IF at > 3 THEN tasks \cup {id} ELSE tasks
<1>1. id \in Nat /\ id \notin tasks /\ id \notin deadlines /\ laneQueue[k] \in Seq(Nat)
  BY DEF Typed
<1>2. Undo(k, id, queue, timed, indexed, at > 1, at > 2)
  BY DEF SubmitThrows
<1>3. indexed \ {id} = tasks /\ (IF at > 2 THEN timed \ {id} ELSE timed) = deadlines
  BY <1>1
<1>4. (IF at > 1 THEN RemoveAt(queue, Len(queue)) ELSE queue) = laneQueue[k]
  <2>1. RemoveAt(Append(laneQueue[k], id), Len(Append(laneQueue[k], id))) = laneQueue[k]
    BY <1>1, PushThenErase
  <2> QED BY <2>1
<1> HIDE DEF id, queue, timed, indexed
<1>5. /\ tasks' = tasks /\ deadlines' = deadlines
      /\ laneQueue' = [laneQueue EXCEPT ![k] = laneQueue[k]]
      /\ lanes' = IF Unused(k, laneQueue'[k]) THEN lanes \ {k} ELSE lanes \cup {k}
  BY ZenonT(30), <1>2, <1>3, <1>4 DEF Undo
<1>6. laneQueue' = laneQueue
  BY <1>5 DEF Typed
<1>7. lanes' = lanes
  BY <1>5, <1>6 DEF TokenInv, Unused
<1> QED
  BY <1>5, <1>6, <1>7 DEF SubmitThrows, SubmitSpent

\* The steps of the queue are those of NetNext.
LEMMA NetStep ==
  ASSUME IInv, [Next]_vars
  PROVE  [NetNext]_vars
<1>1. ASSUME NEW k \in Keys, NEW bytes \in Sizes, NEW d \in 0..MaxTime, NEW at \in Allocations,
             SubmitThrows(k, bytes, d, at)
      PROVE  SubmitSpent(k, bytes, d)
  BY <1>1, ThrowUndone DEF IInv
<1> QED
  BY ZenonT(30), <1>1 DEF Next, ClientStep, NetNext, NetClientStep

-----------------------------------------------------------------------------
(* Types *)

\* The parts of a submission's record.
LEMMA SubmittedWork ==
  ASSUME NEW k \in Keys, NEW bytes \in Sizes, NEW d \in 0..MaxTime
  PROVE  /\ Charge(bytes) \in Nat
         /\ [key |-> k, charge |-> Charge(bytes), deadline |-> d] \in Work
BY LimitsAssumption DEF Charge, Work

\* The parts of the record behind a ticket.
LEMMA WorkParts ==
  ASSUME work \in Seq(Work), NEW t \in DOMAIN work
  PROVE  work[t].key \in Keys /\ work[t].charge \in Nat /\ work[t].deadline \in 0..MaxTime
<1>1. work[t] \in Work
  OBVIOUS
<1>2. QED BY <1>1 DEF Work

\* The constructor leaves every field in its type.
LEMMA TypedInit == Init => Typed
BY LimitsAssumption DEF Init, Typed, Busy, Forever, Stats

\* Each gauge of the statistics is an integer.
LEMMA StatsFields ==
  /\ "accepted" \in Stats /\ "completed" \in Stats /\ "overloaded" \in Stats
  /\ "expired" \in Stats /\ "cancelled" \in Stats /\ "queued" \in Stats
  /\ "running" \in Stats /\ "residentBytes" \in Stats /\ "peakBytes" \in Stats
BY DEF Stats

\* What ready() leaves in runnable and in the flags.
LEMMA ReadyTyped ==
  ASSUME runnable \in Seq(Keys), laneReady \subseteq Keys, NEW k \in Keys, NEW active, NEW queue,
         ready(k, active, queue)
  PROVE  runnable' \in Seq(Keys) /\ laneReady' \subseteq Keys
BY DEF ready

\* A cancelled or expired task leaves types as they are.
LEMMA FailTyped ==
  ASSUME Typed, NEW t \in DOMAIN work, NEW e \in Nat, NEW c \in Nat, Fail(t, e, c)
  PROVE  /\ failed' \subseteq DOMAIN work /\ deadlines' \subseteq DOMAIN work
         /\ tasks' \subseteq DOMAIN work /\ lanes' \subseteq Keys
         /\ laneQueue' \in [Keys -> Seq(Nat)] /\ counts' \in [Stats -> Int]
<1>1. work[t].key \in Keys /\ work[t].charge \in Nat
  BY WorkParts DEF Typed
<1>2. counts' \in [Stats -> Int]
  <2>1. counts \in [Stats -> Int] /\ work[t].charge \in Int /\ e \in Int /\ c \in Int
    BY <1>1 DEF Typed
  <2>2. QED BY <2>1, StatsFields DEF Fail
<1>3. laneQueue' \in [Keys -> Seq(Nat)]
  <2>1. CASE t \in started
    BY <2>1 DEF Fail, Typed
  <2>2. CASE t \notin started
    <3>1. PICK p \in DOMAIN laneQueue[work[t].key] :
            laneQueue' = [laneQueue EXCEPT ![work[t].key] = RemoveAt(laneQueue[work[t].key], p)]
      BY <2>2 DEF Fail, releaseQueued
    <3>2. laneQueue[work[t].key] \in Seq(Nat) BY <1>1 DEF Typed
    <3>3. p \in 1..Len(laneQueue[work[t].key]) BY <3>2
    <3>4. RemoveAt(laneQueue[work[t].key], p) \in Seq(Nat) BY Zenon, <3>2, <3>3, RemoveAtFacts
    <3>5. QED BY <1>1, <3>1, <3>4 DEF Typed
  <2>3. QED BY <2>1, <2>2
<1>4. QED
  BY Zenon, <1>2, <1>3 DEF Fail, releaseQueued, Typed

\* A submission adds one ticket to the history.
LEMMA NewTicket ==
  ASSUME work \in Seq(Work), Len(work) < MaxTasks, NEW r \in Work, work' = Append(work, r)
  PROVE  /\ work' \in Seq(Work) /\ Len(work') <= MaxTasks
         /\ DOMAIN work' = DOMAIN work \cup {Len(work) + 1}
         /\ Len(work) + 1 \in Nat \ DOMAIN work
         /\ work'[Len(work) + 1] = r
         /\ \A t \in DOMAIN work : work'[t] = work[t] /\ t < Len(work) + 1
BY LimitsAssumption

\* The head of a runnable lane that is not empty is a task that waits in it.
LEMMA TokenHead ==
  ASSUME Typed, LaneInv, runnable # <<>>
  PROVE  /\ Head(runnable) \in Keys
         /\ laneQueue[Head(runnable)] \in Seq(Nat)
         /\ laneQueue[Head(runnable)] # <<>> =>
              /\ Head(laneQueue[Head(runnable)]) \in tasks \ started
              /\ work[Head(laneQueue[Head(runnable)])].key = Head(runnable)
<1>1. Head(runnable) \in Keys
  BY PopFrontFacts DEF Typed
<1>2. laneQueue[Head(runnable)] \in Seq(Nat)
  BY <1>1 DEF Typed
<1>3. ASSUME laneQueue[Head(runnable)] # <<>>
      PROVE  /\ Head(laneQueue[Head(runnable)]) = laneQueue[Head(runnable)][1]
             /\ 1 \in DOMAIN laneQueue[Head(runnable)]
  BY <1>2, <1>3, PopFrontFacts
<1>4. QED
  BY <1>1, <1>2, <1>3 DEF LaneInv

\* Every step leaves every field in its type.
LEMMA TypedNext ==
  ASSUME IInv, [NetNext]_vars
  PROVE  Typed'
<1> USE DEF IInv, Typed
<1>1. ASSUME NEW k \in Keys, NEW bytes \in Sizes, NEW d \in 0..MaxTime, Submit(k, bytes, d)
      PROVE  Typed'
  <2> DEFINE r == [key |-> k, charge |-> Charge(bytes), deadline |-> d]
  <2>1. r \in Work /\ Charge(bytes) \in Nat
    BY SubmittedWork
  <2>2. work' = Append(work, r) /\ Len(work) < MaxTasks
    BY <1>1 DEF Submit
  <2> HIDE DEF r
  <2>3. /\ work' \in Seq(Work) /\ Len(work') <= MaxTasks
        /\ DOMAIN work \subseteq DOMAIN work' /\ Len(work) + 1 \in DOMAIN work'
        /\ Len(work) + 1 \in Nat
    BY <2>1, <2>2, NewTicket
  <2>4. runnable' \in Seq(Keys) /\ laneReady' \subseteq Keys
    BY <1>1, ReadyTyped DEF Submit
  <2>5. laneQueue' \in [Keys -> Seq(Nat)]
    BY <1>1, <2>3 DEF Submit
  <2>6. counts' \in [Stats -> Int]
    <3>1. counts \in [Stats -> Int] OBVIOUS
    <3> HIDE DEF IInv, Typed
    <3>2. PICK used \in Int, peak \in Int :
            counts' = [counts EXCEPT !["accepted"] = @ + 1, !["queued"] = @ + 1,
                                     !["residentBytes"] = used, !["peakBytes"] = peak]
      <4>1. counts["residentBytes"] + Charge(bytes) \in Int /\ counts["peakBytes"] \in Int
        BY <2>1, <3>1, StatsFields
      <4>2. QED BY ZenonT(30), <1>1, <4>1 DEF Submit
    <3>3. QED BY <3>1, <3>2, StatsFields
  <2>7. timerWake' \in 0..Forever /\ asleep' \subseteq Workers \cup {Timer}
    BY <1>1, LimitsAssumption DEF Submit, notify_all, Forever
  <2>8. tasks' \subseteq DOMAIN work' /\ deadlines' \subseteq DOMAIN work' /\ lanes' \subseteq Keys
    BY <1>1, <2>3 DEF Submit
  <2>9. QED
    BY Zenon, <1>1, <2>3, <2>4, <2>5, <2>6, <2>7, <2>8
    DEF Submit, workerVars, timerVars, stopVars, replyVars
<1>2. ASSUME NEW k \in Keys, NEW bytes \in Sizes, NEW d \in 0..MaxTime, SubmitSpent(k, bytes, d)
      PROVE  Typed'
  <2> DEFINE r == [key |-> k, charge |-> Charge(bytes), deadline |-> d]
  <2>1. r \in Work
    BY SubmittedWork
  <2>2. work' = Append(work, r) /\ Len(work) < MaxTasks
    BY <1>2 DEF SubmitSpent
  <2> HIDE DEF r
  <2>3. /\ work' \in Seq(Work) /\ Len(work') <= MaxTasks
        /\ DOMAIN work \subseteq DOMAIN work'
    BY <2>1, <2>2, NewTicket
  <2>4. QED
    BY <1>2, <2>3 DEF SubmitSpent, workerVars, timerVars, sleepVars, stopVars, replyVars
<1>3. ASSUME NEW k \in Keys, NEW bytes \in Sizes, NEW d \in 0..MaxTime, SubmitRejected(k, bytes, d)
      PROVE  Typed'
  <2>1. counts' \in [Stats -> Int]
    <3>1. counts \in [Stats -> Int] OBVIOUS
    <3>2. \/ counts' = [counts EXCEPT !["expired"] = @ + 1]
          \/ counts' = [counts EXCEPT !["overloaded"] = @ + 1]
      BY ZenonT(30), <1>3 DEF SubmitRejected
    <3> HIDE DEF IInv, Typed
    <3>3. QED BY <3>1, <3>2, StatsFields
  <2>2. QED
    BY <1>3, <2>1 DEF SubmitRejected, queueVars, taskVars, workerVars, timerVars, sleepVars,
      stopVars, replyVars
<1>4. ASSUME NEW t \in Ids, Cancel(t) \/ TimerFire(t)
      PROVE  Typed'
  <2>1. t \in DOMAIN work
    BY <1>4 DEF Cancel, Cancellable, TimerFire
  <2>2. PICK e \in Nat, c \in Nat : Fail(t, e, c)
    BY <1>4 DEF Cancel, TimerFire
  <2>3. /\ failed' \subseteq DOMAIN work /\ deadlines' \subseteq DOMAIN work
        /\ tasks' \subseteq DOMAIN work /\ lanes' \subseteq Keys
        /\ laneQueue' \in [Keys -> Seq(Nat)] /\ counts' \in [Stats -> Int]
    <3> USE DEF Typed
    <3>1. QED BY <2>1, <2>2, FailTyped
  <2>4. timerWake' \in 0..Forever /\ asleep' \subseteq Workers \cup {Timer}
    BY <1>4, LimitsAssumption DEF Cancel, TimerFire, notify_all, Forever, sleepVars
  <2>5. timerPc' \in {"loop", "firing", "exit"} /\ timerTask' \in Nat
    BY <1>4, <2>1 DEF Cancel, TimerFire, timerVars
  <2>6. QED
    BY <1>4, <2>1, <2>3, <2>4, <2>5 DEF Cancel, TimerFire, workerVars, stopVars, replyVars
<1>5. ASSUME NEW w \in Workers, WorkerTake(w)
      PROVE  Typed'
  <2> DEFINE k == Head(runnable)
             t == Head(laneQueue[k])
  <2>1. runnable # <<>> /\ laneQueue[k] # <<>>
    BY <1>5 DEF WorkerTake, HasToken
  <2>2. k \in Keys /\ laneQueue[k] \in Seq(Nat) /\ t \in DOMAIN work /\ t \in Nat
    BY <2>1, TokenHead
  <2>3. runnable' \in Seq(Keys) /\ Tail(laneQueue[k]) \in Seq(Nat)
    BY <1>5, <2>1, <2>2, PopFrontFacts DEF WorkerTake
  <2> HIDE DEF k, t
  <2>4. laneQueue' \in [Keys -> Seq(Nat)]
    BY <1>5, <2>3 DEF WorkerTake, k
  <2>5. counts' \in [Stats -> Int]
    <3>1. counts \in [Stats -> Int] OBVIOUS
    <3> HIDE DEF IInv, Typed
    <3>2. QED BY SMTT(30), <1>5, <3>1, StatsFields DEF WorkerTake
  <2>6. started' \subseteq DOMAIN work /\ failed' \subseteq DOMAIN work
    BY ZenonT(30), <1>5, <2>2 DEF WorkerTake, k, t
  <2>7. /\ workerPc' \in [Workers -> Busy \cup {"wait", "exit"}]
        /\ workerTask' \in [Workers -> Nat]
    BY <1>5, <2>2 DEF WorkerTake, Busy, k, t
  <2>8. laneActive' \subseteq Keys /\ laneReady' \subseteq Keys
    BY <1>5, <2>2 DEF WorkerTake, k
  <2>9. QED
    BY ZenonT(30), <1>5, <2>3, <2>4, <2>5, <2>6, <2>7, <2>8
    DEF WorkerTake, timerVars, sleepVars, stopVars, replyVars
<1>6. ASSUME NEW w \in Workers, WorkerFinish(w)
      PROVE  Typed'
  <2>1. w \in Running
    BY <1>6 DEF WorkerFinish, Running, Busy
  <2>2. workerTask[w] \in DOMAIN work
    BY <2>1 DEF WorkerInv
  <2>3. work[workerTask[w]].key \in Keys /\ work[workerTask[w]].charge \in Int
    BY <2>2, WorkParts
  <2>4. runnable' \in Seq(Keys) /\ laneReady' \subseteq Keys
    BY <1>6, <2>3, ReadyTyped DEF WorkerFinish, LaneDone
  <2>5. counts' \in [Stats -> Int]
    <3>1. counts \in [Stats -> Int] OBVIOUS
    <3> HIDE DEF IInv, Typed
    <3>2. QED BY <1>6, <2>3, <3>1, StatsFields DEF WorkerFinish
  <2>6. timerWake' \in 0..Forever /\ asleep' \subseteq Workers \cup {Timer}
    <3>1. Forever \in 0..Forever
      BY LimitsAssumption DEF Forever
    <3>2. UNCHANGED sleepVars \/ notify_all
      BY <1>6 DEF WorkerFinish, LaneDone
    <3>3. QED BY <3>1, <3>2 DEF notify_all, sleepVars
  <2>7. QED
    BY Zenon, <1>6, <2>4, <2>5, <2>6
    DEF WorkerFinish, LaneDone, Busy, timerVars, stopVars, replyVars
<1>7. ASSUME NEW w \in Workers, RejectLate(w)
      PROVE  Typed'
  <2>1. w \in Running
    BY <1>7 DEF RejectLate, Running, Busy
  <2>2. workerTask[w] \in DOMAIN work
    BY <2>1 DEF WorkerInv
  <2>3. QED
    BY <1>7, <2>2 DEF RejectLate, Busy, queueVars, taskVars, workerVars, timerVars, sleepVars,
      stopVars, replyVars
<1>8. CASE TimerReject
  <2>1. timerTask \in DOMAIN work
    BY <1>8 DEF TimerReject, FailInv, ToldByOneThread, OwedByTimer
  <2>2. QED
    BY <1>8, <2>1 DEF TimerReject, queueVars, taskVars, workerVars, timerVars, sleepVars, stopVars,
      replyVars
<1>9. CASE StopClear
  <2>1. counts' \in [Stats -> Int]
    <3>1. counts \in [Stats -> Int] OBVIOUS
    <3> HIDE DEF IInv, Typed
    <3>2. QED BY <1>9, <3>1, StatsFields DEF StopClear
  <2>2. laneQueue' \in [Keys -> Seq(Nat)] /\ runnable' \in Seq(Keys)
    BY <1>9 DEF StopClear
  <2>3. QED
    BY Zenon, <1>9, <2>1, <2>2 DEF StopClear, workerVars, timerVars, sleepVars, replyVars
<1>10. ASSUME NEW w \in Workers,
              WorkerSleep(w) \/ WorkerExit(w) \/ RunEnds(w)
       PROVE  Typed'
  <2>1. workerPc[w] = "run" => workerTask[w] \in DOMAIN work
    BY DEF WorkerInv, Running, Busy
  <2> QED
   BY Zenon, <1>10, <2>1 DEF WorkerSleep, WorkerExit, RunEnds, RunReturns, RunThrows, Awake, Busy, queueVars, taskVars,
    workerVars, timerVars, sleepVars, stopVars, replyVars
<1>11. ASSUME NEW w \in Workers, WorkerDrop(w)
       PROVE  Typed'
  <2>1. runnable' \in Seq(Keys)
    BY <1>11, PopFrontFacts DEF WorkerDrop, HasToken
  <2>2. QED
    BY ZenonT(30), <1>11, <2>1 DEF WorkerDrop, queueVars, taskVars, workerVars, timerVars, sleepVars, stopVars,
      replyVars
<1>12. CASE TimerExit \/ Tick \/ Stop
  <2>1. CASE TimerExit
    BY <2>1 DEF TimerExit, queueVars, taskVars, workerVars, timerVars, sleepVars, stopVars, replyVars
  <2>2. CASE Tick
    <3>1. now' \in 0..MaxTime
      BY <2>2, LimitsAssumption DEF Tick
    <3>2. QED
      BY <2>2, <3>1 DEF Tick, queueVars, taskVars, workerVars, timerVars, sleepVars, stopVars, replyVars
  <2>3. CASE Stop
    <3>1. Forever \in 0..Forever
      BY LimitsAssumption DEF Forever
    <3>2. QED
      BY <2>3, <3>1 DEF Stop, notify_all, queueVars, workerVars, timerVars, replyVars
  <2>4. QED BY <1>12, <2>1, <2>2, <2>3
<1>13. CASE TimerSleep
  <2>1. timerWake' \in 0..Forever
    <3>1. timerWake' = Forever \/ \E t \in deadlines : timerWake' = work[t].deadline
      BY <1>13 DEF TimerSleep
    <3>2. \A t \in deadlines : work[t].deadline \in 0..MaxTime
      BY WorkParts
    <3> HIDE DEF IInv, Typed
    <3>3. QED BY <3>1, <3>2, LimitsAssumption DEF Forever
  <2>2. QED
    BY <1>13, <2>1 DEF TimerSleep, queueVars, taskVars, workerVars, timerVars, sleepVars, stopVars,
      replyVars
<1>14. ASSUME NEW t \in Ids, TimerSkip(t) \/ CancelReject(t) \/ StopReject(t)
       PROVE  Typed'
  BY <1>14 DEF TimerSkip, CancelReject, StopReject, queueVars, taskVars, workerVars, timerVars,
    sleepVars, stopVars, replyVars
<1>15. ASSUME NEW x \in Workers \cup {Timer}, Wakes(x)
       PROVE  Typed'
  BY <1>15, LimitsAssumption DEF Wakes, Forever, queueVars, taskVars, workerVars, timerVars,
    sleepVars, stopVars, replyVars
<1>16. CASE UNCHANGED vars
  BY <1>16 DEF vars, queueVars, taskVars, workerVars, timerVars, sleepVars, stopVars, replyVars
<1>17. QED
  BY ZenonT(30), <1>1, <1>2, <1>3, <1>4, <1>5, <1>6, <1>7, <1>8, <1>9, <1>10, <1>11, <1>12, <1>13,
    <1>14,
     <1>15, <1>16
  DEF NetNext, NetClientStep, WorkerStep, TimerStep, ReplyStep, TimerWakes

-----------------------------------------------------------------------------
(* Lanes *)

\* submit() appends the new ticket to the lane of its key.
LEMMA LaneSubmit ==
  ASSUME Typed, LaneInv, NEW k \in Keys, NEW bytes \in Sizes, NEW d \in 0..MaxTime,
         Submit(k, bytes, d)
  PROVE  LaneInv'
<1> DEFINE id == Len(work) + 1
           r == [key |-> k, charge |-> Charge(bytes), deadline |-> d]
<1>1. /\ DOMAIN work' = DOMAIN work \cup {id} /\ id \in Nat \ DOMAIN work /\ work'[id].key = k
      /\ \A t \in DOMAIN work : work'[t] = work[t] /\ t < id
  <2>1. r \in Work /\ r.key = k
    BY SubmittedWork
  <2>2. work' = Append(work, r) /\ Len(work) < MaxTasks
    BY DEF Submit
  <2> HIDE DEF r
  <2>3. QED BY <2>1, <2>2, NewTicket DEF Typed
<1>2. laneQueue' = [laneQueue EXCEPT ![k] = Append(laneQueue[k], id)] /\ tasks' = tasks \cup {id}
      /\ started' = started
  BY DEF Submit
<1>3. /\ tasks \subseteq DOMAIN work /\ started \subseteq DOMAIN work
      /\ laneQueue \in [Keys -> Seq(Nat)] /\ laneQueue[k] \in Seq(Nat)
      /\ \A t \in DOMAIN work : work[t].key \in Keys
  BY WorkParts DEF Typed
<1> HIDE DEF id
<1>4. /\ tasks' \ started' = (tasks \ started) \cup {id}
      /\ laneQueue'[k] = Append(laneQueue[k], id)
      /\ \A j \in Keys : j # k => laneQueue'[j] = laneQueue[j]
  BY <1>1, <1>2, <1>3
<1>5. /\ DOMAIN laneQueue'[k] = DOMAIN laneQueue[k] \cup {Len(laneQueue[k]) + 1}
      /\ \A p \in DOMAIN laneQueue[k] : laneQueue'[k][p] = laneQueue[k][p] /\ p < Len(laneQueue[k]) + 1
      /\ laneQueue'[k][Len(laneQueue[k]) + 1] = id
  BY <1>1, <1>3, <1>4
<1>6. \A j \in Keys : \A p \in DOMAIN laneQueue'[j] :
         laneQueue'[j][p] \in tasks' \ started' /\ work'[laneQueue'[j][p]].key = j
  <2> SUFFICES ASSUME NEW j \in Keys, NEW p \in DOMAIN laneQueue'[j]
               PROVE  laneQueue'[j][p] \in tasks' \ started' /\ work'[laneQueue'[j][p]].key = j
    OBVIOUS
  <2>1. CASE j # k
    BY <2>1, <1>1, <1>3, <1>4 DEF LaneInv
  <2>2. CASE j = k /\ p \in DOMAIN laneQueue[k]
    <3>1. laneQueue[k][p] \in tasks \ started /\ work[laneQueue[k][p]].key = k
      BY <2>2 DEF LaneInv
    <3>2. QED BY <2>2, <3>1, <1>1, <1>3, <1>4, <1>5
  <2>3. CASE j = k /\ p = Len(laneQueue[k]) + 1
    BY <2>3, <1>1, <1>4, <1>5
  <2>4. QED BY <2>1, <2>2, <2>3, <1>5
<1>7. \A t \in tasks' \ started' :
         \E p \in DOMAIN laneQueue'[work'[t].key] : laneQueue'[work'[t].key][p] = t
  <2> SUFFICES ASSUME NEW t \in (tasks \ started) \cup {id}
               PROVE  \E p \in DOMAIN laneQueue'[work'[t].key] : laneQueue'[work'[t].key][p] = t
    BY <1>4
  <2>1. CASE t = id
    BY <2>1, <1>1, <1>5
  <2>2. CASE t \in tasks \ started
    <3>1. PICK p \in DOMAIN laneQueue[work[t].key] : laneQueue[work[t].key][p] = t
      BY <2>2 DEF LaneInv
    <3>2. work'[t].key = work[t].key /\ work[t].key \in Keys
      BY <2>2, <1>1, <1>3
    <3>3. CASE work[t].key = k
      BY <3>1, <3>2, <3>3, <1>5
    <3>4. CASE work[t].key # k
      BY <3>1, <3>2, <3>4, <1>4
    <3>5. QED BY <3>3, <3>4
  <2>3. QED BY <2>1, <2>2
<1>8. ASSUME NEW j \in Keys, NEW p \in DOMAIN laneQueue'[j], NEW q \in DOMAIN laneQueue'[j], p < q
      PROVE  laneQueue'[j][p] < laneQueue'[j][q]
  <2>1. CASE j # k
    BY <2>1, <1>4, <1>8 DEF LaneInv
  <2>2. CASE j = k /\ q \in DOMAIN laneQueue[k]
    <3>1. p \in DOMAIN laneQueue[k]
      BY <2>2, <1>3, <1>5, <1>8
    <3>2. QED BY <2>2, <3>1, <1>5, <1>8 DEF LaneInv
  <2>3. CASE j = k /\ q = Len(laneQueue[k]) + 1
    <3>1. p \in DOMAIN laneQueue[k]
      BY SMTT(30), <2>3, <1>3, <1>5, <1>8
    <3>2. laneQueue[k][p] \in DOMAIN work
      BY <3>1, <1>3 DEF LaneInv
    <3>3. QED BY <2>3, <3>1, <3>2, <1>1, <1>5
  <2>4. QED BY <2>1, <2>2, <2>3, <1>5
<1>9. QED
  BY <1>6, <1>7, <1>8 DEF LaneInv

\* A lane loses one entry and nothing else changes in what waits.
LEMMA LaneRemove ==
  ASSUME Typed, LaneInv, NEW k \in Keys, NEW p \in 1..Len(laneQueue[k]),
         laneQueue' = [laneQueue EXCEPT ![k] = RemoveAt(laneQueue[k], p)],
         tasks' \ started' = (tasks \ started) \ {laneQueue[k][p]}, work' = work
  PROVE  LaneInv'
<1> DEFINE t == laneQueue[k][p]
           s == laneQueue[k]
           r == RemoveAt(laneQueue[k], p)
<1>1. /\ r \in Seq(Nat) /\ Len(r) = Len(s) - 1 /\ s \in Seq(Nat) /\ DOMAIN s = 1..Len(s)
      /\ Len(s) \in Nat /\ p \in 1..Len(s) /\ DOMAIN r = 1..Len(s) - 1
      /\ \A i \in 1..Len(s) - 1 : r[i] = IF i < p THEN s[i] ELSE s[i + 1]
  <2>1. s \in Seq(Nat) BY DEF Typed
  <2>2. /\ r \in Seq(Nat) /\ Len(r) = Len(s) - 1
        /\ \A i \in 1..Len(s) - 1 : r[i] = IF i < p THEN s[i] ELSE s[i + 1]
    BY ZenonT(30), <2>1, RemoveAtFacts
  <2> HIDE DEF r
  <2>3. QED BY <2>1, <2>2
<1>2. /\ laneQueue'[k] = r /\ \A j \in Keys : j # k => laneQueue'[j] = laneQueue[j]
      /\ \A u \in tasks : work[u].key \in Keys
  BY WorkParts DEF Typed
<1>3. \A q \in 1..Len(s) : q # p => s[q] # t
  <2>1. \A q \in 1..Len(s) : s[q] \in Nat
    BY <1>1
  <2>2. \A a, b \in 1..Len(s) : a < b => s[a] < s[b]
    BY ZenonT(30), <1>1 DEF LaneInv
  <2> HIDE DEF s
  <2>3. ASSUME NEW q \in 1..Len(s), q # p
        PROVE  s[q] # s[p]
    <3>1. q < p \/ p < q BY <2>3, <1>1
    <3>2. s[q] < s[p] \/ s[p] < s[q] BY <2>2, <3>1, <1>1
    <3>3. QED BY <2>1, <3>2, <1>1
  <2>4. QED BY <2>3 DEF s
<1>4. t \in tasks /\ work[t].key = k
  BY <1>1 DEF LaneInv
<1> HIDE DEF r, s, t
<1>5. ASSUME NEW i \in DOMAIN r
      PROVE  \E q \in 1..Len(s) : q # p /\ r[i] = s[q] /\ q = IF i < p THEN i ELSE i + 1
  <2> DEFINE q == IF i < p THEN i ELSE i + 1
  <2>1. i \in 1..Len(s) - 1
    BY <1>1
  <2>2. q \in 1..Len(s) /\ q # p
    <3>1. Len(s) \in Nat /\ p \in 1..Len(s) BY <1>1
    <3>2. CASE i < p BY <2>1, <3>1, <3>2
    <3>3. CASE ~(i < p) BY <2>1, <3>1, <3>3
    <3>4. QED BY <3>2, <3>3
  <2>3. r[i] = s[q]
    BY Zenon, <2>1, <1>1
  <2>4. QED BY <2>2, <2>3
<1>6. ASSUME NEW q \in 1..Len(s), q # p
      PROVE  \E i \in DOMAIN r : r[i] = s[q]
  <2>1. CASE q < p
    <3>1. q \in 1..Len(s) - 1 BY <2>1, <1>1
    <3>2. QED BY ZenonT(30), <2>1, <3>1, <1>1
  <2>2. CASE q > p
    <3> DEFINE i == q - 1
    <3>1. i \in 1..Len(s) - 1 /\ ~(i < p) /\ i + 1 = q BY <2>2, <1>1
    <3> HIDE DEF i
    <3>2. r[i] = s[i + 1] BY <3>1, <1>1
    <3>3. i \in DOMAIN r BY <3>1, <1>1
    <3>4. QED BY <3>1, <3>2, <3>3
  <2>3. QED BY <2>1, <2>2, <1>6
<1>7. \A j \in Keys : \A i \in DOMAIN laneQueue'[j] :
         laneQueue'[j][i] \in tasks' \ started' /\ work'[laneQueue'[j][i]].key = j
  <2> SUFFICES ASSUME NEW j \in Keys, NEW i \in DOMAIN laneQueue'[j]
               PROVE  laneQueue'[j][i] \in (tasks \ started) \ {t} /\ work[laneQueue'[j][i]].key = j
    BY DEF t
  <2>1. CASE j = k
    <3>1. PICK q \in 1..Len(s) : q # p /\ r[i] = s[q]
      BY <2>1, <1>2, <1>5
    <3>2. s[q] \in tasks \ started /\ work[s[q]].key = k
      BY <1>1 DEF LaneInv, s
    <3>3. QED BY <2>1, <3>1, <3>2, <1>2, <1>3
  <2>2. CASE j # k
    BY SMTT(30), <2>2, <1>2, <1>4 DEF LaneInv
  <2>3. QED BY <2>1, <2>2
<1>8. \A u \in tasks' \ started' :
         \E i \in DOMAIN laneQueue'[work'[u].key] : laneQueue'[work'[u].key][i] = u
  <2> SUFFICES ASSUME NEW u \in (tasks \ started) \ {t}
               PROVE  \E i \in DOMAIN laneQueue'[work[u].key] : laneQueue'[work[u].key][i] = u
    BY DEF t
  <2>1. PICK q \in DOMAIN laneQueue[work[u].key] : laneQueue[work[u].key][q] = u
    BY DEF LaneInv
  <2>2. CASE work[u].key = k
    <3>1. q \in 1..Len(s) /\ s[q] = u /\ q # p
      BY <2>1, <2>2, <1>1 DEF s, t
    <3>2. QED BY <3>1, <2>2, <1>2, <1>6
  <2>3. CASE work[u].key # k
    BY <2>1, <2>3, <1>2
  <2>4. QED BY <2>2, <2>3
<1>9. ASSUME NEW j \in Keys, NEW a \in DOMAIN laneQueue'[j], NEW b \in DOMAIN laneQueue'[j], a < b
      PROVE  laneQueue'[j][a] < laneQueue'[j][b]
  <2>1. CASE j # k
    BY <2>1, <1>2, <1>9 DEF LaneInv
  <2>2. CASE j = k
    <3>1. a \in DOMAIN r /\ b \in DOMAIN r
      BY <2>2, <1>2
    <3>2. PICK q \in 1..Len(s) : r[a] = s[q] /\ q = IF a < p THEN a ELSE a + 1
      BY <3>1, <1>5
    <3>3. PICK v \in 1..Len(s) : r[b] = s[v] /\ v = IF b < p THEN b ELSE b + 1
      BY <3>1, <1>5
    <3>4. q < v
      <4>1. Len(s) \in Nat /\ p \in 1..Len(s) /\ a \in 1..Len(s) - 1 /\ b \in 1..Len(s) - 1
        BY <3>1, <1>1
      <4>2. CASE b < p BY <4>1, <4>2, <3>2, <3>3, <1>9
      <4>3. CASE ~(b < p) BY <4>1, <4>3, <3>2, <3>3, <1>9
      <4>4. QED BY <4>2, <4>3
    <3>5. s[q] < s[v]
      <4>1. q \in DOMAIN laneQueue[k] /\ v \in DOMAIN laneQueue[k]
        BY <1>1 DEF s
      <4>2. QED BY <3>4, <4>1 DEF LaneInv, s
    <3>6. QED BY <2>2, <3>2, <3>3, <3>5, <1>2
  <2>3. QED BY <2>1, <2>2
<1>10. QED
  BY <1>7, <1>8, <1>9 DEF LaneInv

\* pop_front() is the erasure of the first entry.
LEMMA PopIsRemove ==
  ASSUME NEW S, NEW s \in Seq(S), s # <<>>
  PROVE  Tail(s) = RemoveAt(s, 1)
<1>1. 1 \in 1..Len(s) /\ Len(s) \in Nat
  OBVIOUS
<1>2. /\ RemoveAt(s, 1) \in Seq(S) /\ Len(RemoveAt(s, 1)) = Len(s) - 1
      /\ \A i \in 1..Len(s) - 1 : RemoveAt(s, 1)[i] = s[i + 1]
  BY <1>1, RemoveAtFacts
<1>3. /\ Tail(s) \in Seq(S) /\ Len(Tail(s)) = Len(s) - 1
      /\ \A i \in 1..Len(s) - 1 : Tail(s)[i] = s[i + 1]
  BY PopFrontFacts
<1>4. \A i \in 1..Len(Tail(s)) : Tail(s)[i] = RemoveAt(s, 1)[i]
  BY <1>2, <1>3
<1>5. QED
  BY <1>2, <1>3, <1>4, SequencesEqual

\* Every step keeps each lane the tickets of its key in submission order.
LEMMA LaneNext ==
  ASSUME IInv, [NetNext]_vars
  PROVE  LaneInv'
<1> USE DEF IInv
<1>1. ASSUME NEW k \in Keys, NEW bytes \in Sizes, NEW d \in 0..MaxTime, Submit(k, bytes, d)
      PROVE  LaneInv'
  BY <1>1, LaneSubmit
<1>2. ASSUME NEW k \in Keys, NEW bytes \in Sizes, NEW d \in 0..MaxTime, SubmitSpent(k, bytes, d)
      PROVE  LaneInv'
  <2> DEFINE r == [key |-> k, charge |-> Charge(bytes), deadline |-> d]
  <2>1. r \in Work
    BY SubmittedWork
  <2>2. work' = Append(work, r) /\ Len(work) < MaxTasks
    BY <1>2 DEF SubmitSpent
  <2> HIDE DEF r
  <2>3. \A t \in tasks : work'[t] = work[t]
    BY <2>1, <2>2, NewTicket DEF Typed
  <2>4. UNCHANGED <<tasks, started, laneQueue>>
    BY <1>2 DEF SubmitSpent
  <2>5. QED BY SMTT(30), <2>3, <2>4 DEF LaneInv
<1>3. ASSUME NEW t \in Ids, Cancel(t) \/ TimerFire(t)
      PROVE  LaneInv'
  <2>1. t \in tasks
    BY ZenonT(30), <1>3 DEF Cancel, Cancellable, TimerFire, DeadlineInv
  <2>2. PICK e \in Nat, c \in Nat : Fail(t, e, c)
    BY ZenonT(30), <1>3 DEF Cancel, TimerFire
  <2>3. UNCHANGED <<work, started>>
    BY <1>3 DEF Cancel, TimerFire
  <2>4. CASE t \in started
    BY <2>2, <2>3, <2>4 DEF Fail, LaneInv
  <2>5. CASE t \notin started
    <3> DEFINE k == work[t].key
    <3>1. k \in Keys /\ laneQueue[k] \in Seq(Nat)
      BY ZenonT(30), <2>1, WorkParts DEF Typed
    <3>2. tasks' = tasks \ {t} /\ releaseQueued(t)
      BY <2>2, <2>5 DEF Fail, releaseQueued
    <3>3. PICK p \in DOMAIN laneQueue[k] :
             laneQueue[k][p] = t /\ laneQueue' = [laneQueue EXCEPT ![k] = RemoveAt(laneQueue[k], p)]
      BY Zenon, <3>2 DEF releaseQueued
    <3> HIDE DEF k
    <3>4. p \in 1..Len(laneQueue[k])
      BY <3>1, <3>3
    <3>5. tasks' \ started' = (tasks \ started) \ {laneQueue[k][p]}
      BY <2>3, <3>2, <3>3
    <3>6. QED BY ZenonT(30), <2>3, <3>1, <3>3, <3>4, <3>5, LaneRemove
  <2>6. QED BY <2>4, <2>5
<1>4. ASSUME NEW w \in Workers, WorkerTake(w)
      PROVE  LaneInv'
  <2> DEFINE k == Head(runnable)
             t == Head(laneQueue[k])
  <2>1. runnable # <<>> /\ laneQueue[k] # <<>>
    BY <1>4 DEF WorkerTake, HasToken
  <2>2. k \in Keys /\ laneQueue[k] \in Seq(Nat) /\ t \in tasks \ started
    BY ZenonT(30), <2>1, TokenHead
  <2>3. t = laneQueue[k][1] /\ 1 \in 1..Len(laneQueue[k])
    BY <2>1, <2>2, PopFrontFacts
  <2>4. /\ laneQueue' = [laneQueue EXCEPT ![k] = Tail(laneQueue[k])]
        /\ started' = started \cup {t} /\ UNCHANGED <<work, tasks>>
    BY ZenonT(30), <1>4 DEF WorkerTake
  <2> HIDE DEF k, t
  <2>5. laneQueue' = [laneQueue EXCEPT ![k] = RemoveAt(laneQueue[k], 1)]
    BY Zenon, <2>1, <2>2, <2>4, PopIsRemove
  <2>6. tasks' \ started' = (tasks \ started) \ {laneQueue[k][1]}
    BY <2>2, <2>3, <2>4
  <2>7. QED BY ZenonT(30), <2>2, <2>3, <2>4, <2>5, <2>6, LaneRemove
<1>5. ASSUME NEW w \in Workers, WorkerFinish(w)
      PROVE  LaneInv'
  <2>1. w \in Running
    BY <1>5 DEF WorkerFinish, Running, Busy
  <2>2. workerTask[w] \in started
    BY <2>1 DEF WorkerInv
  <2>3. UNCHANGED <<work, started, laneQueue>> /\ tasks' = tasks \ {workerTask[w]}
    BY <1>5 DEF WorkerFinish
  <2>4. tasks' \ started' = tasks \ started
    BY <2>2, <2>3
  <2>5. QED BY <2>3, <2>4 DEF LaneInv
<1>6. CASE StopClear
  <2>1. tasks' = {} /\ laneQueue' = [k \in Keys |-> <<>>]
    BY <1>6 DEF StopClear
  <2>2. \A k \in Keys : DOMAIN laneQueue'[k] = {}
    BY <2>1
  <2>3. QED BY <2>1, <2>2 DEF LaneInv
<1>7. CASE UNCHANGED <<work, tasks, started, laneQueue>>
  BY Zenon, <1>7 DEF LaneInv
<1>8. QED
  BY ZenonT(30), <1>1, <1>2, <1>3, <1>4, <1>5, <1>6, <1>7
  DEF NetNext, NetClientStep, WorkerStep, TimerStep, ReplyStep, SubmitRejected, WorkerSleep, WorkerExit,
      WorkerDrop, RunEnds, RunReturns, RunThrows, RejectLate, TimerExit, TimerSleep, TimerSkip, TimerReject,
      CancelReject, Stop, StopReject, Tick, Wakes, TimerWakes, vars, queueVars, taskVars

-----------------------------------------------------------------------------
(* The gauges: each is the size of a set that gains or loses one task.  What  *)
(* that needs of finite sets is proved in OperationQueue_proofs.             *)

\* The bytes of the resident tasks are finite, so that they can be counted.
AccountInv == Accounting /\ IsFiniteSet(Reservation(tasks))

Piece(t, n) == {t} \X (1..n)

\* What the accounting uses of finite sets.
Counting ==
  /\ IsFiniteSet({}) /\ Cardinality({}) = 0
  /\ \A S : IsFiniteSet(S) => Cardinality(S) \in Nat
  /\ \A S : IsFiniteSet(S) => \A x : x \notin S => Cardinality(S \cup {x}) = Cardinality(S) + 1
  /\ \A S : IsFiniteSet(S) => \A x \in S : Cardinality(S \ {x}) = Cardinality(S) - 1
  /\ \A S : IsFiniteSet(S) => \A T \in SUBSET S : IsFiniteSet(T)
  /\ \A n \in Nat : IsFiniteSet(1..n)
  /\ \A t : \A n \in Nat : IsFiniteSet(Piece(t, n)) /\ Cardinality(Piece(t, n)) = n
  /\ \A S, T : IsFiniteSet(S) /\ IsFiniteSet(T) /\ S \cap T = {} =>
       IsFiniteSet(S \cup T) /\ Cardinality(S \cup T) = Cardinality(S) + Cardinality(T)
  /\ \A S, T : IsFiniteSet(S) /\ T \subseteq S =>
       IsFiniteSet(S \ T) /\ Cardinality(S \ T) = Cardinality(S) - Cardinality(T)

\* The empty set counts nothing.
LEMMA EmptyCount ==
  ASSUME Counting PROVE IsFiniteSet({}) /\ Cardinality({}) = 0
BY DEF Counting

\* A finite set counts to a natural number.
LEMMA NaturalCount ==
  ASSUME Counting, NEW S, IsFiniteSet(S) PROVE Cardinality(S) \in Nat
BY DEF Counting

\* A new member counts one.
LEMMA CountAdd ==
  ASSUME Counting, NEW S, IsFiniteSet(S), NEW x, x \notin S
  PROVE  Cardinality(S \cup {x}) = Cardinality(S) + 1
BY DEF Counting

\* A member that leaves counts one less.
LEMMA CountRemove ==
  ASSUME Counting, NEW S, IsFiniteSet(S), NEW x \in S
  PROVE  Cardinality(S \ {x}) = Cardinality(S) - 1
BY DEF Counting

\* A part of a finite set is finite.
LEMMA PartFinite ==
  ASSUME Counting, NEW S, IsFiniteSet(S), NEW T \in SUBSET S
  PROVE  IsFiniteSet(T)
BY DEF Counting

\* Disjoint sets count together.
LEMMA CountJoin ==
  ASSUME Counting, NEW S, NEW T, IsFiniteSet(S), IsFiniteSet(T), S \cap T = {}
  PROVE  IsFiniteSet(S \cup T) /\ Cardinality(S \cup T) = Cardinality(S) + Cardinality(T)
BY ZenonT(30) DEF Counting

\* A part that leaves is counted off.
LEMMA CountWithout ==
  ASSUME Counting, NEW S, NEW T, IsFiniteSet(S), T \subseteq S
  PROVE  IsFiniteSet(S \ T) /\ Cardinality(S \ T) = Cardinality(S) - Cardinality(T)
BY DEF Counting

\* The bytes one ticket reserves count to its charge.
LEMMA PieceSize ==
  ASSUME Counting, NEW t, NEW n \in Nat
  PROVE  IsFiniteSet(Piece(t, n)) /\ Cardinality(Piece(t, n)) = n
BY DEF Counting

\* A unit belongs to one task.
LEMMA PieceOwner ==
  ASSUME NEW t, NEW n \in Nat, NEW x \in Piece(t, n)
  PROVE  x[1] = t
BY DEF Piece

\* What a set of tasks has reserved, task by task.
LEMMA ReservationParts ==
  ASSUME NEW x
  PROVE  x \in Reservation(tasks) <=> \E t \in tasks : x \in Piece(t, work[t].charge)
BY DEF Reservation, Piece

\* submit() reserves the charge of the new task.
LEMMA ReserveAdd ==
  ASSUME Counting, Typed, IsFiniteSet(Reservation(tasks)), NEW t \in Nat \ tasks, NEW n \in Nat,
         tasks' = tasks \cup {t}, work'[t].charge = n,
         \A u \in tasks : work'[u] = work[u]
  PROVE  /\ IsFiniteSet(Reservation(tasks)')
         /\ Cardinality(Reservation(tasks)') = Cardinality(Reservation(tasks)) + n
<1> DEFINE R == Reservation(tasks)
           P == Piece(t, n)
<1>1. IsFiniteSet(P) /\ Cardinality(P) = n
  BY PieceSize
<1>2. Reservation(tasks)' = R \cup P
  <2>1. \A x : x \in Reservation(tasks)' <=> \E u \in tasks' : x \in Piece(u, work'[u].charge)
    BY DEF Reservation, Piece
  <2>2. \A x : x \in R <=> \E u \in tasks : x \in Piece(u, work[u].charge)
    BY ReservationParts
  <2> HIDE DEF R
  <2> QED
    BY ZenonT(30), <2>1, <2>2
<1>3. R \cap P = {}
  <2> SUFFICES ASSUME NEW x \in R, x \in P PROVE FALSE
    OBVIOUS
  <2>1. PICK u \in tasks : x \in Piece(u, work[u].charge)
    BY ReservationParts
  <2>2. work[u].charge \in Nat
    BY WorkParts DEF Typed
  <2>3. x[1] = u
    BY <2>1, <2>2, PieceOwner
  <2>4. x[1] = t
    BY PieceOwner
  <2> QED
    BY <2>3, <2>4
<1> HIDE DEF R, P
<1>4. IsFiniteSet(R)
  BY DEF R
<1>5. IsFiniteSet(R \cup P) /\ Cardinality(R \cup P) = Cardinality(R) + Cardinality(P)
  BY <1>1, <1>3, <1>4, CountJoin
<1> QED
  BY ZenonT(30), <1>1, <1>2, <1>5 DEF R

\* A task that leaves gives back what it has reserved.
LEMMA ReserveRemove ==
  ASSUME Counting, Typed, IsFiniteSet(Reservation(tasks)), NEW t \in tasks,
         tasks' = tasks \ {t}, work' = work
  PROVE  /\ IsFiniteSet(Reservation(tasks)')
         /\ Cardinality(Reservation(tasks)') = Cardinality(Reservation(tasks)) - work[t].charge
<1> DEFINE R == Reservation(tasks)
           n == work[t].charge
           P == Piece(t, n)
<1>1. n \in Nat /\ \A u \in tasks : work[u].charge \in Nat
  BY WorkParts DEF Typed
<1>2. IsFiniteSet(P) /\ Cardinality(P) = n
  BY <1>1, PieceSize
<1>3. \A x : x \in R <=> \E u \in tasks : x \in Piece(u, work[u].charge)
  BY ReservationParts
<1>4. \A x : x \in Reservation(tasks)' <=> \E u \in tasks' : x \in Piece(u, work[u].charge)
  BY DEF Reservation, Piece
<1>5. ASSUME NEW u \in tasks, NEW x \in Piece(u, work[u].charge), x \in P
      PROVE  u = t
  BY <1>1, <1>5, PieceOwner
<1> HIDE DEF R
<1>6. Reservation(tasks)' = R \ P
  BY <1>3, <1>4, <1>5
<1>7. P \subseteq R
  BY <1>3
<1> HIDE DEF P, n
<1>8. IsFiniteSet(R)
  BY DEF R
<1>9. IsFiniteSet(R \ P) /\ Cardinality(R \ P) = Cardinality(R) - Cardinality(P)
  BY <1>7, <1>8, CountWithout
<1> QED
  BY <1>2, <1>6, <1>9 DEF R, n

\* The counters of the gauges and of the ends of tasks.
Gauges == {"residentBytes", "peakBytes", "running", "queued", "accepted", "completed"}

\* The tasks that failed before a worker took them.
Withdrawn == failed \ (started \cup tasks)

\* The sets whose sizes are kept are finite.
LEMMA CountedSets ==
  ASSUME Counting, Typed
  PROVE  /\ IsFiniteSet(tasks) /\ IsFiniteSet(tasks \ started) /\ IsFiniteSet(Running)
         /\ IsFiniteSet(Withdrawn)
         /\ \A S \in SUBSET DOMAIN work : IsFiniteSet(S)
<1>1. DOMAIN work = 1..Len(work) /\ Len(work) \in Nat
  BY DEF Typed
<1>2. IsFiniteSet(DOMAIN work)
  BY <1>1 DEF Counting
<1>3. \A S \in SUBSET DOMAIN work : IsFiniteSet(S)
  BY <1>2, PartFinite
<1>4. Running \in SUBSET Workers
  BY DEF Running
<1>5. IsFiniteSet(Running)
  BY <1>4, LimitsAssumption, PartFinite
<1>6. tasks \in SUBSET DOMAIN work /\ failed \in SUBSET DOMAIN work
  BY DEF Typed
<1> QED
  BY <1>3, <1>5, <1>6 DEF Withdrawn

\* A step that changes no gauge, and none of the sets behind them.
LEMMA AccountSame ==
  ASSUME AccountInv, \A g \in Gauges : counts'[g] = counts[g],
         tasks' = tasks, (tasks \ started)' = tasks \ started, Withdrawn' = Withdrawn,
         Running' = Running, \A t \in tasks : work'[t] = work[t],
         \A k \in Keys : Len(laneQueue'[k]) <= QueuedPerKey,
         stopPc' # "closed" => stopPc # "closed"
  PROVE  AccountInv'
<1>1. Reservation(tasks)' = Reservation(tasks)
  BY DEF Reservation
<1>2. /\ counts'["residentBytes"] = counts["residentBytes"] /\ counts'["peakBytes"] = counts["peakBytes"]
      /\ counts'["running"] = counts["running"] /\ counts'["queued"] = counts["queued"]
      /\ counts'["accepted"] = counts["accepted"] /\ counts'["completed"] = counts["completed"]
  BY DEF Gauges
<1> QED
  BY ZenonT(30), <1>1, <1>2 DEF AccountInv, Accounting, Withdrawn

\* submit(): the bytes fit, so that neither limit is exceeded.
LEMMA AccountSubmit ==
  ASSUME Counting, IInv, AccountInv, NEW k \in Keys, NEW bytes \in Sizes, NEW d \in 0..MaxTime,
         Submit(k, bytes, d)
  PROVE  AccountInv'
<1> DEFINE id == Len(work) + 1
           n == Charge(bytes)
           r == [key |-> k, charge |-> n, deadline |-> d]
<1>1. n \in Nat /\ r \in Work
  BY SubmittedWork
<1>2. /\ ~stopped /\ Admits(k, bytes) /\ Len(work) < MaxTasks /\ work' = Append(work, r)
      /\ tasks' = tasks \cup {id} /\ laneQueue' = [laneQueue EXCEPT ![k] = Append(laneQueue[k], id)]
      /\ started' = started /\ failed' = failed /\ workerPc' = workerPc /\ stopPc' = stopPc
      /\ counts' = [counts EXCEPT !["accepted"] = @ + 1, !["queued"] = @ + 1,
                                  !["residentBytes"] = counts["residentBytes"] + n,
                                  !["peakBytes"] = IF @ < counts["residentBytes"] + n
                                                   THEN counts["residentBytes"] + n ELSE @]
  BY DEF Submit, workerVars, stopVars
<1>3. /\ id \in Nat \ DOMAIN work /\ work'[id] = r /\ r.charge = n
      /\ \A t \in DOMAIN work : work'[t] = work[t]
  BY ZenonT(30), <1>1, <1>2, NewTicket DEF IInv, Typed
<1> HIDE DEF id, n, r
<1>4. /\ tasks \subseteq DOMAIN work /\ started \subseteq DOMAIN work /\ failed \subseteq DOMAIN work
      /\ counts \in [Stats -> Int] /\ laneQueue \in [Keys -> Seq(Nat)]
  BY DEF IInv, Typed
<1>5. /\ IsFiniteSet(Reservation(tasks)')
      /\ Cardinality(Reservation(tasks)') = Cardinality(Reservation(tasks)) + n
  BY ZenonT(30), <1>1, <1>2, <1>3, <1>4, ReserveAdd DEF IInv, AccountInv
<1>6. /\ counts'["accepted"] = counts["accepted"] + 1 /\ counts'["queued"] = counts["queued"] + 1
      /\ counts'["residentBytes"] = counts["residentBytes"] + n
      /\ counts'["peakBytes"] = IF counts["peakBytes"] < counts["residentBytes"] + n
                                THEN counts["residentBytes"] + n ELSE counts["peakBytes"]
      /\ counts'["running"] = counts["running"] /\ counts'["completed"] = counts["completed"]
  BY ZenonT(30), <1>2, <1>4, StatsFields
<1>7. \A g \in Stats : counts[g] \in Int
  BY <1>4
<1>8. Cardinality((tasks \ started)') = Cardinality(tasks \ started) + 1
  <2>1. (tasks \ started)' = (tasks \ started) \cup {id} /\ id \notin tasks \ started
    BY <1>2, <1>3, <1>4
  <2> QED
    BY <2>1, CountedSets, CountAdd DEF IInv
<1>9. Withdrawn' = Withdrawn /\ Running' = Running
  BY <1>2, <1>3, <1>4 DEF Running, Withdrawn
<1>10. ASSUME NEW j \in Keys PROVE Len(laneQueue'[j]) <= QueuedPerKey
  <2>1. CASE j = k
    <3>1. Len(laneQueue'[k]) = Len(laneQueue[k]) + 1
      BY <1>2, <1>3, <1>4, PushBackFacts
    <3>2. Len(laneQueue[k]) \in Nat /\ Len(laneQueue[k]) < QueuedPerKey /\ QueuedPerKey \in Nat
      BY <1>2, <1>4, LimitsAssumption DEF Admits
    <3> QED
      BY <2>1, <3>1, <3>2
  <2>2. CASE j # k
    <3>1. laneQueue'[j] = laneQueue[j]
      BY <1>2, <1>4, <2>2
    <3> QED
      BY <3>1 DEF AccountInv, Accounting
  <2> QED
    BY <2>1, <2>2
<1>11. /\ counts'["residentBytes"] <= counts'["peakBytes"]
       /\ counts'["peakBytes"] <= ResidentBytes
  <2>1. n <= ResidentBytes - counts["residentBytes"] /\ ResidentBytes \in Int
    BY <1>2, LimitsAssumption DEF Admits, n
  <2>2. counts["peakBytes"] <= ResidentBytes
    BY DEF AccountInv, Accounting
  <2>3. counts["residentBytes"] \in Int /\ counts["peakBytes"] \in Int
    BY <1>7, StatsFields
  <2> QED
    BY <1>1, <1>6, <2>1, <2>2, <2>3
<1>12. counts'["residentBytes"] = Cardinality(Reservation(tasks)')
  BY <1>5, <1>6 DEF AccountInv, Accounting
<1>13. counts'["queued"] = Cardinality((tasks \ started)') /\ counts'["running"] = Cardinality(Running')
  BY <1>6, <1>8, <1>9 DEF AccountInv, Accounting
<1>14. counts'["accepted"] = counts'["completed"] + counts'["queued"] + counts'["running"]
                             + Cardinality(Withdrawn')
  <2>1. counts["accepted"] = counts["completed"] + counts["queued"] + counts["running"]
                             + Cardinality(Withdrawn)
    BY <1>2 DEF AccountInv, Accounting, Withdrawn, stopped
  <2>2. Cardinality(Withdrawn) \in Nat
    BY CountedSets, NaturalCount DEF IInv
  <2>3. counts["completed"] \in Int /\ counts["queued"] \in Int /\ counts["running"] \in Int
    BY <1>7, StatsFields
  <2>4. Cardinality(Withdrawn') = Cardinality(Withdrawn)
    BY <1>9
  <2>5. /\ counts'["accepted"] = counts["accepted"] + 1 /\ counts'["queued"] = counts["queued"] + 1
        /\ counts'["running"] = counts["running"] /\ counts'["completed"] = counts["completed"]
    BY <1>6
  <2> QED
    BY <2>1, <2>2, <2>3, <2>4, <2>5
<1> QED
  BY <1>5, <1>10, <1>11, <1>12, <1>13, <1>14 DEF AccountInv, Accounting, Withdrawn

\* A worker takes a task: it counts as running, and no longer as queued.
LEMMA AccountTake ==
  ASSUME Counting, IInv, AccountInv, NEW w \in Workers, WorkerTake(w)
  PROVE  AccountInv'
<1> DEFINE k == Head(runnable)
           t == Head(laneQueue[k])
<1>1. runnable # <<>> /\ laneQueue[k] # <<>> /\ workerPc[w] = "wait" /\ ~stopped
  BY DEF WorkerTake, HasToken, Awake
<1>2. k \in Keys /\ laneQueue[k] \in Seq(Nat) /\ t \in tasks \ started
  BY <1>1, TokenHead DEF IInv
<1>3. \E e : counts' = [counts EXCEPT !["queued"] = @ - 1, !["running"] = @ + 1, !["expired"] = e]
  BY ZenonT(30) DEF WorkerTake
<1>4. /\ laneQueue' = [laneQueue EXCEPT ![k] = Tail(laneQueue[k])] /\ started' = started \cup {t}
      /\ failed' \in {failed, failed \cup {t}} /\ tasks' = tasks /\ work' = work /\ stopPc' = stopPc
      /\ \E pc \in {"late", "run"} : workerPc' = [workerPc EXCEPT ![w] = pc]
  BY ZenonT(30) DEF WorkerTake, stopVars
<1> HIDE DEF k, t
<1>5. /\ tasks \subseteq DOMAIN work /\ counts \in [Stats -> Int] /\ laneQueue \in [Keys -> Seq(Nat)]
      /\ workerPc \in [Workers -> Busy \cup {"wait", "exit"}]
  BY DEF IInv, Typed
<1>6. /\ counts'["queued"] = counts["queued"] - 1 /\ counts'["running"] = counts["running"] + 1
      /\ counts'["accepted"] = counts["accepted"] /\ counts'["completed"] = counts["completed"]
      /\ counts'["residentBytes"] = counts["residentBytes"] /\ counts'["peakBytes"] = counts["peakBytes"]
  BY <1>3, <1>5, StatsFields
<1>7. Cardinality((tasks \ started)') = Cardinality(tasks \ started) - 1
  <2>1. (tasks \ started)' = (tasks \ started) \ {t}
    BY <1>4
  <2> QED
    BY <1>2, <2>1, CountedSets, CountRemove DEF IInv
<1>8. Cardinality(Running') = Cardinality(Running) + 1
  <2>1. workerPc'[w] \in Busy /\ \A v \in Workers : v # w => workerPc'[v] = workerPc[v]
    BY <1>4, <1>5 DEF Busy
  <2>2. w \notin Running
    BY <1>1 DEF Running, Busy
  <2>3. Running' = Running \cup {w}
    BY <2>1 DEF Running
  <2> QED
    BY <2>2, <2>3, CountedSets, CountAdd DEF IInv
<1>9. Cardinality(Withdrawn') = Cardinality(Withdrawn)
  BY ZenonT(30), <1>2, <1>4 DEF Withdrawn
<1>10. ASSUME NEW j \in Keys PROVE Len(laneQueue'[j]) <= QueuedPerKey
  <2>1. Len(laneQueue[j]) \in Nat /\ Len(laneQueue[j]) <= QueuedPerKey /\ QueuedPerKey \in Nat
    BY <1>5, LimitsAssumption DEF AccountInv, Accounting
  <2>2. laneQueue'[j] = laneQueue[j] \/ Len(laneQueue'[j]) = Len(laneQueue[j]) - 1
    BY <1>1, <1>2, <1>4, <1>5, PopFrontFacts DEF k
  <2> QED
    BY <2>1, <2>2
<1>11. Reservation(tasks)' = Reservation(tasks)
  BY <1>4 DEF Reservation
<1>12. counts'["queued"] = Cardinality((tasks \ started)') /\ counts'["running"] = Cardinality(Running')
  BY <1>6, <1>7, <1>8 DEF AccountInv, Accounting
<1>13. counts'["accepted"] = counts'["completed"] + counts'["queued"] + counts'["running"]
                             + Cardinality(Withdrawn')
  <2>1. counts["accepted"] = counts["completed"] + counts["queued"] + counts["running"]
                             + Cardinality(Withdrawn)
    BY <1>1 DEF AccountInv, Accounting, Withdrawn, stopped
  <2>2. Cardinality(Withdrawn) \in Nat
    BY CountedSets, NaturalCount DEF IInv
  <2>3. counts["completed"] \in Int /\ counts["queued"] \in Int /\ counts["running"] \in Int
    BY <1>5, StatsFields
  <2> QED
    BY <1>6, <1>9, <2>1, <2>2, <2>3
<1> QED
  BY <1>6, <1>10, <1>11, <1>12, <1>13 DEF AccountInv, Accounting, Withdrawn

\* A worker is done with its task, and gives back what the task had reserved.
LEMMA AccountFinish ==
  ASSUME Counting, IInv, AccountInv, NEW w \in Workers, WorkerFinish(w)
  PROVE  AccountInv'
<1> DEFINE t == workerTask[w]
<1>1. /\ workerPc[w] = "done" /\ workerPc' = [workerPc EXCEPT ![w] = "wait"] /\ tasks' = tasks \ {t}
      /\ counts' = [counts EXCEPT !["running"] = @ - 1, !["residentBytes"] = @ - work[t].charge,
                                  !["completed"] = @ + 1]
      /\ work' = work /\ started' = started /\ failed' = failed /\ laneQueue' = laneQueue
      /\ stopPc' = stopPc
  BY ZenonT(30) DEF WorkerFinish, stopVars
<1>2. w \in Running /\ t \in tasks \cap started
  BY ZenonT(30), <1>1 DEF IInv, WorkerInv, Running, Busy
<1> HIDE DEF t
<1>3. /\ tasks \subseteq DOMAIN work /\ counts \in [Stats -> Int] /\ work \in Seq(Work)
      /\ workerPc \in [Workers -> Busy \cup {"wait", "exit"}]
  BY DEF IInv, Typed
<1>4. work[t].charge \in Nat
  BY ZenonT(30), <1>2, <1>3, WorkParts
<1>5. /\ counts'["running"] = counts["running"] - 1 /\ counts'["completed"] = counts["completed"] + 1
      /\ counts'["residentBytes"] = counts["residentBytes"] - work[t].charge
      /\ counts'["accepted"] = counts["accepted"] /\ counts'["queued"] = counts["queued"]
      /\ counts'["peakBytes"] = counts["peakBytes"]
  BY ZenonT(30), <1>1, <1>3, StatsFields
<1>6. Cardinality(Running') = Cardinality(Running) - 1
  <2>1. workerPc'[w] \notin Busy /\ \A v \in Workers : v # w => workerPc'[v] = workerPc[v]
    BY <1>1, <1>3 DEF Busy
  <2>2. Running' = Running \ {w}
    BY <2>1 DEF Running
  <2> QED
    BY <1>2, <2>2, CountedSets, CountRemove DEF IInv
<1>7. (tasks \ started)' = tasks \ started /\ Withdrawn' = Withdrawn
  BY <1>1, <1>2 DEF Withdrawn
<1>8. /\ IsFiniteSet(Reservation(tasks)')
      /\ Cardinality(Reservation(tasks)') = Cardinality(Reservation(tasks)) - work[t].charge
  BY ZenonT(30), <1>1, <1>2, ReserveRemove DEF IInv, AccountInv
<1>9. counts'["residentBytes"] <= counts'["peakBytes"] /\ counts'["peakBytes"] <= ResidentBytes
  <2>1. counts["residentBytes"] \in Int /\ counts["peakBytes"] \in Int
    BY <1>3, StatsFields
  <2>2. counts["residentBytes"] <= counts["peakBytes"] /\ counts["peakBytes"] <= ResidentBytes
    BY DEF AccountInv, Accounting
  <2> QED
    BY <1>4, <1>5, <2>1, <2>2
<1>10. /\ counts'["residentBytes"] = Cardinality(Reservation(tasks)')
       /\ counts'["queued"] = Cardinality((tasks \ started)')
       /\ counts'["running"] = Cardinality(Running')
  BY ZenonT(30), <1>5, <1>6, <1>7, <1>8 DEF AccountInv, Accounting
<1>11. stopPc # "closed" =>
         counts'["accepted"] = counts'["completed"] + counts'["queued"] + counts'["running"]
                               + Cardinality(Withdrawn')
  <2> SUFFICES ASSUME stopPc # "closed"
               PROVE  counts'["accepted"] = counts'["completed"] + counts'["queued"]
                                            + counts'["running"] + Cardinality(Withdrawn)
    BY <1>7
  <2>1. counts["accepted"] = counts["completed"] + counts["queued"] + counts["running"]
                             + Cardinality(Withdrawn)
    BY DEF AccountInv, Accounting, Withdrawn
  <2>2. Cardinality(Withdrawn) \in Nat
    BY CountedSets, NaturalCount DEF IInv
  <2>3. counts["completed"] \in Int /\ counts["queued"] \in Int /\ counts["running"] \in Int
    BY <1>3, StatsFields
  <2> QED
    BY <1>5, <2>1, <2>2, <2>3
<1>12. \A k \in Keys : Len(laneQueue'[k]) <= QueuedPerKey
  BY <1>1 DEF AccountInv, Accounting
<1> QED
  BY ZenonT(30), <1>1, <1>8, <1>9, <1>10, <1>11, <1>12 DEF AccountInv, Accounting, Withdrawn

\* expire() and cancel() of a task that waits: it leaves its lane and its bytes, and is
\* neither queued nor running nor completed any more.
LEMMA AccountRelease ==
  ASSUME Counting, IInv, AccountInv, NEW t \in tasks \ started, NEW e \in Nat, NEW c \in Nat, Fail(t, e, c),
         t \notin failed, work' = work, started' = started, workerPc' = workerPc, stopPc' = stopPc
  PROVE  AccountInv'
<1>1. /\ tasks' = tasks \ {t} /\ failed' = failed \cup {t}
      /\ \E p \in DOMAIN laneQueue[work[t].key] :
           laneQueue' = [laneQueue EXCEPT ![work[t].key] = RemoveAt(@, p)]
  BY DEF Fail, releaseQueued
<1>2. counts' = [counts EXCEPT !["expired"] = @ + e, !["cancelled"] = @ + c, !["queued"] = @ - 1,
                               !["residentBytes"] = @ - work[t].charge]
  BY DEF Fail
<1>3. /\ tasks \subseteq DOMAIN work /\ counts \in [Stats -> Int] /\ work \in Seq(Work)
      /\ laneQueue \in [Keys -> Seq(Nat)]
  BY DEF IInv, Typed
<1>4. work[t].charge \in Nat /\ work[t].key \in Keys
  BY <1>3, WorkParts
<1>5. /\ counts'["queued"] = counts["queued"] - 1
      /\ counts'["residentBytes"] = counts["residentBytes"] - work[t].charge
      /\ counts'["running"] = counts["running"] /\ counts'["completed"] = counts["completed"]
      /\ counts'["accepted"] = counts["accepted"] /\ counts'["peakBytes"] = counts["peakBytes"]
  BY ZenonT(30), <1>2, <1>3, StatsFields
<1>6. Cardinality((tasks \ started)') = Cardinality(tasks \ started) - 1
  <2>1. (tasks \ started)' = (tasks \ started) \ {t}
    BY <1>1
  <2> QED
    BY <2>1, CountedSets, CountRemove DEF IInv
<1>7. Cardinality(Withdrawn') = Cardinality(Withdrawn) + 1
  <2>1. Withdrawn' = Withdrawn \cup {t} /\ t \notin Withdrawn
    BY <1>1 DEF Withdrawn
  <2> QED
    BY <2>1, CountedSets, CountAdd DEF IInv
<1>8. /\ IsFiniteSet(Reservation(tasks)')
      /\ Cardinality(Reservation(tasks)') = Cardinality(Reservation(tasks)) - work[t].charge
  BY ZenonT(30), <1>1, ReserveRemove DEF IInv, AccountInv
<1>9. counts'["residentBytes"] <= counts'["peakBytes"] /\ counts'["peakBytes"] <= ResidentBytes
  <2>1. counts["residentBytes"] \in Int /\ counts["peakBytes"] \in Int
    BY <1>3, StatsFields
  <2>2. counts["residentBytes"] <= counts["peakBytes"] /\ counts["peakBytes"] <= ResidentBytes
    BY DEF AccountInv, Accounting
  <2> QED
    BY <1>4, <1>5, <2>1, <2>2
<1>10. Running' = Running
  BY DEF Running
<1>11. /\ counts'["residentBytes"] = Cardinality(Reservation(tasks)')
       /\ counts'["queued"] = Cardinality((tasks \ started)')
       /\ counts'["running"] = Cardinality(Running')
  BY ZenonT(30), <1>5, <1>6, <1>8, <1>10 DEF AccountInv, Accounting
<1>12. stopPc # "closed" =>
         counts'["accepted"] = counts'["completed"] + counts'["queued"] + counts'["running"]
                               + Cardinality(Withdrawn')
  <2> SUFFICES ASSUME stopPc # "closed"
               PROVE  counts'["accepted"] = counts'["completed"] + counts'["queued"]
                                            + counts'["running"] + Cardinality(Withdrawn')
    OBVIOUS
  <2>1. counts["accepted"] = counts["completed"] + counts["queued"] + counts["running"]
                             + Cardinality(Withdrawn)
    BY DEF AccountInv, Accounting, Withdrawn
  <2>2. Cardinality(Withdrawn) \in Nat
    BY CountedSets, NaturalCount DEF IInv
  <2>3. counts["completed"] \in Int /\ counts["queued"] \in Int /\ counts["running"] \in Int
    BY <1>3, StatsFields
  <2>4. counts'["queued"] + Cardinality(Withdrawn') = counts["queued"] + Cardinality(Withdrawn)
    BY <1>5, <1>7, <2>2, <2>3
  <2>5. counts'["queued"] \in Int /\ Cardinality(Withdrawn') \in Int
    BY <1>5, <1>7, <2>2, <2>3
  <2>6. counts'["accepted"] = counts["completed"] + counts'["queued"] + counts["running"]
                              + Cardinality(Withdrawn')
    BY <1>5, <2>1, <2>2, <2>3, <2>4, <2>5
  <2> QED
    BY <1>5, <2>6
<1>13. ASSUME NEW k \in Keys PROVE Len(laneQueue'[k]) <= QueuedPerKey
  <2>1. Len(laneQueue[k]) \in Nat /\ Len(laneQueue[k]) <= QueuedPerKey /\ QueuedPerKey \in Nat
    BY <1>3, LimitsAssumption DEF AccountInv, Accounting
  <2>2. CASE k # work[t].key
    BY <1>1, <1>3, <2>1, <2>2
  <2>3. CASE k = work[t].key
    <3>1. PICK p \in DOMAIN laneQueue[k] : laneQueue' = [laneQueue EXCEPT ![k] = RemoveAt(@, p)]
      BY ZenonT(30), <1>1, <2>3
    <3>2. laneQueue[k] \in Seq(Nat) /\ p \in 1..Len(laneQueue[k])
      BY <1>3
    <3>3. Len(RemoveAt(laneQueue[k], p)) = Len(laneQueue[k]) - 1
      BY <3>2, RemoveAtFacts
    <3>4. laneQueue'[k] = RemoveAt(laneQueue[k], p)
      BY <1>3, <3>1
    <3> QED
      BY <2>1, <3>3, <3>4
  <2> QED
    BY <2>2, <2>3
<1> QED
  BY ZenonT(30), <1>8, <1>9, <1>11, <1>12, <1>13 DEF AccountInv, Accounting, Withdrawn

\* expire() and cancel(), whether a worker has taken the task or not.
LEMMA AccountFail ==
  ASSUME Counting, IInv, AccountInv, NEW t \in tasks, NEW e \in Nat, NEW c \in Nat, Fail(t, e, c),
         t \notin failed, work' = work, started' = started, workerPc' = workerPc, stopPc' = stopPc
  PROVE  AccountInv'
<1>1. CASE t \in started
  <2>1. /\ tasks' = tasks /\ failed' = failed \cup {t} /\ laneQueue' = laneQueue
        /\ counts' = [counts EXCEPT !["expired"] = @ + e, !["cancelled"] = @ + c,
                                    !["queued"] = @, !["residentBytes"] = @]
    BY <1>1 DEF Fail
  <2>2. counts \in [Stats -> Int]
    BY DEF IInv, Typed
  <2>3. \A g \in Gauges : counts'[g] = counts[g]
    BY <2>1, <2>2 DEF Gauges, Stats
  <2>4. Withdrawn' = Withdrawn /\ Running' = Running
    BY <2>1 DEF Withdrawn, Running
  <2>5. \A k \in Keys : Len(laneQueue'[k]) <= QueuedPerKey
    BY <2>1 DEF AccountInv, Accounting
  <2> QED
    BY ZenonT(30), <2>1, <2>3, <2>4, <2>5, AccountSame
<1>2. CASE t \notin started
  BY <1>2, AccountRelease
<1> QED
  BY <1>1, <1>2

\* stop() has joined every thread, and drops what is left with its counts.
LEMMA AccountClear ==
  ASSUME Counting, IInv, AccountInv, StopClear
  PROVE  AccountInv'
<1>1. /\ tasks' = {} /\ stopPc' = "closed" /\ laneQueue' = [k \in Keys |-> <<>>]
      /\ counts' = [counts EXCEPT !["queued"] = 0, !["running"] = 0, !["residentBytes"] = 0]
      /\ workerPc' = workerPc /\ \A w \in Workers : workerPc[w] = "exit"
  BY DEF StopClear, workerVars
<1>2. counts \in [Stats -> Int]
  BY DEF IInv, Typed
<1>3. /\ counts'["queued"] = 0 /\ counts'["running"] = 0 /\ counts'["residentBytes"] = 0
      /\ counts'["peakBytes"] = counts["peakBytes"]
  BY <1>1, <1>2, StatsFields
<1>4. Running' = {} /\ (tasks \ started)' = {} /\ Reservation(tasks)' = {}
  BY <1>1 DEF Running, Busy, Reservation
<1>5. 0 <= counts["peakBytes"] /\ counts["peakBytes"] <= ResidentBytes
  <2>1. Cardinality(Reservation(tasks)) \in Nat
    BY NaturalCount DEF AccountInv
  <2>2. counts["residentBytes"] = Cardinality(Reservation(tasks))
    BY DEF AccountInv, Accounting
  <2>3. counts["residentBytes"] <= counts["peakBytes"] /\ counts["peakBytes"] <= ResidentBytes
    BY DEF AccountInv, Accounting
  <2>4. counts["peakBytes"] \in Int
    BY <1>2, StatsFields
  <2> QED
    BY <2>1, <2>2, <2>3, <2>4
<1>6. \A k \in Keys : Len(laneQueue'[k]) <= QueuedPerKey
  BY <1>1, LimitsAssumption
<1>7. IsFiniteSet({}) /\ Cardinality({}) = 0
  BY EmptyCount
<1> QED
  BY ZenonT(30), <1>1, <1>3, <1>4, <1>5, <1>6, <1>7 DEF AccountInv, Accounting

\* A submission that throws spends its ticket, and reserves nothing.
LEMMA AccountThrows ==
  ASSUME IInv, AccountInv, NEW k \in Keys, NEW bytes \in Sizes, NEW d \in 0..MaxTime,
         SubmitSpent(k, bytes, d)
  PROVE  AccountInv'
<1> DEFINE r == [key |-> k, charge |-> Charge(bytes), deadline |-> d]
<1>1. Len(work) < MaxTasks /\ work' = Append(work, r)
      /\ UNCHANGED <<tasks, started, failed, laneQueue, counts, workerPc, stopPc>>
  BY DEF SubmitSpent, workerVars, stopVars
<1>2. r \in Work
  BY SubmittedWork
<1> HIDE DEF r
<1>3. \A t \in DOMAIN work : work'[t] = work[t]
  BY ZenonT(30), <1>1, <1>2, NewTicket DEF IInv, Typed
<1>4. \A t \in tasks : work'[t] = work[t]
  BY ZenonT(30), <1>3 DEF IInv, Typed
<1>5. Withdrawn' = Withdrawn /\ Running' = Running
  BY <1>1 DEF Withdrawn, Running
<1>6. \A j \in Keys : Len(laneQueue'[j]) <= QueuedPerKey
  BY <1>1 DEF AccountInv, Accounting
<1> QED
  BY ZenonT(30), <1>1, <1>4, <1>5, <1>6, AccountSame

\* Stop fails the resident tasks where they are: their reservations stay.
LEMMA AccountStop ==
  ASSUME IInv, AccountInv, Stop
  PROVE  AccountInv'
<1>1. /\ failed' = failed \cup tasks /\ stopPc' # "closed" /\ stopPc # "closed"
      /\ UNCHANGED <<work, tasks, started, laneQueue, counts, workerPc>>
  BY DEF Stop, stopped, workerVars, queueVars
<1>2. Withdrawn' = Withdrawn /\ Running' = Running
  BY <1>1 DEF Withdrawn, Running
<1>3. \A k \in Keys : Len(laneQueue'[k]) <= QueuedPerKey
  BY <1>1 DEF AccountInv, Accounting
<1> QED
  BY <1>1, <1>2, <1>3, AccountSame

\* The steps that no gauge sees.
LEMMA AccountUnseen ==
  ASSUME IInv, AccountInv, UNCHANGED <<work, tasks, started, failed, laneQueue, stopPc>>,
         Running' = Running, \A g \in Gauges : counts'[g] = counts[g]
  PROVE  AccountInv'
<1>1. Withdrawn' = Withdrawn
  BY DEF Withdrawn
<1>2. \A k \in Keys : Len(laneQueue'[k]) <= QueuedPerKey
  BY DEF AccountInv, Accounting
<1> QED
  BY <1>1, <1>2, AccountSame

\* Every step keeps the gauges in step with the tasks they count.
LEMMA AccountNext ==
  ASSUME Counting, IInv, AccountInv, [NetNext]_vars
  PROVE  AccountInv'
<1>0. /\ counts \in [Stats -> Int] /\ workerPc \in [Workers -> Busy \cup {"wait", "exit"}]
      /\ deadlines \subseteq tasks
  BY DEF IInv, Typed, DeadlineInv
<1>1. ASSUME NEW k \in Keys, NEW bytes \in Sizes, NEW d \in 0..MaxTime, SubmitRejected(k, bytes, d)
      PROVE  AccountInv'
  <2>1. UNCHANGED <<work, tasks, started, failed, laneQueue, stopPc, workerPc>>
    BY <1>1 DEF SubmitRejected, taskVars, queueVars, stopVars, workerVars
  <2>2. counts' \in {[counts EXCEPT !["expired"] = @ + 1], [counts EXCEPT !["overloaded"] = @ + 1]}
    BY <1>1 DEF SubmitRejected
  <2>3. \A g \in Gauges : counts'[g] = counts[g]
    BY <1>0, <2>2 DEF Gauges, Stats
  <2> QED
    BY <2>1, <2>3, AccountUnseen DEF Running
<1>2. ASSUME NEW t \in Ids, Cancel(t)
      PROVE  AccountInv'
  <2>1. /\ t \in tasks /\ t \notin failed /\ Fail(t, 0, 1)
        /\ work' = work /\ started' = started /\ workerPc' = workerPc /\ stopPc' = stopPc
    BY <1>2 DEF Cancel, Cancellable, workerVars, stopVars
  <2> QED
    BY <2>1, AccountFail
<1>3. ASSUME NEW t \in Ids, TimerFire(t)
      PROVE  AccountInv'
  <2>1. /\ t \in tasks /\ t \notin failed /\ Fail(t, 1, 0)
        /\ work' = work /\ started' = started /\ workerPc' = workerPc /\ stopPc' = stopPc
    BY ZenonT(30), <1>0, <1>3 DEF TimerFire, workerVars, stopVars
  <2> QED
    BY <2>1, AccountFail
<1>4. ASSUME NEW w \in Workers, WorkerExit(w) \/ RunEnds(w) \/ RejectLate(w)
      PROVE  AccountInv'
  <2>1. UNCHANGED <<work, tasks, started, failed, laneQueue, stopPc, counts>>
    BY <1>4 DEF WorkerExit, RunEnds, RunReturns, RunThrows, RejectLate, taskVars, queueVars, stopVars
  <2>2. ASSUME WorkerExit(w) PROVE Running' = Running
    <3>1. workerPc[w] = "wait" /\ workerPc' = [workerPc EXCEPT ![w] = "exit"]
      BY <2>2 DEF WorkerExit, Awake
    <3> QED
      BY <1>0, <3>1 DEF Running, Busy
  <2>3. ASSUME RunEnds(w) \/ RejectLate(w) PROVE Running' = Running
    <3>1. workerPc[w] \in Busy /\ workerPc' = [workerPc EXCEPT ![w] = "done"]
      BY ZenonT(30), <2>3 DEF RunEnds, RunReturns, RunThrows, RejectLate, Busy
    <3> QED
      BY <1>0, <3>1 DEF Running, Busy
  <2>4. Running' = Running
    BY <1>4, <2>2, <2>3
  <2> QED
    BY <2>1, <2>4, AccountUnseen
<1>5. ASSUME UNCHANGED <<work, tasks, started, failed, laneQueue, stopPc, counts, workerPc>>
      PROVE  AccountInv'
  BY <1>5, AccountUnseen DEF Running
<1>6. CASE NetClientStep
  BY <1>1, <1>2, <1>6, AccountSubmit, AccountThrows, AccountStop DEF NetClientStep
<1>7. CASE TimerStep
  <2>1. \/ \E t \in Ids : TimerFire(t)
        \/ UNCHANGED <<work, tasks, started, failed, laneQueue, stopPc, counts, workerPc>>
    BY ZenonT(30), <1>7 DEF TimerStep, TimerExit, TimerSleep, TimerReject, TimerWakes, Wakes, TimerSkip,
                taskVars, queueVars, stopVars, workerVars
  <2> QED
    BY <1>3, <1>5, <2>1
<1>8. CASE ReplyStep
  BY <1>5, <1>8 DEF ReplyStep, CancelReject, StopReject, taskVars, queueVars, stopVars, workerVars
<1>9. CASE Tick
  BY <1>5, <1>9 DEF Tick, taskVars, queueVars, stopVars, workerVars
<1>10. ASSUME NEW w \in Workers, WorkerStep(w)
       PROVE  AccountInv'
  <2>1. CASE WorkerSleep(w)
    BY <1>5, <2>1 DEF WorkerSleep, taskVars, queueVars, stopVars, workerVars
  <2>2. CASE WorkerDrop(w)
    BY <1>5, <2>2 DEF WorkerDrop, taskVars, stopVars, workerVars
  <2> QED
    BY <1>4, <1>10, <2>1, <2>2, AccountTake, AccountFinish DEF WorkerStep
<1>11. ASSUME NEW thread \in Workers \cup {Timer}, Wakes(thread)
       PROVE  AccountInv'
  BY <1>5, <1>11 DEF Wakes, taskVars, queueVars, stopVars, workerVars
<1>12. CASE UNCHANGED vars
  BY <1>5, <1>12 DEF vars, taskVars, queueVars, stopVars, workerVars
<1> QED
  BY <1>4, <1>6, <1>7, <1>8, <1>9, <1>10, <1>11, <1>12, AccountClear DEF NetNext
=============================================================================
