----------------------- MODULE OperationQueue_proofs ------------------------
(***************************************************************************)
(* Every step of OperationQueue keeps the tokens of the lanes, the tasks   *)
(* of the workers, who owes a failure, the deadlines and the sleepers      *)
(* consistent; with the lanes this is the inductive invariant, and the     *)
(* invariants of OperationQueue follow from it, for every number of keys,  *)
(* workers, tasks and bytes.  Tasks start in order, every step is a step   *)
(* of SerialExecutor or changes nothing it can see, and the gauges count   *)
(* what they are named for.                                                *)
(***************************************************************************)
EXTENDS OperationQueue_lanes

-----------------------------------------------------------------------------
(* Tokens *)

\* ready() keeps the tokens in step with the flags, and leaves a lane that waits ready.
LEMMA ReadyTokens ==
  ASSUME Typed, Tokens, NEW k \in Keys, NEW active, NEW queue, ready(k, active, queue)
  PROVE  /\ Tokens'
         /\ laneReady \subseteq laneReady' /\ laneReady' \subseteq laneReady \cup {k}
         /\ k \notin active /\ queue # <<>> => k \in laneReady'
         /\ (k \in active \/ queue = <<>>) => laneReady' = laneReady
         /\ runnable' = runnable \/ runnable' = Append(runnable, k)
<1>1. CASE UNCHANGED <<runnable, laneReady>>
  BY <1>1 DEF ready, Tokens
<1>2. CASE /\ runnable' = Append(runnable, k) /\ laneReady' = laneReady \cup {k}
           /\ k \notin laneReady /\ k \notin active /\ queue # <<>>
  <2>1. /\ DOMAIN runnable' = DOMAIN runnable \cup {Len(runnable) + 1}
        /\ \A p \in DOMAIN runnable : runnable'[p] = runnable[p]
        /\ runnable'[Len(runnable) + 1] = k
    BY <1>2 DEF Typed
  <2>2. Tokens'
    BY <1>2, <2>1 DEF Tokens
  <2>3. QED BY <1>2, <2>2
<1>3. QED
  BY <1>1, <1>2 DEF ready

\* A worker that pops a token clears the flag of its lane.
LEMMA PopToken ==
  ASSUME Typed, Tokens, runnable # <<>>,
         runnable' = Tail(runnable), laneReady' = laneReady \ {Head(runnable)}
  PROVE  Tokens' /\ Head(runnable) \in laneReady
<1>1. /\ Head(runnable) = runnable[1] /\ 1 \in DOMAIN runnable /\ DOMAIN runnable = 1..Len(runnable)
      /\ Len(runnable) \in Nat
      /\ DOMAIN runnable' = 1..Len(runnable) - 1
      /\ \A i \in 1..Len(runnable) - 1 : runnable'[i] = runnable[i + 1]
  BY DEF Typed
<1>2. \A p \in DOMAIN runnable' : runnable'[p] \in laneReady'
  <2> SUFFICES ASSUME NEW p \in 1..Len(runnable) - 1
               PROVE  runnable[p + 1] \in laneReady \ {runnable[1]}
    BY <1>1
  <2>1. p + 1 \in DOMAIN runnable /\ p + 1 # 1
    BY <1>1
  <2>2. QED BY <1>1, <2>1 DEF Tokens
<1>3. \A p, q \in DOMAIN runnable' : runnable'[p] = runnable'[q] => p = q
  <2> SUFFICES ASSUME NEW p \in 1..Len(runnable) - 1, NEW q \in 1..Len(runnable) - 1,
                      runnable[p + 1] = runnable[q + 1]
               PROVE  p = q
    BY <1>1
  <2>1. p + 1 \in DOMAIN runnable /\ q + 1 \in DOMAIN runnable
    BY <1>1
  <2>2. p + 1 = q + 1
    BY <2>1 DEF Tokens
  <2>3. QED BY <2>2
<1>4. \A k \in laneReady' : \E p \in DOMAIN runnable' : runnable'[p] = k
  <2> SUFFICES ASSUME NEW k \in laneReady, k # runnable[1]
               PROVE  \E p \in DOMAIN runnable' : runnable'[p] = k
    BY <1>1
  <2>1. PICK q \in DOMAIN runnable : runnable[q] = k
    BY DEF Tokens
  <2> DEFINE p == q - 1
  <2>2. p \in 1..Len(runnable) - 1 /\ p + 1 = q
    BY <1>1, <2>1
  <2> HIDE DEF p
  <2>3. runnable'[p] = k
    BY <1>1, <2>1, <2>2
  <2>4. QED BY ZenonT(30), <1>1, <2>2, <2>3
<1>5. QED
  BY <1>1, <1>2, <1>3, <1>4 DEF Tokens

\* A lane that waits for a worker keeps its token in runnable.
LEMMA TokenNext ==
  ASSUME IInv, [NetNext]_vars
  PROVE  TokenInv'
<1> USE DEF IInv
<1>0. lanes \subseteq Keys /\ laneActive \subseteq Keys /\ laneReady \subseteq Keys
  BY DEF Typed
<1>1. ASSUME NEW k \in Keys, NEW bytes \in Sizes, NEW d \in 0..MaxTime, Submit(k, bytes, d)
      PROVE  TokenInv'
  <2>1. /\ lanes' = lanes \cup {k} /\ laneActive' = laneActive
        /\ ready(k, laneActive, laneQueue'[k])
    BY <1>1 DEF Submit
  <2>2. /\ laneQueue'[k] # <<>>
        /\ \A j \in Keys : j # k => laneQueue'[j] = laneQueue[j]
    <3>1. laneQueue[k] \in Seq(Nat) /\ Len(work) + 1 \in Nat /\ laneQueue \in [Keys -> Seq(Nat)]
      BY DEF Typed
    <3>2. laneQueue' = [laneQueue EXCEPT ![k] = Append(laneQueue[k], Len(work) + 1)]
      BY <1>1 DEF Submit
    <3>3. QED BY <3>1, <3>2, PushBackFacts
  <2>3. /\ Tokens' /\ laneReady \subseteq laneReady' /\ laneReady' \subseteq laneReady \cup {k}
        /\ k \notin laneActive => k \in laneReady'
        /\ k \in laneActive => laneReady' = laneReady
    BY ZenonT(30), <2>1, <2>2, ReadyTokens DEF TokenInv
  <2>4. QED BY <1>0, <2>1, <2>2, <2>3 DEF TokenInv
<1>2. ASSUME NEW k \in Keys, NEW bytes \in Sizes, NEW d \in 0..MaxTime, SubmitSpent(k, bytes, d)
      PROVE  TokenInv'
  BY ZenonT(30), <1>2 DEF SubmitSpent, TokenInv, Tokens
<1>3. ASSUME NEW w \in Workers, WorkerDrop(w)
      PROVE  TokenInv'
  <2> DEFINE k == Head(runnable)
  <2>1. /\ runnable # <<>> /\ laneQueue[k] = <<>> /\ runnable' = Tail(runnable)
        /\ laneReady' = laneReady \ {k} /\ lanes' = IF k \in laneActive THEN lanes ELSE lanes \ {k}
        /\ UNCHANGED <<laneActive, laneQueue>>
    BY <1>3 DEF WorkerDrop, HasToken
  <2>2. Tokens' /\ k \in laneReady
    BY <2>1, PopToken DEF TokenInv
  <2>3. k \notin laneActive
    BY <2>2 DEF TokenInv
  <2>4. QED BY <1>0, <2>1, <2>2, <2>3 DEF TokenInv
<1>4. ASSUME NEW w \in Workers, WorkerTake(w)
      PROVE  TokenInv'
  <2> DEFINE k == Head(runnable)
  <2>1. /\ runnable # <<>> /\ laneQueue[k] # <<>> /\ runnable' = Tail(runnable)
        /\ laneReady' = laneReady \ {k} /\ laneActive' = laneActive \cup {k} /\ lanes' = lanes
        /\ laneQueue' = [laneQueue EXCEPT ![k] = Tail(laneQueue[k])]
    BY ZenonT(30), <1>4 DEF WorkerTake, HasToken
  <2>2. Tokens' /\ k \in laneReady
    BY <2>1, PopToken DEF TokenInv
  <2>3. \A j \in Keys : j # k => laneQueue'[j] = laneQueue[j]
    BY <2>1 DEF Typed
  <2>4. QED BY <1>0, <2>1, <2>2, <2>3 DEF TokenInv
<1>5. ASSUME NEW w \in Workers, WorkerFinish(w)
      PROVE  TokenInv'
  <2> DEFINE k == work[workerTask[w]].key
  <2>1. w \in Running
    BY <1>5 DEF WorkerFinish, Running, Busy
  <2>2. k \in laneActive /\ k \notin laneReady /\ k \in Keys
    BY <1>0, <2>1 DEF WorkerInv, TokenInv
  <2>3. /\ laneActive' = laneActive \ {k} /\ laneQueue' = laneQueue
        /\ lanes' = IF laneQueue[k] = <<>> THEN lanes \ {k} ELSE lanes
        /\ ready(k, laneActive', laneQueue[k])
    BY ZenonT(30), <1>5 DEF WorkerFinish, LaneDone
  <2> HIDE DEF k
  <2>4. /\ Tokens' /\ laneReady \subseteq laneReady' /\ laneReady' \subseteq laneReady \cup {k}
        /\ laneQueue[k] # <<>> => k \in laneReady'
        /\ laneQueue[k] = <<>> => laneReady' = laneReady
    BY <2>2, <2>3, ReadyTokens DEF TokenInv
  <2>5. QED BY <1>0, <2>2, <2>3, <2>4 DEF TokenInv
<1>6. ASSUME NEW t \in Ids, Cancel(t) \/ TimerFire(t)
      PROVE  TokenInv'
  <2>1. t \in tasks
    BY <1>6 DEF Cancel, Cancellable, TimerFire, DeadlineInv
  <2>2. PICK e \in Nat, c \in Nat : Fail(t, e, c)
    BY <1>6 DEF Cancel, TimerFire
  <2>3. UNCHANGED <<laneActive, laneReady, runnable>>
    BY <1>6 DEF Cancel, TimerFire
  <2>4. Tokens'
    BY <2>3 DEF TokenInv, Tokens
  <2>5. CASE t \in started
    BY <2>2, <2>3, <2>4, <2>5 DEF Fail, TokenInv
  <2>6. CASE t \notin started
    <3> DEFINE k == work[t].key
    <3>1. k \in Keys
      BY <2>1, WorkParts DEF Typed
    <3>2. PICK p \in DOMAIN laneQueue[k] :
             laneQueue' = [laneQueue EXCEPT ![k] = RemoveAt(laneQueue[k], p)]
      BY <2>2, <2>6 DEF Fail, releaseQueued
    <3>3. laneQueue[k] # <<>> /\ \A j \in Keys : j # k => laneQueue'[j] = laneQueue[j]
      BY <3>1, <3>2 DEF Typed
    <3>4. lanes' = IF Unused(k, laneQueue'[k]) THEN lanes \ {k} ELSE lanes
      BY <2>2, <2>6 DEF Fail, releaseQueued
    <3> HIDE DEF k
    <3>5. QED BY <1>0, <2>3, <2>4, <3>1, <3>3, <3>4 DEF TokenInv, Unused
  <2>7. QED BY <2>5, <2>6
<1>7. CASE StopClear
  BY <1>7 DEF StopClear, TokenInv, Tokens
<1>8. CASE UNCHANGED <<lanes, laneActive, laneReady, laneQueue, runnable>>
  BY <1>8 DEF TokenInv, Tokens
<1>9. QED
  BY ZenonT(30), <1>1, <1>2, <1>3, <1>4, <1>5, <1>6, <1>7, <1>8
  DEF NetNext, NetClientStep, WorkerStep, TimerStep, ReplyStep, SubmitRejected, WorkerSleep, WorkerExit,
      RunEnds, RunReturns, RunThrows, RejectLate, TimerExit, TimerSleep, TimerSkip, TimerReject,
      CancelReject, Stop, StopReject, Tick, Wakes, TimerWakes, vars, queueVars

-----------------------------------------------------------------------------
(* Workers *)

\* Every step keeps what each worker holds.
LEMMA WorkerNext ==
  ASSUME IInv, [NetNext]_vars
  PROVE  WorkerInv'
<1> USE DEF IInv
<1>0. /\ tasks \subseteq DOMAIN work /\ started \subseteq DOMAIN work /\ laneActive \subseteq Keys
      /\ workerPc \in [Workers -> Busy \cup {"wait", "exit"}] /\ workerTask \in [Workers -> Nat]
  BY DEF Typed
<1>1. ASSUME NEW k \in Keys, NEW bytes \in Sizes, NEW d \in 0..MaxTime,
             Submit(k, bytes, d) \/ SubmitSpent(k, bytes, d)
      PROVE  WorkerInv'
  <2> DEFINE r == [key |-> k, charge |-> Charge(bytes), deadline |-> d]
  <2>1. r \in Work
    BY SubmittedWork
  <2>2. work' = Append(work, r) /\ Len(work) < MaxTasks
    BY <1>1 DEF Submit, SubmitSpent
  <2> HIDE DEF r
  <2>3. Len(work) + 1 \notin DOMAIN work /\ \A t \in DOMAIN work : work'[t] = work[t]
    BY <2>1, <2>2, NewTicket DEF Typed
  <2>4. /\ tasks' \in {tasks, tasks \cup {Len(work) + 1}}
        /\ UNCHANGED <<started, laneActive, workerPc, workerTask, stopPc>>
    BY <1>1 DEF Submit, SubmitSpent, workerVars, stopVars
  <2>5. tasks' \cap started' = tasks \cap started /\ Running' = Running
    BY <1>0, <2>3, <2>4 DEF Running
  <2>6. \A w \in Running : work'[workerTask[w]] = work[workerTask[w]]
    BY <1>0, <2>3 DEF WorkerInv
  <2>7. QED BY <2>4, <2>5, <2>6 DEF WorkerInv, OneActivePerKey, stopped
<1>2. ASSUME NEW w \in Workers, WorkerTake(w)
      PROVE  WorkerInv'
  <2> DEFINE k == Head(runnable)
             t == Head(laneQueue[k])
  <2>1. runnable # <<>> /\ laneQueue[k] # <<>> /\ workerPc[w] = "wait"
    BY ZenonT(30), <1>2 DEF WorkerTake, HasToken, Awake
  <2>2. t \in tasks \ started /\ work[t].key = k
    BY <2>1, TokenHead
  <2>3. k \in laneReady
    BY <2>1 DEF TokenInv, Tokens, Typed
  <2>4. k \notin laneActive
    BY <2>3 DEF TokenInv
  <2>5. /\ UNCHANGED <<work, tasks, stopPc>> /\ laneActive' = laneActive \cup {k}
        /\ started' = started \cup {t}
        /\ workerTask' = [workerTask EXCEPT ![w] = t]
        /\ \E pc \in {"late", "run"} : workerPc' = [workerPc EXCEPT ![w] = pc]
    BY ZenonT(30), <1>2 DEF WorkerTake, stopVars
  <2> HIDE DEF k, t
  <2>6. /\ Running' = Running \cup {w} /\ w \notin Running
        /\ workerTask'[w] = t /\ \A v \in Running : workerTask'[v] = workerTask[v]
    BY <1>0, <2>1, <2>5 DEF Running, Busy
  <2>7. \A v \in Running : work[workerTask[v]].key \in laneActive /\ work[workerTask[v]].key # k
    BY <2>4 DEF WorkerInv
  <2>8. \A v \in Running' : workerTask'[v] \in tasks' \cap started' /\ work'[workerTask'[v]].key \in laneActive'
    BY <2>2, <2>5, <2>6 DEF WorkerInv
  <2>9. OneActivePerKey'
    BY <2>2, <2>5, <2>6, <2>7 DEF WorkerInv, OneActivePerKey
  <2>10. \A u \in tasks' \cap started' : \E v \in Running' : workerTask'[v] = u
    BY <2>5, <2>6 DEF WorkerInv
  <2>11. \A v \in Workers : workerPc'[v] = "exit" => stopped'
    BY <1>0, <2>5 DEF WorkerInv, stopped
  <2>12. QED BY ZenonT(30), <2>8, <2>9, <2>10, <2>11 DEF WorkerInv
<1>3. ASSUME NEW w \in Workers, WorkerFinish(w)
      PROVE  WorkerInv'
  <2> DEFINE t == workerTask[w]
  <2>1. w \in Running
    BY <1>3 DEF WorkerFinish, Running, Busy
  <2>2. /\ UNCHANGED <<work, started, stopPc>> /\ laneActive' = laneActive \ {work[t].key}
        /\ tasks' = tasks \ {t}
        /\ workerTask' = [workerTask EXCEPT ![w] = 0] /\ workerPc' = [workerPc EXCEPT ![w] = "wait"]
    BY <1>3 DEF WorkerFinish, LaneDone, stopVars
  <2>3. Running' = Running \ {w} /\ \A v \in Running' : workerTask'[v] = workerTask[v]
    BY <1>0, <2>2 DEF Running, Busy
  <2>4. \A v \in Running' : work[workerTask[v]].key # work[t].key /\ workerTask[v] # t
    BY <2>1, <2>3 DEF WorkerInv, OneActivePerKey
  <2> HIDE DEF t
  <2>5. \A v \in Running' : workerTask'[v] \in tasks' \cap started' /\ work'[workerTask'[v]].key \in laneActive'
    BY <2>2, <2>3, <2>4 DEF WorkerInv
  <2>6. OneActivePerKey'
    BY <2>2, <2>3 DEF WorkerInv, OneActivePerKey
  <2>7. \A u \in tasks' \cap started' : \E v \in Running' : workerTask'[v] = u
    BY <2>2, <2>3 DEF WorkerInv, t
  <2>8. \A v \in Workers : workerPc'[v] = "exit" => stopped'
    BY <1>0, <2>2 DEF WorkerInv, stopped
  <2>9. QED BY <2>5, <2>6, <2>7, <2>8 DEF WorkerInv
<1>4. ASSUME NEW w \in Workers, RunEnds(w) \/ RejectLate(w) \/ WorkerExit(w)
      PROVE  WorkerInv'
  <2>1. UNCHANGED <<work, tasks, started, laneActive, workerTask, stopPc>>
    BY <1>4 DEF RunEnds, RunReturns, RunThrows, RejectLate, WorkerExit, taskVars, queueVars, stopVars
  <2>2. Running' = Running
    BY <1>0, <1>4 DEF RunEnds, RunReturns, RunThrows, RejectLate, WorkerExit, Awake, Running, Busy
  <2>3. \A v \in Workers : workerPc'[v] = "exit" => stopped'
    BY <1>0, <1>4, <2>1 DEF RunEnds, RunReturns, RunThrows, RejectLate, WorkerExit, WorkerInv, stopped
  <2>4. QED BY ZenonT(30), <2>1, <2>2, <2>3 DEF WorkerInv, OneActivePerKey
<1>5. ASSUME NEW t \in Ids, Cancel(t) \/ TimerFire(t)
      PROVE  WorkerInv'
  <2>1. PICK e \in Nat, c \in Nat : Fail(t, e, c)
    BY <1>5 DEF Cancel, TimerFire
  <2>2. UNCHANGED <<work, started, laneActive, workerPc, workerTask, stopPc>>
    BY ZenonT(30), <1>5 DEF Cancel, TimerFire, workerVars, stopVars
  <2>3. tasks' \cap started' = tasks \cap started
    BY <2>1, <2>2 DEF Fail, releaseQueued
  <2>4. QED BY ZenonT(30), <2>2, <2>3 DEF WorkerInv, OneActivePerKey, Running, stopped
<1>6. CASE Stop
  BY <1>6 DEF Stop, WorkerInv, OneActivePerKey, Running, stopped, workerVars, queueVars
<1>7. CASE StopClear
  <2>1. Running = {} /\ Running' = {} /\ tasks' = {} /\ stopped'
    BY <1>7 DEF StopClear, Running, Busy, stopped, workerVars
  <2>2. QED BY ZenonT(30), <2>1 DEF WorkerInv, OneActivePerKey
<1>8. CASE UNCHANGED <<work, tasks, started, laneActive, workerPc, workerTask, stopPc>>
  BY <1>8 DEF WorkerInv, OneActivePerKey, Running, stopped
<1>9. QED
  BY ZenonT(30), <1>1, <1>2, <1>3, <1>4, <1>5, <1>6, <1>7, <1>8
  DEF NetNext, NetClientStep, WorkerStep, TimerStep, ReplyStep, SubmitRejected, WorkerSleep,
      WorkerDrop, TimerExit, TimerSleep, TimerSkip, TimerReject, CancelReject, StopReject, Tick,
      Wakes, TimerWakes, vars, queueVars, taskVars, workerVars, stopVars

-----------------------------------------------------------------------------
(* Failures *)

\* Every step keeps what is known of the failed tickets.
LEMMA FailNext ==
  ASSUME IInv, [NetNext]_vars
  PROVE  FailInv'
<1> USE DEF IInv
<1>0. /\ tasks \subseteq DOMAIN work /\ failed \subseteq DOMAIN work
      /\ workerPc \in [Workers -> Busy \cup {"wait", "exit"}] /\ workerTask \in [Workers -> Nat]
      /\ stopPc \in {"open", "reject", "closed"}
  BY DEF Typed
<1>1. ASSUME NEW k \in Keys, NEW bytes \in Sizes, NEW d \in 0..MaxTime, Submit(k, bytes, d)
      PROVE  FailInv'
  <2>1. /\ tasks' = tasks \cup {Len(work) + 1} /\ stopPc = "open"
        /\ UNCHANGED <<started, failed, workerPc, workerTask, timerPc, timerTask, stopPc, stopList,
                       cancelling, rejected>>
    BY <1>1 DEF Submit, stopped, workerVars, timerVars, stopVars, replyVars
  <2>2. Len(work) + 1 \notin failed
    BY <1>0 DEF Typed
  <2>3. OwedByWorkers' = OwedByWorkers /\ OwedByTimer' = OwedByTimer
    BY <2>1 DEF OwedByWorkers, OwedByTimer
  <2>4. QED BY <2>1, <2>2, <2>3 DEF FailInv, ToldByOneThread
<1>2. ASSUME NEW w \in Workers, WorkerTake(w)
      PROVE  FailInv'
  <2> DEFINE t == Head(laneQueue[Head(runnable)])
  <2>1. /\ runnable # <<>> /\ laneQueue[Head(runnable)] # <<>> /\ stopPc = "open"
        /\ workerPc[w] = "wait"
    BY ZenonT(30), <1>2 DEF WorkerTake, HasToken, Awake, stopped
  <2>2. t \in tasks \ started
    BY ZenonT(30), <2>1, TokenHead
  <2>3. /\ UNCHANGED <<tasks, timerPc, timerTask, stopPc, stopList, cancelling, rejected>>
        /\ started' = started \cup {t}
        /\ workerTask' = [workerTask EXCEPT ![w] = t]
    BY ZenonT(30), <1>2 DEF WorkerTake, timerVars, stopVars, replyVars
  <2>4. \/ failed' = failed \cup {t} /\ workerPc' = [workerPc EXCEPT ![w] = "late"]
        \/ failed' = failed /\ workerPc' = [workerPc EXCEPT ![w] = "run"]
    BY ZenonT(30), <1>2 DEF WorkerTake
  <2> HIDE DEF t
  <2>5. t \notin failed /\ OwedByTimer' = OwedByTimer
    BY ZenonT(30), <2>1, <2>2, <2>3 DEF FailInv, OwedByTimer
  <2>6. CASE failed' = failed \cup {t} /\ workerPc' = [workerPc EXCEPT ![w] = "late"]
    <3>1. OwedByWorkers' = OwedByWorkers \cup {t}
      BY <1>0, <2>1, <2>3, <2>6 DEF OwedByWorkers
    <3>2. QED BY <2>1, <2>2, <2>3, <2>5, <2>6, <3>1 DEF FailInv, ToldByOneThread
  <2>7. CASE failed' = failed /\ workerPc' = [workerPc EXCEPT ![w] = "run"]
    <3>1. OwedByWorkers' = OwedByWorkers
      BY <1>0, <2>1, <2>3, <2>7 DEF OwedByWorkers
    <3>2. QED BY <2>1, <2>2, <2>3, <2>5, <2>7, <3>1 DEF FailInv, ToldByOneThread
  <2>8. QED BY <2>4, <2>6, <2>7
<1>3. ASSUME NEW w \in Workers, RejectLate(w)
      PROVE  FailInv'
  <2> DEFINE t == workerTask[w]
  <2>1. /\ workerPc[w] = "late" /\ workerPc' = [workerPc EXCEPT ![w] = "done"]
        /\ rejected' = rejected \cup {t}
        /\ UNCHANGED <<tasks, started, failed, workerTask, timerPc, timerTask, stopPc, stopList,
                       cancelling>>
    BY <1>3 DEF RejectLate, taskVars, timerVars, stopVars
  <2>2. \A v \in Workers : v # w /\ workerPc[v] = "late" => workerTask[v] # t
    <3>1. w \in Running /\ \A v \in Workers : workerPc[v] = "late" => v \in Running
      BY <2>1 DEF Running, Busy
    <3>2. QED BY <3>1 DEF WorkerInv, OneActivePerKey
  <2> HIDE DEF t
  <2>3. t \in OwedByWorkers /\ OwedByWorkers' = OwedByWorkers \ {t}
    BY <1>0, <2>1, <2>2 DEF OwedByWorkers, t
  <2>4. OwedByTimer' = OwedByTimer
    BY <2>1 DEF OwedByTimer
  <2>5. QED BY <2>1, <2>3, <2>4 DEF FailInv, ToldByOneThread
<1>4. ASSUME NEW w \in Workers, RunEnds(w) \/ WorkerFinish(w) \/ WorkerExit(w)
      PROVE  FailInv'
  <2>1. /\ tasks' \subseteq tasks
        /\ UNCHANGED <<started, failed, timerPc, timerTask, stopPc, stopList, cancelling, rejected>>
    BY <1>4 DEF RunEnds, RunReturns, RunThrows, WorkerFinish, WorkerExit, taskVars, timerVars, stopVars, replyVars
  <2>2. OwedByWorkers' = OwedByWorkers
    <3>1. \A v \in Workers : /\ workerPc'[v] = "late" <=> workerPc[v] = "late"
                             /\ workerPc[v] = "late" => workerTask'[v] = workerTask[v]
      BY ZenonT(30), <1>0, <1>4 DEF RunEnds, RunReturns, RunThrows, WorkerFinish, WorkerExit, Awake
    <3>2. QED BY <3>1 DEF OwedByWorkers
  <2>3. OwedByTimer' = OwedByTimer
    BY <2>1 DEF OwedByTimer
  <2>4. QED BY <2>1, <2>2, <2>3 DEF FailInv, ToldByOneThread
<1>5. ASSUME NEW t \in Ids, Cancel(t) \/ TimerFire(t)
      PROVE  FailInv'
  <2>1. t \in tasks \ failed
    BY <1>5 DEF Cancel, Cancellable, TimerFire, DeadlineInv
  <2>2. PICK e \in Nat, c \in Nat : Fail(t, e, c)
    BY <1>5 DEF Cancel, TimerFire
  <2>3. /\ UNCHANGED <<started, workerPc, workerTask, stopPc, stopList, rejected>>
        /\ failed' = failed \cup {t} /\ tasks' \subseteq tasks
        /\ t \notin started => t \notin tasks'
    BY ZenonT(30), <1>5, <2>2 DEF Cancel, TimerFire, Fail, releaseQueued, workerVars, stopVars,
      replyVars
  <2>4. OwedByWorkers' = OwedByWorkers
    BY <2>3 DEF OwedByWorkers
  <2>5. \/ OwedByTimer' = OwedByTimer /\ cancelling' = cancelling \cup {t}
        \/ OwedByTimer = {} /\ OwedByTimer' = {t} /\ cancelling' = cancelling
    BY ZenonT(30), <1>5 DEF Cancel, TimerFire, TimerAwake, OwedByTimer, timerVars, replyVars
  <2>6. QED BY <2>1, <2>3, <2>4, <2>5 DEF FailInv, ToldByOneThread
<1>6. CASE TimerReject
  <2>1. /\ OwedByTimer = {timerTask} /\ OwedByTimer' = {} /\ rejected' = rejected \cup {timerTask}
        /\ UNCHANGED <<tasks, started, failed, workerPc, workerTask, stopPc, stopList, cancelling>>
    BY <1>6 DEF TimerReject, OwedByTimer, taskVars, workerVars, stopVars
  <2>2. OwedByWorkers' = OwedByWorkers
    BY <2>1 DEF OwedByWorkers
  <2>3. QED BY <2>1, <2>2 DEF FailInv, ToldByOneThread
<1>7. ASSUME NEW t \in Ids, CancelReject(t) \/ StopReject(t)
      PROVE  FailInv'
  <2>1. /\ UNCHANGED <<tasks, started, failed, workerPc, workerTask, timerPc, timerTask, stopPc>>
        /\ rejected' = rejected \cup {t}
        /\ \/ t \in cancelling /\ cancelling' = cancelling \ {t} /\ stopList' = stopList
           \/ t \in stopList /\ stopList' = stopList \ {t} /\ cancelling' = cancelling
    BY <1>7 DEF CancelReject, StopReject, taskVars, workerVars, timerVars, stopVars
  <2>2. OwedByWorkers' = OwedByWorkers /\ OwedByTimer' = OwedByTimer
    BY ZenonT(30), <2>1 DEF OwedByWorkers, OwedByTimer
  <2>3. QED BY <2>1, <2>2 DEF FailInv, ToldByOneThread
<1>8. CASE Stop
  <2>1. /\ UNCHANGED <<tasks, started, workerPc, workerTask, timerPc, timerTask, cancelling, rejected>>
        /\ stopPc = "open" /\ stopPc' = "reject" /\ stopList' = tasks \ failed
        /\ failed' = failed \cup tasks
    BY <1>8 DEF Stop, stopped, workerVars, timerVars, replyVars
  <2>2. OwedByWorkers' = OwedByWorkers /\ OwedByTimer' = OwedByTimer
    BY <2>1 DEF OwedByWorkers, OwedByTimer
  <2>3. QED BY <2>1, <2>2 DEF FailInv, ToldByOneThread
<1>9. CASE StopClear
  <2>1. /\ UNCHANGED <<failed, workerPc, workerTask, timerPc, timerTask, stopList, cancelling, rejected>>
        /\ tasks' = {} /\ stopPc' = "closed"
    BY <1>9 DEF StopClear, workerVars, timerVars, replyVars
  <2>2. OwedByWorkers' = OwedByWorkers /\ OwedByTimer' = OwedByTimer
    BY <2>1 DEF OwedByWorkers, OwedByTimer
  <2>3. QED BY <2>1, <2>2 DEF FailInv, ToldByOneThread
<1>10. CASE TimerExit
  <2>1. /\ UNCHANGED <<tasks, started, failed, workerPc, workerTask, timerTask, stopPc, stopList,
                       cancelling, rejected>>
        /\ timerPc # "firing" /\ timerPc' # "firing"
    BY <1>10 DEF TimerExit, TimerAwake, taskVars, workerVars, stopVars, replyVars
  <2>2. OwedByWorkers' = OwedByWorkers
    BY <2>1 DEF OwedByWorkers
  <2>3. OwedByTimer' = OwedByTimer
    BY <2>1 DEF OwedByTimer
  <2>4. QED BY <2>1, <2>2, <2>3 DEF FailInv, ToldByOneThread
<1>11. CASE UNCHANGED <<tasks, started, failed, workerPc, workerTask, timerPc, timerTask, stopPc,
                        stopList, cancelling, rejected>>
  <2>1. OwedByWorkers' = OwedByWorkers
    BY <1>11 DEF OwedByWorkers
  <2>2. OwedByTimer' = OwedByTimer
    BY <1>11 DEF OwedByTimer
  <2>3. QED BY <1>11, <2>1, <2>2 DEF FailInv, ToldByOneThread
<1>12. QED
  BY ZenonT(30), <1>1, <1>2, <1>3, <1>4, <1>5, <1>6, <1>7, <1>8, <1>9, <1>10, <1>11
  DEF NetNext, NetClientStep, WorkerStep, TimerStep, ReplyStep, SubmitSpent, SubmitRejected,
      WorkerSleep, WorkerDrop, TimerSleep, TimerSkip, Tick, Wakes, TimerWakes, vars, taskVars,
      workerVars, timerVars, stopVars, replyVars

\* Every step keeps what is known of the run() calls that threw.
LEMMA ThrownNext ==
  ASSUME IInv, [NetNext]_vars
  PROVE  ThrownByRun'
<1> USE DEF IInv
<1>0. workerPc \in [Workers -> Busy \cup {"wait", "exit"}] /\ workerTask \in [Workers -> Nat]
  BY DEF Typed
<1>1. ASSUME NEW w \in Workers, WorkerTake(w)
      PROVE  ThrownByRun'
  <2> DEFINE t == Head(laneQueue[Head(runnable)])
  <2>1. runnable # <<>> /\ laneQueue[Head(runnable)] # <<>>
    BY ZenonT(30), <1>1 DEF WorkerTake, HasToken
  <2>2. t \notin started
    BY ZenonT(30), <2>1, TokenHead
  <2>3. /\ thrown' = thrown /\ started' = started \cup {t}
        /\ workerTask' = [workerTask EXCEPT ![w] = t]
        /\ \A v \in Workers : v # w => workerPc'[v] = workerPc[v]
    BY ZenonT(30), <1>0, <1>1 DEF WorkerTake, replyVars
  <2> HIDE DEF t
  <2> QED
    BY <1>0, <2>2, <2>3 DEF ThrownByRun
<1>2. ASSUME NEW w \in Workers, RunThrows(w)
      PROVE  ThrownByRun'
  <2>1. /\ workerPc[w] = "run" /\ workerPc' = [workerPc EXCEPT ![w] = "done"]
        /\ thrown' = thrown \cup {workerTask[w]} /\ UNCHANGED <<started, workerTask>>
    BY ZenonT(30), <1>2 DEF RunThrows, taskVars
  <2>2. w \in Running /\ \A v \in Workers : workerPc[v] \in {"run", "late"} => v \in Running
    BY <2>1 DEF Running, Busy
  <2>3. workerTask[w] \in started
        /\ \A v \in Workers : v # w /\ workerPc[v] \in {"run", "late"} => workerTask[v] # workerTask[w]
    BY <2>2 DEF WorkerInv, OneActivePerKey
  <2> QED
    BY <1>0, <2>1, <2>3 DEF ThrownByRun
<1>3. ASSUME NEW w \in Workers, RunReturns(w) \/ RejectLate(w) \/ WorkerFinish(w) \/ WorkerExit(w)
      PROVE  ThrownByRun'
  <2>1. UNCHANGED <<started, thrown>>
    BY ZenonT(30), <1>3 DEF RunReturns, RejectLate, WorkerFinish, WorkerExit, taskVars, replyVars
  <2>2. \A v \in Workers : workerPc'[v] \in {"run", "late"} =>
          workerPc[v] \in {"run", "late"} /\ workerTask'[v] = workerTask[v]
    BY <1>0, <1>3 DEF RunReturns, RejectLate, WorkerFinish, WorkerExit
  <2> QED
    BY <2>1, <2>2 DEF ThrownByRun
<1>4. CASE UNCHANGED <<started, workerPc, workerTask, thrown>>
  BY ZenonT(30), <1>4 DEF ThrownByRun
<1> QED
  BY ZenonT(60), <1>1, <1>2, <1>3, <1>4
  DEF NetNext, NetClientStep, WorkerStep, TimerStep, ReplyStep, RunEnds, Submit, SubmitSpent,
      SubmitRejected, Cancel, Stop, StopClear, WorkerSleep, WorkerDrop, TimerExit, TimerSleep,
      TimerSkip, TimerFire, TimerReject, CancelReject, StopReject, Tick, Wakes, TimerWakes, vars,
      taskVars, workerVars, replyVars

-----------------------------------------------------------------------------
(* Deadlines and wake-ups *)

\* Every step keeps the deadlines the timer watches.
LEMMA DeadlineNext ==
  ASSUME IInv, [NetNext]_vars
  PROVE  DeadlineInv'
<1> USE DEF IInv
<1>1. ASSUME NEW k \in Keys, NEW bytes \in Sizes, NEW d \in 0..MaxTime, Submit(k, bytes, d)
      PROVE  DeadlineInv'
  BY <1>1 DEF Submit, DeadlineInv, stopped, stopVars
<1>2. ASSUME NEW w \in Workers, WorkerTake(w)
      PROVE  DeadlineInv'
  <2>1. UNCHANGED <<tasks, deadlines, stopPc>> /\ failed \subseteq failed'
    BY ZenonT(30), <1>2 DEF WorkerTake, stopVars
  <2>2. QED BY <2>1 DEF DeadlineInv, stopped
<1>3. ASSUME NEW w \in Workers, WorkerFinish(w)
      PROVE  DeadlineInv'
  <2>1. /\ UNCHANGED <<failed, stopPc>> /\ tasks' = tasks \ {workerTask[w]}
        /\ deadlines' = deadlines \ {workerTask[w]}
    BY ZenonT(30), <1>3 DEF WorkerFinish, stopVars
  <2>2. QED BY <2>1 DEF DeadlineInv, stopped
<1>4. ASSUME NEW t \in Ids, Cancel(t) \/ TimerFire(t)
      PROVE  DeadlineInv'
  <2>1. PICK e \in Nat, c \in Nat : Fail(t, e, c)
    BY <1>4 DEF Cancel, TimerFire
  <2>2. /\ failed' = failed \cup {t} /\ deadlines' = deadlines \ {t}
        /\ tasks' \in {tasks, tasks \ {t}}
    BY <2>1 DEF Fail, releaseQueued
  <2>3. stopPc' = stopPc
    BY ZenonT(30), <1>4 DEF Cancel, TimerFire, stopVars
  <2>4. QED BY <2>2, <2>3 DEF DeadlineInv, stopped
<1>5. ASSUME NEW t \in Ids, TimerSkip(t)
      PROVE  DeadlineInv'
  BY ZenonT(30), <1>5 DEF TimerSkip, DeadlineInv, stopped, stopVars
<1>6. CASE Stop \/ StopClear
  BY <1>6 DEF Stop, StopClear, DeadlineInv, stopped
<1>7. CASE UNCHANGED <<tasks, failed, deadlines, stopPc>>
  BY <1>7 DEF DeadlineInv, stopped
<1>8. QED
  BY ZenonT(30), <1>1, <1>2, <1>3, <1>4, <1>5, <1>6, <1>7
  DEF NetNext, NetClientStep, WorkerStep, TimerStep, ReplyStep, SubmitSpent, SubmitRejected,
      WorkerSleep, WorkerExit, WorkerDrop, RunEnds, RunReturns, RunThrows, RejectLate, TimerExit, TimerSleep, TimerReject,
      CancelReject, StopReject, Tick, Wakes, TimerWakes, vars, taskVars, stopVars

\* No worker sleeps beside a runnable lane, nor the timer past a deadline.
LEMMA WakeNext ==
  ASSUME IInv, [NetNext]_vars
  PROVE  WakeInv'
<1> USE DEF IInv
<1>0. /\ asleep \subseteq Workers \cup {Timer} /\ Timer \notin Workers
      /\ deadlines \subseteq DOMAIN work /\ timerWake \in Int
      /\ \A t \in DOMAIN work : work[t].deadline \in 0..MaxTime
  BY LimitsAssumption, WorkParts DEF Typed, Forever
<1>1. CASE asleep' = {}
  BY <1>1 DEF WakeInv
<1>2. ASSUME NEW k \in Keys, NEW bytes \in Sizes, NEW d \in 0..MaxTime, SubmitSpent(k, bytes, d)
      PROVE  WakeInv'
  <2> DEFINE r == [key |-> k, charge |-> Charge(bytes), deadline |-> d]
  <2>1. r \in Work
    BY SubmittedWork
  <2>2. work' = Append(work, r) /\ Len(work) < MaxTasks
    BY <1>2 DEF SubmitSpent
  <2> HIDE DEF r
  <2>3. \A t \in deadlines : work'[t] = work[t]
    BY <1>0, <2>1, <2>2, NewTicket DEF Typed
  <2>4. UNCHANGED <<asleep, timerWake, deadlines, runnable, stopPc>>
    BY <1>2 DEF SubmitSpent, sleepVars, stopVars
  <2>5. QED BY <2>3, <2>4 DEF WakeInv, stopped
<1>3. ASSUME NEW w \in Workers, WorkerSleep(w)
      PROVE  WakeInv'
  BY ZenonT(30), <1>0, <1>3 DEF WorkerSleep, WakeInv, stopped, stopVars, taskVars, queueVars
<1>4. ASSUME NEW w \in Workers, WorkerDrop(w) \/ WorkerTake(w)
      PROVE  WakeInv'
  <2>1. UNCHANGED <<asleep, timerWake, work, deadlines, stopPc>> /\ runnable # <<>>
    BY ZenonT(30), <1>4 DEF WorkerDrop, WorkerTake, HasToken, sleepVars, taskVars, stopVars
  <2>2. QED BY <2>1 DEF WakeInv, stopped
<1>5. ASSUME NEW w \in Workers, WorkerFinish(w)
      PROVE  WakeInv'
  <2>1. CASE runnable' # runnable
    BY ZenonT(30), <1>1, <1>5, <2>1 DEF WorkerFinish, LaneDone, notify_all
  <2>2. CASE runnable' = runnable
    <3>1. UNCHANGED <<asleep, timerWake, runnable, work, stopPc>> /\ deadlines' \subseteq deadlines
      BY ZenonT(30), <1>5, <2>2 DEF WorkerFinish, LaneDone, sleepVars, stopVars
    <3>2. QED BY <3>1 DEF WakeInv, stopped
  <2>3. QED BY <2>1, <2>2
<1>6. CASE TimerSleep
  <2>1. /\ stopPc = "open" /\ asleep' = asleep \cup {Timer}
        /\ UNCHANGED <<runnable, work, deadlines, stopPc>>
    BY ZenonT(30), <1>6 DEF TimerSleep, stopped, taskVars, queueVars, stopVars
  <2>2. \A t \in deadlines : timerWake' <= work[t].deadline
    <3>1. CASE deadlines = {}
      BY <3>1
    <3>2. CASE \E t \in deadlines : FirstDeadline(t) /\ timerWake' = work[t].deadline
      <4>1. PICK t \in deadlines : FirstDeadline(t) /\ timerWake' = work[t].deadline
        BY <3>2
      <4>2. \A u \in deadlines : work[u].deadline \in Int /\ work[t].deadline \in Int
        BY <1>0
      <4>3. QED BY <4>1, <4>2 DEF FirstDeadline
    <3>3. QED BY <1>6, <3>1, <3>2 DEF TimerSleep
  <2>3. QED BY ZenonT(30), <1>0, <2>1, <2>2 DEF WakeInv, stopped
<1>7. ASSUME NEW t \in Ids, TimerFire(t) \/ TimerSkip(t)
      PROVE  WakeInv'
  <2>1. UNCHANGED <<asleep, timerWake, runnable, work, stopPc>> /\ deadlines' \subseteq deadlines
    BY <1>7 DEF TimerFire, TimerSkip, Fail, sleepVars, stopVars, queueVars
  <2>2. QED BY <2>1 DEF WakeInv, stopped
<1>8. CASE StopClear
  BY <1>8 DEF StopClear, WakeInv, stopped, sleepVars
<1>9. ASSUME NEW x \in Workers \cup {Timer}, Wakes(x)
      PROVE  WakeInv'
  BY <1>0, <1>9 DEF Wakes, WakeInv, stopped, taskVars, queueVars, stopVars
<1>10. CASE UNCHANGED <<asleep, timerWake, runnable, work, deadlines, stopPc>>
  BY <1>10 DEF WakeInv, stopped
<1>11. QED
  BY ZenonT(90), <1>1, <1>2, <1>3, <1>4, <1>5, <1>6, <1>7, <1>8, <1>9, <1>10
  DEF NetNext, NetClientStep, WorkerStep, TimerStep, ReplyStep, Submit, SubmitRejected, Cancel, Stop,
      notify_all, WorkerExit, RunEnds, RunReturns, RunThrows, RejectLate, TimerExit, TimerReject, CancelReject,
      StopReject, Tick, TimerWakes, vars, taskVars, queueVars, sleepVars, stopVars

-----------------------------------------------------------------------------
(* Theorems *)

\* A new queue satisfies the inductive invariant.
LEMMA InvInit == Init => IInv
<1> SUFFICES ASSUME Init PROVE IInv
  OBVIOUS
<1>1. Typed
  BY TypedInit
<1>2. LaneInv /\ TokenInv
  <2>1. /\ tasks = {} /\ started = {} /\ lanes = {} /\ laneActive = {} /\ laneReady = {}
        /\ runnable = <<>> /\ \A k \in Keys : laneQueue[k] = <<>>
    BY DEF Init
  <2>2. \A k \in Keys : DOMAIN laneQueue[k] = {}
    BY <2>1
  <2>3. LaneInv
    BY <2>1, <2>2 DEF LaneInv
  <2>4. Tokens
    BY <2>1 DEF Tokens
  <2>5. QED BY <2>1, <2>3, <2>4 DEF TokenInv
<1>3. Running = {} /\ OwedByWorkers = {} /\ OwedByTimer = {}
  BY ZenonT(30) DEF Init, Running, Busy, OwedByWorkers, OwedByTimer
<1>4. WorkerInv /\ FailInv /\ ThrownByRun
  BY <1>3 DEF Init, WorkerInv, OneActivePerKey, FailInv, ToldByOneThread, ThrownByRun
<1>5. DeadlineInv /\ WakeInv
  BY DEF Init, DeadlineInv, WakeInv
<1>6. QED
  BY <1>1, <1>2, <1>4, <1>5 DEF IInv

\* The inductive invariant holds in every state the queue can reach.
THEOREM Invariance == Spec => []IInv
<1>1. IInv /\ [Next]_vars => IInv'
  <2>1. IInv /\ [NetNext]_vars => IInv'
    BY TypedNext, LaneNext, TokenNext, WorkerNext, FailNext, ThrownNext, DeadlineNext, WakeNext
    DEF IInv
  <2> QED BY <2>1, NetStep
<1>2. QED
  BY InvInit, <1>1, PTL DEF Spec

\* Every variable keeps its type; a lane only ever points at resident tasks.
THEOREM TypeCorrect == Spec => []TypeOK
<1>1. IInv => TypeOK
  <2> SUFFICES ASSUME IInv PROVE TypeOK
    OBVIOUS
  <2>1. ASSUME NEW k \in Keys PROVE laneQueue[k] \in Seq(tasks)
    <3>1. laneQueue[k] \in Seq(Nat) /\ \A p \in DOMAIN laneQueue[k] : laneQueue[k][p] \in tasks
      BY DEF IInv, Typed, LaneInv
    <3>2. QED BY <3>1
  <2>2. QED BY <2>1 DEF IInv, Typed, TypeOK
<1>2. QED
  BY Invariance, <1>1, PTL

\* operation_queue.h:25: two workers never hold tasks of the same key.
THEOREM Exclusive == Spec => []OneActivePerKey
<1>1. IInv => OneActivePerKey
  BY ZenonT(30) DEF IInv, WorkerInv
<1>2. QED
  BY Invariance, <1>1, PTL

\* A deadline, cancel() or shutdown() reaches the client of a task by one fail() call of
\* one thread; the only other fail() call is that of a worker whose run() threw.
THEOREM FailedOnce == Spec => []WithdrawalToldOnce
<1>1. IInv => WithdrawalToldOnce
  BY DEF IInv, FailInv, WithdrawalToldOnce
<1>2. QED
  BY Invariance, <1>1, PTL

\* Every .at() and every erase() of the code finds what it looks for.
THEOREM Handles == Spec => []HandlesValid
<1>1. IInv => HandlesValid
  <2> SUFFICES ASSUME IInv PROVE HandlesValid
    OBVIOUS
  <2>1. \A w \in Running : workerTask[w] \in tasks /\ work[workerTask[w]].key \in lanes
    BY ZenonT(30) DEF IInv, WorkerInv, TokenInv
  <2>2. ASSUME NEW t \in tasks \ started
        PROVE  /\ work[t].key \in lanes
               /\ \E p \in DOMAIN laneQueue[work[t].key] : laneQueue[work[t].key][p] = t
    <3>1. PICK p \in DOMAIN laneQueue[work[t].key] : laneQueue[work[t].key][p] = t
      BY DEF IInv, LaneInv
    <3>2. work[t].key \in Keys
      BY WorkParts DEF IInv, Typed
    <3>3. laneQueue[work[t].key] # <<>>
      BY <3>1, <3>2
    <3>4. QED BY <3>1, <3>2, <3>3 DEF IInv, TokenInv
  <2>3. QED BY ZenonT(30), <2>1, <2>2 DEF IInv, LaneInv, TokenInv, DeadlineInv, HandlesValid
<1>2. QED
  BY Invariance, <1>1, PTL

\* No notification and no token is missing.
THEOREM Wakeups == Spec => []NoLostWakeup
<1>1. IInv => NoLostWakeup
  <2> SUFFICES ASSUME IInv PROVE NoLostWakeup
    OBVIOUS
  <2>1. ASSUME NEW k \in Keys, k \notin laneActive, laneQueue[k] # <<>>
        PROVE  \E p \in DOMAIN runnable : \A q \in DOMAIN runnable : runnable[q] = k <=> q = p
    <3>1. PICK p \in DOMAIN runnable : runnable[p] = k
      BY <2>1 DEF IInv, TokenInv, Tokens
    <3>2. QED BY <3>1 DEF IInv, TokenInv, Tokens
  <2>2. QED BY <2>1 DEF IInv, WakeInv, NoLostWakeup
<1>2. QED
  BY Invariance, <1>1, PTL

-----------------------------------------------------------------------------
(* Order, and the refinement of SerialExecutor *)

\* The task a worker takes is the oldest resident task of a lane no worker serves.
LEMMA TakenTask ==
  ASSUME IInv, NEW w \in Workers, WorkerTake(w)
  PROVE  \E t \in tasks \ started :
           /\ started' = started \cup {t} /\ failed' \in {failed, failed \cup {t}}
           /\ t \notin failed /\ ~stopped
           /\ \A u \in tasks : work[u].key = work[t].key => u \notin started /\ t <= u
<1> USE DEF IInv
<1> DEFINE k == Head(runnable)
           t == Head(laneQueue[k])
<1>1. runnable # <<>> /\ laneQueue[k] # <<>> /\ ~stopped
  BY DEF WorkerTake, HasToken
<1>2. k \in Keys /\ laneQueue[k] \in Seq(Nat) /\ t \in tasks \ started /\ work[t].key = k
  BY <1>1, TokenHead
<1>3. t = laneQueue[k][1] /\ DOMAIN laneQueue[k] = 1..Len(laneQueue[k]) /\ Len(laneQueue[k]) \in Nat
      /\ 1 \in DOMAIN laneQueue[k]
  BY <1>1, <1>2
<1>4. k \in laneReady
  BY <1>1 DEF TokenInv, Tokens, Typed
<1>5. started' = started \cup {t} /\ failed' \in {failed, failed \cup {t}}
  BY DEF WorkerTake
<1> HIDE DEF k, t
<1>6. ASSUME NEW u \in tasks, work[u].key = k
      PROVE  u \notin started
  <2>1. ASSUME u \in started PROVE FALSE
    <3>1. PICK v \in Running : workerTask[v] = u
      BY <2>1 DEF WorkerInv
    <3>2. k \in laneActive
      BY <1>6, <3>1 DEF WorkerInv
    <3>3. QED BY <1>4, <3>2 DEF TokenInv
  <2>2. QED BY <2>1
<1>7. ASSUME NEW u \in tasks \ started, work[u].key = k
      PROVE  t <= u
  <2>1. PICK p \in DOMAIN laneQueue[k] : laneQueue[k][p] = u
    BY ZenonT(30), <1>7 DEF LaneInv
  <2>2. t \in Nat /\ u \in Nat /\ (p = 1 \/ 1 < p)
    BY <1>2, <1>3, <2>1
  <2>3. 1 < p => t < u
    BY <1>2, <1>3, <2>1 DEF LaneInv
  <2>4. CASE p = 1
    <3>1. u = t
      BY <1>3, <2>1, <2>4
    <3>2. QED BY <2>2, <3>1
  <2>5. QED BY <2>2, <2>3, <2>4
<1>8. t \notin failed
  BY ZenonT(30), <1>1, <1>2 DEF FailInv, stopped
<1>9. QED
  BY <1>1, <1>2, <1>5, <1>6, <1>7, <1>8

\* operation_queue.h:27: a task starts while the queue is open, before it fails,
\* and after every earlier task of its key has gone.
THEOREM InOrder == Spec => StartsInOrder
<1> DEFINE A == \A t \in started' \ started :
                  /\ ~stopped /\ t \notin failed
                  /\ \A u \in tasks : work[u].key = work[t].key => t <= u
<1>1. ASSUME IInv, [NetNext]_vars PROVE A
  <2>1. ASSUME NEW w \in Workers, WorkerTake(w) PROVE A
    BY <1>1, <2>1, TakenTask
  <2>2. CASE started' = started
    BY <2>2
  <2>3. QED
    BY ZenonT(60), <1>1, <2>1, <2>2
    DEF NetNext, NetClientStep, WorkerStep, TimerStep, ReplyStep, Submit, SubmitSpent, SubmitRejected,
        Cancel, Stop, WorkerSleep, WorkerExit, WorkerDrop, RunEnds, RunReturns, RunThrows, RejectLate, WorkerFinish,
        TimerExit, TimerSleep, TimerSkip, TimerFire, TimerReject, CancelReject, StopReject,
        StopClear, Tick, Wakes, TimerWakes, vars, taskVars
<1>2. IInv /\ [Next]_vars => [A]_vars
  BY <1>1, NetStep
<1>3. QED
  BY Invariance, <1>2, PTL DEF Spec, StartsInOrder

-----------------------------------------------------------------------------
(* Refinement *)

\* The tickets as SerialExecutor sees them.
keyOf == [t \in DOMAIN work |-> work[t].key]

\* A function on 1..n is a sequence of length n.
LEMMA FunctionIsSeq ==
  ASSUME NEW S, NEW n \in Nat, NEW f \in [1..n -> S]
  PROVE  f \in Seq(S) /\ Len(f) = n
OBVIOUS

\* submit() appends the key of the new ticket.
LEMMA NewKey ==
  ASSUME Typed, Len(work) < MaxTasks, NEW r \in Work, work' = Append(work, r)
  PROVE  keyOf' = Append(keyOf, r.key) /\ Len(keyOf) = Len(work)
<1>1. work \in Seq(Work) /\ Len(work) \in Nat /\ DOMAIN work = 1..Len(work)
  BY DEF Typed
<1>2. /\ DOMAIN work' = 1..Len(work) + 1 /\ work'[Len(work) + 1] = r
      /\ \A t \in 1..Len(work) : work'[t] = work[t]
  <2>1. /\ Append(work, r) \in Seq(Work) /\ Len(Append(work, r)) = Len(work) + 1
        /\ Append(work, r)[Len(work) + 1] = r
        /\ \A t \in 1..Len(work) : Append(work, r)[t] = work[t]
    BY <1>1, PushBackFacts
  <2>2. DOMAIN Append(work, r) = 1..Len(work) + 1
    BY <2>1
  <2>3. QED
    BY ZenonT(30), <2>1, <2>2
<1>3. r.key \in Keys /\ \A t \in 1..Len(work) : work[t].key \in Keys
  BY <1>1, WorkParts DEF Work
<1>4. keyOf \in Seq(Keys) /\ Len(keyOf) = Len(work) /\ \A t \in 1..Len(work) : keyOf[t] = work[t].key
  BY <1>1, <1>3 DEF keyOf
<1>5. /\ keyOf' \in Seq(Keys) /\ Len(keyOf') = Len(work) + 1
      /\ \A t \in 1..Len(work) + 1 : keyOf'[t] = work'[t].key
  <2>1. ASSUME NEW t \in 1..Len(work) + 1 PROVE work'[t].key \in Keys
    <3>1. CASE t \in 1..Len(work)
      BY <3>1, <1>2, <1>3
    <3>2. CASE t = Len(work) + 1
      BY <3>2, <1>2, <1>3
    <3>3. QED BY <3>1, <3>2, <1>1
  <2>2. keyOf' = [t \in 1..Len(work) + 1 |-> work'[t].key]
    BY <1>2 DEF keyOf
  <2>3. keyOf' \in [1..Len(work) + 1 -> Keys] /\ Len(work) + 1 \in Nat
    BY SMTT(30), <1>1, <2>1, <2>2
  <2>4. keyOf' \in Seq(Keys) /\ Len(keyOf') = Len(work) + 1
    BY <2>3, FunctionIsSeq
  <2>5. \A t \in 1..Len(work) + 1 : keyOf'[t] = work'[t].key
    BY <2>2
  <2>6. QED BY <2>4, <2>5
<1>6. /\ Append(keyOf, r.key) \in Seq(Keys) /\ Len(Append(keyOf, r.key)) = Len(work) + 1
      /\ \A t \in 1..Len(work) : Append(keyOf, r.key)[t] = keyOf[t]
      /\ Append(keyOf, r.key)[Len(work) + 1] = r.key
  BY <1>3, <1>4, PushBackFacts
<1>7. \A t \in 1..Len(work) + 1 : keyOf'[t] = Append(keyOf, r.key)[t]
  <2>1. ASSUME NEW t \in 1..Len(work) + 1 PROVE keyOf'[t] = Append(keyOf, r.key)[t]
    <3>1. CASE t \in 1..Len(work)
      BY <3>1, <1>2, <1>4, <1>5, <1>6
    <3>2. CASE t = Len(work) + 1
      BY <3>2, <1>2, <1>5, <1>6
    <3>3. t \in 1..Len(work) \/ t = Len(work) + 1
      BY <1>1
    <3>4. QED BY ZenonT(30), <3>1, <3>2, <3>3
  <2>2. QED BY ZenonT(30), <2>1
<1>8. QED
  BY ZenonT(30), <1>4, <1>5, <1>6, <1>7, SequencesEqual

\* A new queue is a new executor.
LEMMA RefinesInit == Init => Executor!Init
BY DEF Init, Executor!Init, stopped

\* Every step of the queue is a step of the executor or none.
LEMMA RefinesNext ==
  ASSUME IInv, [NetNext]_vars
  PROVE  [Executor!Next]_(Executor!vars)
<1> USE DEF IInv
<1>0. tasks \subseteq DOMAIN work /\ started \subseteq DOMAIN work /\ DOMAIN keyOf = DOMAIN work
      /\ \A t \in DOMAIN work : keyOf[t] = work[t].key
  BY DEF Typed, keyOf
<1>1. ASSUME NEW k \in Keys, NEW bytes \in Sizes, NEW d \in 0..MaxTime, Submit(k, bytes, d)
      PROVE  Executor!Admit(k)
  <2> DEFINE r == [key |-> k, charge |-> Charge(bytes), deadline |-> d]
  <2>1. r \in Work /\ r.key = k
    BY SubmittedWork
  <2>2. work' = Append(work, r) /\ Len(work) < MaxTasks
    BY <1>1 DEF Submit
  <2> HIDE DEF r
  <2>3. keyOf' = Append(keyOf, k) /\ Len(keyOf) = Len(work)
    BY <2>1, <2>2, NewKey
  <2>4. Len(work) + 1 \notin started
    <3>1. Len(work) \in Nat /\ DOMAIN work = 1..Len(work)
      BY DEF Typed
    <3>2. Len(work) + 1 \notin 1..Len(work)
      BY <3>1
    <3> QED
      BY <1>0, <3>1, <3>2
  <2>5. /\ tasks' = tasks \cup {Len(work) + 1} /\ ~stopped
        /\ UNCHANGED <<started, failed, rejected, thrown, stopPc>>
    BY <1>1 DEF Submit, stopVars, replyVars
  <2>6. QED BY ZenonT(30), <2>3, <2>4, <2>5 DEF Executor!Admit, keyOf, stopped
<1>2. ASSUME NEW k \in Keys, NEW bytes \in Sizes, NEW d \in 0..MaxTime, SubmitSpent(k, bytes, d)
      PROVE  Executor!Spend(k)
  <2> DEFINE r == [key |-> k, charge |-> Charge(bytes), deadline |-> d]
  <2>1. r \in Work /\ r.key = k
    BY SubmittedWork
  <2>2. work' = Append(work, r) /\ Len(work) < MaxTasks
    BY <1>2 DEF SubmitSpent
  <2> HIDE DEF r
  <2>3. keyOf' = Append(keyOf, k)
    BY <2>1, <2>2, NewKey
  <2>4. ~stopped /\ UNCHANGED <<tasks, started, failed, rejected, thrown, stopPc>>
    BY <1>2 DEF SubmitSpent, stopVars, replyVars
  <2>5. QED BY ZenonT(30), <2>3, <2>4 DEF Executor!Spend, keyOf, stopped
<1>3. ASSUME NEW w \in Workers, WorkerTake(w)
      PROVE  \E t \in DOMAIN keyOf : Executor!Start(t)
  <2>1. PICK t \in tasks \ started :
           /\ started' = started \cup {t} /\ failed' \in {failed, failed \cup {t}}
           /\ t \notin failed /\ ~stopped
           /\ \A u \in tasks : work[u].key = work[t].key => u \notin started /\ t <= u
    BY <1>3, TakenTask
  <2>2. UNCHANGED <<work, tasks, rejected, thrown, stopPc>>
    BY ZenonT(30), <1>3 DEF WorkerTake, stopVars, replyVars
  <2>3. Executor!Start(t)
    BY <1>0, <2>1, <2>2 DEF Executor!Start, keyOf, stopped
  <2>4. QED BY ZenonT(30), <1>0, <2>1, <2>3
<1>4. ASSUME NEW w \in Workers, WorkerFinish(w)
      PROVE  \E t \in DOMAIN keyOf : Executor!Finish(t)
  <2>1. w \in Running
    BY <1>4 DEF WorkerFinish, Running, Busy
  <2>2. workerTask[w] \in tasks \cap started
    BY <2>1 DEF WorkerInv
  <2>3. tasks' = tasks \ {workerTask[w]} /\ UNCHANGED <<work, started, failed, rejected, thrown, stopPc>>
    BY <1>4 DEF WorkerFinish, stopVars, replyVars
  <2>4. QED BY <1>0, <2>2, <2>3 DEF Executor!Finish, keyOf, stopped
<1>5. ASSUME NEW t \in Ids, Cancel(t) \/ TimerFire(t)
      PROVE  t \in DOMAIN keyOf /\ Executor!Withdraw(t)
  <2>1. t \in tasks \ failed
    BY <1>5 DEF Cancel, Cancellable, TimerFire, DeadlineInv
  <2>2. PICK e \in Nat, c \in Nat : Fail(t, e, c)
    BY <1>5 DEF Cancel, TimerFire
  <2>3. UNCHANGED <<work, started, rejected, thrown, stopPc>>
    BY ZenonT(30), <1>5 DEF Cancel, TimerFire, stopVars, replyVars
  <2>4. failed' = failed \cup {t} /\ tasks' = IF t \in started THEN tasks ELSE tasks \ {t}
    BY <2>2 DEF Fail, releaseQueued
  <2>5. QED BY <1>0, <2>1, <2>3, <2>4 DEF Executor!Withdraw, keyOf, stopped
<1>6. ASSUME NEW t, t \in failed \ rejected, rejected' = rejected \cup {t},
             UNCHANGED <<work, tasks, started, failed, thrown, stopPc>>
      PROVE  t \in DOMAIN keyOf /\ Executor!Tell(t)
  BY <1>0, <1>6 DEF Executor!Tell, keyOf, stopped, Typed
<1>7. ASSUME NEW w \in Workers, RejectLate(w)
      PROVE  \E t \in DOMAIN keyOf : Executor!Tell(t)
  <2>1. workerTask[w] \in OwedByWorkers
    BY <1>7 DEF RejectLate, OwedByWorkers
  <2>2. workerTask[w] \in failed \ rejected
    BY <2>1 DEF FailInv, ToldByOneThread
  <2>3. QED BY ZenonT(30), <1>6, <1>7, <2>2 DEF RejectLate, taskVars, stopVars
<1>8. CASE TimerReject
  <2>1. timerTask \in failed \ rejected
    BY <1>8 DEF TimerReject, OwedByTimer, FailInv, ToldByOneThread
  <2>2. \E t \in DOMAIN keyOf : Executor!Tell(t)
    BY <1>6, <1>8, <2>1 DEF TimerReject, taskVars, stopVars
  <2>3. QED BY <2>2, <1>0 DEF Executor!Next, keyOf
<1>9. ASSUME NEW t \in Ids, CancelReject(t) \/ StopReject(t)
      PROVE  t \in DOMAIN keyOf /\ Executor!Tell(t)
  <2>1. t \in failed \ rejected
    BY <1>9 DEF CancelReject, StopReject, FailInv, ToldByOneThread
  <2>2. QED BY <1>6, <1>9, <2>1 DEF CancelReject, StopReject, taskVars, stopVars
<1>10. CASE Stop
  <2>1. Executor!Close
    BY <1>10 DEF Stop, Executor!Close, stopped, replyVars
  <2>2. QED BY <2>1 DEF Executor!Next
<1>11. CASE StopClear
  <2>1. Running = {}
    BY <1>11 DEF StopClear, Running, Busy
  <2>2. tasks \cap started = {}
    BY <2>1 DEF WorkerInv
  <2>3. Executor!Drop
    BY <1>11, <2>2 DEF StopClear, Executor!Drop, stopped, replyVars
  <2>4. QED BY <2>3 DEF Executor!Next
<1>12. ASSUME NEW w \in Workers, RunThrows(w)
       PROVE  \E t \in DOMAIN keyOf : Executor!Crash(t)
  <2>1. w \in Running /\ workerTask[w] \notin thrown
    BY <1>12 DEF RunThrows, Running, Busy, ThrownByRun
  <2>2. workerTask[w] \in tasks \cap started
    BY <2>1 DEF WorkerInv
  <2>3. /\ thrown' = thrown \cup {workerTask[w]}
        /\ UNCHANGED <<work, tasks, started, failed, rejected, stopPc>>
    BY ZenonT(30), <1>12 DEF RunThrows, taskVars, stopVars
  <2> QED BY <1>0, <2>1, <2>2, <2>3 DEF Executor!Crash, keyOf, stopped
<1>13. CASE UNCHANGED <<work, tasks, started, failed, rejected, thrown, stopPc>>
  BY <1>13 DEF Executor!vars, stopped
<1>14. QED
  BY ZenonT(30), <1>1, <1>2, <1>3, <1>4, <1>5, <1>7, <1>8, <1>9, <1>10, <1>11, <1>13, <1>12
  DEF NetNext, NetClientStep, WorkerStep, TimerStep, ReplyStep, SubmitRejected, WorkerSleep, WorkerExit,
      WorkerDrop, RunEnds, RunReturns, TimerExit, TimerSleep, TimerSkip, Tick, Wakes, TimerWakes, vars,
      taskVars, stopVars, replyVars, Executor!Next, keyOf

\* The queue, with its threads, lanes, tokens and condition variable, does nothing
\* that the per-key serial executor of operation_queue.h would not do.
THEOREM Refinement == Spec => ImplementsExecutor
<1>1. QED
  BY Invariance, RefinesInit, RefinesNext, NetStep, PTL DEF Spec, ImplementsExecutor, Executor!Spec

-----------------------------------------------------------------------------
(* The gauges *)

INSTANCE FiniteSetTheorems

\* The units a task has reserved.
LEMMA SizeOfPiece ==
  ASSUME NEW t, NEW n \in Nat
  PROVE  IsFiniteSet(Piece(t, n)) /\ Cardinality(Piece(t, n)) = n
<1>1. IsFiniteSet({t}) /\ Cardinality({t}) = 1
  BY FS_Singleton
<1>2. IsFiniteSet(1..n) /\ Cardinality(1..n) = n
  BY FS_Interval
<1> DEFINE S == {t}
           T == 1..n
<1> HIDE DEF S, T
<1>3. IsFiniteSet(S) /\ IsFiniteSet(T) /\ Cardinality(S) = 1 /\ Cardinality(T) = n
  BY <1>1, <1>2 DEF S, T
<1>4. IsFiniteSet(S \X T) /\ Cardinality(S \X T) = Cardinality(S) * Cardinality(T)
  BY <1>3, FS_Product
<1>5. Cardinality(S \X T) = n
  BY <1>3, <1>4
<1> QED
  BY <1>4, <1>5 DEF Piece, S, T

\* The facts on finite sets that the accounting rests on.
LEMMA CountingHolds == Counting
<1>1. IsFiniteSet({}) /\ Cardinality({}) = 0
  BY FS_EmptySet
<1>2. ASSUME NEW S, IsFiniteSet(S)
      PROVE  /\ Cardinality(S) \in Nat
             /\ \A x : x \notin S => Cardinality(S \cup {x}) = Cardinality(S) + 1
             /\ \A x \in S : Cardinality(S \ {x}) = Cardinality(S) - 1
             /\ \A T \in SUBSET S : IsFiniteSet(T)
  BY <1>2, FS_CardinalityType, FS_AddElement, FS_RemoveElement, FS_Subset
<1>3. \A n \in Nat : IsFiniteSet(1..n)
  BY FS_Interval
<1>4. \A t : \A n \in Nat : IsFiniteSet(Piece(t, n)) /\ Cardinality(Piece(t, n)) = n
  BY SizeOfPiece
<1>5. ASSUME NEW S, NEW T, IsFiniteSet(S), IsFiniteSet(T), S \cap T = {}
      PROVE  IsFiniteSet(S \cup T) /\ Cardinality(S \cup T) = Cardinality(S) + Cardinality(T)
  <2>1. IsFiniteSet(S \cup T) /\ Cardinality(S \cup T) = Cardinality(S) + Cardinality(T) - Cardinality(S \cap T)
    BY <1>5, FS_Union
  <2>2. Cardinality(S) \in Nat /\ Cardinality(T) \in Nat
    BY <1>5, FS_CardinalityType
  <2>3. Cardinality(S \cap T) = 0
    BY <1>1, <1>5
  <2>4. QED BY <2>1, <2>2, <2>3
<1>6. ASSUME NEW S, NEW T, IsFiniteSet(S), T \subseteq S
      PROVE  IsFiniteSet(S \ T) /\ Cardinality(S \ T) = Cardinality(S) - Cardinality(T)
  <2>1. IsFiniteSet(S \ T) /\ Cardinality(S \ T) = Cardinality(S) - Cardinality(S \cap T)
    BY <1>6, FS_Difference
  <2>2. S \cap T = T
    BY <1>6
  <2>3. QED BY <2>1, <2>2
<1>7. QED
  BY ZenonT(30), <1>1, <1>2, <1>3, <1>4, <1>5, <1>6 DEF Counting

\* operation_queue.cpp's stats() and limits: for every limit and every schedule the gauges
\* are the sizes of what they count, active tasks keep their bytes reserved, and
\* neither the bytes nor the lanes exceed their limit.
THEOREM Accounted == Spec => []Accounting
<1>1. Init => AccountInv
  <2> SUFFICES ASSUME Init PROVE AccountInv
    OBVIOUS
  <2>1. Running = {} /\ Reservation(tasks) = {}
    BY DEF Init, Running, Busy, Reservation
  <2>2. /\ counts["accepted"] = 0 /\ counts["completed"] = 0 /\ counts["queued"] = 0
        /\ counts["running"] = 0 /\ counts["residentBytes"] = 0 /\ counts["peakBytes"] = 0
    BY DEF Init, Stats
  <2>3. \A k \in Keys : Len(laneQueue[k]) <= QueuedPerKey
    BY LimitsAssumption DEF Init
  <2>4. IsFiniteSet({}) /\ Cardinality({}) = 0
    BY FS_EmptySet
  <2>5. tasks \ started = {} /\ failed \ (started \cup tasks) = {}
    BY DEF Init
  <2>6. /\ counts["residentBytes"] = Cardinality(Reservation(tasks)) /\ IsFiniteSet(Reservation(tasks))
        /\ counts["running"] = Cardinality(Running) /\ counts["queued"] = Cardinality(tasks \ started)
    BY <2>1, <2>2, <2>4, <2>5
  <2>7. counts["residentBytes"] <= counts["peakBytes"] /\ counts["peakBytes"] <= ResidentBytes
    BY <2>2, LimitsAssumption
  <2>8. counts["accepted"] = counts["completed"] + counts["queued"] + counts["running"]
                             + Cardinality(failed \ (started \cup tasks))
    BY <2>2, <2>4, <2>5
  <2> QED
    BY <2>3, <2>6, <2>7, <2>8 DEF AccountInv, Accounting
<1>2. IInv /\ AccountInv /\ [Next]_vars => AccountInv'
  BY NetStep, AccountNext, CountingHolds
<1>3. AccountInv => Accounting
  BY DEF AccountInv
<1> QED
  BY <1>1, <1>2, <1>3, Invariance, PTL DEF Spec
=============================================================================
