--------------------------- MODULE OperationQueue ---------------------------
(***************************************************************************)
(* The bounded executor of src/src/operation_queue.cpp: tasks wait in one  *)
(* FIFO lane per key, a fixed pool of workers serves the lanes through a   *)
(* queue of runnable keys, a timer thread fails tasks at their deadline,   *)
(* and clients cancel tasks or shut the queue down.  Every action below is *)
(* one critical section of Impl::mutex, or one call of run()/fail(), which *)
(* the code makes outside the lock.                                        *)
(*                                                                         *)
(* A lane that the map does not hold and a lane that is inactive, unready  *)
(* and empty have the same fields here; `lanes` tells them apart.          *)
(***************************************************************************)
EXTENDS Integers, Sequences, FiniteSets

CONSTANTS
  Keys,           \* canonical PV names (or served RPC names)
  Workers,        \* limits.workers worker threads
  Timer,          \* the thread that runs expire()
  Sizes,          \* the payload sizes a client may submit
  MinCharge,      \* 256 in the code: the least reservation of a task
  QueuedPerKey,   \* limits.queuedPerKey
  ResidentBytes,  \* limits.residentBytes
  MaxTasks,       \* bound: submissions that reach the admission step
  MaxRejected,    \* bound: submissions turned away
  MaxTime         \* bound: the last clock value

ASSUME LimitsAssumption ==
  /\ IsFiniteSet(Workers) /\ Timer \notin Workers
  /\ Sizes \subseteq Nat
  /\ MinCharge \in Nat \ {0} /\ QueuedPerKey \in Nat \ {0}
  /\ ResidentBytes \in Nat /\ ResidentBytes >= MinCharge
  /\ MaxTasks \in Nat /\ MaxRejected \in Nat /\ MaxTime \in Nat

VARIABLES
  now,         \* Clock::now()
  work,        \* work[id]: what was submitted under ticket id; nextId = Len(work)
  tasks,       \* the tickets indexed by `tasks`
  started,     \* Task::active: a worker took the task (the flag is never reset)
  failed,      \* Task::failed
  deadlines,   \* tickets with an entry in `deadlines`; the others have expiry = end()
  lanes,       \* the keys that have a Lane
  laneActive,  \* keys with Lane::active
  laneReady,   \* keys with Lane::ready
  laneQueue,   \* Lane::queue, by key
  runnable,    \* the deque of keys
  counts,      \* OperationQueueStats, by field name
  workerPc, workerTask,   \* where each worker is and the task it holds
  timerPc, timerTask,     \* the same for the timer
  asleep,      \* threads blocked on `changed`
  timerWake,   \* when a timer asleep in wait_until() wakes by itself
  stopPc, stopList,       \* stop(): its phase and the tasks it still has to reject
  cancelling,  \* tasks whose cancel() caller has not yet called fail()
  rejected,    \* tasks whose fail() was called for a deadline, cancel or stop
  thrown       \* tasks whose run() threw: fail() was called with the exception

queueVars == <<lanes, laneActive, laneReady, laneQueue, runnable>>
taskVars == <<work, tasks, started, failed, deadlines>>
workerVars == <<workerPc, workerTask>>
timerVars == <<timerPc, timerTask>>
sleepVars == <<asleep, timerWake>>
stopVars == <<stopPc, stopList>>
replyVars == <<cancelling, rejected, thrown>>
vars == <<now, taskVars, queueVars, counts, workerVars, timerVars, sleepVars,
          stopVars, replyVars>>

Ids == 1..MaxTasks
Forever == MaxTime + 1
Busy == {"run", "late", "done"}
stopped == stopPc # "open"

Work == [key : Keys, charge : Nat, deadline : 0..MaxTime]
Stats == {"accepted", "completed", "overloaded", "expired", "cancelled",
          "queued", "running", "residentBytes", "peakBytes"}

Init ==
  /\ now = 0 /\ work = <<>>
  /\ tasks = {} /\ started = {} /\ failed = {} /\ deadlines = {}
  /\ lanes = {} /\ laneActive = {} /\ laneReady = {} /\ runnable = <<>>
  /\ laneQueue = [k \in Keys |-> <<>>]
  /\ counts = [s \in Stats |-> 0]
  /\ workerPc = [w \in Workers |-> "wait"] /\ workerTask = [w \in Workers |-> 0]
  /\ timerPc = "loop" /\ timerTask = 0 /\ timerWake = Forever /\ asleep = {}
  /\ stopPc = "open" /\ stopList = {}
  /\ cancelling = {} /\ rejected = {} /\ thrown = {}

\* Mutant of notify_all: notify_one() in its place.
notify_one ==
  IF asleep = {} THEN UNCHANGED sleepVars
  ELSE \E x \in asleep : /\ asleep' = asleep \ {x}
                         /\ timerWake' = IF x = Timer THEN Forever ELSE timerWake

\* changed.notify_all(): every thread blocked on the condition variable wakes.
notify_all == asleep' = {} /\ timerWake' = Forever

-----------------------------------------------------------------------------
(* submit() *)

Charge(bytes) == IF bytes < MinCharge THEN MinCharge ELSE bytes

\* ready(): put the lane's key into runnable unless it is there already, the
\* lane is active or it has nothing queued.  `active` and `queue` are the lane
\* as its caller has just left it.
ready(k, active, queue) ==
  IF k \notin active /\ k \notin laneReady /\ queue # <<>>
  THEN runnable' = Append(runnable, k) /\ laneReady' = laneReady \cup {k}
  ELSE UNCHANGED <<runnable, laneReady>>

\* The test under which a lane is erased from the map.
Unused(k, queue) == k \notin laneActive /\ k \notin laneReady /\ queue = <<>>

Admits(k, bytes) ==
  /\ Len(laneQueue[k]) < QueuedPerKey
  /\ Charge(bytes) <= ResidentBytes - counts["residentBytes"]

Submit(k, bytes, d) ==
  LET id == Len(work) + 1
      used == counts["residentBytes"] + Charge(bytes)
  IN
  /\ ~stopped /\ now < d /\ Admits(k, bytes) /\ Len(work) < MaxTasks
  /\ work' = Append(work, [key |-> k, charge |-> Charge(bytes), deadline |-> d])
  /\ lanes' = lanes \cup {k}
  /\ laneQueue' = [laneQueue EXCEPT ![k] = Append(@, id)]
  /\ deadlines' = deadlines \cup {id}
  /\ tasks' = tasks \cup {id}
  /\ ready(k, laneActive, laneQueue'[k])
  /\ counts' = [counts EXCEPT !["accepted"] = @ + 1, !["queued"] = @ + 1, !["residentBytes"] = used,
                              !["peakBytes"] = IF @ < used THEN used ELSE @]
  /\ notify_all
  /\ UNCHANGED <<now, started, failed, laneActive, workerVars, timerVars, stopVars, replyVars>>

\* erase() of a position of a lane.
RemoveAt(s, p) == SubSeq(s, 1, p - 1) \o SubSeq(s, p + 1, Len(s))

\* Mutant of Undo: the catch block leaves the task in its lane.
UndoIndexes(k, id, queue, timed, indexed, queuedTask, timedTask) ==
  /\ tasks' = indexed \ {id}
  /\ deadlines' = IF timedTask THEN timed \ {id} ELSE timed
  /\ laneQueue' = [laneQueue EXCEPT ![k] = queue]
  /\ lanes' = IF Unused(k, laneQueue'[k]) THEN lanes \ {k} ELSE lanes \cup {k}

\* The catch block of submit(): `queue`, `timed` and `indexed` are the lane's queue,
\* `deadlines` and `tasks` as the try block left them, queuedTask and timedTask its
\* flags.  task->position is the end of the queue.
Undo(k, id, queue, timed, indexed, queuedTask, timedTask) ==
  /\ tasks' = indexed \ {id}
  /\ deadlines' = IF timedTask THEN timed \ {id} ELSE timed
  /\ laneQueue' = [laneQueue EXCEPT ![k] = IF queuedTask THEN RemoveAt(queue, Len(queue)) ELSE queue]
  /\ lanes' = IF Unused(k, laneQueue'[k]) THEN lanes \ {k} ELSE lanes \cup {k}

\* The statements of the try block that allocate, in order: push_back() on the
\* lane, deadlines.emplace(), tasks.emplace() and the push_back() of ready().
Allocations == 1..4

\* One of them throws: those before it took effect and the catch block undoes
\* them.  The ticket number is spent.
SubmitThrows(k, bytes, d, at) ==
  LET id == Len(work) + 1
      queue == IF at > 1 THEN Append(laneQueue[k], id) ELSE laneQueue[k]
      timed == IF at > 2 THEN deadlines \cup {id} ELSE deadlines
      indexed == IF at > 3 THEN tasks \cup {id} ELSE tasks
  IN
  /\ ~stopped /\ now < d /\ Admits(k, bytes) /\ Len(work) < MaxTasks
  /\ at = 4 => k \notin laneActive \cup laneReady
  /\ work' = Append(work, [key |-> k, charge |-> Charge(bytes), deadline |-> d])
  /\ Undo(k, id, queue, timed, indexed, at > 1, at > 2)
  /\ UNCHANGED <<now, started, failed, laneActive, laneReady, runnable, counts, workerVars,
                 timerVars, sleepVars, stopVars, replyVars>>

\* The rejected task was never shared, so its fail() call has no other effect
\* here.  A submission after stop() changes nothing at all and is a stutter.
SubmitRejected(k, bytes, d) ==
  /\ ~stopped
  /\ counts["expired"] + counts["overloaded"] < MaxRejected
  /\ \/ /\ d <= now
        /\ counts' = [counts EXCEPT !["expired"] = @ + 1]
     \/ /\ now < d /\ ~Admits(k, bytes)
        /\ counts' = [counts EXCEPT !["overloaded"] = @ + 1]
  /\ UNCHANGED <<now, taskVars, queueVars, workerVars, timerVars, sleepVars, stopVars, replyVars>>

-----------------------------------------------------------------------------
(* worker() *)

Awake(w) == workerPc[w] = "wait" /\ w \notin asleep

HasToken(w) == Awake(w) /\ ~stopped /\ runnable # <<>>

WorkerSleep(w) ==
  /\ Awake(w) /\ ~stopped /\ runnable = <<>>
  /\ asleep' = asleep \cup {w}
  /\ UNCHANGED <<now, taskVars, queueVars, counts, workerVars, timerVars, timerWake, stopVars,
                 replyVars>>

WorkerExit(w) ==
  /\ Awake(w) /\ stopped
  /\ workerPc' = [workerPc EXCEPT ![w] = "exit"]
  /\ UNCHANGED <<now, taskVars, queueVars, counts, workerTask, timerVars, sleepVars, stopVars,
                 replyVars>>

\* The token's lane has nothing queued any more: consume the token.
WorkerDrop(w) ==
  LET k == Head(runnable) IN
  /\ HasToken(w)
  /\ laneQueue[k] = <<>>
  /\ runnable' = Tail(runnable)
  /\ laneReady' = laneReady \ {k}
  /\ lanes' = IF k \in laneActive THEN lanes ELSE lanes \ {k}
  /\ UNCHANGED <<now, taskVars, laneActive, laneQueue, counts, workerVars, timerVars,
                 sleepVars, stopVars, replyVars>>

WorkerTake(w) ==
  LET k == Head(runnable)
      t == Head(laneQueue[k])
      late == work[t].deadline <= now
  IN
  /\ HasToken(w)
  /\ laneQueue[k] # <<>>
  /\ runnable' = Tail(runnable)
  /\ laneReady' = laneReady \ {k}
  /\ laneQueue' = [laneQueue EXCEPT ![k] = Tail(@)]
  /\ laneActive' = laneActive \cup {k}
  /\ started' = started \cup {t}
  /\ failed' = IF late THEN failed \cup {t} ELSE failed
  /\ counts' = [counts EXCEPT !["queued"] = @ - 1, !["running"] = @ + 1,
                              !["expired"] = IF late THEN @ + 1 ELSE @]
  /\ workerPc' = [workerPc EXCEPT ![w] = IF late THEN "late" ELSE "run"]
  /\ workerTask' = [workerTask EXCEPT ![w] = t]
  /\ UNCHANGED <<now, work, tasks, deadlines, lanes, timerVars, sleepVars, stopVars, replyVars>>

\* run() returns.
RunReturns(w) ==
  /\ workerPc[w] = "run"
  /\ workerPc' = [workerPc EXCEPT ![w] = "done"]
  /\ UNCHANGED <<now, taskVars, queueVars, counts, workerTask, timerVars, sleepVars, stopVars,
                 replyVars>>

\* run() throws and the worker calls fail() with the exception, whether or not the
\* task was failed while it ran.
RunThrows(w) ==
  /\ workerPc[w] = "run"
  /\ workerPc' = [workerPc EXCEPT ![w] = "done"]
  /\ thrown' = thrown \cup {workerTask[w]}
  /\ UNCHANGED <<now, taskVars, queueVars, counts, workerTask, timerVars, sleepVars, stopVars,
                 cancelling, rejected>>

RunEnds(w) == RunReturns(w) \/ RunThrows(w)

\* The task was past its deadline when it was taken: fail() instead of run().
RejectLate(w) ==
  /\ workerPc[w] = "late"
  /\ workerPc' = [workerPc EXCEPT ![w] = "done"]
  /\ rejected' = rejected \cup {workerTask[w]}
  /\ UNCHANGED <<now, taskVars, queueVars, counts, workerTask, timerVars, sleepVars, stopVars,
                 cancelling, thrown>>

\* Mutant of LaneDone: the lane is not made ready again.
LaneDoneNotReady(k) ==
  /\ laneActive' = laneActive \ {k}
  /\ lanes' = IF laneQueue[k] = <<>> THEN lanes \ {k} ELSE lanes
  /\ UNCHANGED <<runnable, laneReady, sleepVars>>

LaneDone(k) ==
  /\ laneActive' = laneActive \ {k}
  /\ lanes' = IF laneQueue[k] = <<>> THEN lanes \ {k} ELSE lanes
  /\ ready(k, laneActive', laneQueue[k])
  /\ IF runnable' = runnable THEN UNCHANGED sleepVars ELSE notify_all

WorkerFinish(w) ==
  LET t == workerTask[w] IN
  /\ workerPc[w] = "done"
  /\ workerPc' = [workerPc EXCEPT ![w] = "wait"]
  /\ workerTask' = [workerTask EXCEPT ![w] = 0]
  /\ deadlines' = deadlines \ {t}
  /\ tasks' = tasks \ {t}
  /\ counts' = [counts EXCEPT !["running"] = @ - 1, !["residentBytes"] = @ - work[t].charge,
                              !["completed"] = @ + 1]
  /\ LaneDone(work[t].key)
  /\ UNCHANGED <<now, work, started, failed, laneQueue, timerVars, stopVars, replyVars>>

-----------------------------------------------------------------------------
(* expire(), cancel() and stop() *)

\* deadlines.begin(): earliest deadline, in order of insertion among equals.
FirstDeadline(t) ==
  \A u \in deadlines : \/ work[t].deadline < work[u].deadline
                       \/ work[t].deadline = work[u].deadline /\ t <= u

\* Mutant of releaseQueued: a lane whose token is still in runnable is erased.
releaseAndEraseReady(t) ==
  LET k == work[t].key IN
  /\ \E p \in DOMAIN laneQueue[k] :
       laneQueue[k][p] = t /\ laneQueue' = [laneQueue EXCEPT ![k] = RemoveAt(@, p)]
  /\ tasks' = tasks \ {t}
  /\ lanes' = IF k \notin laneActive /\ laneQueue'[k] = <<>> THEN lanes \ {k} ELSE lanes

\* Take a queued task out of its lane.  A lane whose token is still in runnable
\* stays for the worker that consumes the token.
releaseQueued(t) ==
  LET k == work[t].key IN
  /\ \E p \in DOMAIN laneQueue[k] :
       laneQueue[k][p] = t /\ laneQueue' = [laneQueue EXCEPT ![k] = RemoveAt(@, p)]
  /\ tasks' = tasks \ {t}
  /\ lanes' = IF Unused(k, laneQueue'[k]) THEN lanes \ {k} ELSE lanes

\* Mutant of Fail: an active task gives its reservation back while run() goes on.
FailReleasesActive(t, expired, cancelled) ==
  /\ failed' = failed \cup {t}
  /\ deadlines' = deadlines \ {t}
  /\ counts' = [counts EXCEPT !["expired"] = @ + expired, !["cancelled"] = @ + cancelled,
                              !["queued"] = IF t \in started THEN @ ELSE @ - 1,
                              !["residentBytes"] = @ - work[t].charge]
  /\ IF t \in started THEN tasks' = tasks \ {t} /\ UNCHANGED <<laneQueue, lanes>>
     ELSE releaseQueued(t)

\* The common part of expire() and cancel(): the task fails, is counted and loses
\* its deadline; a queued one is released, an active one keeps lane and memory.
Fail(t, expired, cancelled) ==
  /\ failed' = failed \cup {t}
  /\ deadlines' = deadlines \ {t}
  /\ counts' = [counts EXCEPT !["expired"] = @ + expired, !["cancelled"] = @ + cancelled,
                              !["queued"] = IF t \in started THEN @ ELSE @ - 1,
                              !["residentBytes"] = IF t \in started THEN @ ELSE @ - work[t].charge]
  /\ IF t \in started THEN UNCHANGED <<laneQueue, tasks, lanes>> ELSE releaseQueued(t)

TimerAwake == timerPc = "loop" /\ Timer \notin asleep

TimerExit ==
  /\ TimerAwake /\ stopped
  /\ timerPc' = "exit"
  /\ UNCHANGED <<now, taskVars, queueVars, counts, workerVars, timerTask, sleepVars, stopVars, replyVars>>

TimerSleep ==
  /\ TimerAwake /\ ~stopped
  /\ \/ deadlines = {} /\ timerWake' = Forever
     \/ \E t \in deadlines : /\ FirstDeadline(t) /\ now < work[t].deadline
                             /\ timerWake' = work[t].deadline
  /\ asleep' = asleep \cup {Timer}
  /\ UNCHANGED <<now, taskVars, queueVars, counts, workerVars, timerVars, stopVars, replyVars>>

\* An active task that failed already is no longer timed.
TimerSkip(t) ==
  /\ TimerAwake /\ ~stopped /\ t \in deadlines /\ FirstDeadline(t) /\ work[t].deadline <= now
  /\ t \in failed
  /\ deadlines' = deadlines \ {t}
  /\ UNCHANGED <<now, work, tasks, started, failed, queueVars, counts, workerVars, timerVars,
                 sleepVars, stopVars, replyVars>>

TimerFire(t) ==
  /\ TimerAwake /\ ~stopped /\ t \in deadlines /\ FirstDeadline(t) /\ work[t].deadline <= now
  /\ t \notin failed
  /\ Fail(t, 1, 0)
  /\ timerPc' = "firing" /\ timerTask' = t
  /\ UNCHANGED <<now, work, started, laneActive, laneReady, runnable, workerVars, sleepVars,
                 stopVars, replyVars>>

TimerReject ==
  /\ timerPc = "firing"
  /\ timerPc' = "loop" /\ timerTask' = 0
  /\ rejected' = rejected \cup {timerTask}
  /\ UNCHANGED <<now, taskVars, queueVars, counts, workerVars, sleepVars, stopVars, cancelling,
                 thrown>>

\* Mutant of Cancellable: a task that failed already is cancelled again.
Indexed(t) == t \in tasks

Cancellable(t) == t \in tasks /\ t \notin failed

Cancel(t) ==
  /\ Cancellable(t)
  /\ Fail(t, 0, 1)
  /\ cancelling' = cancelling \cup {t}
  /\ notify_all
  /\ UNCHANGED <<now, work, started, laneActive, laneReady, runnable, workerVars, timerVars,
                 stopVars, rejected, thrown>>

CancelReject(t) ==
  /\ t \in cancelling
  /\ cancelling' = cancelling \ {t}
  /\ rejected' = rejected \cup {t}
  /\ UNCHANGED <<now, taskVars, queueVars, counts, workerVars, timerVars, sleepVars, stopVars,
                 thrown>>

Stop ==
  /\ ~stopped
  /\ stopPc' = "reject"
  /\ stopList' = tasks \ failed
  /\ failed' = failed \cup tasks
  /\ notify_all
  /\ UNCHANGED <<now, work, tasks, started, deadlines, queueVars, counts, workerVars, timerVars,
                 replyVars>>

StopReject(t) ==
  /\ stopPc = "reject" /\ t \in stopList
  /\ stopList' = stopList \ {t}
  /\ rejected' = rejected \cup {t}
  /\ UNCHANGED <<now, taskVars, queueVars, counts, workerVars, timerVars, sleepVars, stopPc,
                 cancelling, thrown>>

\* Every thread has been joined: drop what is left.
StopClear ==
  /\ stopPc = "reject" /\ stopList = {}
  /\ \A w \in Workers : workerPc[w] = "exit"
  /\ timerPc = "exit"
  /\ stopPc' = "closed"
  /\ tasks' = {} /\ deadlines' = {}
  /\ lanes' = {} /\ laneActive' = {} /\ laneReady' = {} /\ runnable' = <<>>
  /\ laneQueue' = [k \in Keys |-> <<>>]
  /\ counts' = [counts EXCEPT !["queued"] = 0, !["running"] = 0, !["residentBytes"] = 0]
  /\ UNCHANGED <<now, work, started, failed, workerVars, timerVars, sleepVars, stopList, replyVars>>

\* The clock moves.
Tick ==
  /\ now < MaxTime
  /\ now' = now + 1
  /\ UNCHANGED <<taskVars, queueVars, counts, workerVars, timerVars, sleepVars, stopVars, replyVars>>

\* A thread returns from its wait without a notification: the timer because its
\* wait_until() has timed out, any thread because a condition variable may do so.
Wakes(thread) ==
  /\ thread \in asleep
  /\ asleep' = asleep \ {thread}
  /\ timerWake' = IF thread = Timer THEN Forever ELSE timerWake
  /\ UNCHANGED <<now, taskVars, queueVars, counts, workerVars, timerVars, stopVars, replyVars>>

TimerWakes == timerWake <= now /\ Wakes(Timer)

-----------------------------------------------------------------------------
ClientStep ==
  \/ \E k \in Keys, bytes \in Sizes, d \in 0..MaxTime :
       \/ Submit(k, bytes, d) \/ SubmitRejected(k, bytes, d)
       \/ \E at \in Allocations : SubmitThrows(k, bytes, d, at)
  \/ \E t \in Ids : Cancel(t)
  \/ Stop

WorkerStep(w) ==
  \/ WorkerSleep(w) \/ WorkerExit(w) \/ WorkerDrop(w) \/ WorkerTake(w)
  \/ RejectLate(w) \/ WorkerFinish(w)

TimerStep ==
  \/ TimerExit \/ TimerSleep \/ TimerReject \/ TimerWakes
  \/ \E t \in Ids : TimerSkip(t) \/ TimerFire(t)

ReplyStep == \E t \in Ids : CancelReject(t) \/ StopReject(t)

Next ==
  \/ ClientStep \/ TimerStep \/ ReplyStep \/ StopClear \/ Tick
  \/ \E w \in Workers : WorkerStep(w) \/ RunEnds(w)
  \/ \E thread \in Workers \cup {Timer} : Wakes(thread)

Spec == Init /\ [][Next]_vars

\* The threads of the queue and the callers of cancel() and stop() keep running;
\* nothing is assumed of clients, nor that run() ever returns.
ThreadFairness ==
  /\ \A w \in Workers : WF_vars(WorkerStep(w))
  /\ WF_vars(TimerStep)
  /\ WF_vars(StopClear \/ \E t \in Ids : StopReject(t))
  /\ WF_vars(\E t \in Ids : CancelReject(t))

FairSpec == Spec /\ ThreadFairness

-----------------------------------------------------------------------------
(* Properties *)

\* Every variable keeps the shape of its C++ counterpart.
TypeOK ==
  /\ now \in 0..MaxTime /\ work \in Seq(Work) /\ Len(work) <= MaxTasks
  /\ tasks \subseteq DOMAIN work /\ started \subseteq DOMAIN work
  /\ failed \subseteq DOMAIN work /\ deadlines \subseteq DOMAIN work
  /\ lanes \subseteq Keys /\ laneActive \subseteq Keys /\ laneReady \subseteq Keys
  /\ laneQueue \in [Keys -> Seq(tasks)] /\ runnable \in Seq(Keys)
  /\ counts \in [Stats -> Int]
  /\ workerPc \in [Workers -> Busy \cup {"wait", "exit"}]
  /\ workerTask \in [Workers -> Nat]
  /\ timerPc \in {"loop", "firing", "exit"} /\ timerTask \in Nat
  /\ timerWake \in 0..Forever /\ asleep \subseteq Workers \cup {Timer}
  /\ stopPc \in {"open", "reject", "closed"} /\ stopList \subseteq DOMAIN work
  /\ cancelling \subseteq DOMAIN work /\ rejected \subseteq DOMAIN work
  /\ thrown \subseteq DOMAIN work

Running == {w \in Workers : workerPc[w] \in Busy}

\* operation_queue.h:25: at most one task of a key is with a worker, even while
\* that task is being cancelled, has expired or the queue is stopping.
OneActivePerKey ==
  \A v, w \in Running : v # w => work[workerTask[v]].key # work[workerTask[w]].key

\* The unchecked accesses of the code are in range: lanes.at() in the last block
\* of worker() and in releaseQueued(), tasks.at() in expire(), and the erasures
\* through Task::position and through the Task::expiry of a task not yet failed.
\* No lane outlives its use.
HandlesValid ==
  /\ \A w \in Running : workerTask[w] \in tasks /\ work[workerTask[w]].key \in lanes
  /\ deadlines \subseteq tasks
  /\ ~stopped => tasks \ failed \subseteq deadlines
  /\ \A t \in tasks \ started :
       /\ work[t].key \in lanes
       /\ \E p \in DOMAIN laneQueue[work[t].key] : laneQueue[work[t].key][p] = t
  /\ \A k \in Keys : \A p \in DOMAIN laneQueue[k] : laneQueue[k][p] \in tasks \ started
  /\ lanes = laneActive \cup laneReady \cup {k \in Keys : laneQueue[k] # <<>>}

\* A worker asleep has nothing to do, a lane with work that no worker serves has
\* exactly one token, and a sleeping timer wakes no later than any deadline: no
\* notify_all() or ready() is missing.
NoLostWakeup ==
  /\ asleep # {} => ~stopped
  /\ asleep \cap Workers # {} => runnable = <<>>
  /\ \A k \in Keys : k \notin laneActive /\ laneQueue[k] # <<>> =>
       \E p \in DOMAIN runnable : \A q \in DOMAIN runnable : runnable[q] = k <=> q = p
  /\ Timer \in asleep => \A t \in deadlines : timerWake <= work[t].deadline

\* The callbacks a failed task is still owed, one set per thread that owes it.
OwedByWorkers == {workerTask[w] : w \in {v \in Workers : workerPc[v] = "late"}}
OwedByTimer == IF timerPc = "firing" THEN {timerTask} ELSE {}

\* A failed task is owed its fail() call by one thread, or was given it.
ToldByOneThread ==
  /\ failed = OwedByWorkers \cup OwedByTimer \cup cancelling \cup stopList \cup rejected
  /\ rejected \cap (OwedByWorkers \cup OwedByTimer \cup cancelling \cup stopList) = {}
  /\ OwedByWorkers \cap (OwedByTimer \cup cancelling \cup stopList) = {}
  /\ OwedByTimer \cap (cancelling \cup stopList) = {}
  /\ cancelling \cap stopList = {}

\* Only a task that ran is told of an exception, when its run() is over.
ThrownByRun ==
  /\ thrown \subseteq started
  /\ \A w \in Workers : workerPc[w] \in {"run", "late"} => workerTask[w] \notin thrown

\* Whatever races (deadline, cancel, shutdown, a worker that finds the task late),
\* one thread and only one tells the client of it, once.  The only other fail() is
\* the worker's own for a run() that threw: the worker does not look at
\* Task::failed, so a task withdrawn while it ran may be failed twice, a task that
\* never ran may not, and no run() is reported twice.
WithdrawalToldOnce == ToldByOneThread /\ ThrownByRun

\* The bytes a set of tasks has reserved, as a set of pairs <<task, unit>>.
Reservation(T) == UNION {{t} \X (1..work[t].charge) : t \in T}

\* The gauges agree with the tasks they count, active tasks keep their bytes
\* reserved, and neither limit is ever exceeded (no size_t wraps below zero).
Accounting ==
  /\ counts["residentBytes"] = Cardinality(Reservation(tasks))
  /\ counts["residentBytes"] <= counts["peakBytes"] /\ counts["peakBytes"] <= ResidentBytes
  /\ counts["running"] = Cardinality(Running)
  /\ counts["queued"] = Cardinality(tasks \ started)
  /\ \A k \in Keys : Len(laneQueue[k]) <= QueuedPerKey
  /\ stopPc # "closed" =>
       counts["accepted"] = counts["completed"] + counts["queued"] + counts["running"]
                           + Cardinality(failed \ (started \cup tasks))

\* operation_queue.h:27: a task starts only while the queue is open, not after it
\* failed, and never overtakes an earlier task of its key that is still resident.
StartsInOrder ==
  [][\A t \in started' \ started :
       /\ ~stopped /\ t \notin failed
       /\ \A u \in tasks : work[u].key = work[t].key => t <= u]_vars

\* The queue implements the per-key serial executor its clients rely on.
Executor == INSTANCE SerialExecutor
  WITH keyOf <- [t \in DOMAIN work |-> work[t].key],
       queued <- tasks \ started, active <- tasks \cap started,
       doomed <- failed, told <- rejected, crashed <- thrown, open <- ~stopped

ImplementsExecutor == Executor!Spec

\* The two assumptions under which liveness is stated, each without the other.
ClockRuns == WF_vars(Tick)
RunsReturn == \A w \in Workers : WF_vars(RunEnds(w))

\* operation_queue.h:26: "Deadlines/replies are independent of worker progress".
\* Even if run() never returns, every task ends or its client is told of a failure.
EveryTaskAnswered ==
  ClockRuns => \A t \in Ids : t \in tasks ~> t \in rejected \/ (t \in started /\ t \notin tasks)

\* stop() waits for nothing but the run() calls that are in progress.
StopCompletes ==
  (stopped /\ \A w \in Workers : workerPc[w] # "run") ~> stopPc = "closed"

\* With run() calls that return, every queued task is served without the help of
\* its deadline: no lane is forgotten.
EveryTaskServed == RunsReturn => \A t \in Ids : t \in tasks ~> t \notin tasks
=============================================================================
