---------------------------- MODULE PutDispatch ----------------------------
(***************************************************************************)
(* One client put on a typed PV, from the PVA callback to the answer:      *)
(* QueuedExec (include/redis_pvxs_ioc/queued_exec.h), and handlePut(),     *)
(* dispatchPut(), the confirmation of a write by a later sample, reload    *)
(* and retirement in TypedRuntime (src/src/runtime.cpp).  The operation    *)
(* queue underneath is the serial executor it was shown to implement, so   *)
(* this module composes with SerialExecutor and not with the threads of    *)
(* OperationQueue.                                                         *)
(*                                                                         *)
(* The actors are the PVA callback of each put, the peer that cancels it,  *)
(* the worker that runs it, the queue's threads, the Redis reader of the   *)
(* observed route, the reload thread and the health poll.  The runtime's   *)
(* mutex_ is held over more than one step only by a worker that is writing *)
(* to Redis; every other critical section is one action.                   *)
(***************************************************************************)
EXTENDS Integers, Sequences, FiniteSets

CONSTANTS
  PV,           \* the canonical name, the key of the operation queue
  Values,       \* served-unit values a client may put
  Offsets,      \* the offsets a reload may give the write transform
  MaxPuts,      \* bound: admitted puts
  Setups        \* the set-ups to consider, each with
                \*   confirm: "none", puts are unconfirmed and written to the read key;
                \*     "read" and "distinct", they are confirmed on the read route or on a
                \*     route of their own
                \*   puts, events, stream, epoch, source: bounds of admitted puts, of
                \*     "cancel", "expire", "stop" and "retire", of the length up to which
                \*     others add samples, of commandEpoch_ and of the reader's epoch

ASSUME PutAssumption ==
  /\ Values \subseteq Int /\ Offsets \subseteq Int /\ 0 \in Offsets
  /\ MaxPuts \in Nat
  /\ Setups \subseteq [confirm : {"none", "read", "distinct"}, puts : 0..MaxPuts,
                       events : SUBSET {"cancel", "expire", "stop", "retire"},
                       stream : Nat, epoch : Nat, source : Nat \ {0}]

VARIABLES
  keyOf, queued, active, doomed, told, crashed, open,   \* the operation queue (SerialExecutor)
  puts,          \* puts[p]: the value and the command epoch of ticket p
  expired,       \* puts whose total deadline has passed
  handler,       \* handlePut() after submit(): store the ticket, look at aborted_
  peer,          \* onCancel(): finish(), then cancel the ticket
  verdict,       \* how finish() was first called; "none" until then
  finishing,     \* the rest of that finish() call: wake the waiter, then answer
  wakes,         \* puts with a wake_ function
  pc,            \* dispatchPut()
  raw, source, afterId,  \* its locals: the raw value, source epoch and snapshot position
  asleep,        \* workers blocked on PendingPut::cv
  setup,         \* config_.confirm and the bounds, one of Setups
  phase,         \* the runtime: "live", "retiring" (alive_ is false), "retired"
  commandEpoch, offset,          \* commandEpoch_ and config_.transform
  pendingPuts, done, failed,     \* pendingPuts_, PendingPut::done, PendingPut::error
  stream, lost,  \* the observed Redis stream; its reader has not seen it replaced yet
  readerEpoch, cursor, inflight, \* the reader: epoch, position, sample to hand over
  accepted,      \* the cursor of the last accepted sample of the route
  observed,      \* history: the samples the runtime accepted
  shown,         \* the stream position that lastRaw_ comes from
  written        \* history: puts whose command Redis applied, in that order

execVars == <<keyOf, queued, active, doomed, told, crashed, open>>
clientVars == <<puts, expired, handler, peer>>
finishVars == <<verdict, finishing>>
localVars == <<raw, source, afterId>>
pendingVars == <<pendingPuts, done, failed>>
configVars == <<setup, phase, commandEpoch, offset>>
readerVars == <<readerEpoch, cursor, inflight, lost>>
sampleVars == <<accepted, observed, shown>>
vars == <<execVars, clientVars, finishVars, wakes, pc, localVars, asleep, configVars,
          pendingVars, stream, readerVars, sampleVars, written>>

Queue == INSTANCE SerialExecutor WITH Keys <- {PV}

confirm == setup.confirm

Ids == 1..MaxPuts
NoSample == [id |-> 0, value |-> 0, epoch |-> 0]

\* applyInverseTransform() for a transform of scale one.
applyInverseTransform(o, v) == v - o
Raws == {applyInverseTransform(o, v) : o \in Offsets, v \in Values}

alive == phase = "live"
stopped(p) == verdict[p] # "none"
aborted(p) == verdict[p] \notin {"none", "ok"}
mutexFree == \A p \in Ids : pc[p] # "writing"

Init ==
  /\ Queue!Init
  /\ puts = <<>> /\ expired = {} /\ wakes = {} /\ asleep = {} /\ written = <<>>
  /\ handler = [p \in Ids |-> "none"] /\ peer = [p \in Ids |-> "none"]
  /\ verdict = [p \in Ids |-> "none"] /\ finishing = [p \in Ids |-> "none"]
  /\ pc = [p \in Ids |-> "none"]
  /\ raw = [p \in Ids |-> 0] /\ source = [p \in Ids |-> 0] /\ afterId = [p \in Ids |-> 0]
  /\ setup \in Setups /\ phase = "live" /\ commandEpoch = 0 /\ offset = 0
  /\ pendingPuts = {} /\ done = {} /\ failed = {}
  /\ stream = <<>> /\ lost = FALSE /\ readerEpoch = 1 /\ cursor = 0 /\ inflight = NoSample
  /\ accepted = 0 /\ observed = {} /\ shown = 0

-----------------------------------------------------------------------------
(* QueuedExec *)

\* finish() called by the worker of the put, which is not waiting on its cv: the
\* wake function has nobody to wake and the answer is sent in the same call.
finishHere(p, how) ==
  IF stopped(p) THEN UNCHANGED finishVars
  ELSE /\ verdict' = [verdict EXCEPT ![p] = how]
       /\ finishing' = [finishing EXCEPT ![p] = "done"]

\* Mutant of finish: the answer is sent only if there is a waiter to wake.
finishIfWaiting(p, how) ==
  IF stopped(p) THEN UNCHANGED finishVars
  ELSE /\ verdict' = [verdict EXCEPT ![p] = how]
       /\ finishing' = [finishing EXCEPT ![p] = IF p \in wakes THEN "notify" ELSE "none"]

\* finish() called by another thread, up to the end of its critical section.
finish(p, how) ==
  IF stopped(p) THEN UNCHANGED finishVars
  ELSE /\ verdict' = [verdict EXCEPT ![p] = how]
       /\ finishing' = [finishing EXCEPT ![p] = IF p \in wakes THEN "notify" ELSE "answer"]

\* The wake function takes the runtime's mutex and notifies the waiter.
Notify(p) ==
  /\ finishing[p] = "notify" /\ mutexFree
  /\ finishing' = [finishing EXCEPT ![p] = "answer"]
  /\ asleep' = asleep \ {p}
  /\ UNCHANGED <<execVars, clientVars, verdict, wakes, pc, localVars, configVars, pendingVars,
                 stream, readerVars, sampleVars, written>>

\* op->error(), or nothing for a cancelled operation.
Answer(p) ==
  /\ finishing[p] = "answer"
  /\ finishing' = [finishing EXCEPT ![p] = "done"]
  /\ UNCHANGED <<execVars, clientVars, verdict, wakes, pc, localVars, asleep, configVars,
                 pendingVars, stream, readerVars, sampleVars, written>>

\* OperationQueue::cancel(): nothing for a ticket that is gone or has failed.
QueueCancel(p) ==
  IF p \in (queued \cup active) \ doomed THEN Queue!Withdraw(p) ELSE UNCHANGED execVars

\* onCancel(): the peer cancels or disconnects.
Cancel(p) ==
  /\ "cancel" \in setup.events /\ p \in DOMAIN puts /\ peer[p] = "none"
  /\ peer' = [peer EXCEPT ![p] = "cancel"]
  /\ finish(p, "cancelled")
  /\ UNCHANGED <<execVars, puts, expired, handler, wakes, pc, localVars, asleep, configVars,
                 pendingVars, stream, readerVars, sampleVars, written>>

\* After its finish() call onCancel() cancels the ticket it finds, zero if
\* handlePut() has not stored it yet.
CancelTicket(p) ==
  /\ peer[p] = "cancel" /\ (verdict[p] = "cancelled" => finishing[p] = "done")
  /\ peer' = [peer EXCEPT ![p] = "done"]
  /\ IF handler[p] = "store" THEN UNCHANGED execVars ELSE QueueCancel(p)
  /\ UNCHANGED <<puts, expired, handler, finishVars, wakes, pc, localVars, asleep, configVars,
                 pendingVars, stream, readerVars, sampleVars, written>>

-----------------------------------------------------------------------------
(* handlePut() *)

\* The callback has read the command epoch some time before submit(), from a
\* runtime that was alive then; `gone` says that the peer has cancelled since.
Submit(v, e, gone) ==
  LET p == Len(puts) + 1 IN
  /\ p <= setup.puts /\ (gone => "cancel" \in setup.events)
  /\ e <= commandEpoch
  /\ Queue!Admit(PV)
  /\ puts' = Append(puts, [value |-> v, epoch |-> e])
  /\ handler' = [handler EXCEPT ![p] = "store"]
  /\ IF gone THEN /\ peer' = [peer EXCEPT ![p] = "cancel"]
                  /\ verdict' = [verdict EXCEPT ![p] = "cancelled"]
                  /\ finishing' = [finishing EXCEPT ![p] = "done"]
     ELSE UNCHANGED <<peer, finishVars>>
  /\ UNCHANGED <<expired, wakes, pc, localVars, asleep, configVars, pendingVars, stream,
                 readerVars, sampleVars, written>>

\* ticket(): store the ID ...
StoreTicket(p) ==
  /\ handler[p] = "store"
  /\ handler' = [handler EXCEPT ![p] = "check"]
  /\ UNCHANGED <<execVars, puts, expired, peer, finishVars, wakes, pc, localVars, asleep,
                 configVars, pendingVars, stream, readerVars, sampleVars, written>>

\* ... and cancel the ticket if the put was aborted meanwhile.
CheckAborted(p) ==
  /\ handler[p] = "check"
  /\ handler' = [handler EXCEPT ![p] = "done"]
  /\ IF aborted(p) THEN QueueCancel(p) ELSE UNCHANGED execVars
  /\ UNCHANGED <<puts, expired, peer, finishVars, wakes, pc, localVars, asleep, configVars,
                 pendingVars, stream, readerVars, sampleVars, written>>

-----------------------------------------------------------------------------
(* dispatchPut(), run by a worker of the queue *)

\* What no step of dispatchPut() before or after the Redis write changes.
DispatchLeaves == UNCHANGED <<puts, expired, handler, peer, configVars, stream, readerVars>>

\* dispatchPut() returns.
Ends(p) == pc' = [pc EXCEPT ![p] = "end"]

\* The request is told `how` and dispatchPut() returns.
EndsWith(p, how) == finishHere(p, how) /\ Ends(p)

\* A worker takes the put; one that is late is refused without dispatchPut().
Start(p) ==
  /\ Queue!Start(p)
  /\ doomed' = IF p \in expired THEN doomed \cup {p} ELSE doomed
  /\ pc' = [pc EXCEPT ![p] = IF p \in expired THEN "late" ELSE "begin"]
  /\ UNCHANGED <<clientVars, finishVars, wakes, localVars, asleep, configVars, pendingVars,
                 stream, readerVars, sampleVars, written>>

\* The configuration is read and the value decoded and transformed.
Begin(p) ==
  /\ pc[p] = "begin" /\ mutexFree
  /\ \/ /\ stopped(p) /\ Ends(p) /\ UNCHANGED <<finishVars, raw>>
     \/ /\ ~stopped(p) /\ (~alive \/ commandEpoch # puts[p].epoch)
        /\ EndsWith(p, "refused") /\ UNCHANGED raw
     \/ /\ ~stopped(p) /\ alive /\ commandEpoch = puts[p].epoch
        /\ \/ EndsWith(p, "refused") /\ UNCHANGED raw    \* the value does not decode
           \/ /\ raw' = [raw EXCEPT ![p] = applyInverseTransform(offset, puts[p].value)]
              /\ pc' = [pc EXCEPT ![p] = IF confirm = "none" THEN "fence" ELSE "source"]
              /\ UNCHANGED finishVars
  /\ UNCHANGED <<execVars, wakes, source, afterId, asleep, pendingVars, sampleVars, written>>
  /\ DispatchLeaves

\* The epoch of the confirmation reader is read before the snapshot.
Source(p) ==
  /\ pc[p] = "source" /\ mutexFree
  /\ \/ stopped(p) /\ Ends(p) /\ UNCHANGED source
     \/ /\ ~stopped(p)
        /\ source' = [source EXCEPT ![p] = readerEpoch]
        /\ pc' = [pc EXCEPT ![p] = "snapshot"]
  /\ UNCHANGED <<execVars, finishVars, wakes, raw, afterId, asleep, pendingVars, sampleVars, written>>
  /\ DispatchLeaves

\* getStreamSnapshot(): the newest position, or no connection.
Snapshot(p) ==
  /\ pc[p] = "snapshot"
  /\ \/ EndsWith(p, "refused") /\ UNCHANGED afterId
     \/ /\ afterId' = [afterId EXCEPT ![p] = Len(stream)]
        /\ pc' = [pc EXCEPT ![p] = "fence"]
        /\ UNCHANGED finishVars
  /\ UNCHANGED <<execVars, wakes, raw, source, asleep, pendingVars, sampleVars, written>>
  /\ DispatchLeaves

\* Mutant of Current: only alive_ is checked again.
AliveOnly(p) == alive

\* The configuration the put was prepared for is still the one in force.
Current(p) == alive /\ commandEpoch = puts[p].epoch

\* Mutant of Dispatchable: the request's state is not looked at again.
DispatchableThoughStopped(p) ==
  Current(p) /\ p \notin expired /\ (confirm # "none" => source[p] = readerEpoch)

\* The checks under mutex_ that all have to pass, other than authorization.
Dispatchable(p) ==
  /\ Current(p) /\ ~stopped(p) /\ p \notin expired
  /\ confirm # "none" => source[p] = readerEpoch

\* Mutant of Refuse: the return after request->error() is missing.
RefuseAndGoOn(p) == finishHere(p, "refused") /\ pc' = [pc EXCEPT ![p] = "writing"]

\* One of those checks fails, or the operation is no longer authorized.
Refuse(p) == EndsWith(p, "refused")

\* The last checks before the write, under mutex_.  Whether the operation is
\* still authorized is decided by the access policy.
Fence(p) ==
  /\ pc[p] = "fence" /\ mutexFree
  /\ \/ stopped(p) /\ Ends(p) /\ UNCHANGED <<finishVars, pendingPuts>>
     \/ ~stopped(p) /\ Refuse(p) /\ UNCHANGED pendingPuts
     \/ /\ Dispatchable(p)
        /\ pc' = [pc EXCEPT ![p] = "writing"]
        /\ pendingPuts' = IF confirm = "none" THEN pendingPuts ELSE pendingPuts \cup {p}
        /\ UNCHANGED finishVars
  /\ UNCHANGED <<execVars, wakes, localVars, asleep, done, failed, sampleVars, written>>
  /\ DispatchLeaves

\* The command reached Redis; an unconfirmed put writes the observed key itself.
Apply(p) ==
  /\ written' = Append(written, p)
  /\ IF confirm = "none"
     THEN /\ stream' = Append(stream, raw[p])
          /\ afterId' = [afterId EXCEPT ![p] = Len(stream) + 1]
     ELSE UNCHANGED <<stream, afterId>>

\* writeToRedis() succeeds, still under mutex_.
WriteOk(p) ==
  /\ pc[p] = "writing"
  /\ Apply(p)
  /\ pc' = [pc EXCEPT ![p] = IF confirm = "none" THEN "own" ELSE "wake"]
  /\ UNCHANGED <<execVars, clientVars, finishVars, wakes, raw, source, asleep, configVars,
                 pendingVars, readerVars, sampleVars>>

\* Mutant of Failed: the write is tried once more.
FailedRetries(p) ==
  /\ pc' = [pc EXCEPT ![p] = "begin"]
  /\ pendingPuts' = pendingPuts \ {p}
  /\ UNCHANGED finishVars

\* The pending entry is erased and the client told.
Failed(p) == EndsWith(p, "failed") /\ pendingPuts' = pendingPuts \ {p}

\* writeToRedis() reports a failure, or throws and the queue's worker calls fail(),
\* although it may have been called before.  Redis may have applied the command.
WriteFails(p) ==
  /\ pc[p] = "writing"
  /\ Failed(p)
  /\ UNCHANGED execVars \/ Queue!Crash(p)
  /\ \/ UNCHANGED <<written, stream, afterId>>
     \/ Apply(p)
  /\ UNCHANGED <<clientVars, wakes, raw, source, asleep, configVars, done, failed,
                 readerVars, sampleVars>>

\* An unconfirmed put on the read key displays its own value.
OwnUpdate(p) ==
  /\ pc[p] = "own" /\ mutexFree
  /\ \/ stopped(p) /\ Ends(p) /\ UNCHANGED shown
     \/ /\ ~stopped(p)
        /\ shown' = IF alive THEN afterId[p] ELSE shown
        /\ pc' = [pc EXCEPT ![p] = "reply"]
  /\ UNCHANGED <<execVars, finishVars, wakes, localVars, asleep, pendingVars, accepted,
                 observed, written>>
  /\ DispatchLeaves

\* Mutant of Wake: the request gets no wake function.
WakeForgotten(p) ==
  /\ pc[p] = "wake"
  /\ pc' = [pc EXCEPT ![p] = "wait"]
  /\ UNCHANGED <<execVars, finishVars, wakes, localVars, asleep, pendingVars, sampleVars, written>>
  /\ DispatchLeaves

\* request->wake().  If the request is stopped already, its call of the wake
\* function finds nobody waiting.
Wake(p) ==
  /\ pc[p] = "wake"
  /\ wakes' = wakes \cup {p}
  /\ pc' = [pc EXCEPT ![p] = "wait"]
  /\ UNCHANGED <<execVars, finishVars, localVars, asleep, pendingVars, sampleVars, written>>
  /\ DispatchLeaves

\* The predicate of wait_until().
WaitOver(p) == p \in done \/ stopped(p) \/ ~Current(p)

Wait(p) ==
  /\ pc[p] = "wait" /\ p \notin asleep /\ mutexFree /\ ~WaitOver(p)
  /\ asleep' = asleep \cup {p}
  /\ UNCHANGED <<execVars, finishVars, wakes, pc, localVars, pendingVars, sampleVars, written>>
  /\ DispatchLeaves

\* wait_until() returns and the pending entry is erased.
EndWait(p) ==
  /\ pc[p] = "wait" /\ mutexFree
  /\ pc' = [pc EXCEPT ![p] = "reply"]
  /\ asleep' = asleep \ {p}
  /\ pendingPuts' = pendingPuts \ {p}
  /\ UNCHANGED <<execVars, finishVars, wakes, localVars, done, failed, sampleVars, written>>
  /\ DispatchLeaves

\* The predicate holds when the worker looks at it, ...
Confirmed(p) == EndWait(p) /\ p \notin asleep /\ WaitOver(p)

\* ... or the confirmation time or the deadline has passed, asleep or not.
WaitTimesOut(p) == EndWait(p)

\* The outcome.  A pending put is in `done` and `failed` only through its entry,
\* so that both stay as they were when the entry was erased.
Reply(p) ==
  /\ pc[p] = "reply"
  /\ EndsWith(p, IF p \in expired \cup failed \/ (confirm # "none" /\ p \notin done)
                 THEN "failed" ELSE "ok")
  /\ UNCHANGED <<execVars, wakes, localVars, asleep, pendingVars, sampleVars, written>>
  /\ DispatchLeaves

\* run() has returned, or fail() for a late put: the queue goes on.
Return(p) ==
  /\ pc[p] = "end" \/ (pc[p] = "late" /\ p \in told)
  /\ Queue!Finish(p)
  /\ pc' = [pc EXCEPT ![p] = "gone"]
  /\ UNCHANGED <<clientVars, finishVars, wakes, localVars, asleep, configVars, pendingVars,
                 stream, readerVars, sampleVars, written>>

-----------------------------------------------------------------------------
(* The queue's deadline, its failure callbacks and its shutdown *)

QueueLeaves == UNCHANGED <<puts, handler, peer, wakes, pc, localVars, asleep, configVars,
                           pendingVars, stream, readerVars, sampleVars, written>>

\* The total deadline of the put passes.
Expire(p) ==
  /\ "expire" \in setup.events /\ p \in DOMAIN puts \ expired
  /\ expired' = expired \cup {p}
  /\ UNCHANGED <<execVars, finishVars>> /\ QueueLeaves

\* The queue's timer fails the put, queued or active.
Deadline(p) ==
  /\ p \in expired
  /\ Queue!Withdraw(p)
  /\ UNCHANGED <<expired, finishVars>> /\ QueueLeaves

\* fail() calls request->error(); for a late put the worker itself does.
Tell(p) ==
  /\ Queue!Tell(p)
  /\ IF pc[p] = "late" THEN finishHere(p, "refused") ELSE finish(p, "failed")
  /\ UNCHANGED expired /\ QueueLeaves

Shutdown ==
  /\ "stop" \in setup.events /\ (Queue!Close \/ Queue!Drop)
  /\ UNCHANGED <<expired, finishVars>> /\ QueueLeaves

-----------------------------------------------------------------------------
(* Reload, retirement and the health poll *)

RuntimeLeaves == UNCHANGED <<execVars, clientVars, finishVars, wakes, pc, localVars, stream,
                             written>>

\* Mutant of failPendingLocked: done without an error.
failPendingSilently(P) ==
  /\ done' = done \cup P /\ asleep' = asleep \ P
  /\ UNCHANGED <<pendingPuts, failed>>

\* failPendingLocked(), and the failing of the pending puts of another source
\* epoch: each is done, with an error, and its waiter is notified.
failPendingLocked(P) ==
  /\ done' = done \cup P /\ failed' = failed \cup P
  /\ asleep' = asleep \ P
  /\ UNCHANGED pendingPuts

\* Update::commit() with another transform.
Commit(o) ==
  /\ alive /\ mutexFree /\ o # offset /\ commandEpoch < setup.epoch
  /\ offset' = o
  /\ commandEpoch' = commandEpoch + 1
  /\ failPendingLocked(pendingPuts)
  /\ UNCHANGED <<setup, phase, readerVars, sampleVars>> /\ RuntimeLeaves

\* deactivate() clears alive_ without the lock ...
Deactivate ==
  /\ "retire" \in setup.events /\ alive
  /\ phase' = "retiring"
  /\ UNCHANGED <<setup, commandEpoch, offset, asleep, pendingVars, readerVars, sampleVars>>
  /\ RuntimeLeaves

\* ... then takes it, fails what is pending and gives up its readers.
Retire ==
  /\ phase = "retiring" /\ mutexFree
  /\ phase' = "retired"
  /\ commandEpoch' = commandEpoch + 1
  /\ failPendingLocked(pendingPuts)
  /\ inflight' = NoSample
  /\ UNCHANGED <<setup, offset, readerEpoch, cursor, lost, sampleVars>> /\ RuntimeLeaves

\* The pending puts, not done yet, that were dispatched in another source epoch.
OtherEpoch(e) == {p \in pendingPuts \ done : source[p] # e}

\* sourceHealth(), polled by the application.
HealthPoll ==
  /\ alive /\ mutexFree /\ OtherEpoch(readerEpoch) # {}
  /\ failPendingLocked(OtherEpoch(readerEpoch))
  /\ UNCHANGED <<configVars, readerVars, sampleVars>> /\ RuntimeLeaves

-----------------------------------------------------------------------------
(* The observed Redis stream and its reader *)

RedisLeaves == UNCHANGED <<execVars, clientVars, finishVars, wakes, pc, localVars, asleep,
                           configVars, pendingVars, sampleVars, written>>

\* A device, or another writer, adds a sample.
Sample(v) ==
  /\ Len(stream) < setup.stream
  /\ stream' = Append(stream, v)
  /\ UNCHANGED readerVars /\ RedisLeaves

\* The stream is deleted; what comes next has lower positions.
Replace ==
  /\ readerEpoch < setup.source /\ ~lost /\ stream # <<>>
  /\ stream' = <<>> /\ lost' = TRUE
  /\ UNCHANGED <<readerEpoch, cursor, inflight>> /\ RedisLeaves

\* The reader finds out and starts a new epoch.
NewEpoch ==
  /\ lost /\ lost' = FALSE
  /\ readerEpoch' = readerEpoch + 1
  /\ cursor' = 0
  /\ UNCHANGED <<inflight, stream>> /\ RedisLeaves

\* The reader takes the next sample, under its present epoch.
Fetch ==
  /\ phase # "retired" /\ inflight = NoSample /\ cursor < Len(stream)
  /\ cursor' = cursor + 1
  /\ inflight' = [id |-> cursor + 1, value |-> stream[cursor + 1], epoch |-> readerEpoch]
  /\ UNCHANGED <<readerEpoch, lost, stream>> /\ RedisLeaves

\* The pending puts that the sample confirms.
Matched(s) == {p \in pendingPuts \ done : source[p] = s.epoch /\ s.id > afterId[p] /\ raw[p] = s.value}

\* handleRead() and handleRawUpdate() for one valid sample: dropped unless the
\* runtime is alive and the reader still in the epoch of the sample.
Deliver ==
  LET s == inflight
      mismatched == IF confirm = "none" THEN {} ELSE OtherEpoch(s.epoch)
      matched == IF confirm = "none" THEN {} ELSE Matched(s)
  IN
  /\ inflight # NoSample /\ mutexFree
  /\ inflight' = NoSample
  /\ IF alive /\ s.epoch = readerEpoch
     THEN /\ accepted' = s.id
          /\ observed' = observed \cup {s}
          /\ done' = done \cup mismatched \cup matched
          /\ failed' = failed \cup mismatched
          /\ asleep' = asleep \ (mismatched \cup matched)
          /\ shown' = IF confirm = "distinct" THEN shown ELSE s.id
     ELSE UNCHANGED <<sampleVars, done, failed, asleep>>
  /\ UNCHANGED <<configVars, pendingPuts, readerEpoch, cursor, lost>> /\ RuntimeLeaves

-----------------------------------------------------------------------------
HandlerStep(p) == StoreTicket(p) \/ CheckAborted(p)
PeerStep(p) == CancelTicket(p)
FinishStep(p) == Notify(p) \/ Answer(p)
QueueStep(p) == Deadline(p) \/ Tell(p)
RedisCall(p) == Snapshot(p) \/ WriteOk(p) \/ WriteFails(p)
WorkerStep(p) ==
  \/ Start(p) \/ Begin(p) \/ Source(p) \/ Fence(p) \/ OwnUpdate(p)
  \/ Wake(p) \/ Wait(p) \/ Confirmed(p) \/ Reply(p) \/ Return(p)

Next ==
  \/ \E v \in Values, e \in 0..(setup.epoch + 1), gone \in BOOLEAN : Submit(v, e, gone)
  \/ \E p \in DOMAIN puts :
       \/ HandlerStep(p) \/ PeerStep(p) \/ FinishStep(p) \/ QueueStep(p)
       \/ WorkerStep(p) \/ RedisCall(p) \/ WaitTimesOut(p)
       \/ Cancel(p) \/ Expire(p)
  \/ Shutdown
  \/ \E o \in Offsets : Commit(o)
  \/ Deactivate \/ Retire \/ HealthPoll
  \/ \E v \in Raws : Sample(v)
  \/ Replace \/ NewEpoch \/ Fetch \/ Deliver

Spec == Init /\ [][Next]_vars

\* The queue's threads and the callers of finish() keep running, and Redis calls
\* return.
FairSpec ==
  /\ Spec /\ WF_vars(\E p \in Ids : QueueStep(p) \/ FinishStep(p))
  /\ WF_vars(\E p \in Ids : RedisCall(p))

-----------------------------------------------------------------------------
(* Properties *)

Applied == {written[i] : i \in DOMAIN written}
Undispatched == {"none", "late", "begin", "source", "snapshot", "fence"}

\* docs/configuration.md:279: a confirmed put succeeds only if the subscription saw
\* its raw value at a position newer than its snapshot, in its source epoch.
ConfirmedMeansObserved ==
  confirm # "none" => \A p \in Ids : verdict[p] = "ok" =>
    \E s \in observed : s.value = raw[p] /\ s.id > afterId[p] /\ s.epoch = source[p]

\* A put that succeeds was applied by Redis; one that is refused with a message
\* that it was not dispatched (runtime.cpp:666-709) was not and never will be.
AnswersAreTrue ==
  \A p \in Ids : /\ verdict[p] = "ok" => p \in Applied
                 /\ verdict[p] = "refused" => p \notin Applied

\* runtime.cpp:714: no command is replayed, and commands of one PV reach Redis in
\* the order in which the puts were admitted, whatever failed or was given up.
WrittenOnceInOrder == \A i, j \in DOMAIN written : i < j => written[i] < written[j]

\* runtime.cpp:715: "Retirement is serialized with dispatch".  A command is built
\* with the transform in force when it is written, and never for a retired runtime.
WriteFenced ==
  [][\A p \in Ids : written' = Append(written, p) =>
       /\ phase # "retired"
       /\ raw[p] = applyInverseTransform(offset, puts[p].value)]_vars

\* docs/operations.md:131: a put that is cancelled, or otherwise answered, before
\* dispatch is never written: all that is left to it is to end.
CancelPreventsWrite ==
  [][\A p \in Ids : stopped(p) /\ pc[p] \in Undispatched =>
       pc'[p] \in Undispatched \cup {"end", "gone"}]_vars

\* docs/operations.md:89: "Metadata refresh uses the latest source sample".  The
\* sample a refresh would post now is not older than the last one accepted.
RefreshUsesLatest == alive /\ mutexFree => shown >= accepted

\* The clock of each put advances.
ClockRuns == WF_vars(\E p \in Ids : Expire(p))

\* Workers run and a retirement is completed.
WorkersRun == WF_vars(Retire \/ \E p \in Ids : WorkerStep(p))

\* Every admitted put is answered by its deadline at the latest, though its worker
\* may have been descheduled for good (operation_queue.h:26: "Deadlines/replies are
\* independent of worker progress").  That Redis calls return is needed: the deadline
\* callback takes the mutex that the next put of the PV holds while it writes.
EveryPutAnswered ==
  ClockRuns => \A p \in Ids : p \in DOMAIN puts ~> finishing[p] = "done"

\* A put that is answered or fenced gives its worker back although no clock runs:
\* the notifications alone end its wait.
StoppedPutReturns ==
  WorkersRun => \A p \in Ids : p \in active /\ (stopped(p) \/ ~alive) ~> p \notin active
=============================================================================
