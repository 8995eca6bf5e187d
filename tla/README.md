# A TLA+ verification of redis-pvxs-ioc

redis-pvxs-ioc serves EPICS process variables (PVs) over PV Access from values
held in Redis streams. It is a multi-threaded C++ program: PVXS threads deliver
client operations, worker pools talk to Redis and to gRPC services, a timer
enforces deadlines, Redis reader threads deliver samples, one thread publishes
alarms, another uploads the PV catalog, and the main thread reloads configuration
and access policy while all of them run. This directory models those interactions
in TLA+, checks them with TLC on small instances, and proves the main ones with
TLAPS for all values of the constants.

Sources are in `src/src/`, headers in `src/include/redis_pvxs_ioc/`, documents in
`src/docs/`.

## 1. The system and its models

| Part | Hard behaviour | Module |
|---|---|---|
| Operation queue (`operation_queue.cpp`) | four threads race to fail a task; tokens for lanes that are gone; lost wake-ups; reservations | `OperationQueue`, its contract `SerialExecutor` |
| Queued PVA operation (`queued_exec.h`) and put path of the typed runtime (`runtime.cpp`) | cancel before the ticket is known; reload or cancel between capture and write; confirmation by old samples; source replaced | `PutDispatch` |
| Image runtime, frame parser, source health (`runtime.cpp`, `ntndarray.cpp`, `source_health.cpp`) | counters that wrap; batches read before a disconnect; counting before activation | `ImageRuntime` |
| Alarm publisher (`alarm_worker.cpp`) | updates during a send; ring overflow; recovery by reconciliation; replaced registrations | `AlarmPublisher` |
| PV registry (`pv_registry.cpp`) | racing publishers; a commit that fails; a channel created while its registration retires | `PVRegistry` |
| Channel rights (`access_control.cpp`) | callbacks of the access library during initialisation and recomputation | `AccessRights` |
| Policy file, watcher, policy reload (`access_control.cpp`) | the file changes between polls; a reload of policy against a reload of configuration | `AccessPolicy` |
| RPC endpoints, audit, gRPC bridge (`rpc_pv.cpp`, `access_control.cpp`, `grpc_bridge.cpp`) | cancel, deadline, denial and outcome race to end a call | `RpcCall` |
| Application (`app.cpp`, `main.cpp`) | a reload that fails at any phase; results of reflection that arrive after a reload | `Application` |
| Configuration and diff (`config.cpp`, `config_diff.cpp`, `endpoints.h`) | limits, budgets and comparisons computed in two places | `Configuration` |
| Discovery publisher (`discovery.cpp`) | a catalog replaced during its upload; wake byte, epoch and catalog are separate state | `Discovery` |
| Secrets, ChannelFinder text, number formatting | none: no state | not modelled |

How they interact: a client's put enters `handlePut`, is wrapped in a
`QueuedExec` and submitted to the queue under the PV's name; a worker runs
`dispatchPut`, which writes to Redis and may wait for a sample to confirm the
command; the timer, the peer and shutdown may end the operation at any point; a
reload or retirement changes the runtime underneath it. RPC calls use the same
queue and handle, under an audited operation of the access controller. Each sample
updates the PV's value and its alarm slot. A reload prepares everything off-line,
activates the policy, commits runtimes and registry in one publication, and then
retires what was replaced.

## 2. State and actions

**`OperationQueue`.** Each action is one critical section of
`Impl::mutex`, or one call of `run()`/`fail()`, which the code makes outside the
lock. The condition variable is explicit: `asleep` is the set of threads blocked
on `changed`, `notify_all` empties it, spurious wake-ups are allowed (`Wakes`),
and the timer's `wait_until` also returns when its time has come (`TimerWakes`). A
clock `now` moves by `Tick`. `Submit`, `SubmitThrows` (one of the four allocations
fails, and the catch block, `Undo`, takes back those before it) and `SubmitRejected`
are the three outcomes of `submit()`; `WorkerSleep/Exit/Drop/Take`, `RunReturns`,
`RunThrows`, `RejectLate`, `WorkerFinish` are `worker()`;
`TimerSleep/Skip/Fire/Reject/Exit` are `expire()`; `Cancel`, `CancelReject` are `cancel()`; `Stop`, `StopReject`, `StopClear` are `stop()`.
`failed` is the flag that decides who withdraws a task; `rejected` and `thrown` are
histories of the `fail()` calls made for a withdrawal and for an exception of `run()`.
The worker reports an exception without looking at `failed`, so a task that is
withdrawn while it runs, and then throws, is failed twice.

**`SerialExecutor`** is what `operation_queue.h` promises its callers: the tasks of
a key run one at a time and in order, a withdrawn task that was queued never runs,
nothing starts after shutdown, and a task is told at most once that it was withdrawn
and at most once that its `run()` threw.
`OperationQueue` implements it under the mapping at the end of that module.

**`PutDispatch`** composes `QueuedExec` and the put path of `TypedRuntime` with an
instance of `SerialExecutor` (the contract the real queue is proved to meet), for
one PV and several puts. The steps of a put are the sections between its locks:
capture of the configuration, reading the source epoch, the Redis snapshot, the
dispatch fence with the write under the runtime mutex, the wait for confirmation,
the answer. `finish()` is split where the code releases `QueuedExec::mutex_`: the
claim, then the wake function (which needs the runtime mutex), then the answer.
Around it move the peer (cancel), the deadline, the device that appends samples to
the confirmation stream, the reader that delivers them (or loses the stream and
starts a new epoch), the health poll, a reload commit, a retirement and shutdown of
the queue. A write that throws makes the queue's worker call `fail()` (`Crash` of the
contract), even for a put that was withdrawn before; the handle answers once all the
same. A value is a member of `Values`; the inverse transform of a
configuration is an offset (`Offsets`), so that a command written under a stale
configuration is a different command. A `setup` says where the PV confirms its
puts (not at all, on its read stream, or on another stream) and which outside
events happen.

**`AlarmPublisher`.** Each action is one critical section of `Impl::mutex`; a Redis
call lies between the step that selects an event (`SendTransition`, `Reconcile`, or
the ping of `WorkerIdle`) and its outcome (`SendAccepted`, `SendFails`), and
everything else may happen meanwhile. A slot is a record with the fields of `Slot`,
an encoded alarm state is a member of `Alarms`, and the byte budget is a number of
slots. A rejected call leaves `live` alone; a call whose transport fails clears it,
and may or may not have reached the stream. Registrations are used as `app.cpp`
uses them (`Oldest`): a reload activates the replacement before it retires what it
replaces. The order that a failed refresh can leave behind (section 6) is not among
them. `last` and `sent` are histories of the stream.

**`PVRegistry`.** Every action is one atomic access: the snapshot pointer, an
`active` flag, a registration's list of channels, or the call of one channel. A
publisher goes through `Prepare`, `Publish` (or `Refuse`, when the published
snapshot is not the one it prepared from), the caller's commit (`CommitFails`,
`CommitSucceeds`), `Mark` for each retiring registration, `Store`, and `Drain` and
`CloseNext` of `finish()`. A channel goes through `Find`, `track`, `attach` and the
re-check `CloseIfRetired`, and its operation through `Request`, `Dispatch`,
`Ended`. A binding stands for owner and access assignment, the only part that
`prepare()` compares.

**`AccessRights`.** A thread of the server runs `initialize()` of a new channel
(`AddClients`, `ReadClient` for each identity, `StoreRights`, `ClearChange`,
`SetInitialized`, `addClient`); the application's thread activates a policy or
refreshes host groups (`Change`), under the lock of the access library, whose
callback is `TakeRights` and then `NoteChange`; `drainDirty()` and
`recomputeAllClients()` recompute. `RefreshFails` is a refresh that throws halfway.
`overtaken` is a history: the channel was being initialised when a change came.

**`RpcCall`.** One method under access control: admission with its audit record,
`Submit`, the ticket, the worker (`BuildFails`, `CheckControl`, `CheckStopped`,
`Authorize`, `Send`, `CheckAgain`, `StartCall`, `CallOk`, `CallFails`), the cancel
callback in its three parts, the deadline and shutdown of the queue (`Fail`), and
`finish()` split as in `PutDispatch`. `GrpcCallControl::cancel()` is two steps: the
flag (`Notify`), and then the context (`TryCancel`). A worker that has passed its last
test of the flag may still start its call; gRPC drops the call of a context that was
cancelled before, which is taken from the library. `Complete` is the end of the audited operation; `records` is
its audit trail and `counters` are those of `access:operations`.

**`Application`, `AccessPolicy`, `Configuration`.** `Application` is the main
thread: `Start`, `BeginReload`, the phases of `applyGeneration()` each as an action
that may fail (`PrepareRuntimes`, `PrepareService`, `PreparePolicy`, `CommitPolicy`,
`ActivateRuntimes`, `StoreRegistry`, `Swap`, `Retire`, `Announce`). `RefreshFails` is an
exception after the commit: what is left of the refresh is skipped, and a retired
runtime that was not deactivated yet stays active as long as an open channel or a
queued put holds it (`Release`). Then come
the access controller's pump, the recovery of optional RPC services (`Recover`,
`RecoveryFails`, `DropResult`, `StillMissing`, `Retry`) with the reflection thread,
`StopServing` and `StopRuntimes`; and the two other modes of `main()`,
`CheckConfig` and `DiffConfig`. `AccessPolicy` is extended by it: the policy file
that anybody edits, the watcher's poll, settling and retry, the reload with its
restore of the earlier policy. `Configuration` holds what `parseConfig()` accepts
and how it normalises, the endpoints a configuration reserves, the
comparisons of two configurations, and what a start needs of one. Two quantities are
computed twice, as in the code. The alarm budget is subtracted PV by PV under the guard
of `parseConfig()` (`AlarmBudget`), and taken from the publisher's budget by successive
reservations (`AlarmStatesFit`). The discovery catalog is measured in bytes, message by
message (`CatalogBytes`), by `--check-config` for the configured or default port and
generation 1, by a start or reload for the port that the server got. The two lists
of server settings, of `sameServerConfig()` and of the diff, are kept apart too. A
document is a record with the keys of the YAML file.

**`ImageRuntime`.** `parseNDArrayFrame` and `assessNDArrayFrameGap` are operators
with the integer widths as constants; `AcceptFrame`, `RejectFrame` and `DropBatch`
are the body of `handleRead()` for one frame; `sourceHealth` assesses and publishes;
`activate`, `deactivate`, `prepareReconfigure`, `commit`, `refresh` are the life
cycle. The source loses frames, restarts, disconnects, is deleted and recreated,
and refuses reads. `truth` is a history: what the counters should be, from the
producer's own unbounded count.

**`Discovery`.** The worker's `wait()` is three steps, as in the code: test
`stopping` and the epoch (`Check`), poll the wake pair and the socket (`Polled`),
drain the pair (`Drain`). What it waits for is `step`: the announcement, the
hold-off, the connection, the greeting, each chunk of the upload, the ping, the
pong. `received` is a history: the generation of each chunk that went over the
connection. `Publish`, `Stop`, `Wake` and `Join` are the application's thread.

The `MC*` modules hold the model values and the small sets for TLC.

## 3. Runs

Every action and every disjunct of the next-state relations fires in some passing
run. `CHECK_DEADLOCK FALSE` everywhere: a stopped queue, answered puts, a closed
channel or a stopped application really are at rest.

| Run | Checks | Instance |
|---|---|---|
| `queue` | `HandlesValid`, `NoLostWakeup`, `WithdrawalToldOnce`, `Accounting`, `ImplementsExecutor`, `EveryTaskAnswered`, `StopCompletes`, `EveryTaskServed` | 2 keys, 1 worker, 2 tasks that fill the budget, 1 rejected submit, a deadline at each time of 0..1 |
| `put` | `AnswersAreTrue`, `WrittenOnceInOrder`, `CancelPreventsWrite`, `ConfirmedMeansObserved`, `WriteFenced` | six setups of 1 or 2 puts with cancels, deadlines, shutdown, reload, retirement, other writers, a replaced stream |
| `put_answers` | `EveryPutAnswered`, `StoppedPutReturns` | 2 puts with deadlines; 1 put with deadline, retirement and another writer |
| `put_readback` | `RefreshUsesLatest`, violated | 1 unconfirmed put, 2 samples of another writer |
| `alarm` | `ReadyMeansDelivered`, `QueueComplete`, `NeverOlder`, `CurrentStateDelivered` | 2 registrations of one PV, a ring of 1, 2 updates, 1 failed call |
| `registry` | `ServedAreActive`, `RetiredChannelsClosed`, `OnlyRetiredClosed`, `DispatchedOnServed` | a PV and its alias, 2 bindings, 3 registrations, 2 publishers, 1 channel, 3 snapshots |
| `access_rights` | `RevokedAtOnce`, `ClosedOnChange`, `RecomputedAtLast` | 1 channel with 2 identities, 4 policies, 3 changes |
| `access_connecting` | `PolicyReachesChannels`, violated | the same, 1 reload |
| `rpc_call` | `OneCompletion`, `OutcomesAreTrue`, `EndedNeverCalled`, `EveryCallCompletes` | 1 call, cancelled and timed, 3 changes of right and registration |
| `reload` | `ServedRuntimesActive`, `GenerationConsistent`, `TrialsFair`, `CheckedCanStart`, `DiffPredictsReload` | 2 generations, 5 documents in the file and some 70 for the two checking modes, at and beside the limits of names, bytes and text, 2 access sections, 2 policy texts, 2 RPC services |
| `discovery` | `NeverSleepsStale`, `SynchronizedMeansReceived`, `LatestDelivered` | catalogs of 2 chunks, 3 generations, 2 failures |
| `image` | `CountsAreTrue`, `AlarmTracksHealth` | 4-bit counters, 2 frames and 2 events around the wrap, 15 headers |

What the less obvious ones say:

- `HandlesValid`: every unchecked `at()` and every erasure through a stored
  iterator finds what it expects.
- `NoLostWakeup`: a sleeping worker has nothing to do, a lane with work that nobody
  serves has exactly one token, and a sleeping timer wakes no later than any
  deadline.
- `WithdrawalToldOnce`: each withdrawn task is owed its `fail()` call by exactly one
  thread, or has been told, never both; the only other `fail()` call is that for a
  `run()` that threw, so a task that never ran is failed at most once.
- `Accounting`: the gauges equal what they count, also after a submission that was
  taken back, and `limit - resident` never wraps.
- `AnswersAreTrue`: a put that succeeds was applied by Redis; one that is refused
  with a message that it was not dispatched was not.
- `CancelPreventsWrite`: once an end is claimed, a put that had not passed its last
  test under the dispatch lock is never written.
- `ConfirmedMeansObserved`: a put answered as confirmed has an equal sample in the
  stream, after the snapshot taken before the write, in the same source epoch.
- `ReadyMeansDelivered`: while `status()` says "ready", the last record of every
  active PV is its present alarm state, although updates arrive during sends.
- `QueueComplete`: the queued transitions of a PV have no gap up to its present
  state, so an overload never drops one of them alone.
- `NeverOlder`: no mixture of queued transitions, snapshots and repetitions takes
  the records of a PV back to an older state or to a replaced registration.
- `RetiredChannelsClosed`: a channel that `onCreate()` has finished creating on a
  retired registration is closed, or a publisher is about to close it; whoever
  comes second sees the other.
- `ClosedOnChange`: when nothing is left to recompute, an open channel has the
  rights it was opened with, and they are those of the policy.
- `OneCompletion`: one completion record per admitted operation, its last one, and
  exact counters.
- `EndedNeverCalled`: once whoever ended an operation has cancelled its call, and so
  before the peer is answered, the backend gets no call for it, wherever the worker is.
- `GenerationConsistent`: between two pumps, registry, runtimes, services, policy
  and reload status are of one configuration, whatever failed before. A runtime that
  was replaced is active only if a refresh failed before it could be deactivated.
- `TrialsFair`: a service that is being discovered has the one reflection task, of
  this generation, and a service that is due is passed over at most once by each other.
- `CheckedCanStart`: a document that `--check-config` accepts can be started: every
  backend, runtime, alarm state and endpoint can be made. So can the catalog, unless it
  is within so many bytes of `max_bytes` as the server's port and the generation have
  digits beyond those that were checked.
- `DiffPredictsReload`: a reload is refused exactly if `--diff-config` says that a
  restart is required, and makes anew exactly the PVs listed as added or replaced.
- `NeverSleepsStale`: a worker that blocks on a catalog that was replaced has a byte
  in its wake pair or one is about to be written.
- `SynchronizedMeansReceived`: a "synchronized" status names the generation of which
  every chunk, and no chunk of another, went over the connection that answered,
  although newer catalogs may have been published by then.
- `AlarmTracksHealth`: when an assessment has nothing new to say, there is no alarm
  if and only if the source is ready, on the PV and in the alarm stream alike.

**Bounds.** Two tasks are two of one key or one of each: enough for a lane to be
left and found again, and for a submission to race a stop. More workers than one
are covered by the proofs, which hold for any number. Two puts are enough for one to
hold the mutex the other's answer needs, and for order. The clock bounds let a
deadline fall before, at and after every step. The stream bounds leave room for an
equal value before the snapshot, between snapshot and write, and after it. `Setups`
chooses which outside events meet, so that the instance stays small; each event
occurs in some setup with the puts it could harm. Two updates overflow a ring of
one, and two registrations are a PV and its replacement. Three registrations and
two publishers let one publication lose the race or fail while a channel is being
created on what the other retires. Two generations are a start and one reload or
recovery that succeeds after any number that fail, which is what makes a reflection
result late. The documents at the byte limit are checked against ports of one, four and
five digits and generations of one, two and four. The image counters have four and eight bits, and two
frames start just below the wrap.

**Fairness.** `ThreadFairness` of the queue is weak fairness of each of its threads
and of the callers of `cancel()` and `stop()`: runnable threads are scheduled, and
no lock is held for ever by the queue's own code. Nothing is assumed of clients.
Time passing (`ClockRuns`) and returning `run()` calls (`RunsReturn`) are hypotheses
of the properties that need them, so `EveryTaskAnswered` holds even when every
`run()` hangs. In `PutDispatch`, the queue, the answering threads and the Redis calls
are weakly fair; the last is what the connections' socket timeouts give. In
`AlarmPublisher` the worker is weakly fair, its calls return (`redisSetTimeout`),
and they fail at most `MaxFailures` times: delivery is promised once Redis stays up.
In `AccessRights` the callback in progress and the recomputation are weakly fair,
since the pump runs as long as the application does. In `RpcCall` every thread that
has begun a call is, since the gRPC deadline ends each call. In `Discovery` the worker is, and
the thread that publishes or stops finishes writing its wake byte. `PVRegistry`, `Application` and `ImageRuntime`
assume none and check safety only.

## 4. What is proved

All theorems hold for any sets of keys, workers, names, registrations, publishers and
channels and any bounds, from the assumptions named in the modules, which the
passing runs evaluate.

**The operation queue.** `OperationQueue_proofs` proves that `Spec` implies the
invariants `TypeOK`, `OneActivePerKey`, `WithdrawalToldOnce`, `HandlesValid` and
`NoLostWakeup`. None of them is inductive. The inductive invariant `IInv` is the
conjunction of

- `Typed`: the types, with lanes of numbers only (`LaneInv` says they are tickets of
  resident tasks);
- `LaneInv`: the lanes hold exactly the resident tasks not yet started, each in the
  lane of its key and in increasing ticket order;
- `TokenInv`: a lane exists exactly while it is active, ready or not empty, never
  active and ready at once; `runnable` holds each ready key once; a lane with work
  that is not active is ready;
- `WorkerInv`: the busy workers hold exactly the started tasks that are resident,
  their lanes are active, and no two of them share a key;
- `FailInv`: one thread tells of a withdrawal (`ToldByOneThread`), no queued task of an open queue has failed, while
  every resident task of a stopped one has;
- `DeadlineInv`: which tasks are still timed;
- `WakeInv`: who may be asleep.

`OneActivePerKey` needs `TokenInv` (a second token for an active lane would break
it), `HandlesValid` needs `LaneInv` and `DeadlineInv`, `WithdrawalToldOnce` needs
`WorkerInv` (a worker that rejects a late task holds that task alone). There is one
lemma per conjunct and, under it, one step per action that can disturb it: `Typed`
and `LaneInv` in `OperationQueue_lanes`, the others in `OperationQueue_proofs`. A
submission that throws is first shown to leave everything but the ticket number as it was
(`ThrowUndone`), so that the other lemmas deal with its net effect (`NetStep`).
From it follow the action property `StartsInOrder` and the
refinement `Spec => ImplementsExecutor`: the initial state maps to the initial
state and each step to a step of `SerialExecutor` or a stutter.

`Accounting` is inductive beside `IInv` (`AccountInv` only adds that the reserved
bytes are a finite set). Every gauge is the size of a set, and each step adds a task to
that set or takes one away: `Reservation(tasks)` is made of one piece per task, of
`charge` elements, and the pieces of two tasks are disjoint, so admitting or releasing a
task moves `residentBytes` by exactly its charge. The lemmas in `OperationQueue_lanes`
take the facts on cardinalities they use as a hypothesis, `Counting`, which
`OperationQueue_proofs` proves before it states the theorem. `LimitsAssumption`
asks for a finite set of workers, the timer not among them, natural limits, and room
for at least one task, which the constructor of the queue checks.

**The registry.** `PVRegistry_proofs` first proves what publications preserve (`PubInv`):
one publisher holds the mutex between its test and its store (`MutexInv`); a prepared
snapshot binds each registration to one name, and retires exactly what the snapshot it
was prepared from holds and it does not (`PreparedInv`); a new registration is
active and known to its publisher only, until it is published (`FreshInv`); an inactive
registration is nowhere in the published snapshot, except while its publisher is about
to store the next one (`FlagInv`). Then what channels preserve: a
registration that is active still serves the name under which a channel found it
(`ServedInv`), and a tracked channel is on the list of its registration as long as
that is active (`ListInv`).
`ServedAreActive` follows from `FlagInv`. `RetiredChannelsClosed` is part of the
induction: the flag is cleared before the list is taken, and the channel is listed
before the flag is read again, so one of the two threads sees the other.
`OnlyRetiredClosed` and `DispatchedOnServed` are action properties that follow from
the invariant. `RegistryAssumption` only says that `None` is not a name, a binding or
a registration.

**The alarm publisher.** `AlarmPublisher_proofs` proves `NoMissedAlarm`,
`QueueComplete`, `ReadyMeansDelivered` and the action property `NeverOlder`. The
events that exist (`Known`: queued, being sent, or the last record of a name) carry a
state that their slot has had (`KnownInv`). They are ordered: the last record of a
name is not newer than the event being sent, that one older than what is queued, and
the queue is in order (`OrderInv`). Each queued transition of a current slot is its
present state or is followed by the next one (`GapInv`); what a slot counts as
delivered is in the stream, or a later registration's record is (`DeliveredInv`); and
nothing is queued while the worker is not live or is about to reconcile (`RingInv`).
`NeverOlder` rests on `Seen`: a slot that the worker has once found current stays
current until it is superseded for good, by its retirement or by a later usable
registration, because a reload retires a registration only after the older ones of its
name (`Oldest`). So a record of a replaced registration cannot follow one of its
replacement. `AlarmAssumption` asks for natural bounds and a ring
of at least one.

**The put path.** `PutDispatch_proofs` proves `AnswersAreTrue`, `WrittenOnceInOrder`,
`ConfirmedMeansObserved` and the action properties `WriteFenced` and
`CancelPreventsWrite`, for any number of puts, any values and offsets, and every
combination of events that a setup allows. The inductive invariant says:

- `QueueInv`: one put runs at a time, those that wait were admitted after it, and a put
  that is somewhere in `dispatchPut()` is the one that runs;
- `WrittenInv`: what was written is past its write, and not newer than what runs or
  waits, from which `WrittenOnceInOrder` follows;
- `AnswerInv`: a put past its write was applied, one answered with success was, one
  refused was not and can only end;
- `FenceInv`: the command of a put was built with the transform in force unless its
  epoch is over, and it is not over while the put is at its write, because a reload
  and the second half of a retirement need the mutex that the writer holds;
- `ConfirmInv`: a pending confirmation belongs to a put past its fence, whose raw value,
  snapshot position and source epoch no longer change; so the sample that confirmed it
  still matches when it is answered.

Each action has one of a few footprints (`Leaves`: it moves no put; `Moves`: one put
moves to a place; `Fences`: the transform or the phase changes), and the conjuncts are
proved once per footprint. `PutAssumption` asks for integer values and offsets and
setups within their type.

**RPC calls.** `RpcCall_proofs` proves `OneCompletion`, `OutcomesAreTrue` and the
action property `EndedNeverCalled`. Four threads may end a call: the server's, the
worker, the canceller and the queue's. `CallInv` says how far each of them is (the
operation is stopped exactly when someone owes or has given its answer; a success was
answered or audited only after the call returned ok; a denied call was never sent; once
the answer is out, the context of the call is cancelled or there is no task). `RecordInv`
says that only an admitted call has audit records and that a completion is the last of
them. `AuditCount` and `SendCount` make the counters the sizes of sets of calls, which
a step changes by one call. `CallAssumption` asks for a finite set of calls.

**Channel rights.** `AccessRights_proofs` proves `RevokedAtOnce` and `ClosedOnChange`.
Per channel, `PhaseInv` ties its fields to the progress of `initialize()`; `ClientInv`
says that only a channel the library knows is called back; `StartInv` says that, unless
a change overtook the initialisation, what it reads and stores is the access computed;
`MemberInv` says that a member has the rights of the policy, or is in its callback, or
is marked dirty with no right left, and then it is queued, or about to be recomputed, or
a recomputation is owed; what it had before, what it has and what its callback holds
make up what it was opened with. `Caller` says what the callback that runs holds. The
properties leave out a channel whose initialisation a change has overtaken: section 5
shows why. `RightsAssumption` asks for policies within their type.

**The discovery publisher.** `Discovery_proofs` proves `NeverSleepsStale`, with types,
`ReportInv` (the generation reported is not ahead of the worker's, nor that one of the
application's) and `UploadInv` (every chunk sent over the connection is of the worker's
catalog, none is sent before the greeting, and a ping is awaited only after the last
one). From them follows the action property `SynchronizedMeansReceived`: only `Pong`
reports a generation, and it is that of the chunks.

**Model-checked only.** Liveness everywhere: fairness and `ENABLED` are out of the
prover's reach. `Application`, `Configuration` and `AccessPolicy`, whose theorems would
be about recursive definitions over documents. `ImageRuntime`.

## 5. Disagreements between code and documentation

1. `docs/operations.md:89` says "Metadata refresh uses the latest source sample,
   including updates received during preparation." After an unconfirmed write to the
   read key, `dispatchPut()` stores its own value as the last sample once it has
   released the mutex (`runtime.cpp:724`). If the reader has meanwhile delivered that
   sample and a newer one, the older value replaces the newer one until the next
   sample, and a refresh presents it. Run `put_readback` shows it.
2. `docs/access-control.md:69` says "When EPICS reports a rights change, cached rights
   are cleared immediately and the channel is closed after recomputation."
   `initialize()` sets `initialized` only after it has stored the rights
   (`access_control.cpp:647`). A change reported in between clears the cached rights,
   and `accessChanged()` returns without queueing the channel
   (`access_control.cpp:680`), which stays open with no rights until all channels are
   recomputed. Run `access_connecting` shows it. Channels that were not being
   initialised during the change are the subject of run `access_rights`.

Two more places are worth knowing, though no run of their own shows them:

- A refresh that throws before the retired runtimes are deactivated (`app.cpp:1391-1395`)
  leaves those that a channel or a queued put holds active until they are let go;
  nothing deactivates them later. `docs/design.md:52-53` says "Removed or structurally
  changed PVs are deactivated, and stale callbacks from prior generations are fenced."
  `GenerationConsistent` holds with this exception and fails without it.
- `--check-config` encodes the catalog with port 5075, or the configured one, and
  generation 1 (`app.cpp:1015`). A document whose catalog is within a few bytes of
  `max_bytes` can pass and then be refused by a start on a port with more digits, or by
  a reload that makes generation 10. `CheckedCanStart` says exactly this much.

## 6. Not modelled

- Text and bytes: YAML syntax, protobuf and gRPC encoding, the grammar of access
  policy files, ChannelFinder properties, number formatting, compressed image data.
  A document, a policy text or a payload is a value of which a model knows what the
  code decides from it.
- Reading and discarding secrets (`config.cpp`), beyond whether a file can be read.
- Metrics that no decision depends on.
- What the alarm publisher does when a runtime that a failed refresh left active outlives
  its replacement.
- The environment of the process: the bytes that versions, host name and environment
  variables add to a catalog are a constant, the same when a file is checked and used.
- The alarm budget that `CheckedCanStart` considers is that of one configuration.
  During a reload the states of replaced and replacing registrations are reserved
  together; a reservation that fails is one of the failures `PreparationFails` stands
  for.
- PVXS, hiredis, gRPC and the EPICS access library themselves. They appear as the
  environment, with the calls and callbacks the code makes and receives.
