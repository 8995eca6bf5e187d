------------------------------ MODULE RpcCall ------------------------------
(***************************************************************************)
(* One served RPC method under access control: the audited operation of    *)
(* src/src/access_control.cpp (AccessOperation, AuthorizedExecOp), the     *)
(* queued call of src/src/rpc_pv.cpp and the gRPC call of                  *)
(* src/src/grpc_bridge.cpp.  The server's thread admits, submits and       *)
(* cancels; a worker of the queue makes the call; the queue's timer and    *)
(* its shutdown fail tasks; policy changes and reloads come at any time.   *)
(*                                                                         *)
(* OperationQueue has a model of its own; here a task is queued, running   *)
(* or gone, and its lane runs one task at a time.  Arguments are either    *)
(* acceptable or not.                                                      *)
(***************************************************************************)
EXTENDS Naturals, Sequences, FiniteSets

CONSTANTS
  Ops,          \* calls that clients make
  Cancelled,    \* calls that a client may cancel
  Timed,        \* calls that the queue may fail: their deadline passes, or it stops
  MaxChanges    \* bound: changes of the write right and of the registration

ASSUME CallAssumption ==
  IsFiniteSet(Ops) /\ Cancelled \subseteq Ops /\ Timed \subseteq Ops /\ MaxChanges \in Nat

VARIABLES
  write,        \* the channel has the right WRITE
  active,       \* its registration is active
  changes,
  handler,      \* the server's thread: "new", "admitted", "submitted", "returned" or "refused"
  stopped, aborted, ticket,   \* the fields of QueuedExec; op_ is held until stopped
  canceller,    \* onCancel(): "none", "exec", "queue" or "over"
  ending,       \* the thread that ended it: "none", "notify", "cancel", "answer", "audit", "over"
  answer,       \* what it has to answer: "none", "success", "error" or "cancelled"
  replied,      \* what the peer was told
  cancelled,    \* GrpcCallControl::cancelled
  tryCancelled, \* TryCancel() was called on its grpc::ClientContext
  task,         \* the queue: "none", "queued", "running" or "gone"
  failed,       \* the queue has called fail()
  worker,       \* the worker in run(): where it is
  sent,         \* the worker's flag `sent`
  call,         \* the call: "none", "dropped" before the backend saw it, "started", "ok", "failed"
  outcome,      \* AccessOperation: "open", or what complete() recorded
  records,      \* the audit records of its id
  counters,     \* authorizedOperations, operationsInFlight and the count of each outcome
  stats         \* RpcCallStats

envVars == <<write, active, changes>>
execVars == <<stopped, aborted, ending, answer>>
queueVars == <<task, failed>>
auditVars == <<outcome, records, counters>>
controlVars == <<cancelled, tryCancelled>>
peerVars == <<handler, canceller, ticket, replied, controlVars>>
workVars == <<worker, sent, call>>
vars == <<envVars, peerVars, execVars, queueVars, workVars, auditVars, stats>>

Outcomes == {"success", "error", "cancelled", "denied", "abandoned"}

Init ==
  /\ write = TRUE /\ active = TRUE /\ changes = 0
  /\ handler = [o \in Ops |-> "new"]
  /\ stopped = [o \in Ops |-> FALSE] /\ aborted = [o \in Ops |-> FALSE]
  /\ ticket = [o \in Ops |-> FALSE] /\ ending = [o \in Ops |-> "none"]
  /\ answer = [o \in Ops |-> "none"] /\ replied = [o \in Ops |-> "none"]
  /\ cancelled = [o \in Ops |-> FALSE] /\ tryCancelled = [o \in Ops |-> FALSE]
  /\ task = [o \in Ops |-> "none"] /\ failed = [o \in Ops |-> FALSE]
  /\ worker = [o \in Ops |-> "none"] /\ sent = [o \in Ops |-> FALSE]
  /\ call = [o \in Ops |-> "none"] /\ canceller = [o \in Ops |-> "none"]
  /\ outcome = [o \in Ops |-> "open"] /\ records = [o \in Ops |-> <<>>]
  /\ counters = [k \in Outcomes \cup {"authorized", "inFlight"} |-> 0]
  /\ stats = [k \in {"dispatched", "succeeded", "failed", "invalid", "unauthorized"} |-> 0]

Count(s) == [stats EXCEPT ![s] = @ + 1]

-----------------------------------------------------------------------------
(* AccessOperation *)

\* claim(): one caller completes the operation.
claim(o) == outcome[o] = "open"

\* finish(): complete(), for the caller that claims it.
Complete(o, result, before) ==
  IF claim(o)
  THEN /\ outcome' = [outcome EXCEPT ![o] = result]
       /\ records' = [records EXCEPT ![o] = @ \o before \o <<"completion">>]
       /\ counters' = [counters EXCEPT !["inFlight"] = @ - 1, ![result] = @ + 1]
  ELSE UNCHANGED auditVars

-----------------------------------------------------------------------------
(* QueuedExec::finish() *)

\* The first caller ends the operation and takes the handle; the others do nothing.
finish(o, result) ==
  IF stopped[o] THEN UNCHANGED execVars
  ELSE /\ stopped' = [stopped EXCEPT ![o] = TRUE]
       /\ aborted' = [aborted EXCEPT ![o] = result # "success"]
       /\ answer' = [answer EXCEPT ![o] = result]
       /\ ending' = [ending EXCEPT ![o] = "notify"]

\* ~AccessOperation(): an operation that nobody completed counts as abandoned.
Destroy(o) == Complete(o, "abandoned", <<>>)

\* What finish() does after notify().  After a cancellation there is nobody to
\* answer, and the handle is dropped.
Notified(o) ==
  IF answer[o] = "cancelled"
  THEN ending' = [ending EXCEPT ![o] = "over"] /\ Destroy(o)
  ELSE ending' = [ending EXCEPT ![o] = "answer"] /\ UNCHANGED auditVars

\* notify(), once wake() has installed it, is GrpcCallControl::cancel(): the flag
\* first, ...
Notify(o) ==
  /\ ending[o] = "notify"
  /\ IF handler[o] = "admitted"
     THEN Notified(o) /\ UNCHANGED cancelled
     ELSE /\ cancelled' = [cancelled EXCEPT ![o] = TRUE]
          /\ ending' = [ending EXCEPT ![o] = "cancel"]
          /\ UNCHANGED auditVars
  /\ UNCHANGED <<envVars, handler, canceller, ticket, replied, tryCancelled, stopped, aborted, answer,
                 queueVars, workVars, stats>>

\* Mutant of TryCancel: cancel() sets its flag and leaves the context alone.
FlagOnly(o) ==
  /\ ending[o] = "cancel"
  /\ Notified(o)
  /\ UNCHANGED <<envVars, peerVars, stopped, aborted, answer, queueVars, workVars, stats>>

\* ... then the context.
TryCancel(o) ==
  /\ ending[o] = "cancel"
  /\ tryCancelled' = [tryCancelled EXCEPT ![o] = TRUE]
  /\ Notified(o)
  /\ UNCHANGED <<envVars, handler, canceller, ticket, replied, cancelled, stopped, aborted, answer,
                 queueVars, workVars, stats>>

\* AuthorizedExecOp answers the peer, ...
Answer(o) ==
  /\ ending[o] = "answer"
  /\ replied' = [replied EXCEPT ![o] = answer[o]]
  /\ ending' = [ending EXCEPT ![o] = "audit"]
  /\ UNCHANGED <<envVars, handler, canceller, ticket, controlVars, stopped, aborted, answer, queueVars,
                 workVars, auditVars, stats>>

\* ... and then completes the audit.
Audit(o) ==
  /\ ending[o] = "audit"
  /\ Complete(o, answer[o], <<>>)
  /\ ending' = [ending EXCEPT ![o] = "over"]
  /\ UNCHANGED <<envVars, peerVars, stopped, aborted, answer, queueVars, workVars, stats>>

-----------------------------------------------------------------------------
(* The server's thread *)

\* onRPC() of the registry, of the access control and of the RPC PV: the operation
\* is admitted, recorded, and its handle is owned by a QueuedExec.
Admit(o) ==
  /\ handler[o] = "new" /\ active /\ write
  /\ handler' = [handler EXCEPT ![o] = "admitted"]
  /\ records' = [records EXCEPT ![o] = <<"allowed">>]
  /\ counters' = [counters EXCEPT !["authorized"] = @ + 1, !["inFlight"] = @ + 1]
  /\ UNCHANGED <<envVars, canceller, ticket, replied, controlVars, execVars, queueVars, workVars,
                 outcome, stats>>

\* "endpoint retired", or "access denied" under the id 0.
RefuseEntry(o) ==
  /\ handler[o] = "new" /\ ~(active /\ write)
  /\ handler' = [handler EXCEPT ![o] = "refused"]
  /\ replied' = [replied EXCEPT ![o] = "error"]
  /\ UNCHANGED <<envVars, canceller, ticket, controlVars, execVars, queueVars, workVars, auditVars, stats>>

\* extractArgs() throws.
BadRequest(o) ==
  /\ handler[o] = "admitted"
  /\ handler' = [handler EXCEPT ![o] = "returned"]
  /\ stats' = Count("invalid")
  /\ finish(o, "error")
  /\ UNCHANGED <<envVars, canceller, ticket, replied, controlVars, queueVars, workVars, auditVars>>

\* wake() cancels the control at once when the operation has already ended.
Wake(o) ==
  /\ handler[o] = "admitted"
  /\ handler' = [handler EXCEPT ![o] = "submitted"]
  /\ cancelled' = [cancelled EXCEPT ![o] = stopped[o]]
  /\ tryCancelled' = [tryCancelled EXCEPT ![o] = stopped[o]]

\* submit() queues the task ...
Submit(o) ==
  /\ Wake(o)
  /\ task' = [task EXCEPT ![o] = "queued"]
  /\ UNCHANGED <<envVars, canceller, ticket, replied, execVars, failed, workVars, auditVars, stats>>

\* ... or fails it at once.
SubmitRejected(o) ==
  /\ Wake(o)
  /\ task' = [task EXCEPT ![o] = "gone"] /\ failed' = [failed EXCEPT ![o] = TRUE]
  /\ finish(o, "error")
  /\ UNCHANGED <<envVars, canceller, ticket, replied, workVars, auditVars, stats>>

\* OperationQueue::cancel(): a task that waits leaves its lane.  Its fail() finds
\* the operation ended.
QueueCancel(o) ==
  /\ task' = [task EXCEPT ![o] = IF @ = "queued" THEN "gone" ELSE @]
  /\ failed' = [failed EXCEPT ![o] = @ \/ task[o] # "gone"]

\* ticket(): the operation may have ended before the queue's id is known.
StoreTicket(o) ==
  /\ handler[o] = "submitted"
  /\ handler' = [handler EXCEPT ![o] = "returned"]
  /\ ticket' = [ticket EXCEPT ![o] = TRUE]
  /\ IF aborted[o] THEN QueueCancel(o) ELSE UNCHANGED queueVars
  /\ UNCHANGED <<envVars, canceller, replied, controlVars, execVars, workVars, auditVars, stats>>

\* Mutant of CancelAudit: the callback of QueuedExec replaces that of the audit.
CancelUnaudited(o) ==
  /\ o \in Cancelled /\ canceller[o] = "none"
  /\ handler[o] \in {"admitted", "submitted", "returned"} /\ replied[o] = "none"
  /\ canceller' = [canceller EXCEPT ![o] = "exec"]
  /\ UNCHANGED <<envVars, handler, ticket, replied, controlVars, execVars, queueVars, workVars,
                 auditVars, stats>>

\* The peer cancels: onCancel() completes the audit, ...
CancelAudit(o) ==
  /\ o \in Cancelled /\ canceller[o] = "none"
  /\ handler[o] \in {"admitted", "submitted", "returned"} /\ replied[o] = "none"
  /\ Complete(o, "cancelled", <<>>)
  /\ canceller' = [canceller EXCEPT ![o] = "exec"]
  /\ UNCHANGED <<envVars, handler, ticket, replied, controlVars, execVars, queueVars, workVars, stats>>

\* ... ends the operation, ...
CancelExec(o) ==
  /\ canceller[o] = "exec"
  /\ finish(o, "cancelled")
  /\ canceller' = [canceller EXCEPT ![o] = "queue"]
  /\ UNCHANGED <<envVars, handler, ticket, replied, controlVars, queueVars, workVars, auditVars, stats>>

\* ... and its task, if the queue's id is known.
CancelTask(o) ==
  /\ canceller[o] = "queue" /\ ~(answer[o] = "cancelled" /\ ending[o] \in {"notify", "cancel"})
  /\ canceller' = [canceller EXCEPT ![o] = "over"]
  /\ IF ticket[o] THEN QueueCancel(o) ELSE UNCHANGED queueVars
  /\ UNCHANGED <<envVars, handler, ticket, replied, controlVars, execVars, workVars, auditVars, stats>>

-----------------------------------------------------------------------------
(* The worker: RpcPV's run() and GrpcBridge::call() *)

Goto(o, where) == worker' = [worker EXCEPT ![o] = where]

Proceed(o, from, to) ==
  /\ worker[o] = from /\ Goto(o, to)
  /\ UNCHANGED <<envVars, peerVars, execVars, queueVars, sent, call, auditVars, stats>>

\* The exception that leaves call() ends the operation.
Throw(o) ==
  /\ finish(o, "error")
  /\ Goto(o, "return")
  /\ UNCHANGED <<envVars, peerVars, queueVars, sent>>

\* Of a lane one task runs.
Start(o) ==
  /\ task[o] = "queued" /\ \A p \in Ops : task[p] # "running"
  /\ task' = [task EXCEPT ![o] = "running"]
  /\ Goto(o, IF stopped[o] THEN "return" ELSE "build")
  /\ UNCHANGED <<envVars, peerVars, execVars, failed, sent, call, auditVars, stats>>

\* The request cannot be built from the arguments, or no time is left.
BuildFails(o) ==
  /\ worker[o] = "build"
  /\ stats' = IF stopped[o] THEN stats ELSE Count("invalid")
  /\ Throw(o) /\ UNCHANGED <<call, auditVars>>

\* The request is built: the control is tested, then beforeDispatch() asks
\* whether the operation has ended.
CheckControl(o) == ~cancelled[o] /\ Proceed(o, "build", "before")
CheckStopped(o) == ~stopped[o] /\ Proceed(o, "before", "rights")

\* One of the tests finds that the operation has ended.
Ended(o) ==
  /\ \/ worker[o] \in {"build", "sent"} /\ cancelled[o]
     \/ worker[o] \in {"before", "authorized"} /\ stopped[o]
  /\ stats' = IF sent[o] THEN Count("failed") ELSE stats
  /\ Throw(o) /\ UNCHANGED <<call, auditVars>>

\* Mutant of RecordDenied: a refusal is always recorded under the admitted id.
RecordUnderId(o) ==
  IF claim(o) THEN Complete(o, "denied", <<"denied">>)
  ELSE records' = [records EXCEPT ![o] = @ \o <<"denied">>] /\ UNCHANGED <<outcome, counters>>

\* The refusal closes the operation as denied.  If a cancellation or an error
\* completed it first, the refusal is recorded under the id 0.
RecordDenied(o) == Complete(o, "denied", <<"denied">>)

\* Mutant of Denied: what authorizeWriteDispatch() returns is ignored.
DeniedIgnored(o) ==
  /\ worker[o] = "rights" /\ ~write
  /\ stats' = Count("unauthorized")
  /\ RecordDenied(o)
  /\ Goto(o, "authorized")
  /\ UNCHANGED <<envVars, peerVars, execVars, queueVars, sent, call>>

\* authorized(): the right was taken away after admission.
Denied(o) ==
  /\ worker[o] = "rights" /\ ~write
  /\ stats' = Count("unauthorized")
  /\ RecordDenied(o)
  /\ Throw(o) /\ UNCHANGED call

\* The lease of the registration is over; the audit will see an error.
Retired(o) ==
  /\ worker[o] = "rights" /\ write /\ ~active
  /\ stats' = Count("unauthorized")
  /\ Throw(o) /\ UNCHANGED <<call, auditVars>>

Authorize(o) == write /\ active /\ Proceed(o, "rights", "authorized")

Send(o) ==
  /\ worker[o] = "authorized" /\ ~stopped[o]
  /\ sent' = [sent EXCEPT ![o] = TRUE] /\ stats' = Count("dispatched")
  /\ Goto(o, "sent")
  /\ UNCHANGED <<envVars, peerVars, execVars, queueVars, call, auditVars>>

\* The flag is tested once more.  No lock is held: cancel() may come after it.
CheckAgain(o) == ~cancelled[o] /\ Proceed(o, "sent", "prepared")

\* PrepareUnaryCall() and StartCall(): the backend may act from here on, unless the
\* context was cancelled.  Such a call ends with CANCELLED and is never sent.
StartCall(o) ==
  /\ worker[o] = "prepared"
  /\ call' = [call EXCEPT ![o] = IF tryCancelled[o] THEN "dropped" ELSE "started"]
  /\ Goto(o, "calling")
  /\ UNCHANGED <<envVars, peerVars, execVars, queueVars, sent, auditVars, stats>>

CallOk(o) ==
  /\ worker[o] = "calling" /\ call[o] = "started"
  /\ call' = [call EXCEPT ![o] = "ok"]
  /\ stats' = Count("succeeded")
  /\ finish(o, "success")
  /\ Goto(o, "return")
  /\ UNCHANGED <<envVars, peerVars, queueVars, sent, auditVars>>

\* The backend, the transport, the deadline, the cancelled context or the reply's
\* decoding fails the call.
CallFails(o) ==
  /\ worker[o] = "calling"
  /\ call' = [call EXCEPT ![o] = IF @ = "started" THEN "failed" ELSE @]
  /\ stats' = Count("failed")
  /\ Throw(o) /\ UNCHANGED auditVars

\* run() returns, and the lane is free.
Return(o) ==
  /\ worker[o] = "return"
  /\ Goto(o, "none") /\ task' = [task EXCEPT ![o] = "gone"]
  /\ UNCHANGED <<envVars, peerVars, execVars, failed, sent, call, auditVars, stats>>

-----------------------------------------------------------------------------
(* The queue and the rest of the application *)

\* The deadline of a task passes, or the queue shuts down: fail() is called once.
Fail(o) ==
  /\ o \in Timed
  /\ task[o] \in {"queued", "running"} /\ ~failed[o]
  /\ failed' = [failed EXCEPT ![o] = TRUE]
  /\ task' = [task EXCEPT ![o] = IF @ = "queued" THEN "gone" ELSE @]
  /\ finish(o, "error")
  /\ UNCHANGED <<envVars, peerVars, workVars, auditVars, stats>>

\* A policy change is recomputed for the channel.
RightChanges ==
  /\ changes < MaxChanges
  /\ write' = ~write /\ changes' = changes + 1
  /\ UNCHANGED <<active, peerVars, execVars, queueVars, workVars, auditVars, stats>>

\* A reload retires the registration of the endpoint.
Retire ==
  /\ active /\ changes < MaxChanges
  /\ active' = FALSE /\ changes' = changes + 1
  /\ UNCHANGED <<write, peerVars, execVars, queueVars, workVars, auditVars, stats>>

-----------------------------------------------------------------------------
EndStep(o) == Notify(o) \/ TryCancel(o) \/ Answer(o) \/ Audit(o)
CancelStep(o) == CancelExec(o) \/ CancelTask(o)
HandlerStep(o) ==
  \/ Admit(o) \/ RefuseEntry(o) \/ BadRequest(o) \/ Submit(o) \/ SubmitRejected(o) \/ StoreTicket(o)
WorkerStep(o) ==
  \/ Start(o) \/ BuildFails(o) \/ CheckControl(o) \/ CheckStopped(o) \/ Ended(o) \/ Denied(o)
  \/ Retired(o) \/ Authorize(o) \/ Send(o) \/ CheckAgain(o) \/ StartCall(o) \/ CallOk(o)
  \/ CallFails(o) \/ Return(o)

ThreadStep == \E o \in Ops : HandlerStep(o) \/ CancelStep(o) \/ EndStep(o) \/ WorkerStep(o)

Next ==
  \/ ThreadStep
  \/ \E o \in Ops : CancelAudit(o) \/ Fail(o)
  \/ RightChanges \/ Retire

\* Some thread that can run does.  The deadline of the gRPC context ends every
\* call, so a worker always returns; and no thread runs for ever.
Spec == Init /\ [][Next]_vars /\ WF_vars(ThreadStep)

-----------------------------------------------------------------------------
(* Properties *)

\* However replies, refusals, cancellations and failures race, an admitted
\* operation has at most one completion record, its last one, and the counters of
\* access:operations are exact.
OneCompletion ==
  /\ \A o \in Ops : \A i \in DOMAIN records[o] :
       records[o][i] = "completion" => i = Len(records[o])
  /\ counters["authorized"] = Cardinality({o \in Ops : records[o] # <<>>})
  /\ counters["inFlight"] = Cardinality({o \in Ops : records[o] # <<>> /\ outcome[o] = "open"})
  /\ \A k \in Outcomes : counters[k] = Cardinality({o \in Ops : outcome[o] = k})

\* What is recorded is true: a success was answered by the backend, and what was
\* denied at dispatch never reached it.  Each call that was counted as dispatched
\* is counted once more when it ends, and only then.
OutcomesAreTrue ==
  /\ \A o \in Ops : /\ outcome[o] = "success" => call[o] = "ok"
                    /\ outcome[o] = "denied" => call[o] = "none"
  /\ stats.dispatched =
       stats.succeeded + stats.failed + Cardinality({o \in Ops : worker[o] \in {"sent", "prepared", "calling"}})

\* Once the thread that ended an operation has cancelled its call (and so before
\* the peer is answered), the backend gets no call for it that it had not got
\* before, wherever the worker is: cancel() that comes after the last test of the
\* flag is met by the cancelled context.
EndedNeverCalled ==
  [][\A o \in Ops :
       ending[o] \in {"answer", "audit", "over"} /\ call[o] \in {"none", "dropped"}
         => call'[o] \in {"none", "dropped"}]_vars

\* Every admitted operation is completed with a known outcome and leaves its lane;
\* none is destroyed unanswered and counted as abandoned.
EveryCallCompletes ==
  \A o \in Ops : handler[o] = "admitted" ~>
    outcome[o] \in Outcomes \ {"abandoned"} /\ task[o] \in {"none", "gone"}
=============================================================================
