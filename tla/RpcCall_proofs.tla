--------------------------- MODULE RpcCall_proofs ---------------------------
(***************************************************************************)
(* RPC calls, for any finite set of them.                                  *)
(*                                                                         *)
(* The argument: every step is made for one call, and leaves the others    *)
(* alone, so what the steps keep (CallInv, RecordInv) is said of one call. *)
(* The flag that ends it is set once, and the context is cancelled before  *)
(* the peer is answered; whoever finds the audit open closes it.  The      *)
(* counters are then sizes of sets that gain or lose one call at a time.   *)
(***************************************************************************)
EXTENDS RpcCall, Integers, FiniteSetTheorems, TLAPS

Handlers == {"new", "admitted", "submitted", "returned", "refused"}
Cancellers == {"none", "exec", "queue", "over"}
Endings == {"none", "notify", "cancel", "answer", "audit", "over"}
Answers == {"success", "error", "cancelled"}
Tasks == {"none", "queued", "running", "gone"}
Places == {"none", "build", "before", "rights", "authorized", "sent", "prepared", "calling", "return"}
Calls == {"none", "dropped", "started", "ok", "failed"}
Entries == {"allowed", "denied", "completion"}
Counters == Outcomes \cup {"authorized", "inFlight"}
Stats == {"dispatched", "succeeded", "failed", "invalid", "unauthorized"}

Typed ==
  /\ handler \in [Ops -> Handlers] /\ canceller \in [Ops -> Cancellers]
  /\ cancelled \in [Ops -> BOOLEAN] /\ tryCancelled \in [Ops -> BOOLEAN]
  /\ stopped \in [Ops -> BOOLEAN] /\ ending \in [Ops -> Endings]
  /\ answer \in [Ops -> Answers \cup {"none"}]
  /\ task \in [Ops -> Tasks]
  /\ worker \in [Ops -> Places] /\ sent \in [Ops -> BOOLEAN] /\ call \in [Ops -> Calls]
  /\ outcome \in [Ops -> Outcomes \cup {"open"}] /\ records \in [Ops -> Seq(Entries)]
  /\ counters \in [Counters -> Int] /\ stats \in [Stats -> Nat]

\* How far a call has come, in the eyes of the server's thread, of the thread that
\* ends it, of the worker and of the audit.
CallInv(o) ==
  /\ handler[o] \in {"new", "refused"} =>
       outcome[o] = "open" /\ ~stopped[o] /\ canceller[o] = "none" /\ task[o] = "none"
  /\ handler[o] = "admitted" => task[o] = "none"
  /\ worker[o] # "none" <=> task[o] = "running"
  /\ stopped[o] <=> ending[o] # "none"
  /\ stopped[o] <=> answer[o] # "none"
  /\ answer[o] = "success" => call[o] = "ok"
  /\ outcome[o] = "success" => call[o] = "ok"
  /\ outcome[o] = "denied" =>
       call[o] = "none" /\ worker[o] \in {"return", "none"} /\ task[o] \in {"running", "gone"}
  /\ ending[o] \in {"answer", "audit", "over"} => tryCancelled[o] \/ task[o] = "none"
  /\ task[o] \in {"none", "queued"} => call[o] = "none" /\ ~sent[o]
  /\ worker[o] \in {"build", "before", "rights", "authorized"} => call[o] = "none" /\ ~sent[o]
  /\ worker[o] \in {"sent", "prepared"} => call[o] = "none" /\ sent[o]
  /\ worker[o] = "calling" => call[o] \in {"started", "dropped"} /\ sent[o]

\* Only an admitted call has records, and only a completed one a completion, the last.
RecordInv(o) ==
  /\ records[o] = <<>> <=> handler[o] \in {"new", "refused"}
  /\ \A i \in DOMAIN records[o] :
       records[o][i] = "completion" => i = Len(records[o]) /\ outcome[o] # "open"

Admitted == {o \in Ops : records[o] # <<>>}
Open == {o \in Ops : records[o] # <<>> /\ outcome[o] = "open"}
With(k) == {o \in Ops : outcome[o] = k}
Sending == {o \in Ops : worker[o] \in {"sent", "prepared", "calling"}}

\* The counters of the audit and of the RPC statistics are the sizes of these sets.
AuditCount ==
  /\ counters["authorized"] = Cardinality(Admitted)
  /\ counters["inFlight"] = Cardinality(Open)
  /\ \A k \in Outcomes : counters[k] = Cardinality(With(k))
SendCount ==
  stats["dispatched"] = stats["succeeded"] + stats["failed"] + Cardinality(Sending)

IInv ==
  /\ Typed /\ AuditCount /\ SendCount
  /\ \A o \in Ops : CallInv(o) /\ RecordInv(o)

\* What a step for another call leaves of this one.
Same(o) ==
  /\ handler'[o] = handler[o] /\ canceller'[o] = canceller[o] /\ tryCancelled'[o] = tryCancelled[o]
  /\ stopped'[o] = stopped[o] /\ ending'[o] = ending[o] /\ answer'[o] = answer[o]
  /\ task'[o] = task[o] /\ worker'[o] = worker[o] /\ sent'[o] = sent[o] /\ call'[o] = call[o]
  /\ outcome'[o] = outcome[o] /\ records'[o] = records[o]

\* A step for call p.
Steps(p) == Typed' /\ CallInv(p)' /\ RecordInv(p)' /\ \A o \in Ops \ {p} : Same(o)

-----------------------------------------------------------------------------
(* finish() and complete() *)

\* finish(): the first caller sets the answer and goes on to notify.
Finished(p, result) ==
  /\ stopped' \in [Ops -> BOOLEAN] /\ ending' \in [Ops -> Endings]
  /\ answer' \in [Ops -> Answers \cup {"none"}]
  /\ \A o \in Ops \ {p} : stopped'[o] = stopped[o] /\ ending'[o] = ending[o] /\ answer'[o] = answer[o]
  /\ stopped'[p]
  /\ stopped[p] => ending'[p] = ending[p] /\ answer'[p] = answer[p]
  /\ ~stopped[p] => ending'[p] = "notify" /\ answer'[p] = result

\* complete(): the first caller records the outcome.
Completed(p, result) ==
  /\ outcome' \in [Ops -> Outcomes \cup {"open"}] /\ records' \in [Ops -> Seq(Entries)]
  /\ counters' \in [Counters -> Int]
  /\ \A o \in Ops \ {p} : outcome'[o] = outcome[o] /\ records'[o] = records[o]
  /\ outcome'[p] = IF outcome[p] = "open" THEN result ELSE outcome[p]
  /\ outcome'[p] # "open" /\ records'[p] # <<>>
  /\ \A i \in DOMAIN records'[p] : records'[p][i] = "completion" => i = Len(records'[p])

\* QueuedExec::finish() does that.
LEMMA FinishFacts ==
  ASSUME Typed, NEW p \in Ops, NEW result \in Answers, finish(p, result)
  PROVE  Finished(p, result)
<1>1. CASE stopped[p] BY <1>1 DEF Finished, finish, execVars, Typed
<1>2. CASE ~stopped[p]
  <2>1. /\ stopped' = [stopped EXCEPT ![p] = TRUE] /\ answer' = [answer EXCEPT ![p] = result]
        /\ ending' = [ending EXCEPT ![p] = "notify"]
    BY <1>2 DEF finish
  <2>2. stopped' \in [Ops -> BOOLEAN] /\ stopped'[p] /\ \A o \in Ops \ {p} : stopped'[o] = stopped[o]
    BY <2>1 DEF Typed
  <2>3. /\ answer' \in [Ops -> Answers \cup {"none"}] /\ answer'[p] = result
        /\ \A o \in Ops \ {p} : answer'[o] = answer[o]
    BY <2>1 DEF Typed
  <2>4. /\ ending' \in [Ops -> Endings] /\ ending'[p] = "notify"
        /\ \A o \in Ops \ {p} : ending'[o] = ending[o]
    BY <2>1 DEF Typed, Endings
  <2>5. QED BY <1>2, <2>2, <2>3, <2>4 DEF Finished
<1>3. QED BY <1>1, <1>2

\* Each count of the RPC statistics is a number.
LEMMA CountTyped == ASSUME Typed, NEW k \in Stats PROVE Count(k) \in [Stats -> Nat]
<1>1. stats \in [Stats -> Nat] BY DEF Typed
<1>2. QED BY <1>1 DEF Count

\* A call that ends without a refusal adds nothing before its completion record.
LEMMA NothingDenied == <<>> \in Seq({"denied"})
OBVIOUS

\* AccessOperation::finish() does that for a call that was admitted.
LEMMA CompleteFacts ==
  ASSUME Typed, NEW p \in Ops, RecordInv(p), NEW result \in Outcomes, NEW before \in Seq({"denied"}),
         records[p] # <<>>, Complete(p, result, before)
  PROVE  Completed(p, result)
<1> USE DEF Completed
<1>1. CASE ~claim(p)
  BY <1>1 DEF Complete, claim, auditVars, Typed, RecordInv
<1>2. CASE claim(p)
  <2> DEFINE s == records[p]
             b == s \o before
             t == b \o <<"completion">>
  <2>1. /\ outcome' = [outcome EXCEPT ![p] = result] /\ records' = [records EXCEPT ![p] = t]
        /\ counters' = [counters EXCEPT !["inFlight"] = @ - 1, ![result] = @ + 1]
    BY <1>2 DEF Complete
  <2>2. s \in Seq(Entries) /\ before \in Seq(Entries) /\ <<"completion">> \in Seq(Entries)
    BY DEF Typed, Entries
  <2>3. b \in Seq(Entries) /\ \A i \in DOMAIN b : b[i] # "completion"
    <3>1. \A i \in DOMAIN s : s[i] # "completion" BY <1>2 DEF RecordInv, claim
    <3>2. \A i \in DOMAIN before : before[i] # "completion" OBVIOUS
    <3>3. b \in Seq(Entries) BY <2>2
    <3>4. ASSUME NEW i \in DOMAIN b PROVE b[i] # "completion"
      <4>1. \/ i \in DOMAIN s /\ b[i] = s[i]
            \/ i - Len(s) \in DOMAIN before /\ b[i] = before[i - Len(s)]
        BY <2>2
      <4>2. QED BY <3>1, <3>2, <4>1
    <3>5. QED BY <3>3, <3>4
  <2> HIDE DEF b
  <2>4. /\ t \in Seq(Entries) /\ t # <<>> /\ Len(t) = Len(b) + 1
        /\ \A i \in DOMAIN t : i # Len(t) => i \in DOMAIN b /\ t[i] = b[i]
    BY <2>2, <2>3
  <2>5. \A i \in DOMAIN t : t[i] = "completion" => i = Len(t) BY <2>3, <2>4
  <2> HIDE DEF t
  <2>6. records' \in [Ops -> Seq(Entries)] /\ records'[p] = t
        /\ \A o \in Ops \ {p} : records'[o] = records[o]
    BY <2>1, <2>4 DEF Typed
  <2>7. outcome' \in [Ops -> Outcomes \cup {"open"}] /\ outcome'[p] = result
        /\ \A o \in Ops \ {p} : outcome'[o] = outcome[o]
    BY <2>1 DEF Typed
  <2>8. counters' \in [Counters -> Int]
    <3>1. "inFlight" \in Counters /\ result \in Counters BY DEF Counters
    <3>2. QED BY <2>1, <3>1 DEF Typed
  <2>9. result # "open" BY DEF Outcomes
  <2>10. QED BY <1>2, <2>4, <2>5, <2>6, <2>7, <2>8, <2>9 DEF claim
<1>3. QED BY <1>1, <1>2

-----------------------------------------------------------------------------
(* One step for one call *)

\* The server's thread.
LEMMA HandlerSteps ==
  ASSUME Typed, NEW p \in Ops, CallInv(p), RecordInv(p),
         Admit(p) \/ RefuseEntry(p) \/ BadRequest(p) \/ Submit(p) \/ SubmitRejected(p) \/ StoreTicket(p)
  PROVE  Steps(p)
<1> USE DEF envVars, execVars, queueVars, auditVars, controlVars, peerVars, workVars
<1>1. CASE Admit(p)
  <2>1. <<"allowed">> \in Seq(Entries) /\ <<"allowed">> # <<>> BY DEF Entries
  <2>2. Typed'
    BY <1>1, <2>1 DEF Admit, Typed, Handlers, Entries, Counters
  <2>3. \A o \in Ops \ {p} : Same(o)
    BY <1>1, <2>1 DEF Admit, Typed, Same
  <2>4. CallInv(p)'
    BY <1>1, <2>1 DEF Admit, Typed, CallInv
  <2>5. RecordInv(p)'
    BY <1>1, <2>1 DEF Admit, Typed, RecordInv
  <2>6. QED BY <2>2, <2>3, <2>4, <2>5 DEF Steps
<1>2. CASE RefuseEntry(p)
  <2>1. Typed'
    BY <1>2 DEF RefuseEntry, Typed, Handlers
  <2>2. \A o \in Ops \ {p} : Same(o)
    BY <1>2 DEF RefuseEntry, Typed, Same
  <2>3. CallInv(p)'
    BY <1>2 DEF RefuseEntry, Typed, CallInv
  <2>4. RecordInv(p)'
    BY <1>2 DEF RefuseEntry, Typed, RecordInv
  <2>5. QED BY <2>1, <2>2, <2>3, <2>4 DEF Steps
<1>3. CASE BadRequest(p)
  <2>1. Finished(p, "error")
    <3>1. finish(p, "error") /\ "error" \in Answers BY <1>3 DEF BadRequest, Answers
    <3>2. QED BY <3>1, FinishFacts
  <2>2. stats' \in [Stats -> Nat]
    <3>1. "invalid" \in Stats BY DEF Stats
    <3>2. QED BY <1>3, <3>1, CountTyped DEF BadRequest, Typed
  <2>3. Typed'
    BY <1>3, <2>1, <2>2 DEF BadRequest, Finished, Typed, Handlers
  <2>4. \A o \in Ops \ {p} : Same(o)
    BY <1>3, <2>1, <2>2 DEF BadRequest, Finished, Typed, Same
  <2>5. CallInv(p)'
    BY <1>3, <2>1, <2>2 DEF BadRequest, Finished, Typed, CallInv
  <2>6. RecordInv(p)'
    BY <1>3, <2>1, <2>2 DEF BadRequest, Finished, Typed, RecordInv
  <2>7. QED BY <2>3, <2>4, <2>5, <2>6 DEF Steps
<1>4. CASE Submit(p)
  <2>1. Typed'
    BY <1>4 DEF Submit, Wake, Typed, Handlers, Tasks
  <2>2. \A o \in Ops \ {p} : Same(o)
    BY <1>4 DEF Submit, Wake, Typed, Same
  <2>3. CallInv(p)'
    BY <1>4 DEF Submit, Wake, Typed, CallInv
  <2>4. RecordInv(p)'
    BY <1>4 DEF Submit, Wake, Typed, RecordInv
  <2>5. QED BY <2>1, <2>2, <2>3, <2>4 DEF Steps
<1>5. CASE SubmitRejected(p)
  <2>1. Finished(p, "error")
    <3>1. finish(p, "error") /\ "error" \in Answers BY <1>5 DEF SubmitRejected, Answers
    <3>2. QED BY <3>1, FinishFacts
  <2>2. Typed'
    BY <1>5, <2>1 DEF SubmitRejected, Wake, Finished, Typed, Handlers, Tasks
  <2>3. \A o \in Ops \ {p} : Same(o)
    BY <1>5, <2>1 DEF SubmitRejected, Wake, Finished, Typed, Same
  <2>4. CallInv(p)'
    BY <1>5, <2>1 DEF SubmitRejected, Wake, Finished, Typed, CallInv
  <2>5. RecordInv(p)'
    BY <1>5, <2>1 DEF SubmitRejected, Wake, Finished, Typed, RecordInv
  <2>6. QED BY <2>2, <2>3, <2>4, <2>5 DEF Steps
<1>6. CASE StoreTicket(p)
  <2>1. Typed'
    BY <1>6 DEF StoreTicket, QueueCancel, Typed, Handlers, Tasks
  <2>2. \A o \in Ops \ {p} : Same(o)
    BY <1>6 DEF StoreTicket, QueueCancel, Typed, Same
  <2>3. CallInv(p)'
    BY <1>6 DEF StoreTicket, QueueCancel, Typed, CallInv
  <2>4. RecordInv(p)'
    BY <1>6 DEF StoreTicket, QueueCancel, Typed, RecordInv
  <2>5. QED BY <2>1, <2>2, <2>3, <2>4 DEF Steps
<1>7. QED BY <1>1, <1>2, <1>3, <1>4, <1>5, <1>6

\* The peer cancels.
LEMMA CancelSteps ==
  ASSUME Typed, NEW p \in Ops, CallInv(p), RecordInv(p),
         CancelAudit(p) \/ CancelExec(p) \/ CancelTask(p) \/ Fail(p)
  PROVE  Steps(p)
<1> USE DEF envVars, execVars, queueVars, auditVars, controlVars, peerVars, workVars
<1>1. CASE CancelAudit(p)
  <2>1. records[p] # <<>> BY <1>1 DEF CancelAudit, CallInv, RecordInv, Typed
  <2>2. Completed(p, "cancelled")
    <3>1. Complete(p, "cancelled", <<>>) /\ "cancelled" \in Outcomes /\ <<>> \in Seq({"denied"})
      BY <1>1 DEF CancelAudit, Outcomes
    <3>2. QED BY <2>1, <3>1, CompleteFacts
  <2>3. Typed'
    BY <1>1, <2>1, <2>2 DEF CancelAudit, Completed, Typed, Cancellers
  <2>4. \A o \in Ops \ {p} : Same(o)
    BY <1>1, <2>1, <2>2 DEF CancelAudit, Completed, Typed, Same
  <2>5. CallInv(p)'
    BY <1>1, <2>1, <2>2 DEF CancelAudit, Completed, Typed, CallInv
  <2>6. RecordInv(p)'
    BY <1>1, <2>1, <2>2 DEF CancelAudit, Completed, Typed, RecordInv
  <2>7. QED BY <2>3, <2>4, <2>5, <2>6 DEF Steps
<1>2. CASE CancelExec(p)
  <2>1. Finished(p, "cancelled")
    <3>1. finish(p, "cancelled") /\ "cancelled" \in Answers BY <1>2 DEF CancelExec, Answers
    <3>2. QED BY <3>1, FinishFacts
  <2>2. Typed'
    BY <1>2, <2>1 DEF CancelExec, Finished, Typed, Cancellers
  <2>3. \A o \in Ops \ {p} : Same(o)
    BY <1>2, <2>1 DEF CancelExec, Finished, Typed, Same
  <2>4. CallInv(p)'
    BY <1>2, <2>1 DEF CancelExec, Finished, Typed, CallInv
  <2>5. RecordInv(p)'
    BY <1>2, <2>1 DEF CancelExec, Finished, Typed, RecordInv
  <2>6. QED BY <2>2, <2>3, <2>4, <2>5 DEF Steps
<1>3. CASE CancelTask(p)
  <2>1. Typed'
    BY <1>3 DEF CancelTask, QueueCancel, Typed, Cancellers, Tasks
  <2>2. \A o \in Ops \ {p} : Same(o)
    BY <1>3 DEF CancelTask, QueueCancel, Typed, Same
  <2>3. CallInv(p)'
    BY <1>3 DEF CancelTask, QueueCancel, Typed, CallInv
  <2>4. RecordInv(p)'
    BY <1>3 DEF CancelTask, QueueCancel, Typed, RecordInv
  <2>5. QED BY <2>1, <2>2, <2>3, <2>4 DEF Steps
<1>4. CASE Fail(p)
  <2>1. Finished(p, "error")
    <3>1. finish(p, "error") /\ "error" \in Answers BY <1>4 DEF Fail, Answers
    <3>2. QED BY <3>1, FinishFacts
  <2>2. Typed'
    BY <1>4, <2>1 DEF Fail, Finished, Typed, Tasks
  <2>3. \A o \in Ops \ {p} : Same(o)
    BY <1>4, <2>1 DEF Fail, Finished, Typed, Same
  <2>4. CallInv(p)'
    BY <1>4, <2>1 DEF Fail, Finished, Typed, CallInv
  <2>5. RecordInv(p)'
    BY <1>4, <2>1 DEF Fail, Finished, Typed, RecordInv
  <2>6. QED BY <2>2, <2>3, <2>4, <2>5 DEF Steps
<1>5. QED BY <1>1, <1>2, <1>3, <1>4

\* The thread that has ended the operation answers and completes the audit.
LEMMA EndSteps ==
  ASSUME Typed, NEW p \in Ops, CallInv(p), RecordInv(p),
         Answer(p) \/ Audit(p)
  PROVE  Steps(p)
<1> USE DEF envVars, execVars, queueVars, auditVars, controlVars, peerVars, workVars
<1>1. CASE Answer(p)
  <2>1. Typed'
    BY <1>1 DEF Answer, Typed, Endings
  <2>2. \A o \in Ops \ {p} : Same(o)
    BY <1>1 DEF Answer, Typed, Same
  <2>3. CallInv(p)'
    BY <1>1 DEF Answer, Typed, CallInv
  <2>4. RecordInv(p)'
    BY <1>1 DEF Answer, Typed, RecordInv
  <2>5. QED BY <2>1, <2>2, <2>3, <2>4 DEF Steps
<1>2. CASE Audit(p)
  <2>1. records[p] # <<>> BY <1>2 DEF Audit, CallInv, RecordInv, Typed
  <2>2. Completed(p, answer[p])
    <3>1. Complete(p, answer[p], <<>>)
      BY <1>2 DEF Audit
    <3>2. answer[p] \in Outcomes
      BY <1>2 DEF Audit, Outcomes, CallInv, Typed, Answers
    <3>3. QED BY <2>1, <3>1, <3>2, NothingDenied, CompleteFacts
  <2>3. answer[p] \in Answers BY <1>2 DEF Audit, CallInv, Typed
  <2>4. Typed'
    BY <1>2, <2>1, <2>2, <2>3 DEF Audit, Completed, Typed, Endings
  <2>5. \A o \in Ops \ {p} : Same(o)
    BY <1>2, <2>1, <2>2, <2>3 DEF Audit, Completed, Typed, Same
  <2>6. CallInv(p)'
    BY <1>2, <2>1, <2>2, <2>3 DEF Audit, Completed, Typed, CallInv, Answers
  <2>7. RecordInv(p)'
    BY <1>2, <2>1, <2>2, <2>3 DEF Audit, Completed, Typed, RecordInv
  <2>8. QED BY <2>4, <2>5, <2>6, <2>7 DEF Steps
<1>3. QED BY <1>1, <1>2

\* The worker on its way to the call.
LEMMA CheckSteps ==
  ASSUME Typed, NEW p \in Ops, CallInv(p), RecordInv(p),
         Start(p) \/ CheckControl(p) \/ CheckStopped(p) \/ Authorize(p) \/ Send(p) \/ CheckAgain(p)
           \/ StartCall(p) \/ Return(p)
  PROVE  Steps(p)
<1> USE DEF envVars, execVars, queueVars, auditVars, controlVars, peerVars, workVars
<1>1. CASE Start(p)
  <2>1. Typed'
    BY <1>1 DEF Start, Goto, Typed, Tasks, Places
  <2>2. \A o \in Ops \ {p} : Same(o)
    BY <1>1 DEF Start, Goto, Typed, Same
  <2>3. CallInv(p)'
    BY <1>1 DEF Start, Goto, Typed, CallInv
  <2>4. RecordInv(p)'
    BY <1>1 DEF Start, Goto, Typed, RecordInv
  <2>5. QED BY <2>1, <2>2, <2>3, <2>4 DEF Steps
<1>2. CASE CheckControl(p)
  <2>1. Typed'
    BY <1>2 DEF CheckControl, Proceed, Goto, Typed, Places
  <2>2. \A o \in Ops \ {p} : Same(o)
    BY <1>2 DEF CheckControl, Proceed, Goto, Typed, Same
  <2>3. CallInv(p)'
    BY <1>2 DEF CheckControl, Proceed, Goto, Typed, CallInv
  <2>4. RecordInv(p)'
    BY <1>2 DEF CheckControl, Proceed, Goto, Typed, RecordInv
  <2>5. QED BY <2>1, <2>2, <2>3, <2>4 DEF Steps
<1>3. CASE CheckStopped(p)
  <2>1. Typed'
    BY <1>3 DEF CheckStopped, Proceed, Goto, Typed, Places
  <2>2. \A o \in Ops \ {p} : Same(o)
    BY <1>3 DEF CheckStopped, Proceed, Goto, Typed, Same
  <2>3. CallInv(p)'
    BY <1>3 DEF CheckStopped, Proceed, Goto, Typed, CallInv
  <2>4. RecordInv(p)'
    BY <1>3 DEF CheckStopped, Proceed, Goto, Typed, RecordInv
  <2>5. QED BY <2>1, <2>2, <2>3, <2>4 DEF Steps
<1>4. CASE Authorize(p)
  <2>1. Typed'
    BY <1>4 DEF Authorize, Proceed, Goto, Typed, Places
  <2>2. \A o \in Ops \ {p} : Same(o)
    BY <1>4 DEF Authorize, Proceed, Goto, Typed, Same
  <2>3. CallInv(p)'
    BY <1>4 DEF Authorize, Proceed, Goto, Typed, CallInv
  <2>4. RecordInv(p)'
    BY <1>4 DEF Authorize, Proceed, Goto, Typed, RecordInv
  <2>5. QED BY <2>1, <2>2, <2>3, <2>4 DEF Steps
<1>5. CASE Send(p)
  <2>1. Typed'
    BY <1>5 DEF Send, Goto, Count, Typed, Places, Stats
  <2>2. \A o \in Ops \ {p} : Same(o)
    BY <1>5 DEF Send, Goto, Count, Typed, Same
  <2>3. CallInv(p)'
    BY <1>5 DEF Send, Goto, Count, Typed, CallInv
  <2>4. RecordInv(p)'
    BY <1>5 DEF Send, Goto, Count, Typed, RecordInv
  <2>5. QED BY <2>1, <2>2, <2>3, <2>4 DEF Steps
<1>6. CASE StartCall(p)
  <2>1. Typed'
    BY <1>6 DEF StartCall, Goto, Typed, Places, Calls
  <2>2. \A o \in Ops \ {p} : Same(o)
    BY <1>6 DEF StartCall, Goto, Typed, Same
  <2>3. CallInv(p)'
    BY <1>6 DEF StartCall, Goto, Typed, CallInv
  <2>4. RecordInv(p)'
    BY <1>6 DEF StartCall, Goto, Typed, RecordInv
  <2>5. QED BY <2>1, <2>2, <2>3, <2>4 DEF Steps
<1>7. CASE Return(p)
  <2>1. Typed'
    BY <1>7 DEF Return, Goto, Typed, Places, Tasks
  <2>2. \A o \in Ops \ {p} : Same(o)
    BY <1>7 DEF Return, Goto, Typed, Same
  <2>3. CallInv(p)'
    BY <1>7 DEF Return, Goto, Typed, CallInv
  <2>4. RecordInv(p)'
    BY <1>7 DEF Return, Goto, Typed, RecordInv
  <2>5. QED BY <2>1, <2>2, <2>3, <2>4 DEF Steps
<1>8. CASE CheckAgain(p)
  <2>1. Typed'
    BY <1>8 DEF CheckAgain, Proceed, Goto, Typed, Places
  <2>2. \A o \in Ops \ {p} : Same(o)
    BY <1>8 DEF CheckAgain, Proceed, Goto, Typed, Same
  <2>3. CallInv(p)'
    BY <1>8 DEF CheckAgain, Proceed, Goto, Typed, CallInv
  <2>4. RecordInv(p)'
    BY <1>8 DEF CheckAgain, Proceed, Goto, Typed, RecordInv
  <2>5. QED BY <2>1, <2>2, <2>3, <2>4 DEF Steps
<1>9. QED BY <1>1, <1>2, <1>3, <1>4, <1>5, <1>6, <1>7, <1>8

\* The worker gives up, or the call ends.
LEMMA ThrowSteps ==
  ASSUME Typed, NEW p \in Ops, CallInv(p), RecordInv(p),
         BuildFails(p) \/ Ended(p) \/ Retired(p) \/ CallOk(p) \/ CallFails(p)
  PROVE  Steps(p)
<1> USE DEF envVars, execVars, queueVars, auditVars, controlVars, peerVars, workVars
<1>1. CASE BuildFails(p)
  <2>1. Finished(p, "error")
    <3>1. finish(p, "error") /\ "error" \in Answers BY <1>1 DEF BuildFails, Throw, Answers
    <3>2. QED BY <3>1, FinishFacts
  <2>2. stats' \in [Stats -> Nat]
    <3>1. "invalid" \in Stats BY DEF Stats
    <3>2. QED BY <1>1, <3>1, CountTyped DEF BuildFails, Typed
  <2>3. Typed'
    BY <1>1, <2>1, <2>2 DEF BuildFails, Throw, Goto, Finished, Typed, Places
  <2>4. \A o \in Ops \ {p} : Same(o)
    BY <1>1, <2>1, <2>2 DEF BuildFails, Throw, Goto, Finished, Typed, Same
  <2>5. CallInv(p)'
    BY <1>1, <2>1, <2>2 DEF BuildFails, Throw, Goto, Finished, Typed, CallInv
  <2>6. RecordInv(p)'
    BY <1>1, <2>1, <2>2 DEF BuildFails, Throw, Goto, Finished, Typed, RecordInv
  <2>7. QED BY <2>3, <2>4, <2>5, <2>6 DEF Steps
<1>2. CASE Ended(p)
  <2>1. Finished(p, "error")
    <3>1. finish(p, "error") /\ "error" \in Answers BY <1>2 DEF Ended, Throw, Answers
    <3>2. QED BY <3>1, FinishFacts
  <2>2. stats' \in [Stats -> Nat]
    <3>1. "failed" \in Stats BY DEF Stats
    <3>2. QED BY <1>2, <3>1, CountTyped DEF Ended, Typed
  <2>3. Typed'
    BY <1>2, <2>1, <2>2 DEF Ended, Throw, Goto, Finished, Typed, Places
  <2>4. \A o \in Ops \ {p} : Same(o)
    BY <1>2, <2>1, <2>2 DEF Ended, Throw, Goto, Finished, Typed, Same
  <2>5. CallInv(p)'
    BY <1>2, <2>1, <2>2 DEF Ended, Throw, Goto, Finished, Typed, CallInv
  <2>6. RecordInv(p)'
    BY <1>2, <2>1, <2>2 DEF Ended, Throw, Goto, Finished, Typed, RecordInv
  <2>7. QED BY <2>3, <2>4, <2>5, <2>6 DEF Steps
<1>3. CASE Retired(p)
  <2>1. Finished(p, "error")
    <3>1. finish(p, "error") /\ "error" \in Answers BY <1>3 DEF Retired, Throw, Answers
    <3>2. QED BY <3>1, FinishFacts
  <2>2. stats' \in [Stats -> Nat]
    <3>1. "unauthorized" \in Stats BY DEF Stats
    <3>2. QED BY <1>3, <3>1, CountTyped DEF Retired, Typed
  <2>3. Typed'
    BY <1>3, <2>1, <2>2 DEF Retired, Throw, Goto, Finished, Typed, Places
  <2>4. \A o \in Ops \ {p} : Same(o)
    BY <1>3, <2>1, <2>2 DEF Retired, Throw, Goto, Finished, Typed, Same
  <2>5. CallInv(p)'
    BY <1>3, <2>1, <2>2 DEF Retired, Throw, Goto, Finished, Typed, CallInv
  <2>6. RecordInv(p)'
    BY <1>3, <2>1, <2>2 DEF Retired, Throw, Goto, Finished, Typed, RecordInv
  <2>7. QED BY <2>3, <2>4, <2>5, <2>6 DEF Steps
<1>4. CASE CallOk(p)
  <2>1. Finished(p, "success")
    <3>1. finish(p, "success") /\ "success" \in Answers BY <1>4 DEF CallOk, Answers
    <3>2. QED BY <3>1, FinishFacts
  <2>2. stats' \in [Stats -> Nat]
    <3>1. "succeeded" \in Stats BY DEF Stats
    <3>2. QED BY <1>4, <3>1, CountTyped DEF CallOk, Typed
  <2>3. Typed'
    BY <1>4, <2>1, <2>2 DEF CallOk, Goto, Finished, Typed, Places, Calls
  <2>4. \A o \in Ops \ {p} : Same(o)
    BY <1>4, <2>1, <2>2 DEF CallOk, Goto, Finished, Typed, Same
  <2>5. CallInv(p)'
    BY <1>4, <2>1, <2>2 DEF CallOk, Goto, Finished, Typed, CallInv
  <2>6. RecordInv(p)'
    BY <1>4, <2>1, <2>2 DEF CallOk, Goto, Finished, Typed, RecordInv
  <2>7. QED BY <2>3, <2>4, <2>5, <2>6 DEF Steps
<1>5. CASE CallFails(p)
  <2>1. Finished(p, "error")
    <3>1. finish(p, "error") /\ "error" \in Answers BY <1>5 DEF CallFails, Throw, Answers
    <3>2. QED BY <3>1, FinishFacts
  <2>2. stats' \in [Stats -> Nat]
    <3>1. "failed" \in Stats BY DEF Stats
    <3>2. QED BY <1>5, <3>1, CountTyped DEF CallFails, Typed
  <2>3. Typed'
    BY <1>5, <2>1, <2>2 DEF CallFails, Throw, Goto, Finished, Typed, Places, Calls
  <2>4. \A o \in Ops \ {p} : Same(o)
    BY <1>5, <2>1, <2>2 DEF CallFails, Throw, Goto, Finished, Typed, Same
  <2>5. CallInv(p)'
    BY <1>5, <2>1, <2>2 DEF CallFails, Throw, Goto, Finished, Typed, CallInv
  <2>6. RecordInv(p)'
    BY <1>5, <2>1, <2>2 DEF CallFails, Throw, Goto, Finished, Typed, RecordInv
  <2>7. QED BY <2>3, <2>4, <2>5, <2>6 DEF Steps
<1>6. QED BY <1>1, <1>2, <1>3, <1>4, <1>5

\* After notify() the peer is answered, or the handle of a cancelled call is dropped.
LEMMA NotifiedFacts ==
  ASSUME Typed, NEW p \in Ops, RecordInv(p), records[p] # <<>>, Notified(p)
  PROVE  \/ ending' = [ending EXCEPT ![p] = "over"] /\ Completed(p, "abandoned")
         \/ ending' = [ending EXCEPT ![p] = "answer"] /\ UNCHANGED auditVars
<1>1. CASE answer[p] = "cancelled"
  <2>1. /\ ending' = [ending EXCEPT ![p] = "over"] /\ Complete(p, "abandoned", <<>>)
        /\ "abandoned" \in Outcomes
    BY <1>1 DEF Notified, Destroy, Outcomes
  <2>2. Completed(p, "abandoned") BY <2>1, NothingDenied, CompleteFacts
  <2>3. QED BY <2>1, <2>2
<1>2. CASE answer[p] # "cancelled" BY <1>2 DEF Notified
<1>3. QED BY <1>1, <1>2

\* The two steps of cancel() that end with it: with no control there is no task yet;
\* otherwise the context has been cancelled.
LEMMA NotifiedSteps ==
  ASSUME Typed, NEW p \in Ops, CallInv(p), RecordInv(p), Notified(p), stopped[p],
         UNCHANGED <<handler, canceller, cancelled, stopped, answer, task, worker, sent, call, stats>>,
         \/ task[p] = "none" /\ UNCHANGED tryCancelled
         \/ tryCancelled' = [tryCancelled EXCEPT ![p] = TRUE]
  PROVE  Steps(p)
<1>1. handler[p] \notin {"new", "refused"} /\ records[p] # <<>> BY DEF CallInv, RecordInv, Typed
<1>2. /\ tryCancelled' \in [Ops -> BOOLEAN] /\ (tryCancelled'[p] \/ task'[p] = "none")
      /\ \A o \in Ops \ {p} : tryCancelled'[o] = tryCancelled[o]
  BY DEF Typed
<1>3. CASE ending' = [ending EXCEPT ![p] = "over"] /\ Completed(p, "abandoned")
  <2>1. Typed' BY <1>2, <1>3 DEF Typed, Completed, Endings
  <2>2. \A o \in Ops \ {p} : Same(o) BY <1>2, <1>3 DEF Typed, Completed, Same
  <2>3. CallInv(p)' BY <1>1, <1>2, <1>3 DEF Typed, Completed, CallInv
  <2>4. RecordInv(p)' BY <1>1, <1>3 DEF Completed, RecordInv
  <2>5. QED BY <2>1, <2>2, <2>3, <2>4 DEF Steps
<1>4. CASE ending' = [ending EXCEPT ![p] = "answer"] /\ UNCHANGED auditVars
  <2> USE DEF auditVars
  <2>1. Typed' BY <1>2, <1>4 DEF Typed, Endings
  <2>2. \A o \in Ops \ {p} : Same(o) BY <1>2, <1>4 DEF Typed, Same
  <2>3. CallInv(p)' BY <1>1, <1>2, <1>4 DEF Typed, CallInv
  <2>4. RecordInv(p)' BY <1>4 DEF RecordInv
  <2>5. QED BY <2>1, <2>2, <2>3, <2>4 DEF Steps
<1>5. QED BY <1>1, <1>3, <1>4, NotifiedFacts

\* cancel(): the flag, then the context.
LEMMA NotifySteps ==
  ASSUME Typed, NEW p \in Ops, CallInv(p), RecordInv(p), Notify(p) \/ TryCancel(p)
  PROVE  Steps(p)
<1> USE DEF envVars, execVars, queueVars, auditVars, controlVars, peerVars, workVars
<1>1. CASE Notify(p) /\ handler[p] = "admitted"
  <2>1. /\ Notified(p) /\ stopped[p] /\ task[p] = "none" /\ UNCHANGED tryCancelled
        /\ UNCHANGED <<handler, canceller, cancelled, stopped, answer, task, worker, sent, call, stats>>
    BY <1>1 DEF Notify, CallInv
  <2>2. QED BY <2>1, NotifiedSteps
<1>2. CASE Notify(p) /\ handler[p] # "admitted"
  <2>1. Typed' BY <1>2 DEF Notify, Typed, Endings
  <2>2. \A o \in Ops \ {p} : Same(o) BY <1>2 DEF Notify, Typed, Same
  <2>3. CallInv(p)' BY <1>2 DEF Notify, Typed, CallInv
  <2>4. RecordInv(p)' BY <1>2 DEF Notify, Typed, RecordInv
  <2>5. QED BY <2>1, <2>2, <2>3, <2>4 DEF Steps
<1>3. CASE TryCancel(p)
  <2>1. /\ Notified(p) /\ stopped[p] /\ tryCancelled' = [tryCancelled EXCEPT ![p] = TRUE]
        /\ UNCHANGED <<handler, canceller, cancelled, stopped, answer, task, worker, sent, call, stats>>
    BY <1>3 DEF TryCancel, CallInv
  <2>2. QED BY <2>1, NotifiedSteps
<1>4. QED BY <1>1, <1>2, <1>3

\* The refusal at dispatch ends the operation and closes its audit.
LEMMA DeniedSteps ==
  ASSUME Typed, NEW p \in Ops, CallInv(p), RecordInv(p), Denied(p)
  PROVE  Steps(p)
<1> USE DEF envVars, execVars, queueVars, auditVars, controlVars, peerVars, workVars
<1>1. /\ worker[p] = "rights" /\ task[p] = "running" /\ call[p] = "none" /\ ~sent[p]
      /\ handler[p] \notin {"new", "refused"} /\ records[p] # <<>>
  BY DEF Denied, CallInv, RecordInv, Typed
<1>2. Completed(p, "denied")
  <2>1. Complete(p, "denied", <<"denied">>) BY DEF Denied, RecordDenied
  <2>2. "denied" \in Outcomes /\ <<"denied">> \in Seq({"denied"}) BY DEF Outcomes
  <2>3. QED BY <1>1, <2>1, <2>2, CompleteFacts
<1>3. Finished(p, "error")
  <2>1. finish(p, "error") /\ "error" \in Answers BY DEF Denied, Throw, Answers
  <2>2. QED BY <2>1, FinishFacts
<1>4. /\ worker' = [worker EXCEPT ![p] = "return"] /\ stats' = Count("unauthorized")
      /\ UNCHANGED <<handler, canceller, cancelled, tryCancelled, task, sent, call>>
  BY DEF Denied, Throw, Goto
<1>5. Typed'
  <2>1. worker' \in [Ops -> Places] BY <1>4 DEF Typed, Places
  <2>2. stats' \in [Stats -> Nat] BY <1>4 DEF Typed, Count, Stats
  <2>3. QED BY <1>2, <1>3, <1>4, <2>1, <2>2 DEF Typed, Completed, Finished
<1>6. \A o \in Ops \ {p} : Same(o) BY <1>2, <1>3, <1>4 DEF Typed, Completed, Finished, Same
<1>7. CallInv(p)' BY <1>1, <1>2, <1>3, <1>4 DEF Typed, Completed, Finished, CallInv
<1>8. RecordInv(p)' BY <1>1, <1>2, <1>4 DEF Completed, RecordInv
<1>9. QED BY <1>5, <1>6, <1>7, <1>8 DEF Steps

\* A step for call p.
ForCall(p) ==
  HandlerStep(p) \/ CancelStep(p) \/ EndStep(p) \/ WorkerStep(p) \/ CancelAudit(p) \/ Fail(p)

\* Whatever is done for a call keeps what is said of it.
LEMMA CallSteps ==
  ASSUME Typed, NEW p \in Ops, CallInv(p), RecordInv(p), ForCall(p)
  PROVE  Steps(p)
BY HandlerSteps, CancelSteps, EndSteps, NotifySteps, CheckSteps, ThrowSteps, DeniedSteps
   DEF ForCall, HandlerStep, CancelStep, EndStep, WorkerStep

-----------------------------------------------------------------------------
(* The counters *)

\* All that is counted is finite.
LEMMA CountedFinite ==
  /\ IsFiniteSet(Admitted) /\ IsFiniteSet(Open) /\ IsFiniteSet(Sending)
  /\ \A k : IsFiniteSet(With(k))
<1>1. ASSUME NEW S \in SUBSET Ops PROVE IsFiniteSet(S) BY CallAssumption, FS_Subset
<1>2. Admitted \in SUBSET Ops /\ Open \in SUBSET Ops /\ Sending \in SUBSET Ops
  BY DEF Admitted, Open, Sending
<1>3. \A k : With(k) \in SUBSET Ops BY DEF With
<1>4. QED BY <1>1, <1>2, <1>3

\* What complete() counts.
LEMMA CompleteCount ==
  ASSUME Typed, AuditCount, NEW p \in Ops, RecordInv(p), records[p] # <<>>,
         NEW result \in Outcomes, NEW before \in Seq({"denied"}), Complete(p, result, before)
  PROVE  AuditCount'
<1>1. CASE ~claim(p)
  <2>1. UNCHANGED <<outcome, records, counters>> BY <1>1 DEF Complete, auditVars
  <2>2. QED BY <2>1 DEF AuditCount, Admitted, Open, With
<1>2. CASE claim(p)
  <2>1. /\ Completed(p, result)
        /\ counters' = [counters EXCEPT !["inFlight"] = @ - 1, ![result] = @ + 1]
    BY <1>2, CompleteFacts DEF Complete
  <2>2. /\ outcome[p] = "open" /\ outcome'[p] = result /\ result # "open" /\ records'[p] # <<>>
        /\ \A o \in Ops \ {p} : outcome'[o] = outcome[o] /\ records'[o] = records[o]
    BY <1>2, <2>1 DEF claim, Completed, Outcomes
  <2>3. Admitted' = Admitted BY <2>2 DEF Admitted
  <2>4. Open' = Open \ {p} /\ p \in Open BY <2>2 DEF Open
  <2>5. With(result)' = With(result) \cup {p} /\ p \notin With(result) BY <2>2 DEF With
  <2>6. ASSUME NEW k \in Outcomes \ {result} PROVE With(k)' = With(k)
    <3>1. k # "open" BY DEF Outcomes
    <3>2. QED BY <2>2, <3>1 DEF With
  <2>7. Cardinality(Open') = Cardinality(Open) - 1 BY <2>4, CountedFinite, FS_RemoveElement
  <2>8. Cardinality(With(result)') = Cardinality(With(result)) + 1
    BY <2>5, CountedFinite, FS_AddElement
  <2>9. /\ counters'["inFlight"] = counters["inFlight"] - 1
        /\ counters'["authorized"] = counters["authorized"]
        /\ counters'[result] = counters[result] + 1
        /\ \A k \in Outcomes \ {result} : counters'[k] = counters[k]
    BY <2>1 DEF Typed, Counters, Outcomes
  <2>10. QED BY <2>3, <2>6, <2>7, <2>8, <2>9 DEF AuditCount
<1>3. QED BY <1>1, <1>2

\* The counters of the audit change with the records and the outcomes.
LEMMA AuditNext ==
  ASSUME Typed, AuditCount, NEW p \in Ops, CallInv(p), RecordInv(p), ForCall(p)
  PROVE  AuditCount'
<1>1. CASE UNCHANGED auditVars
  BY <1>1 DEF auditVars, AuditCount, Admitted, Open, With
<1>2. CASE Admit(p)
  <2>1. /\ records[p] = <<>> /\ outcome[p] = "open" /\ outcome' = outcome
        /\ records' = [records EXCEPT ![p] = <<"allowed">>]
        /\ counters' = [counters EXCEPT !["authorized"] = @ + 1, !["inFlight"] = @ + 1]
    BY <1>2 DEF Admit, CallInv, RecordInv
  <2>2. /\ records'[p] # <<>> /\ \A o \in Ops \ {p} : records'[o] = records[o]
    BY <2>1 DEF Typed
  <2>3. Admitted' = Admitted \cup {p} /\ p \notin Admitted BY <2>1, <2>2 DEF Admitted
  <2>4. Open' = Open \cup {p} /\ p \notin Open BY <2>1, <2>2 DEF Open
  <2>5. \A k \in Outcomes : With(k)' = With(k) BY <2>1 DEF With
  <2>6. Cardinality(Admitted') = Cardinality(Admitted) + 1 BY <2>3, CountedFinite, FS_AddElement
  <2>7. Cardinality(Open') = Cardinality(Open) + 1 BY <2>4, CountedFinite, FS_AddElement
  <2>8. /\ counters'["inFlight"] = counters["inFlight"] + 1
        /\ counters'["authorized"] = counters["authorized"] + 1
        /\ \A k \in Outcomes : counters'[k] = counters[k]
    BY <2>1 DEF Typed, Counters, Outcomes
  <2>9. QED BY <2>5, <2>6, <2>7, <2>8 DEF AuditCount
<1>3. CASE (Notify(p) \/ TryCancel(p)) /\ Notified(p) /\ answer[p] = "cancelled"
  <2>1. records[p] # <<>> BY <1>3 DEF Notify, TryCancel, CallInv, RecordInv
  <2>2. Complete(p, "abandoned", <<>>)
    BY <1>3 DEF Notified, Destroy
  <2>3. "abandoned" \in Outcomes
    BY DEF Outcomes
  <2>4. QED BY <2>1, <2>2, <2>3, NothingDenied, CompleteCount
<1>4. CASE Audit(p)
  <2>1. records[p] # <<>> BY <1>4 DEF Audit, CallInv, RecordInv
  <2>2. Complete(p, answer[p], <<>>)
    BY <1>4 DEF Audit
  <2>3. answer[p] \in Outcomes
    BY <1>4 DEF Audit, CallInv, Typed, Answers, Outcomes
  <2>4. QED BY <2>1, <2>2, <2>3, NothingDenied, CompleteCount
<1>5. CASE CancelAudit(p)
  <2>1. records[p] # <<>> BY <1>5 DEF CancelAudit, RecordInv
  <2>2. Complete(p, "cancelled", <<>>) /\ "cancelled" \in Outcomes /\ <<>> \in Seq({"denied"})
    BY <1>5 DEF CancelAudit, Outcomes
  <2>3. QED BY <2>1, <2>2, CompleteCount
<1>6. CASE Denied(p)
  <2>1. records[p] # <<>> BY <1>6 DEF Denied, CallInv, RecordInv
  <2>2. Complete(p, "denied", <<"denied">>) /\ "denied" \in Outcomes /\ <<"denied">> \in Seq({"denied"})
    BY <1>6 DEF Denied, RecordDenied, Outcomes
  <2>3. QED BY <2>1, <2>2, CompleteCount
<1>7. \/ UNCHANGED auditVars \/ Admit(p)
      \/ (Notify(p) \/ TryCancel(p)) /\ Notified(p) /\ answer[p] = "cancelled"
      \/ Audit(p) \/ CancelAudit(p) \/ Denied(p)
  BY DEF ForCall, HandlerStep, CancelStep, EndStep, WorkerStep, RefuseEntry, BadRequest, Submit,
         SubmitRejected, StoreTicket, CancelExec, CancelTask, Notify, TryCancel, Notified, Answer, Start,
         BuildFails, CheckControl, CheckStopped, Proceed, Ended, Retired, Authorize, Send, CheckAgain, StartCall, CallOk,
         CallFails, Return, Fail, auditVars
<1>8. QED BY <1>1, <1>2, <1>3, <1>4, <1>5, <1>6, <1>7

\* A call that was counted as dispatched is counted once more when it ends.
LEMMA SendNext ==
  ASSUME Typed, SendCount, NEW p \in Ops, CallInv(p), ForCall(p), Steps(p)
  PROVE  SendCount'
<1> DEFINE d == stats["dispatched"]  s == stats["succeeded"]  f == stats["failed"]
<1>1. \A o \in Ops \ {p} : worker'[o] = worker[o] BY DEF Steps, Same
<1>2. d \in Nat /\ s \in Nat /\ f \in Nat /\ Cardinality(Sending) \in Nat
  BY CountedFinite, FS_CardinalityType DEF Typed, Stats
<1>3. ASSUME d' = d, s' = s, f' = f,
             worker'[p] \in {"sent", "prepared", "calling"} <=> worker[p] \in {"sent", "prepared", "calling"}
      PROVE  SendCount'
  <2>1. Sending' = Sending BY <1>1, <1>3 DEF Sending
  <2>2. QED BY <1>3, <2>1 DEF SendCount
<1>4. CASE Send(p)
  <2>1. worker[p] = "authorized" /\ worker'[p] = "sent" /\ d' = d + 1 /\ s' = s /\ f' = f
    BY <1>4 DEF Send, Goto, Count, Typed, Stats
  <2>2. Sending' = Sending \cup {p} /\ p \notin Sending BY <1>1, <2>1 DEF Sending
  <2>3. Cardinality(Sending') = Cardinality(Sending) + 1 BY <2>2, CountedFinite, FS_AddElement
  <2>4. QED BY <1>2, <2>1, <2>3 DEF SendCount
<1>5. ASSUME worker[p] \in {"sent", "prepared", "calling"}, worker'[p] = "return", d' = d,
             (s' = s + 1 /\ f' = f) \/ (s' = s /\ f' = f + 1)
      PROVE  SendCount'
  <2>1. Sending' = Sending \ {p} /\ p \in Sending BY <1>1, <1>5 DEF Sending
  <2>2. Cardinality(Sending') = Cardinality(Sending) - 1 BY <2>1, CountedFinite, FS_RemoveElement
  <2>3. d = s + f + Cardinality(Sending) BY DEF SendCount
  <2>4. s' \in Nat /\ f' \in Nat /\ s' + f' = s + f + 1 BY <1>2, <1>5
  <2>5. d = s' + f' + Cardinality(Sending') BY <1>2, <2>2, <2>3, <2>4
  <2>6. QED BY <1>5, <2>5 DEF SendCount
<1>6. CASE CallOk(p)
  <2>1. worker[p] = "calling" /\ worker'[p] = "return" /\ d' = d /\ s' = s + 1 /\ f' = f
    BY <1>6 DEF CallOk, Goto, Count, Typed, Stats
  <2>2. QED BY <1>5, <2>1
<1>7. CASE CallFails(p)
  <2>1. worker[p] = "calling" /\ worker'[p] = "return" /\ d' = d /\ s' = s /\ f' = f + 1
    BY <1>7 DEF CallFails, Throw, Goto, Count, Typed, Stats
  <2>2. QED BY <1>5, <2>1
<1>8. CASE Ended(p)
  <2>1. worker'[p] = "return" BY <1>8 DEF Ended, Throw, Goto, Typed
  <2>2. CASE worker[p] = "sent"
    <3>1. sent[p] BY <2>2 DEF CallInv
    <3>2. d' = d /\ s' = s /\ f' = f + 1 BY <1>8, <3>1 DEF Ended, Count, Typed, Stats
    <3>3. QED BY <1>5, <2>1, <2>2, <3>2
  <2>3. CASE worker[p] \in {"build", "before", "authorized"}
    <3>1. ~sent[p] BY <2>3 DEF CallInv
    <3>2. d' = d /\ s' = s /\ f' = f BY <1>8, <3>1 DEF Ended
    <3>3. QED BY <1>3, <2>1, <2>3, <3>2
  <2>4. QED BY <1>8, <2>2, <2>3 DEF Ended
<1>9. CASE BuildFails(p) \/ Denied(p) \/ Retired(p) \/ BadRequest(p)
  <2>1. d' = d /\ s' = s /\ f' = f
    BY <1>9 DEF BuildFails, Denied, Retired, BadRequest, Count, Typed, Stats
  <2>2. worker'[p] \in {"sent", "prepared", "calling"} <=> worker[p] \in {"sent", "prepared", "calling"}
    BY <1>9 DEF BuildFails, Denied, Retired, BadRequest, Throw, Goto, Typed, workVars
  <2>3. QED BY <1>3, <2>1, <2>2
<1>10. CASE Start(p) \/ CheckControl(p) \/ CheckStopped(p) \/ Authorize(p) \/ CheckAgain(p) \/ StartCall(p) \/ Return(p)
  <2>1. stats' = stats
    BY <1>10 DEF Start, CheckControl, CheckStopped, Authorize, CheckAgain, StartCall, Return, Proceed
  <2>2. worker'[p] \in {"sent", "prepared", "calling"} <=> worker[p] \in {"sent", "prepared", "calling"}
    BY <1>10 DEF Start, CheckControl, CheckStopped, Authorize, CheckAgain, StartCall, Return, Proceed, Goto,
                 Typed, CallInv
  <2>3. QED BY <1>3, <2>1, <2>2
<1>11. CASE UNCHANGED <<workVars, stats>>
  <2>1. worker' = worker /\ stats' = stats BY <1>11 DEF workVars
  <2>2. QED BY <1>3, <2>1
<1>12. \/ Send(p) \/ CallOk(p) \/ CallFails(p) \/ Ended(p)
       \/ BuildFails(p) \/ Denied(p) \/ Retired(p) \/ BadRequest(p)
       \/ Start(p) \/ CheckControl(p) \/ CheckStopped(p) \/ Authorize(p) \/ CheckAgain(p) \/ StartCall(p) \/ Return(p)
       \/ UNCHANGED <<workVars, stats>>
  BY DEF ForCall, HandlerStep, CancelStep, EndStep, WorkerStep, Admit, RefuseEntry, Submit,
         SubmitRejected, StoreTicket, CancelAudit, CancelExec, CancelTask, Notify, TryCancel, Answer, Audit,
         Fail, workVars
<1>13. QED BY <1>4, <1>6, <1>7, <1>8, <1>9, <1>10, <1>11, <1>12

-----------------------------------------------------------------------------
(* Theorems *)

\* No call has been made, and nothing is counted.
LEMMA InitInv == Init => IInv
<1> SUFFICES ASSUME Init PROVE IInv OBVIOUS
<1>1. Typed
  <2>1. <<>> \in Seq(Entries) OBVIOUS
  <2>2. QED BY <2>1 DEF Init, Typed, Handlers, Cancellers, Endings, Tasks, Places, Calls, Counters, Stats
<1>2. \A o \in Ops : CallInv(o) BY DEF Init, CallInv
<1>3. \A o \in Ops : RecordInv(o)
  <2>1. \A o \in Ops : records[o] = <<>> /\ handler[o] = "new" BY DEF Init
  <2>2. ASSUME NEW o \in Ops PROVE RecordInv(o)
    <3>1. DOMAIN records[o] = {} BY <2>1
    <3>2. QED BY <2>1, <3>1 DEF RecordInv
  <2>3. QED BY <2>2
<1>4. Admitted = {} /\ Open = {} /\ Sending = {} /\ \A k \in Outcomes : With(k) = {}
  BY DEF Init, Admitted, Open, Sending, With, Outcomes
<1>5. AuditCount
  <2>1. \A k \in Counters : counters[k] = 0 BY DEF Init, Counters
  <2>2. QED BY <1>4, <2>1, FS_EmptySet DEF AuditCount, Counters
<1>6. SendCount BY <1>4, FS_EmptySet DEF Init, SendCount
<1>7. QED BY <1>1, <1>2, <1>3, <1>5, <1>6 DEF IInv

\* Every step keeps the inductive invariant.
LEMMA NextInv == ASSUME IInv, [Next]_vars PROVE IInv'
<1>1. Typed /\ AuditCount /\ SendCount /\ \A o \in Ops : CallInv(o) /\ RecordInv(o) BY DEF IInv
<1>2. ASSUME NEW p \in Ops, ForCall(p) PROVE IInv'
  <2>1. Steps(p) BY <1>1, <1>2, CallSteps
  <2>2. AuditCount' BY <1>1, <1>2, AuditNext
  <2>3. SendCount' BY <1>1, <1>2, <2>1, SendNext
  <2>4. ASSUME NEW o \in Ops PROVE CallInv(o)' /\ RecordInv(o)'
    <3>1. CASE o = p BY <2>1, <3>1 DEF Steps
    <3>2. CASE o # p
      <4>1. Same(o) BY <2>1, <3>2 DEF Steps
      <4>2. CallInv(o)'
        <5>1. CallInv(o) BY <1>1
        <5>2. QED BY ZenonT(30), <4>1, <5>1 DEF Same, CallInv
      <4>3. RecordInv(o)'
        <5>1. RecordInv(o) BY <1>1
        <5>2. handler'[o] = handler[o] /\ outcome'[o] = outcome[o] /\ records'[o] = records[o]
          BY <4>1 DEF Same
        <5>3. QED BY Zenon, <5>1, <5>2 DEF RecordInv
      <4>4. QED BY <4>2, <4>3
    <3>3. QED BY <3>1, <3>2
  <2>5. QED BY <2>1, <2>2, <2>3, <2>4 DEF IInv, Steps
<1>3. CASE UNCHANGED <<peerVars, execVars, queueVars, workVars, auditVars, stats>>
  <2>1. UNCHANGED <<handler, canceller, controlVars, stopped, ending, answer, task, worker, sent, call,
                    outcome, records, counters, stats>>
    BY <1>3 DEF peerVars, execVars, queueVars, workVars, auditVars
  <2>2. Typed' BY <1>1, <2>1 DEF Typed, controlVars
  <2>3. AuditCount' /\ SendCount' BY <1>1, <2>1 DEF AuditCount, SendCount, Admitted, Open, With, Sending
  <2>4. ASSUME NEW o \in Ops PROVE CallInv(o)' /\ RecordInv(o)'
    <3>1. CallInv(o)' BY <1>1, <2>1 DEF CallInv, controlVars
    <3>2. RecordInv(o)' BY <1>1, <2>1 DEF RecordInv
    <3>3. QED BY <3>1, <3>2
  <2>5. QED BY <2>2, <2>3, <2>4 DEF IInv
<1>4. (\E p \in Ops : ForCall(p)) \/ UNCHANGED <<peerVars, execVars, queueVars, workVars, auditVars, stats>>
  <2>1. CASE ThreadStep BY <2>1 DEF ThreadStep, ForCall
  <2>2. CASE \E o \in Ops : CancelAudit(o) \/ Fail(o) BY <2>2 DEF ForCall
  <2>3. CASE RightChanges \/ Retire BY <2>3 DEF RightChanges, Retire
  <2>4. CASE UNCHANGED vars BY <2>4 DEF vars
  <2>5. QED BY <2>1, <2>2, <2>3, <2>4 DEF Next
<1>5. QED BY <1>2, <1>3, <1>4

\* The inductive invariant of the calls.
THEOREM Invariance == Spec => []IInv
BY InitInv, NextInv, PTL DEF Spec

\* However the threads that end a call race, it is completed once in the audit, and
\* the counters of access:operations are exact.
THEOREM CompletedOnce == Spec => []OneCompletion
<1>1. IInv => OneCompletion
  BY DEF IInv, RecordInv, AuditCount, Admitted, Open, With, OneCompletion
<1>2. QED BY <1>1, Invariance, PTL

\* What the audit records is what the backend has seen, and every dispatched call is
\* counted once more when it ends.
THEOREM TrueOutcomes == Spec => []OutcomesAreTrue
<1>1. IInv => OutcomesAreTrue
  BY DEF IInv, CallInv, SendCount, Sending, OutcomesAreTrue
<1>2. QED BY <1>1, Invariance, PTL

\* No call reaches the backend once the thread that ended the operation has
\* cancelled its context, though the worker may have passed the last test by then.
THEOREM EndedIsFinal == Spec => EndedNeverCalled
<1> DEFINE Unseen == {"none", "dropped"}
           A == \A o \in Ops : ending[o] \in {"answer", "audit", "over"} /\ call[o] \in Unseen
                               => call'[o] \in Unseen
<1>1. ASSUME IInv, [Next]_vars PROVE A
  <2> SUFFICES ASSUME NEW o \in Ops, ending[o] \in {"answer", "audit", "over"}, call[o] \in Unseen
               PROVE  call'[o] \in Unseen
    OBVIOUS
  <2>1. Typed /\ CallInv(o) BY <1>1 DEF IInv
  <2>2. ASSUME NEW p \in Ops, ForCall(p) PROVE call'[o] \in Unseen
    <3>1. CASE p # o
      <4>1. Steps(p) BY <1>1, <2>2, CallSteps DEF IInv
      <4>2. QED BY <3>1, <4>1 DEF Steps, Same
    <3>2. CASE StartCall(o)
      <4>1. tryCancelled[o] BY <2>1, <3>2 DEF CallInv, StartCall
      <4>2. QED BY <2>1, <3>2, <4>1 DEF StartCall, Typed
    <3>3. CASE CallFails(o) BY <2>1, <3>3 DEF CallFails, Typed
    <3>4. CASE p = o /\ ~StartCall(o) /\ ~CallFails(o)
      <4>1. ~CallOk(o) BY DEF CallOk
      <4>2. call' = call
        BY <2>2, <3>4, <4>1 DEF ForCall, HandlerStep, CancelStep, EndStep, WorkerStep, Admit, RefuseEntry,
           BadRequest, Submit, SubmitRejected, StoreTicket, CancelAudit, CancelExec, CancelTask,
           Notify, TryCancel, Answer, Audit, Start, BuildFails, CheckControl, CheckStopped, Proceed,
           Ended, Denied, Retired, Authorize, Send, CheckAgain, Return, Fail, workVars
      <4>3. QED BY <4>2
    <3>5. QED BY <3>1, <3>2, <3>3, <3>4
  <2>3. CASE UNCHANGED call BY <2>3
  <2>4. (\E p \in Ops : ForCall(p)) \/ UNCHANGED call
    BY <1>1 DEF Next, ThreadStep, ForCall, RightChanges, Retire, vars, workVars
  <2>5. QED BY <2>2, <2>3, <2>4
<1>2. [][Next]_vars /\ []IInv => [][A]_vars BY <1>1, PTL
<1>3. QED BY <1>2, Invariance, PTL DEF Spec, EndedNeverCalled
=============================================================================
