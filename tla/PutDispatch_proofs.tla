------------------------- MODULE PutDispatch_proofs -------------------------
(***************************************************************************)
(* Puts of one PV, for any number of them and every bound.                 *)
(*                                                                         *)
(* The argument: the queue runs the puts one at a time in the order of     *)
(* their tickets, so whatever was written belongs to earlier tickets than  *)
(* what is running or waiting.  A put is past its fence only while the     *)
(* configuration it was prepared for is in force, because a reload and the *)
(* second half of a retirement need the mutex that a writer holds.  What a *)
(* sample confirms no longer changes: a pending put has passed its fence.  *)
(***************************************************************************)
EXTENDS PutDispatch, TLAPS

Places == {"none", "late", "begin", "source", "snapshot", "fence", "writing", "own", "wake",
           "wait", "reply", "end", "gone"}
Verdicts == {"none", "ok", "refused", "failed", "cancelled"}
Phases == {"live", "retiring", "retired"}

Typed ==
  /\ puts \in Seq([value : Values, epoch : Nat]) /\ Len(puts) <= MaxPuts
  /\ keyOf \in Seq({PV}) /\ Len(keyOf) = Len(puts)
  /\ queued \subseteq Ids /\ active \subseteq Ids
  /\ pc \in [Ids -> Places] /\ verdict \in [Ids -> Verdicts]
  /\ raw \in [Ids -> Int] /\ source \in [Ids -> Nat] /\ afterId \in [Ids -> Nat]
  /\ setup \in Setups /\ phase \in Phases /\ commandEpoch \in Nat /\ offset \in Int
  /\ pendingPuts \subseteq Ids /\ done \subseteq Ids /\ failed \subseteq Ids
  /\ stream \in Seq(Int) /\ readerEpoch \in Nat /\ written \in Seq(Ids)

Before == {"begin", "source", "snapshot", "fence", "writing"}
After == {"own", "wake", "wait", "reply"}

\* One put runs at a time, and those that wait were admitted after it.
QueueInv ==
  /\ queued \subseteq DOMAIN puts /\ active \subseteq DOMAIN puts
  /\ \A p, q \in active : p = q
  /\ \A p \in active, q \in queued : p < q
  /\ \A p \in Ids : pc[p] \notin {"none", "gone"} => p \in active
  /\ \A p \in Ids : pc[p] # "none" => p \in DOMAIN puts
  /\ \A p \in queued : pc[p] = "none"

\* What was written is done with, and older than what runs and waits.
WrittenInv ==
  /\ \A i \in DOMAIN written : written[i] \in DOMAIN puts /\ pc[written[i]] \in After \cup {"end", "gone"}
  /\ \A i \in DOMAIN written, p \in active : written[i] <= p
  /\ \A i \in DOMAIN written, p \in queued : written[i] < p

\* Who was told what.
AnswerInv ==
  /\ \A p \in Ids : pc[p] \in After => p \in Applied
  /\ \A p \in Ids : verdict[p] = "ok" => p \in Applied /\ pc[p] \in {"end", "gone"}
  /\ \A p \in Ids : verdict[p] = "refused" => p \notin Applied /\ pc[p] \in {"late", "end", "gone"}

\* The command of a put was built with the transform in force, unless its epoch is over,
\* and it is not while the put is being written.
FenceInv ==
  /\ \A p \in DOMAIN puts : puts[p].epoch <= commandEpoch
  /\ \A p \in DOMAIN puts : pc[p] \in Before \ {"begin"} /\ commandEpoch = puts[p].epoch
                              => raw[p] = applyInverseTransform(offset, puts[p].value)
  /\ \A p \in Ids : pc[p] = "writing" => phase # "retired" /\ commandEpoch = puts[p].epoch

ObservedAt(p) == \E s \in observed : s.value = raw[p] /\ s.id > afterId[p] /\ s.epoch = source[p]

\* A pending put has passed the fence, and one that is done without an error was
\* confirmed by a sample that the runtime accepted.
ConfirmInv ==
  /\ pendingPuts # {} => confirm # "none"
  /\ \A p \in pendingPuts : pc[p] \in {"writing", "wake", "wait"}
  /\ \A p \in done : pc[p] \in {"writing", "end", "gone"} \cup After
  /\ confirm # "none" => \A p \in done \ failed : ObservedAt(p)
  /\ confirm # "none" => \A p \in Ids : verdict[p] = "ok" => p \in done \ failed

IInv ==
  /\ Typed /\ QueueInv /\ WrittenInv /\ WrittenOnceInOrder
  /\ AnswerInv /\ FenceInv /\ ConfirmInv

-----------------------------------------------------------------------------
(* Footprints *)

\* A step that leaves alone what the invariant is about; queued puts may be dropped.
Leaves ==
  /\ queued' \subseteq queued /\ stream' \in Seq(Int) /\ readerEpoch' \in Nat
  /\ UNCHANGED <<keyOf, active, puts, pc, localVars, configVars, pendingVars, observed, written>>

\* A step of dispatchPut() for p, which goes on at x.
Moves(p, x) ==
  /\ pc[p] \in Before \cup After /\ x \in (Before \ {"begin"}) \cup After \cup {"end"}
  /\ pc' = [pc EXCEPT ![p] = x]
  /\ UNCHANGED <<keyOf, queued, active, puts, configVars, done, failed, observed>>
  \* what is written
  /\ \/ written' = written
     \/ written' = Append(written, p) /\ pc[p] = "writing" /\ x \in After \cup {"end"}
  /\ x \in After => pc[p] \in After \/ (pc[p] = "writing" /\ written' = Append(written, p))
  /\ pc[p] \in After \cup {"writing"} => x \in After \cup {"end"}
  /\ x = "writing" => verdict[p] = "none"
  \* what is answered
  /\ verdict' \in [Ids -> Verdicts] /\ \A q \in Ids \ {p} : verdict'[q] = verdict[q]
  /\ \/ verdict'[p] = verdict[p]
     \/ x = "end" /\ verdict'[p] = "failed"
     \/ x = "end" /\ verdict'[p] = "refused" /\ pc[p] \in Before /\ written' = written
     \/ /\ x = "end" /\ verdict'[p] = "ok" /\ pc[p] \in After
        /\ confirm # "none" => p \in done \ failed
  \* what the command is built from
  /\ raw' \in [Ids -> Int] /\ \A q \in Ids \ {p} : raw'[q] = raw[q]
  /\ x \in Before /\ commandEpoch = puts[p].epoch
       => raw'[p] = applyInverseTransform(offset, puts[p].value)
  /\ x = "writing" => phase # "retired" /\ commandEpoch = puts[p].epoch
  \* what it is confirmed by
  /\ source' \in [Ids -> Nat] /\ \A q \in Ids \ {p} : source'[q] = source[q]
  /\ afterId' \in [Ids -> Nat] /\ \A q \in Ids \ {p} : afterId'[q] = afterId[q]
  /\ confirm # "none" /\ pc[p] \in After \cup {"writing"} =>
       raw'[p] = raw[p] /\ source'[p] = source[p] /\ afterId'[p] = afterId[p]
  /\ pendingPuts' \subseteq pendingPuts \cup {p}
  /\ p \in pendingPuts' => x \in {"writing", "wake", "wait"} /\ confirm # "none"
  /\ stream' \in Seq(Int) /\ readerEpoch' = readerEpoch

\* A step of a reload, the retirement, the health poll or the reader.
Fences ==
  /\ UNCHANGED <<keyOf, queued, active, puts, pc, verdict, localVars, setup, pendingPuts,
                 stream, readerEpoch, written>>
  /\ phase' \in Phases /\ commandEpoch' \in Nat /\ offset' \in Int
  /\ \/ UNCHANGED <<commandEpoch, offset>> /\ (phase' = phase \/ phase' = "retiring")
     \/ mutexFree /\ commandEpoch < commandEpoch'
  /\ done \subseteq done' /\ done' \subseteq done \cup pendingPuts
  /\ failed \subseteq failed' /\ failed' \subseteq failed \cup pendingPuts
  /\ observed \subseteq observed'
  /\ \A p \in done' \ done : p \in failed' \/ ObservedAt(p)'

-----------------------------------------------------------------------------
(* Types and initial states *)

\* The bounds of the set-up in force.
LEMMA SetupFacts ==
  ASSUME setup \in Setups
  PROVE  setup.puts \in 0..MaxPuts /\ setup.epoch \in Nat /\ setup.confirm \in {"none", "read", "distinct"}
BY PutAssumption

\* Tickets are numbered from one, and have the name of the PV as their key.
LEMMA PutFacts ==
  ASSUME Typed
  PROVE  /\ DOMAIN puts = 1..Len(puts) /\ Len(puts) \in Nat /\ DOMAIN puts \subseteq Ids
         /\ \A q \in DOMAIN puts : puts[q].value \in Values /\ puts[q].epoch \in Nat /\ keyOf[q] = PV
<1>1. puts \in Seq([value : Values, epoch : Nat]) /\ Len(puts) <= MaxPuts BY DEF Typed
<1>2. DOMAIN puts = 1..Len(puts) /\ Len(puts) \in Nat BY <1>1
<1>3. DOMAIN puts \subseteq Ids BY <1>1, <1>2, PutAssumption DEF Ids
<1>4. ASSUME NEW q \in DOMAIN puts PROVE puts[q].value \in Values /\ puts[q].epoch \in Nat /\ keyOf[q] = PV
  <2>1. puts[q] \in [value : Values, epoch : Nat]
    <3> DEFINE R == [value : Values, epoch : Nat]
    <3>1. puts \in Seq(R) BY <1>1
    <3> HIDE DEF R
    <3>2. puts[q] \in R BY <1>2, <3>1
    <3>3. QED BY <3>2 DEF R
  <2>2. keyOf \in Seq({PV}) /\ Len(keyOf) = Len(puts) BY DEF Typed
  <2>3. keyOf[q] \in {PV} BY <1>2, <2>2
  <2>4. QED BY <2>1, <2>3
<1>5. QED BY <1>2, <1>3, <1>4

\* Everything starts empty.
LEMMA InitInv == Init => IInv
<1> SUFFICES ASSUME Init PROVE IInv OBVIOUS
<1> USE DEF Init, Queue!Init
<1>1. Typed BY PutAssumption DEF Typed, Places, Verdicts, Phases, NoSample
<1>2. QueueInv /\ WrittenInv /\ WrittenOnceInOrder
  BY DEF QueueInv, WrittenInv, WrittenOnceInOrder
<1>3. AnswerInv
  <2>1. \A p \in Ids : pc[p] = "none" /\ verdict[p] = "none" OBVIOUS
  <2>2. QED BY <2>1 DEF AnswerInv, After
<1>4. FenceInv
  <2>1. \A p \in Ids : pc[p] = "none" OBVIOUS
  <2>2. DOMAIN puts = {} OBVIOUS
  <2>3. QED BY <2>1, <2>2 DEF FenceInv
<1>5. ConfirmInv BY DEF ConfirmInv
<1>6. QED BY <1>1, <1>2, <1>3, <1>4, <1>5 DEF IInv

-----------------------------------------------------------------------------
(* Steps that leave the puts alone *)

\* A step that only drops queued puts keeps the invariant.
LEMMA LeavesInv == ASSUME IInv, Leaves, verdict' = verdict PROVE IInv'
<1> USE DEF IInv, Leaves
<1>1. Typed' BY DEF Typed, localVars, configVars, pendingVars
<1>2. QueueInv' BY DEF QueueInv
<1>3. WrittenInv' /\ WrittenOnceInOrder' BY DEF WrittenInv, WrittenOnceInOrder
<1>4. AnswerInv' BY DEF AnswerInv, Applied
<1>5. FenceInv' BY DEF FenceInv, configVars, localVars
<1>6. ConfirmInv' BY DEF ConfirmInv, ObservedAt, confirm, configVars, localVars, pendingVars
<1>7. QED BY <1>1, <1>2, <1>3, <1>4, <1>5, <1>6

\* So does an answer by the peer or the queue; only a late put is refused by it.
LEMMA AnswersInv ==
  ASSUME IInv, Leaves, verdict' \in [Ids -> Verdicts],
         \A q \in Ids : \/ verdict'[q] = verdict[q]
                        \/ verdict'[q] \in {"failed", "cancelled"}
                        \/ verdict'[q] = "refused" /\ pc[q] = "late"
  PROVE  IInv'
<1> USE DEF IInv, Leaves
<1>1. Typed' BY DEF Typed, localVars, configVars, pendingVars
<1>2. QueueInv' BY DEF QueueInv
<1>3. WrittenInv' /\ WrittenOnceInOrder' BY DEF WrittenInv, WrittenOnceInOrder
<1>4. AnswerInv'
  <2>1. ASSUME NEW q \in Ids, pc[q] = "late" PROVE q \notin Applied
    BY <2>1 DEF WrittenInv, Applied, After
  <2>2. Applied' = Applied BY DEF Applied
  <2>3. QED BY <2>1, <2>2 DEF AnswerInv
<1>5. FenceInv' BY DEF FenceInv, configVars, localVars
<1>6. ConfirmInv' BY DEF ConfirmInv, ObservedAt, confirm, configVars, localVars, pendingVars
<1>7. QED BY <1>1, <1>2, <1>3, <1>4, <1>5, <1>6

-----------------------------------------------------------------------------
(* Steps of dispatchPut() *)

\* The running put is the oldest that is not done with.
LEMMA MovesOrder ==
  ASSUME IInv, NEW p \in Ids, NEW x, Moves(p, x)
  PROVE  /\ p \in active /\ p \in DOMAIN puts /\ pc'[p] = x
         /\ \A q \in Ids \ {p} : pc'[q] = pc[q]
         /\ QueueInv' /\ WrittenInv' /\ WrittenOnceInOrder'
         /\ Applied' = IF written' = written THEN Applied ELSE Applied \cup {p}
         /\ pc[p] \in Before => p \notin Applied
<1> USE DEF IInv
<1>1. /\ pc[p] \in Before \cup After /\ x \in (Before \ {"begin"}) \cup After \cup {"end"}
      /\ UNCHANGED <<queued, active, puts>>
      /\ \/ written' = written
         \/ written' = Append(written, p) /\ pc[p] = "writing" /\ x \in After \cup {"end"}
      /\ pc[p] \in After => x \in After \cup {"end"}
  BY DEF Moves
<1>2. pc'[p] = x /\ \A q \in Ids \ {p} : pc'[q] = pc[q] BY DEF Moves, Typed
<1>3. p \in active /\ p \in DOMAIN puts /\ p \notin queued
  BY <1>1 DEF QueueInv, Before, After
<1>4. QueueInv'
  <2>1. x \notin {"none", "gone"} BY <1>1 DEF Before, After
  <2>2. ASSUME NEW q \in Ids PROVE (pc'[q] \notin {"none", "gone"} => q \in active)
                                  /\ (pc'[q] # "none" => q \in DOMAIN puts)
    BY <1>2, <1>3 DEF QueueInv
  <2>3. \A q \in queued : pc'[q] = "none" BY <1>2, <1>3 DEF QueueInv, Typed
  <2>4. QED BY <1>1, <2>2, <2>3 DEF QueueInv
<1>5. pc[p] \in Before => p \notin Applied
  BY DEF WrittenInv, Applied, Before, After
<1>6. CASE written' = written
  <2>1. \A i \in DOMAIN written : pc'[written[i]] \in After \cup {"end", "gone"}
    <3> SUFFICES ASSUME NEW i \in DOMAIN written PROVE pc'[written[i]] \in After \cup {"end", "gone"}
      OBVIOUS
    <3>1. written[i] \in Ids /\ pc[written[i]] \in After \cup {"end", "gone"}
      BY DEF WrittenInv, Typed
    <3>2. QED BY <1>1, <1>2, <3>1 DEF Before, After
  <2>2. WrittenInv' BY <1>1, <1>6, <2>1 DEF WrittenInv
  <2>3. WrittenOnceInOrder' BY <1>6 DEF WrittenOnceInOrder
  <2>4. Applied' = Applied BY <1>6 DEF Applied
  <2>5. QED BY <1>2, <1>3, <1>4, <1>5, <1>6, <2>2, <2>3, <2>4
<1>7. CASE written' = Append(written, p) /\ pc[p] = "writing" /\ x \in After \cup {"end"}
  <2>1. /\ DOMAIN written = 1..Len(written) /\ Len(written) \in Nat
        /\ DOMAIN written' = 1..(Len(written) + 1)
        /\ written'[Len(written) + 1] = p
        /\ \A i \in DOMAIN written : written'[i] = written[i] /\ written[i] \in Ids
    <3>1. written \in Seq(Ids) BY DEF Typed
    <3>2. /\ DOMAIN written = 1..Len(written) /\ Len(written) \in Nat
          /\ \A i \in DOMAIN written : written[i] \in Ids
      BY <3>1
    <3>3. QED BY <1>7, <3>1, <3>2
  <2>2. \A i \in DOMAIN written : written[i] < p
    <3>1. p \notin Applied BY <1>5, <1>7 DEF Before
    <3>2. \A i \in DOMAIN written : written[i] # p BY <3>1 DEF Applied
    <3>3. \A i \in DOMAIN written : written[i] <= p BY <1>3 DEF WrittenInv
    <3>4. p \in Int /\ \A i \in DOMAIN written : written[i] \in Int BY <2>1 DEF Ids
    <3>5. QED BY <3>2, <3>3, <3>4
  <2>3. ASSUME NEW i \in DOMAIN written'
        PROVE  i \in DOMAIN written \/ i = Len(written) + 1
    BY <2>1
  <2>4. ASSUME NEW i \in DOMAIN written'
        PROVE  /\ written'[i] \in DOMAIN puts
               /\ pc'[written'[i]] \in After \cup {"end", "gone"}
    <3>1. CASE i \in DOMAIN written
      <4>1. written[i] # p BY <2>1, <2>2, <3>1 DEF Ids
      <4>2. QED BY <1>2, <2>1, <3>1, <4>1 DEF WrittenInv
    <3>2. CASE i = Len(written) + 1 BY <1>2, <1>3, <1>7, <2>1, <3>2
    <3>3. QED BY <2>3, <3>1, <3>2
  <2>5. ASSUME NEW i \in DOMAIN written', NEW q \in active PROVE written'[i] <= q
    <3>1. q = p BY <1>3 DEF QueueInv
    <3>2. CASE i \in DOMAIN written BY <2>1, <3>1, <3>2, <1>3 DEF WrittenInv
    <3>3. CASE i = Len(written) + 1 BY <2>1, <3>1, <3>3 DEF Ids
    <3>4. QED BY <2>3, <3>2, <3>3
  <2>6. ASSUME NEW i \in DOMAIN written', NEW q \in queued PROVE written'[i] < q
    <3>1. CASE i \in DOMAIN written BY <2>1, <3>1 DEF WrittenInv
    <3>2. CASE i = Len(written) + 1 BY <1>3, <2>1, <3>2 DEF QueueInv
    <3>3. QED BY <2>3, <3>1, <3>2
  <2>7. WrittenInv' BY <1>1, <2>4, <2>5, <2>6 DEF WrittenInv
  <2>8. WrittenOnceInOrder'
    <3> SUFFICES ASSUME NEW i \in DOMAIN written', NEW j \in DOMAIN written', i < j
                 PROVE  written'[i] < written'[j]
      BY DEF WrittenOnceInOrder
    <3>1. i \in DOMAIN written BY <2>1
    <3>2. CASE j \in DOMAIN written BY <2>1, <3>1, <3>2 DEF WrittenOnceInOrder
    <3>3. CASE j = Len(written) + 1 BY <2>1, <2>2, <3>1, <3>3
    <3>4. QED BY <2>3, <3>2, <3>3
  <2>9. Applied' = Applied \cup {p}
    <3>1. ASSUME NEW q \in Applied' PROVE q \in Applied \cup {p} BY <2>1, <2>3, <3>1 DEF Applied
    <3>2. ASSUME NEW q \in Applied PROVE q \in Applied'
      <4>1. PICK i \in DOMAIN written : q = written[i] BY <3>2 DEF Applied
      <4>2. i \in DOMAIN written' /\ q = written'[i] BY <2>1, <4>1
      <4>3. QED BY <4>2 DEF Applied
    <3>3. p \in Applied'
      <4>1. Len(written) + 1 \in DOMAIN written' BY <2>1
      <4>2. QED BY <2>1, <4>1 DEF Applied
    <3>4. QED BY <3>1, <3>2, <3>3
  <2>10. written' # written BY <2>1
  <2>11. QED BY <1>2, <1>3, <1>4, <1>5, <2>7, <2>8, <2>9, <2>10
<1>8. QED BY <1>1, <1>6, <1>7

\* The puts that were confirmed stay so: their commands have been sent.
LEMMA MovesConfirm == ASSUME IInv, NEW p \in Ids, NEW x, Moves(p, x) PROVE ConfirmInv'
<1> USE DEF IInv
<1>1. /\ pc'[p] = x /\ \A q \in Ids \ {p} : pc'[q] = pc[q]
  BY MovesOrder
<1>2. /\ pc[p] \in Before \cup After /\ UNCHANGED <<setup, done, failed, observed>>
      /\ pc[p] \in After \cup {"writing"} => x \in After \cup {"end"}
      /\ pendingPuts' \subseteq pendingPuts \cup {p}
      /\ p \in pendingPuts' => x \in {"writing", "wake", "wait"} /\ confirm # "none"
  BY DEF Moves, configVars
<1>3. confirm' = confirm BY <1>2 DEF confirm
<1>4. /\ pendingPuts' # {} => confirm # "none"
      /\ \A q \in pendingPuts' : pc'[q] \in {"writing", "wake", "wait"}
  BY <1>1, <1>2 DEF ConfirmInv, Typed
<1>5. \A q \in done : pc'[q] \in {"writing", "end", "gone"} \cup After
  <2> SUFFICES ASSUME NEW q \in done PROVE pc'[q] \in {"writing", "end", "gone"} \cup After
    OBVIOUS
  <2>1. q \in Ids /\ pc[q] \in {"writing", "end", "gone"} \cup After BY DEF ConfirmInv, Typed
  <2>2. CASE q = p BY <1>1, <1>2, <2>1, <2>2 DEF Before, After
  <2>3. CASE q # p BY <1>1, <2>1, <2>3
  <2>4. QED BY <2>2, <2>3
<1>6. ASSUME confirm # "none", NEW q \in done \ failed PROVE ObservedAt(q)'
  <2>1. q \in Ids /\ ObservedAt(q) /\ pc[q] \in {"writing", "end", "gone"} \cup After
    BY <1>6 DEF ConfirmInv, Typed
  <2>2. raw'[q] = raw[q] /\ source'[q] = source[q] /\ afterId'[q] = afterId[q]
    <3>1. CASE q = p
      <4>1. pc[p] \in After \cup {"writing"} BY <1>2, <2>1, <3>1 DEF Before, After
      <4>2. QED BY <1>6, <3>1, <4>1 DEF Moves
    <3>2. CASE q # p BY <2>1, <3>2 DEF Moves
    <3>3. QED BY <3>1, <3>2
  <2>3. QED BY <1>2, <2>1, <2>2 DEF ObservedAt
<1>7. ASSUME confirm # "none", NEW q \in Ids, verdict'[q] = "ok" PROVE q \in done \ failed
  <2>1. CASE verdict[q] = "ok" BY <1>7, <2>1 DEF ConfirmInv
  <2>2. CASE verdict[q] # "ok"
    <3>1. q = p /\ verdict'[p] = "ok" BY <1>7, <2>2 DEF Moves
    <3>2. QED BY <1>7, <2>2, <3>1 DEF Moves
  <2>3. QED BY <2>1, <2>2
<1>8. QED BY <1>2, <1>3, <1>4, <1>5, <1>6, <1>7 DEF ConfirmInv

\* A step of dispatchPut() keeps the invariant.
LEMMA MovesInv == ASSUME IInv, NEW p \in Ids, NEW x, Moves(p, x) PROVE IInv'
<1> USE DEF IInv
<1>1. /\ p \in active /\ p \in DOMAIN puts /\ pc'[p] = x
      /\ \A q \in Ids \ {p} : pc'[q] = pc[q]
      /\ QueueInv' /\ WrittenInv' /\ WrittenOnceInOrder'
      /\ Applied' = IF written' = written THEN Applied ELSE Applied \cup {p}
      /\ pc[p] \in Before => p \notin Applied
  BY MovesOrder
<1>2. Typed'
  <2>1. x \in Places BY DEF Moves, Places, Before, After
  <2>2. pc' \in [Ids -> Places] BY <2>1 DEF Moves, Typed
  <2>3. written' \in Seq(Ids)
    <3>1. written' = written \/ written' = Append(written, p) BY DEF Moves
    <3>2. written \in Seq(Ids) BY DEF Typed
    <3>3. Append(written, p) \in Seq(Ids) BY <3>2
    <3>4. QED BY <3>1, <3>2, <3>3
  <2>4. pendingPuts' \subseteq Ids BY DEF Moves, Typed
  <2>5. QED BY <2>2, <2>3, <2>4 DEF Moves, Typed, configVars
<1>3. AnswerInv'
  <2>1. /\ x \in After => pc[p] \in After \/ written' = Append(written, p)
        /\ \A q \in Ids \ {p} : verdict'[q] = verdict[q]
        /\ \/ verdict'[p] = verdict[p]
           \/ x = "end" /\ verdict'[p] = "failed"
           \/ x = "end" /\ verdict'[p] = "refused" /\ pc[p] \in Before /\ written' = written
           \/ x = "end" /\ verdict'[p] = "ok" /\ pc[p] \in After
        /\ pc[p] \in Before \cup After
    BY DEF Moves
  <2>2. written' = Append(written, p) => p \in Applied'
    <3> HAVE written' = Append(written, p)
    <3>1. written \in Seq(Ids) BY DEF Typed
    <3>2. written' # written BY <3>1
    <3>3. QED BY <1>1, <3>2
  <2>3. /\ \A q \in Ids \ {p} : q \in Applied' <=> q \in Applied
        /\ p \in Applied => p \in Applied'
    BY <1>1
  <2>4. pc[p] \notin {"late", "end", "gone"} BY <2>1 DEF Before, After
  <2>5. verdict[p] \notin {"ok", "refused"} BY <2>4 DEF AnswerInv
  <2>6. \A q \in Ids : pc'[q] \in After => q \in Applied'
    BY <1>1, <2>1, <2>2, <2>3 DEF AnswerInv
  <2>7. \A q \in Ids : verdict'[q] = "ok" => q \in Applied' /\ pc'[q] \in {"end", "gone"}
    BY <1>1, <2>1, <2>3, <2>5 DEF AnswerInv
  <2>8. \A q \in Ids : verdict'[q] = "refused" => q \notin Applied' /\ pc'[q] \in {"late", "end", "gone"}
    BY <1>1, <2>1, <2>3, <2>5 DEF AnswerInv
  <2>9. QED BY <2>6, <2>7, <2>8 DEF AnswerInv
<1>4. FenceInv'
  <2>1. /\ UNCHANGED <<puts, phase, commandEpoch, offset>>
        /\ \A q \in Ids \ {p} : raw'[q] = raw[q]
        /\ x \in Before /\ commandEpoch = puts[p].epoch
             => raw'[p] = applyInverseTransform(offset, puts[p].value)
        /\ x = "writing" => phase # "retired" /\ commandEpoch = puts[p].epoch
    BY DEF Moves, configVars
  <2>2. DOMAIN puts \subseteq Ids BY PutFacts
  <2>3. ASSUME NEW q \in DOMAIN puts, pc'[q] \in Before \ {"begin"}, commandEpoch = puts[q].epoch
        PROVE  raw'[q] = applyInverseTransform(offset, puts[q].value)
    <3>1. CASE q = p BY <1>1, <2>1, <2>3, <3>1
    <3>2. CASE q # p BY <1>1, <2>1, <2>2, <2>3, <3>2 DEF FenceInv
    <3>3. QED BY <3>1, <3>2
  <2>4. ASSUME NEW q \in Ids, pc'[q] = "writing"
        PROVE  phase # "retired" /\ commandEpoch = puts[q].epoch
    BY <1>1, <2>1, <2>4 DEF FenceInv
  <2>5. QED BY <2>1, <2>3, <2>4 DEF FenceInv, applyInverseTransform
<1>5. QED BY <1>1, <1>2, <1>3, <1>4, MovesConfirm

-----------------------------------------------------------------------------
(* Admission, the start and the end of a run *)

\* Another put is admitted, after all others.
LEMMA SubmitInv ==
  ASSUME IInv, NEW v \in Values, NEW e \in 0..(setup.epoch + 1), NEW gone \in BOOLEAN,
         Submit(v, e, gone)
  PROVE  IInv'
<1> DEFINE p == Len(puts) + 1
<1> USE DEF IInv
<1>1. setup.puts \in 0..MaxPuts /\ setup.epoch \in Nat BY SetupFacts DEF Typed
<1>0. p \in Ids /\ e \in Nat /\ Len(keyOf) = Len(puts)
  <2>1. p <= setup.puts BY DEF Submit
  <2>2. Len(puts) \in Nat BY PutFacts DEF IInv
  <2>3. p \in Ids BY <1>1, <2>1, <2>2, PutAssumption DEF Ids
  <2>4. Len(keyOf) = Len(puts) BY DEF Typed
  <2>5. QED BY <1>1, <2>3, <2>4
<1>2. /\ p \in Ids /\ e <= commandEpoch /\ e \in Nat
      /\ keyOf' = Append(keyOf, PV) /\ queued' = queued \cup {p}
      /\ puts' = Append(puts, [value |-> v, epoch |-> e])
      /\ UNCHANGED <<active, pc, localVars, configVars, pendingVars, stream, readerEpoch, observed,
                     written>>
  BY <1>0 DEF Submit, Queue!Admit, readerVars, sampleVars
<1>3. /\ verdict' \in [Ids -> Verdicts]
      /\ \A q \in Ids : verdict'[q] = verdict[q] \/ verdict'[q] = "cancelled"
  <2>1. verdict' = verdict \/ verdict' = [verdict EXCEPT ![p] = "cancelled"]
    BY DEF Submit, finishVars
  <2>2. QED BY <1>2, <2>1 DEF Typed, Verdicts
<1>4. /\ DOMAIN puts = 1..(p - 1) /\ DOMAIN puts' = 1..p /\ p \in Nat \ {0}
      /\ puts'[p] = [value |-> v, epoch |-> e] /\ \A q \in DOMAIN puts : puts'[q] = puts[q]
  <2> DEFINE R == [value : Values, epoch : Nat]
             new == [value |-> v, epoch |-> e]
  <2>1. puts \in Seq(R) /\ new \in R /\ puts' = Append(puts, new) BY <1>2 DEF Typed
  <2>2. DOMAIN puts = 1..Len(puts) /\ Len(puts) \in Nat BY PutFacts
  <2> HIDE DEF R, new
  <2>3. /\ DOMAIN puts' = 1..(Len(puts) + 1) /\ puts'[Len(puts) + 1] = new
        /\ \A q \in 1..Len(puts) : puts'[q] = puts[q]
    BY <2>1, <2>2
  <2>4. p \in Nat \ {0} /\ p - 1 = Len(puts) BY <2>2
  <2>5. QED BY <2>2, <2>3, <2>4 DEF new
<1>5. pc[p] = "none" BY <1>2, <1>4 DEF QueueInv
<1>6. Typed'
  <2>1. [value |-> v, epoch |-> e] \in [value : Values, epoch : Nat] BY <1>2
  <2>2. puts' \in Seq([value : Values, epoch : Nat]) /\ Len(puts') = p BY <1>2, <2>1 DEF Typed
  <2>3. keyOf' \in Seq({PV}) /\ Len(keyOf') = p BY <1>2 DEF Typed
  <2>4. p <= MaxPuts BY <1>2, PutAssumption DEF Ids
  <2>5. queued' \subseteq Ids BY <1>2 DEF Typed
  <2>6. QED BY <1>2, <1>3, <2>2, <2>3, <2>4, <2>5 DEF Typed, localVars, configVars, pendingVars
<1>7. QueueInv'
  <2>1. queued \subseteq 1..(p - 1) /\ active \subseteq 1..(p - 1) BY <1>4 DEF QueueInv
  <2>2. ASSUME NEW q \in active, NEW o \in queued' PROVE q < o
    <3>1. CASE o \in queued BY <3>1 DEF QueueInv
    <3>2. CASE o = p BY <1>4, <2>1, <3>2
    <3>3. QED BY <1>2, <3>1, <3>2
  <2>3. queued' \subseteq DOMAIN puts' /\ active \subseteq DOMAIN puts'
    <3>1. p \in 1..p /\ \A q \in 1..(p - 1) : q \in 1..p BY <1>4
    <3>2. QED BY <1>2, <1>4, <2>1, <3>1
  <2>4. \A q \in Ids : pc[q] # "none" => q \in DOMAIN puts' BY <1>4 DEF QueueInv
  <2>5. \A q \in queued' : pc[q] = "none" BY <1>2, <1>5 DEF QueueInv
  <2>6. QED BY <1>2, <2>2, <2>3, <2>4, <2>5 DEF QueueInv
<1>8. WrittenInv' /\ WrittenOnceInOrder'
  <2>1. \A i \in DOMAIN written : written[i] \in 1..(p - 1) BY <1>4 DEF WrittenInv
  <2>2. ASSUME NEW i \in DOMAIN written, NEW q \in queued' PROVE written[i] < q
    <3>1. CASE q \in queued BY <3>1 DEF WrittenInv
    <3>2. CASE q = p BY <1>4, <2>1, <3>2
    <3>3. QED BY <1>2, <3>1, <3>2
  <2>3. \A i \in DOMAIN written : written[i] \in DOMAIN puts' BY <1>4, <2>1
  <2>4. QED BY <1>2, <2>2, <2>3 DEF WrittenInv, WrittenOnceInOrder
<1>9. AnswerInv' BY <1>2, <1>3 DEF AnswerInv, Applied
<1>10. FenceInv'
  <2>1. UNCHANGED <<pc, raw, commandEpoch, offset, phase>> BY <1>2 DEF localVars, configVars
  <2>2. ASSUME NEW q \in DOMAIN puts' PROVE q \in DOMAIN puts \/ q = p
    <3>1. \A m \in Nat \ {0} : \A o \in 1..m : o \in 1..(m - 1) \/ o = m OBVIOUS
    <3>2. p \in Nat \ {0} /\ DOMAIN puts = 1..(p - 1) /\ q \in 1..p BY <1>4
    <3> HIDE DEF p
    <3>3. QED BY <3>1, <3>2
  <2>3. ASSUME NEW q \in DOMAIN puts' PROVE puts'[q].epoch <= commandEpoch
    <3>1. CASE q = p BY <1>2, <1>4, <3>1
    <3>2. CASE q \in DOMAIN puts
      <4>1. puts'[q] = puts[q] BY <1>4, <3>2
      <4>2. QED BY <3>2, <4>1 DEF FenceInv
    <3>3. QED BY <2>2, <3>1, <3>2
  <2>4. ASSUME NEW q \in DOMAIN puts', pc[q] \in Before \ {"begin"}, commandEpoch = puts'[q].epoch
        PROVE  raw[q] = applyInverseTransform(offset, puts'[q].value)
    <3>1. q # p BY <1>5, <2>4 DEF Before
    <3>2. q \in DOMAIN puts /\ puts'[q] = puts[q] BY <1>4, <2>2, <3>1
    <3>3. QED BY <2>4, <3>2 DEF FenceInv
  <2>5. ASSUME NEW q \in Ids, pc[q] = "writing"
        PROVE  phase # "retired" /\ commandEpoch = puts'[q].epoch
    <3>1. q \in DOMAIN puts BY <2>5 DEF QueueInv
    <3>2. QED BY <1>4, <2>5, <3>1 DEF FenceInv
  <2>6. QED BY <2>1, <2>3, <2>4, <2>5 DEF FenceInv, applyInverseTransform
<1>11. ConfirmInv'
  BY <1>2, <1>3 DEF ConfirmInv, ObservedAt, confirm, configVars, localVars, pendingVars
<1>12. QED BY <1>6, <1>7, <1>8, <1>9, <1>10, <1>11

\* A worker takes the oldest put, when none runs: they all have the same key.
LEMMA StartInv == ASSUME IInv, NEW p \in DOMAIN puts, Start(p) PROVE IInv'
<1> USE DEF IInv
<1>1. /\ p \in queued /\ p \in Ids /\ \A q \in DOMAIN puts : q \in Ids /\ keyOf[q] = PV
  BY PutFacts DEF Start, Queue!Start
<1>2. active = {} /\ \A q \in queued : p <= q
  BY <1>1 DEF Start, Queue!Start, QueueInv
<1>3. /\ queued' = queued \ {p} /\ active' = {p}
      /\ UNCHANGED <<keyOf, puts, verdict, localVars, configVars, pendingVars, stream, readerEpoch,
                     observed, written>>
  BY <1>2 DEF Start, Queue!Start, clientVars, finishVars, readerVars, sampleVars
<1>4. /\ pc' \in [Ids -> Places] /\ pc[p] = "none" /\ pc'[p] \in {"late", "begin"}
      /\ \A q \in Ids \ {p} : pc'[q] = pc[q]
  BY <1>1 DEF Start, Typed, Places, QueueInv
<1>5. Typed' BY <1>1, <1>3, <1>4 DEF Typed, localVars, configVars, pendingVars
<1>6. QueueInv'
  <2>1. \A q \in queued' : p < q
    <3>1. p \in Int /\ \A q \in queued : q \in Int BY <1>1 DEF Typed, Ids
    <3>2. QED BY <1>2, <1>3, <3>1
  <2>2. ASSUME NEW q \in Ids
        PROVE  /\ pc'[q] \notin {"none", "gone"} => q = p
               /\ pc'[q] # "none" => q \in DOMAIN puts
    BY <1>2, <1>4 DEF QueueInv
  <2>3. \A q \in queued' : pc'[q] = "none" BY <1>3, <1>4 DEF QueueInv, Typed
  <2>4. QED BY <1>1, <1>3, <2>1, <2>2, <2>3 DEF QueueInv
<1>7. WrittenInv' /\ WrittenOnceInOrder'
  <2>1. ASSUME NEW i \in DOMAIN written PROVE written[i] \in Ids /\ written[i] # p /\ written[i] < p
    BY <1>1, <1>4 DEF WrittenInv, Typed, After
  <2>2. \A i \in DOMAIN written : pc'[written[i]] \in After \cup {"end", "gone"}
    BY <1>4, <2>1 DEF WrittenInv
  <2>3. \A i \in DOMAIN written, q \in active' : written[i] <= q
    BY <1>1, <1>3, <2>1 DEF Ids
  <2>4. QED BY <1>3, <2>2, <2>3 DEF WrittenInv, WrittenOnceInOrder
<1>8. AnswerInv'
  <2>1. verdict[p] \notin {"ok", "refused"} BY <1>1, <1>4 DEF AnswerInv
  <2>2. pc'[p] \notin After BY <1>4 DEF After
  <2>3. Applied' = Applied BY <1>3 DEF Applied
  <2>4. QED BY <1>3, <1>4, <2>1, <2>2, <2>3 DEF AnswerInv
<1>9. FenceInv'
  <2>1. pc'[p] \notin Before \ {"begin"} /\ pc'[p] # "writing" BY <1>4 DEF Before
  <2>2. UNCHANGED <<puts, raw, commandEpoch, offset, phase>> BY <1>3 DEF localVars, configVars
  <2>3. QED BY <1>1, <1>4, <2>1, <2>2 DEF FenceInv, applyInverseTransform
<1>10. ConfirmInv'
  <2>1. p \notin pendingPuts /\ p \notin done BY <1>4 DEF ConfirmInv, After
  <2>2. UNCHANGED <<verdict, setup, raw, source, afterId, pendingPuts, done, failed, observed>>
    BY <1>3 DEF localVars, configVars, pendingVars
  <2>3. \A q \in pendingPuts : pc'[q] \in {"writing", "wake", "wait"}
    BY <1>4, <2>1 DEF ConfirmInv, Typed
  <2>4. ASSUME NEW q \in done PROVE pc'[q] \in {"writing", "end", "gone"} \cup After
    <3>1. q \in Ids /\ q # p BY <2>1 DEF Typed
    <3>2. pc[q] \in {"writing", "end", "gone"} \cup After BY DEF ConfirmInv
    <3>3. QED BY <1>4, <3>1, <3>2
  <2>5. QED BY <2>2, <2>3, <2>4 DEF ConfirmInv, ObservedAt, confirm
<1>11. QED BY <1>5, <1>6, <1>7, <1>8, <1>9, <1>10

\* run() returns: nothing of the put is pending any more.
LEMMA ReturnInv == ASSUME IInv, NEW p \in DOMAIN puts, Return(p) PROVE IInv'
<1> USE DEF IInv
<1>1. p \in Ids BY PutFacts
<1>2. /\ pc[p] \in {"late", "end"} /\ active' = active \ {p} /\ p \in active
      /\ UNCHANGED <<keyOf, queued, puts, verdict, localVars, configVars, pendingVars, stream,
                     readerEpoch, observed, written>>
  BY DEF Return, Queue!Finish, clientVars, finishVars, readerVars, sampleVars
<1>3. /\ pc' \in [Ids -> Places] /\ pc'[p] = "gone" /\ \A q \in Ids \ {p} : pc'[q] = pc[q]
  BY <1>1 DEF Return, Typed, Places
<1>4. Typed' BY <1>2, <1>3 DEF Typed, localVars, configVars, pendingVars
<1>5. QueueInv'
  <2>1. p \notin queued BY <1>2 DEF QueueInv
  <2>2. ASSUME NEW q \in Ids
        PROVE  /\ pc'[q] \notin {"none", "gone"} => q \in active'
               /\ pc'[q] # "none" => q \in DOMAIN puts
    BY <1>2, <1>3 DEF QueueInv
  <2>3. \A q \in queued : pc'[q] = "none" BY <1>3, <2>1 DEF QueueInv, Typed
  <2>4. QED BY <1>2, <2>2, <2>3 DEF QueueInv
<1>6. WrittenInv' /\ WrittenOnceInOrder'
  <2>1. ASSUME NEW i \in DOMAIN written PROVE pc'[written[i]] \in After \cup {"end", "gone"}
    <3>1. written[i] \in Ids /\ pc[written[i]] \in After \cup {"end", "gone"}
      BY DEF WrittenInv, Typed
    <3>2. QED BY <1>3, <3>1
  <2>2. QED BY <1>2, <2>1 DEF WrittenInv, WrittenOnceInOrder
<1>7. AnswerInv'
  <2>1. pc'[p] \notin After BY <1>3 DEF After
  <2>2. Applied' = Applied BY <1>2 DEF Applied
  <2>3. QED BY <1>2, <1>3, <2>1, <2>2 DEF AnswerInv
<1>8. FenceInv'
  <2>1. pc'[p] \notin Before BY <1>3 DEF Before
  <2>2. pc'[p] # "writing" BY <1>3
  <2>3. UNCHANGED <<puts, raw, commandEpoch, offset, phase>> BY <1>2 DEF localVars, configVars
  <2>4. \A q \in DOMAIN puts : q \in Ids BY PutFacts
  <2>5. QED BY <1>3, <2>1, <2>2, <2>3, <2>4 DEF FenceInv, applyInverseTransform
<1>9. ConfirmInv'
  <2>1. p \notin pendingPuts BY <1>2 DEF ConfirmInv
  <2>2. UNCHANGED <<verdict, setup, raw, source, afterId, pendingPuts, done, failed, observed>>
    BY <1>2 DEF localVars, configVars, pendingVars
  <2>3. \A q \in pendingPuts : pc'[q] \in {"writing", "wake", "wait"}
    BY <1>3, <2>1 DEF ConfirmInv, Typed
  <2>4. ASSUME NEW q \in done PROVE pc'[q] \in {"writing", "end", "gone"} \cup After
    <3>1. q \in Ids /\ pc[q] \in {"writing", "end", "gone"} \cup After BY DEF ConfirmInv, Typed
    <3>2. QED BY <1>3, <3>1
  <2>5. QED BY <2>2, <2>3, <2>4 DEF ConfirmInv, ObservedAt, confirm
<1>10. QED BY <1>4, <1>5, <1>6, <1>7, <1>8, <1>9

-----------------------------------------------------------------------------
(* Reload, retirement and samples *)

\* A new configuration takes the mutex, so that no command is being written, and
\* only what is pending is failed or confirmed.
LEMMA FencesInv == ASSUME IInv, Fences PROVE IInv'
<1> USE DEF IInv
<1>1. UNCHANGED <<keyOf, queued, active, puts, pc, verdict, raw, source, afterId, setup, pendingPuts,
                  stream, readerEpoch, written>>
  BY DEF Fences, localVars
<1>2. /\ done \subseteq done' /\ done' \subseteq done \cup pendingPuts
      /\ failed \subseteq failed' /\ failed' \subseteq failed \cup pendingPuts
      /\ observed \subseteq observed'
      /\ \A p \in done' \ done : p \in failed' \/ ObservedAt(p)'
  BY DEF Fences
<1>3. Typed' BY <1>1, <1>2 DEF Fences, Typed
<1>4. QueueInv' BY <1>1 DEF QueueInv
<1>5. WrittenInv' /\ WrittenOnceInOrder' BY <1>1 DEF WrittenInv, WrittenOnceInOrder
<1>6. AnswerInv' BY <1>1 DEF AnswerInv, Applied
<1>7. FenceInv'
  <2>1. CASE UNCHANGED <<commandEpoch, offset>> /\ (phase' = phase \/ phase' = "retiring")
    BY <1>1, <2>1 DEF FenceInv, applyInverseTransform
  <2>2. CASE mutexFree /\ commandEpoch < commandEpoch'
    <3>1. \A p \in Ids : pc[p] # "writing" BY <2>2 DEF mutexFree
    <3>2. ASSUME NEW p \in DOMAIN puts PROVE puts[p].epoch < commandEpoch'
      <4>1. puts[p].epoch \in Nat /\ commandEpoch \in Nat /\ commandEpoch' \in Nat
        BY PutFacts DEF Typed, Fences
      <4>2. puts[p].epoch <= commandEpoch BY DEF FenceInv
      <4>3. QED BY <2>2, <4>1, <4>2
    <3>3. \A p \in DOMAIN puts : puts[p].epoch \in Nat /\ commandEpoch' \in Nat BY PutFacts DEF Fences
    <3>4. \A p \in DOMAIN puts : puts[p].epoch <= commandEpoch' /\ commandEpoch' # puts[p].epoch
      BY <3>2, <3>3
    <3>5. QED BY <1>1, <3>1, <3>4 DEF FenceInv
  <2>3. QED BY <2>1, <2>2 DEF Fences
<1>8. ConfirmInv'
  <2>1. \A p \in done' : pc[p] \in {"writing", "end", "gone"} \cup After
    BY <1>2 DEF ConfirmInv, After
  <2>2. ASSUME confirm # "none", NEW p \in done' \ failed' PROVE ObservedAt(p)'
    <3>1. CASE p \in done
      <4>1. ObservedAt(p) BY <1>2, <2>2, <3>1 DEF ConfirmInv
      <4>2. QED BY <1>1, <1>2, <4>1 DEF ObservedAt
    <3>2. CASE p \notin done BY <1>2, <2>2, <3>2
    <3>3. QED BY <3>1, <3>2
  <2>3. ASSUME confirm # "none", NEW p \in Ids, verdict[p] = "ok" PROVE p \in done' \ failed'
    <3>1. p \in done \ failed BY <2>3 DEF ConfirmInv
    <3>2. p \notin pendingPuts BY <2>3 DEF ConfirmInv, AnswerInv
    <3>3. QED BY <1>2, <3>1, <3>2
  <2>4. confirm' = confirm BY <1>1 DEF confirm
  <2>5. QED BY <1>1, <2>1, <2>2, <2>3, <2>4 DEF ConfirmInv
<1>9. QED BY <1>3, <1>4, <1>5, <1>6, <1>7, <1>8

-----------------------------------------------------------------------------
(* The actions *)

\* What finish() does to the verdicts.
LEMMA FinishFacts ==
  ASSUME Typed, NEW p \in Ids, NEW how \in Verdicts, finish(p, how) \/ finishHere(p, how)
  PROVE  /\ verdict' \in [Ids -> Verdicts]
         /\ \A q \in Ids \ {p} : verdict'[q] = verdict[q]
         /\ verdict'[p] = verdict[p] \/ verdict'[p] = how
<1>1. verdict' = verdict \/ verdict' = [verdict EXCEPT ![p] = how]
  BY DEF finish, finishHere, finishVars
<1>2. QED BY <1>1 DEF Typed

\* Up to the fence nothing is written; the value is transformed with the transform in force.
LEMMA BeginMoves == ASSUME IInv, NEW p \in Ids, Begin(p) PROVE \E x : Moves(p, x)
<1> USE DEF IInv
<1>1. /\ pc[p] = "begin"
      /\ UNCHANGED <<keyOf, queued, active, puts, configVars, done, failed, observed, written,
                     source, afterId, pendingPuts, stream, readerEpoch>>
  BY DEF Begin, DispatchLeaves, execVars, pendingVars, sampleVars, readerVars
<1>2. /\ raw \in [Ids -> Int] /\ source \in [Ids -> Nat] /\ afterId \in [Ids -> Nat]
      /\ verdict \in [Ids -> Verdicts] /\ stream \in Seq(Int)
  BY DEF Typed
<1>3. p \notin pendingPuts BY <1>1 DEF ConfirmInv
<1>4. CASE /\ pc' = [pc EXCEPT ![p] = "end"] /\ UNCHANGED raw
           /\ verdict' = verdict \/ finishHere(p, "refused")
  <2>1. /\ verdict' \in [Ids -> Verdicts] /\ \A q \in Ids \ {p} : verdict'[q] = verdict[q]
        /\ verdict'[p] = verdict[p] \/ verdict'[p] = "refused"
    BY <1>2, <1>4, FinishFacts DEF Verdicts
  <2>2. Moves(p, "end") BY <1>1, <1>2, <1>3, <1>4, <2>1 DEF Moves, Before, After
  <2>3. QED BY <2>2
<1>5. CASE /\ raw' = [raw EXCEPT ![p] = applyInverseTransform(offset, puts[p].value)]
           /\ pc' = [pc EXCEPT ![p] = IF confirm = "none" THEN "fence" ELSE "source"]
           /\ verdict' = verdict
  <2>1. PICK x \in {"fence", "source"} : pc' = [pc EXCEPT ![p] = x] BY <1>5
  <2>2. raw' \in [Ids -> Int]
    <3>1. p \in DOMAIN puts BY <1>1 DEF QueueInv
    <3>2. puts[p].value \in Int BY <3>1, PutFacts, PutAssumption
    <3>3. offset \in Int BY DEF Typed
    <3>4. applyInverseTransform(offset, puts[p].value) \in Int
      <4>1. \A a, b \in Int : a - b \in Int OBVIOUS
      <4>2. QED BY <3>2, <3>3, <4>1 DEF applyInverseTransform
    <3>5. QED BY <1>2, <1>5, <3>4
  <2>3. /\ \A q \in Ids \ {p} : raw'[q] = raw[q]
        /\ raw'[p] = applyInverseTransform(offset, puts[p].value)
    BY <1>2, <1>5
  <2>4. Moves(p, x) BY <1>1, <1>2, <1>3, <1>5, <2>1, <2>2, <2>3 DEF Moves, Before, After
  <2>5. QED BY <2>4
<1>6. QED BY <1>4, <1>5 DEF Begin, EndsWith, Ends, finishVars

\* The same for the two reads that a confirmed put begins with.
LEMMA ReadMoves == ASSUME IInv, NEW p \in Ids, Source(p) \/ Snapshot(p) PROVE \E x : Moves(p, x)
<1> USE DEF IInv
<1>1. /\ pc[p] \in {"source", "snapshot"}
      /\ UNCHANGED <<keyOf, queued, active, puts, configVars, done, failed, observed, written, raw,
                     pendingPuts, stream, readerEpoch>>
  BY DEF Source, Snapshot, DispatchLeaves, execVars, pendingVars, sampleVars, readerVars
<1>2. /\ raw \in [Ids -> Int] /\ source \in [Ids -> Nat] /\ afterId \in [Ids -> Nat]
      /\ verdict \in [Ids -> Verdicts] /\ stream \in Seq(Int) /\ readerEpoch \in Nat
      /\ Len(stream) \in Nat
  BY DEF Typed
<1>3. p \notin pendingPuts BY <1>1 DEF ConfirmInv
<1>4. p \in DOMAIN puts BY <1>1 DEF QueueInv
<1>5. commandEpoch = puts[p].epoch => raw[p] = applyInverseTransform(offset, puts[p].value)
  BY <1>1, <1>4 DEF FenceInv, Before
<1>6. CASE Source(p)
  <2>1. /\ verdict' = verdict /\ afterId' = afterId
        /\ source' = source \/ source' = [source EXCEPT ![p] = readerEpoch]
    BY <1>6 DEF Source, finishVars
  <2>2. PICK x \in {"end", "snapshot"} : pc' = [pc EXCEPT ![p] = x] BY <1>6 DEF Source, Ends
  <2>3. source' \in [Ids -> Nat] /\ \A q \in Ids \ {p} : source'[q] = source[q] BY <1>2, <2>1
  <2>4. Moves(p, x) BY <1>1, <1>2, <1>3, <1>5, <2>1, <2>2, <2>3 DEF Moves, Before, After
  <2>5. QED BY <2>4
<1>7. CASE Snapshot(p)
  <2>1. source' = source BY <1>7 DEF Snapshot
  <2>2. CASE EndsWith(p, "refused") /\ afterId' = afterId
    <3>1. /\ verdict' \in [Ids -> Verdicts] /\ \A q \in Ids \ {p} : verdict'[q] = verdict[q]
          /\ verdict'[p] = verdict[p] \/ verdict'[p] = "refused"
      BY <2>2, FinishFacts DEF Verdicts, EndsWith
    <3>2. pc' = [pc EXCEPT ![p] = "end"] BY <2>2 DEF EndsWith, Ends
    <3>3. Moves(p, "end") BY <1>1, <1>2, <1>3, <2>1, <2>2, <3>1, <3>2 DEF Moves, Before, After
    <3>4. QED BY <3>3
  <2>3. CASE /\ afterId' = [afterId EXCEPT ![p] = Len(stream)]
             /\ pc' = [pc EXCEPT ![p] = "fence"] /\ verdict' = verdict
    <3>1. afterId' \in [Ids -> Nat] /\ \A q \in Ids \ {p} : afterId'[q] = afterId[q] BY <1>2, <2>3
    <3>2. Moves(p, "fence") BY <1>1, <1>2, <1>3, <1>5, <2>1, <2>3, <3>1 DEF Moves, Before, After
    <3>3. QED BY <3>2
  <2>4. QED BY <1>7, <2>2, <2>3 DEF Snapshot, finishVars
<1>8. QED BY <1>6, <1>7

\* The fence lets through what was prepared for the configuration in force.
LEMMA FenceMoves == ASSUME IInv, NEW p \in Ids, Fence(p) PROVE \E x : Moves(p, x)
<1> USE DEF IInv
<1>1. /\ pc[p] = "fence"
      /\ UNCHANGED <<keyOf, queued, active, puts, configVars, done, failed, observed, written, raw,
                     source, afterId, stream, readerEpoch>>
  BY DEF Fence, DispatchLeaves, execVars, localVars, sampleVars, readerVars
<1>2. /\ raw \in [Ids -> Int] /\ source \in [Ids -> Nat] /\ afterId \in [Ids -> Nat]
      /\ verdict \in [Ids -> Verdicts] /\ stream \in Seq(Int)
  BY DEF Typed
<1>3. p \notin pendingPuts BY <1>1 DEF ConfirmInv
<1>4. p \in DOMAIN puts BY <1>1 DEF QueueInv
<1>5. commandEpoch = puts[p].epoch => raw[p] = applyInverseTransform(offset, puts[p].value)
  BY <1>1, <1>4 DEF FenceInv, Before
<1>6. CASE /\ pc' = [pc EXCEPT ![p] = "end"] /\ UNCHANGED pendingPuts
           /\ verdict' = verdict \/ finishHere(p, "refused")
  <2>1. /\ verdict' \in [Ids -> Verdicts] /\ \A q \in Ids \ {p} : verdict'[q] = verdict[q]
        /\ verdict'[p] = verdict[p] \/ verdict'[p] = "refused"
    BY <1>2, <1>6, FinishFacts DEF Verdicts
  <2>2. Moves(p, "end") BY <1>1, <1>2, <1>3, <1>6, <2>1 DEF Moves, Before, After
  <2>3. QED BY <2>2
<1>7. CASE /\ Dispatchable(p) /\ pc' = [pc EXCEPT ![p] = "writing"] /\ verdict' = verdict
           /\ pendingPuts' = IF confirm = "none" THEN pendingPuts ELSE pendingPuts \cup {p}
  <2>1. verdict[p] = "none" /\ phase # "retired" /\ commandEpoch = puts[p].epoch
    BY <1>7 DEF Dispatchable, Current, stopped, alive
  <2>2. /\ pendingPuts' \subseteq pendingPuts \cup {p}
        /\ p \in pendingPuts' => confirm # "none"
    BY <1>3, <1>7
  <2>3. Moves(p, "writing") BY <1>1, <1>2, <1>5, <1>7, <2>1, <2>2 DEF Moves, Before, After
  <2>4. QED BY <2>3
<1>8. QED BY <1>6, <1>7 DEF Fence, Refuse, EndsWith, Ends, finishVars

\* The command reaches Redis once, while mutex_ is held.
LEMMA WriteMoves == ASSUME IInv, NEW p \in Ids, WriteOk(p) \/ WriteFails(p) PROVE \E x : Moves(p, x)
<1> USE DEF IInv
<1>1. /\ pc[p] = "writing"
      /\ UNCHANGED <<keyOf, queued, active, puts, configVars, done, failed, observed, raw, source,
                     readerEpoch>>
  BY DEF WriteOk, WriteFails, Queue!Crash, execVars, clientVars, pendingVars, sampleVars, readerVars
<1>2. /\ raw \in [Ids -> Int] /\ source \in [Ids -> Nat] /\ afterId \in [Ids -> Nat]
      /\ verdict \in [Ids -> Verdicts] /\ stream \in Seq(Int) /\ raw[p] \in Int
  BY DEF Typed
<1>3. ASSUME Apply(p) \/ UNCHANGED <<stream, afterId>>
      PROVE  /\ stream' \in Seq(Int) /\ afterId' \in [Ids -> Nat]
             /\ \A q \in Ids \ {p} : afterId'[q] = afterId[q]
             /\ confirm # "none" => afterId' = afterId
  <2>1. CASE UNCHANGED <<stream, afterId>> BY <1>2, <2>1
  <2>2. CASE confirm = "none" /\ stream' = Append(stream, raw[p])
             /\ afterId' = [afterId EXCEPT ![p] = Len(stream) + 1]
    <3>1. Append(stream, raw[p]) \in Seq(Int) /\ Len(stream) + 1 \in Nat BY <1>2
    <3>2. QED BY <1>2, <2>2, <3>1
  <2>3. QED BY <1>3, <2>1, <2>2 DEF Apply
<1>4. CASE WriteOk(p)
  <2>1. /\ written' = Append(written, p) /\ verdict' = verdict /\ pendingPuts' = pendingPuts
        /\ Apply(p)
    BY <1>4 DEF WriteOk, Apply, finishVars, pendingVars
  <2>2. PICK x \in {"own", "wake"} : /\ pc' = [pc EXCEPT ![p] = x]
                                     /\ confirm # "none" => x = "wake"
    BY <1>4 DEF WriteOk
  <2>3. p \in pendingPuts => x = "wake" /\ confirm # "none" BY <2>2 DEF ConfirmInv
  <2>4. Moves(p, x) BY <1>1, <1>2, <1>3, <2>1, <2>2, <2>3 DEF Moves, Before, After
  <2>5. QED BY <2>4
<1>5. CASE WriteFails(p)
  <2>1. /\ pc' = [pc EXCEPT ![p] = "end"] /\ pendingPuts' = pendingPuts \ {p}
        /\ finishHere(p, "failed")
        /\ Apply(p) \/ UNCHANGED <<stream, afterId>>
        /\ written' = Append(written, p) \/ written' = written
    BY <1>5 DEF WriteFails, Failed, EndsWith, Ends, Apply
  <2>2. /\ verdict' \in [Ids -> Verdicts] /\ \A q \in Ids \ {p} : verdict'[q] = verdict[q]
        /\ verdict'[p] = verdict[p] \/ verdict'[p] = "failed"
    BY <2>1, FinishFacts DEF Verdicts
  <2>3. Moves(p, "end") BY <1>1, <1>2, <1>3, <2>1, <2>2 DEF Moves, Before, After
  <2>4. QED BY <2>3
<1>6. QED BY <1>4, <1>5

\* After the write nothing more is written, and success needs a confirmation.
LEMMA AfterMoves ==
  ASSUME IInv, NEW p \in Ids, OwnUpdate(p) \/ Wake(p) \/ EndWait(p) \/ Reply(p)
  PROVE  \E x : Moves(p, x)
<1> USE DEF IInv
<1>1. /\ pc[p] \in After
      /\ UNCHANGED <<keyOf, queued, active, puts, configVars, done, failed, observed, raw, source,
                     afterId, stream, readerEpoch, written>>
  BY DEF OwnUpdate, Wake, EndWait, Reply, DispatchLeaves, execVars, localVars, pendingVars,
         sampleVars, readerVars, After
<1>2. /\ raw \in [Ids -> Int] /\ source \in [Ids -> Nat] /\ afterId \in [Ids -> Nat]
      /\ verdict \in [Ids -> Verdicts] /\ stream \in Seq(Int)
  BY DEF Typed
<1>3. CASE OwnUpdate(p) \/ Wake(p) \/ EndWait(p)
  <2>1. verdict' = verdict BY <1>3 DEF OwnUpdate, Wake, EndWait, finishVars
  <2>2. PICK x \in {"end", "reply", "wait"} :
          /\ pc' = [pc EXCEPT ![p] = x] /\ pendingPuts' \subseteq pendingPuts
          /\ p \in pendingPuts' => x = "wait" /\ confirm # "none"
    <3>1. CASE OwnUpdate(p)
      <4>1. p \notin pendingPuts BY <3>1 DEF OwnUpdate, ConfirmInv
      <4>2. QED BY <3>1, <4>1 DEF OwnUpdate, Ends, pendingVars
    <3>2. CASE Wake(p)
      <4>1. p \in pendingPuts => confirm # "none" BY DEF ConfirmInv
      <4>2. QED BY <3>2, <4>1 DEF Wake, pendingVars
    <3>3. CASE EndWait(p) BY <3>3 DEF EndWait
    <3>4. QED BY <1>3, <3>1, <3>2, <3>3
  <2>3. Moves(p, x) BY <1>1, <1>2, <2>1, <2>2 DEF Moves, Before, After
  <2>4. QED BY <2>3
<1>4. CASE Reply(p)
  <2>1. /\ pc' = [pc EXCEPT ![p] = "end"] /\ pc[p] = "reply" /\ pendingPuts' = pendingPuts
        /\ \/ finishHere(p, "failed")
           \/ finishHere(p, "ok") /\ (confirm # "none" => p \in done \ failed)
    BY <1>4 DEF Reply, EndsWith, Ends, pendingVars
  <2>2. p \notin pendingPuts BY <2>1 DEF ConfirmInv
  <2>3. /\ verdict' \in [Ids -> Verdicts] /\ \A q \in Ids \ {p} : verdict'[q] = verdict[q]
        /\ \/ verdict'[p] = verdict[p]
           \/ verdict'[p] = "failed"
           \/ verdict'[p] = "ok" /\ (confirm # "none" => p \in done \ failed)
    BY <2>1, FinishFacts DEF Verdicts
  <2>4. Moves(p, "end") BY <1>1, <1>2, <2>1, <2>2, <2>3 DEF Moves, Before, After
  <2>5. QED BY <2>4
<1>5. QED BY <1>3, <1>4

\* A reload, the retirement and the health poll fail what is pending; a sample
\* confirms what it matches.
LEMMA FencesActions ==
  ASSUME IInv, (\E o \in Offsets : Commit(o)) \/ Deactivate \/ Retire \/ HealthPoll \/ Deliver
  PROVE  Fences
<1> USE DEF IInv
<1>1. /\ UNCHANGED <<keyOf, queued, active, puts, pc, verdict, localVars, setup, pendingPuts,
                     stream, readerEpoch, written>>
  BY DEF Commit, Deactivate, Retire, HealthPoll, Deliver, RuntimeLeaves, execVars, clientVars,
         finishVars, failPendingLocked, pendingVars, readerVars, configVars
<1>2. /\ phase' \in Phases /\ commandEpoch' \in Nat /\ offset' \in Int
      /\ \/ UNCHANGED <<commandEpoch, offset>> /\ (phase' = phase \/ phase' = "retiring")
         \/ mutexFree /\ commandEpoch < commandEpoch'
  <2>1. phase \in Phases /\ commandEpoch \in Nat /\ offset \in Int /\ Offsets \subseteq Int
    BY PutAssumption DEF Typed
  <2>2. commandEpoch + 1 \in Nat /\ commandEpoch < commandEpoch + 1 BY <2>1
  <2>3. QED BY <2>1, <2>2 DEF Commit, Deactivate, Retire, HealthPoll, Deliver, configVars, Phases
<1>3. /\ done \subseteq done' /\ done' \subseteq done \cup pendingPuts
      /\ failed \subseteq failed' /\ failed' \subseteq failed \cup pendingPuts
      /\ observed \subseteq observed'
      /\ \A p \in done' \ done : p \in failed' \/ ObservedAt(p)'
  <2>1. CASE Deactivate BY <2>1 DEF Deactivate, pendingVars, sampleVars
  <2>2. CASE Retire \/ HealthPoll \/ \E o \in Offsets : Commit(o)
    <3>1. observed' = observed BY <2>2 DEF Commit, Retire, HealthPoll, sampleVars
    <3>2. PICK P \in SUBSET pendingPuts : failPendingLocked(P)
      BY <2>2 DEF Commit, Retire, HealthPoll, OtherEpoch
    <3>3. QED BY <3>1, <3>2 DEF failPendingLocked
  <2>3. CASE Deliver
    <3> DEFINE s == inflight
               mismatched == IF confirm = "none" THEN {} ELSE OtherEpoch(s.epoch)
               matched == IF confirm = "none" THEN {} ELSE Matched(s)
    <3>1. CASE UNCHANGED <<sampleVars, done, failed, asleep>> BY <3>1 DEF sampleVars
    <3>2. CASE /\ observed' = observed \cup {s} /\ done' = done \cup mismatched \cup matched
               /\ failed' = failed \cup mismatched
      <4>1. mismatched \subseteq pendingPuts /\ matched \subseteq pendingPuts
        BY DEF OtherEpoch, Matched
      <4>2. ASSUME NEW p \in matched PROVE ObservedAt(p)'
        <5>1. source[p] = s.epoch /\ s.id > afterId[p] /\ raw[p] = s.value BY <4>2 DEF Matched
        <5>2. QED BY <1>1, <3>2, <5>1 DEF ObservedAt, localVars
      <4>3. QED BY <3>2, <4>1, <4>2
    <3>3. QED BY <2>3, <3>1, <3>2 DEF Deliver
  <2>4. QED BY <2>1, <2>2, <2>3
<1>4. QED BY <1>1, <1>2, <1>3 DEF Fences

\* The steps that touch no put, and those that only answer one.
LEMMA LeavesActions ==
  ASSUME IInv, NEW p \in Ids,
         \/ StoreTicket(p) \/ CheckAborted(p) \/ CancelTicket(p) \/ Notify(p) \/ Answer(p)
         \/ Deadline(p) \/ Tell(p) \/ Wait(p) \/ Cancel(p) \/ Expire(p)
  PROVE  Leaves /\ IInv'
<1> USE DEF IInv
<1>1. /\ queued' \subseteq queued /\ keyOf' = keyOf /\ active' = active
  <2>1. QueueCancel(p) => queued' \subseteq queued /\ keyOf' = keyOf /\ active' = active
    BY DEF QueueCancel, Queue!Withdraw, execVars
  <2>2. CASE StoreTicket(p) \/ Notify(p) \/ Answer(p) \/ Wait(p) \/ Cancel(p) \/ Expire(p)
    BY <2>2 DEF StoreTicket, Notify, Answer, Wait, Cancel, Expire, execVars
  <2>3. CASE CheckAborted(p) \/ CancelTicket(p)
    BY <2>1, <2>3 DEF CheckAborted, CancelTicket, execVars
  <2>4. CASE Deadline(p) \/ Tell(p) BY <2>4 DEF Deadline, Tell, Queue!Withdraw, Queue!Tell
  <2>5. QED BY <2>2, <2>3, <2>4
<1>2. UNCHANGED <<puts, pc, localVars, configVars, pendingVars, observed, written, stream, readerEpoch>>
  BY DEF StoreTicket, CheckAborted, CancelTicket, Notify, Answer, Deadline, Tell, Wait, Cancel,
         Expire, QueueLeaves, DispatchLeaves, clientVars, readerVars, sampleVars
<1>3. Leaves BY <1>1, <1>2 DEF Leaves, Typed
<1>4. \/ verdict' = verdict
      \/ finish(p, "cancelled") \/ finish(p, "failed")
      \/ pc[p] = "late" /\ finishHere(p, "refused")
  BY DEF StoreTicket, CheckAborted, CancelTicket, Notify, Answer, Deadline, Tell, Wait, Cancel,
         Expire, finishVars
<1>5. CASE verdict' = verdict BY <1>3, <1>5, LeavesInv
<1>6. CASE verdict' # verdict
  <2>1. /\ verdict' \in [Ids -> Verdicts] /\ \A q \in Ids \ {p} : verdict'[q] = verdict[q]
        /\ \/ verdict'[p] = verdict[p]
           \/ verdict'[p] \in {"failed", "cancelled"}
           \/ verdict'[p] = "refused" /\ pc[p] = "late"
    BY <1>4, <1>6, FinishFacts DEF Verdicts
  <2>2. QED BY <1>3, <2>1, AnswersInv
<1>7. QED BY <1>3, <1>5, <1>6

\* The same for the steps of Redis and its reader, and for the shutdown of the queue.
LEMMA LeavesOthers ==
  ASSUME IInv,
         Shutdown \/ (\E v \in Raws : Sample(v)) \/ Replace \/ NewEpoch \/ Fetch \/ UNCHANGED vars
  PROVE  Leaves /\ IInv'
<1> USE DEF IInv
<1>1. stream \in Seq(Int) /\ readerEpoch \in Nat BY DEF Typed
<1>2. CASE Shutdown
  <2>1. queued' \subseteq queued /\ keyOf' = keyOf /\ active' = active
    BY <1>2 DEF Shutdown, Queue!Close, Queue!Drop
  <2>2. Leaves /\ verdict' = verdict
    BY <1>1, <1>2, <2>1 DEF Leaves, Shutdown, QueueLeaves, finishVars, readerVars, sampleVars
  <2>3. QED BY <2>2, LeavesInv
<1>3. CASE (\E v \in Raws : Sample(v)) \/ Replace \/ NewEpoch \/ Fetch
  <2>1. stream' \in Seq(Int) /\ readerEpoch' \in Nat
    <3>1. CASE \E v \in Raws : Sample(v)
      <4>1. PICK v \in Raws : Sample(v) BY <3>1
      <4>2. v \in Int BY PutAssumption DEF Raws, applyInverseTransform
      <4>3. Append(stream, v) \in Seq(Int) BY <1>1, <4>2
      <4>4. QED BY <1>1, <4>1, <4>3 DEF Sample, readerVars
    <3>2. CASE Replace BY <1>1, <3>2 DEF Replace
    <3>3. CASE NewEpoch BY <1>1, <3>3 DEF NewEpoch
    <3>4. CASE Fetch BY <1>1, <3>4 DEF Fetch
    <3>5. QED BY <1>3, <3>1, <3>2, <3>3, <3>4
  <2>2. RedisLeaves BY <1>3 DEF Sample, Replace, NewEpoch, Fetch
  <2>3. Leaves /\ verdict' = verdict
    BY <2>1, <2>2 DEF Leaves, RedisLeaves, execVars, clientVars, finishVars, sampleVars
  <2>4. QED BY <2>3, LeavesInv
<1>4. CASE UNCHANGED vars
  <2>1. Leaves /\ verdict' = verdict
    BY <1>1, <1>4 DEF Leaves, vars, execVars, clientVars, finishVars, readerVars, sampleVars
  <2>2. QED BY <2>1, LeavesInv
<1>5. QED BY <1>2, <1>3, <1>4

\* Every step is of one of these kinds.
LEMMA Kinds ==
  ASSUME IInv, [Next]_vars
  PROVE  \/ \E v \in Values, e \in 0..(setup.epoch + 1), gone \in BOOLEAN : Submit(v, e, gone)
         \/ \E p \in DOMAIN puts : Start(p) \/ Return(p)
         \/ \E p \in Ids : \E x : Moves(p, x)
         \/ Fences
         \/ Leaves /\ IInv'
<1>1. ASSUME NEW p \in DOMAIN puts,
             \/ HandlerStep(p) \/ PeerStep(p) \/ FinishStep(p) \/ QueueStep(p)
             \/ WorkerStep(p) \/ RedisCall(p) \/ WaitTimesOut(p)
             \/ Cancel(p) \/ Expire(p)
      PROVE  Start(p) \/ Return(p) \/ (\E x : Moves(p, x)) \/ (Leaves /\ IInv')
  <2>1. p \in Ids BY PutFacts DEF IInv
  <2>2. CASE HandlerStep(p) \/ PeerStep(p) \/ FinishStep(p) \/ QueueStep(p) \/ Cancel(p) \/ Expire(p)
    BY <2>1, <2>2, LeavesActions DEF HandlerStep, PeerStep, FinishStep, QueueStep
  <2>3. CASE RedisCall(p) BY <2>1, <2>3, ReadMoves, WriteMoves DEF RedisCall
  <2>4. CASE WaitTimesOut(p) BY <2>1, <2>4, AfterMoves DEF WaitTimesOut
  <2>5. CASE WorkerStep(p)
    <3>1. Confirmed(p) => EndWait(p) BY DEF Confirmed
    <3>2. QED
      BY <2>1, <2>5, <3>1, BeginMoves, ReadMoves, FenceMoves, AfterMoves, LeavesActions
      DEF WorkerStep
  <2>6. QED BY <1>1, <2>2, <2>3, <2>4, <2>5
<1>2. ASSUME NEW p \in DOMAIN puts PROVE p \in Ids BY PutFacts DEF IInv
<1>3. QED BY <1>1, <1>2, LeavesOthers, FencesActions DEF Next

\* The inductive invariant of the puts of a PV.
THEOREM Invariance == Spec => []IInv
<1>1. ASSUME IInv, [Next]_vars PROVE IInv'
  BY <1>1, Kinds, SubmitInv, StartInv, ReturnInv, MovesInv, FencesInv
<1>2. QED BY <1>1, InitInv, PTL DEF Spec

\* Whatever is cancelled, expired, retired or failed around it, a put that is
\* reported as done was applied, and one that is refused was not.
THEOREM TrueAnswers == Spec => []AnswersAreTrue
<1>1. IInv => AnswersAreTrue BY DEF IInv, AnswerInv, AnswersAreTrue
<1>2. QED BY <1>1, Invariance, PTL

\* Commands reach Redis at most once, in the order of admission.
THEOREM OnceInOrder == Spec => []WrittenOnceInOrder
<1>1. IInv => WrittenOnceInOrder BY DEF IInv
<1>2. QED BY <1>1, Invariance, PTL

\* A confirmed put succeeds only after a sample with its value, newer than its
\* snapshot and of its source epoch.
THEOREM Confirmation == Spec => []ConfirmedMeansObserved
<1>1. IInv => ConfirmedMeansObserved
  BY DEF IInv, ConfirmInv, ConfirmedMeansObserved, ObservedAt
<1>2. QED BY <1>1, Invariance, PTL

\* A command is written with the transform in force and not after the retirement.
THEOREM Fenced == Spec => WriteFenced
<1> DEFINE A == \A p \in Ids : written' = Append(written, p) =>
                  /\ phase # "retired"
                  /\ raw[p] = applyInverseTransform(offset, puts[p].value)
<1>1. ASSUME IInv, [Next]_vars PROVE A
  <2> SUFFICES ASSUME NEW p \in Ids, written' = Append(written, p)
               PROVE  /\ phase # "retired"
                      /\ raw[p] = applyInverseTransform(offset, puts[p].value)
    OBVIOUS
  <2>1. written \in Seq(Ids) BY <1>1 DEF IInv, Typed
  <2>2. written' # written BY <2>1
  <2>3. PICK q \in Ids : \E x : Moves(q, x)
    <3>1. ASSUME NEW v \in Values, NEW e \in 0..(setup.epoch + 1), NEW gone \in BOOLEAN,
                 Submit(v, e, gone)
          PROVE  FALSE
      BY <2>2, <3>1 DEF Submit
    <3>2. ASSUME NEW q \in DOMAIN puts, Start(q) \/ Return(q) PROVE FALSE
      BY <2>2, <3>2 DEF Start, Return
    <3>3. ~Fences /\ ~Leaves BY <2>2 DEF Fences, Leaves
    <3>4. QED BY <1>1, <3>1, <3>2, <3>3, Kinds
  <2>4. written' = Append(written, q) /\ pc[q] = "writing" BY <2>2, <2>3 DEF Moves
  <2>5. q = p
    <3>1. Append(written, q)[Len(written) + 1] = q /\ Append(written, p)[Len(written) + 1] = p
      BY <2>1
    <3>2. QED BY <2>4, <3>1
  <2>6. p \in DOMAIN puts BY <1>1, <2>4, <2>5 DEF IInv, QueueInv
  <2>7. QED BY <1>1, <2>4, <2>5, <2>6 DEF IInv, FenceInv, Before
<1>2. [][Next]_vars /\ []IInv => [][A]_vars BY <1>1, PTL
<1>3. QED BY <1>2, Invariance, PTL DEF Spec, WriteFenced

\* A put that is answered before it is dispatched is never written.
THEOREM CancelledInTime == Spec => CancelPreventsWrite
<1> DEFINE A == \A p \in Ids : stopped(p) /\ pc[p] \in Undispatched =>
                  pc'[p] \in Undispatched \cup {"end", "gone"}
<1>1. ASSUME IInv, [Next]_vars PROVE A
  <2> SUFFICES ASSUME NEW p \in Ids, stopped(p), pc[p] \in Undispatched
               PROVE  pc'[p] \in Undispatched \cup {"end", "gone"}
    OBVIOUS
  <2>1. pc \in [Ids -> Places] BY <1>1 DEF IInv, Typed
  <2>2. CASE pc' = pc BY <2>2
  <2>3. ASSUME NEW q \in DOMAIN puts, Start(q) \/ Return(q)
        PROVE  pc'[p] \in Undispatched \cup {"end", "gone"}
    <3>1. PICK x \in {"late", "begin", "gone"} : pc' = [pc EXCEPT ![q] = x] BY <2>3 DEF Start, Return
    <3>2. pc'[p] = pc[p] \/ pc'[p] = x BY <2>1, <3>1
    <3>3. QED BY <3>2 DEF Undispatched
  <2>4. ASSUME NEW q \in Ids, NEW x, Moves(q, x)
        PROVE  pc'[p] \in Undispatched \cup {"end", "gone"}
    <3>1. pc' = [pc EXCEPT ![q] = x] BY <2>4 DEF Moves
    <3>2. CASE q # p BY <2>1, <3>1, <3>2
    <3>3. CASE q = p
      <4>1. pc'[p] = x BY <2>1, <3>1, <3>3
      <4>2. x # "writing" BY <2>4, <3>3 DEF Moves, stopped
      <4>3. x \notin After
        <5>1. pc[p] \notin After \cup {"writing"} BY DEF Undispatched, After
        <5>2. QED BY <2>4, <3>3, <5>1 DEF Moves
      <4>4. x \in Before \cup After \cup {"end"} BY <2>4 DEF Moves
      <4>5. QED BY <4>1, <4>2, <4>3, <4>4 DEF Before, Undispatched
    <3>4. QED BY <3>2, <3>3
  <2>5. Fences \/ Leaves => pc' = pc BY DEF Fences, Leaves
  <2>6. ASSUME NEW v \in Values, NEW e \in 0..(setup.epoch + 1), NEW gone \in BOOLEAN,
               Submit(v, e, gone)
        PROVE  pc' = pc
    BY <2>6 DEF Submit
  <2>7. QED BY <1>1, <2>2, <2>3, <2>4, <2>5, <2>6, Kinds
<1>2. [][Next]_vars /\ []IInv => [][A]_vars BY <1>1, PTL
<1>3. QED BY <1>2, Invariance, PTL DEF Spec, CancelPreventsWrite
=============================================================================
