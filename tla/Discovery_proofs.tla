-------------------------- MODULE Discovery_proofs --------------------------
(***************************************************************************)
(* What the discovery publisher reports and when it may sleep, for every   *)
(* size of a catalog and any number of publications and failures.          *)
(***************************************************************************)
EXTENDS Discovery, TLAPS

States == {"idle", "listening", "connecting", "uploading", "uploaded", "synchronized", "error"}

Typed ==
  /\ latest \in Nat /\ epoch \in Nat /\ expected \in Nat /\ catalog \in Nat /\ received \in Seq(Nat)
  /\ stopping \in BOOLEAN /\ wakeup \in BOOLEAN
  /\ owner \in {"idle", "wake", "joining", "joined"}
  /\ worker \in {"open", "take", "check", "poll", "exited"} /\ step \in Steps
  /\ status \in [state : States, synchronizedGeneration : Nat]

\* The report never runs ahead of the worker, nor the worker of the application.
ReportInv ==
  /\ status.synchronizedGeneration <= catalog /\ catalog <= latest
  /\ worker \in {"open", "take", "exited"} => step = "none"

\* A connection carries the worker's catalog only, from its first chunk to its last,
\* and the ping is awaited only after that one.
Sending == step \in {"upload", "ping", "pong"}
UploadInv ==
  /\ ~Sending => received = <<>>
  /\ \A i \in 1..Len(received) : received[i] = catalog
  /\ step \in {"ping", "pong"} => Len(received) = Chunks

IInv == Typed /\ NeverSleepsStale /\ ReportInv /\ UploadInv

\* Before run(): nothing is published and nothing reported.
LEMMA InitInv == Init => IInv
<1> SUFFICES ASSUME Init PROVE IInv OBVIOUS
<1>1. status \in [state : States, synchronizedGeneration : Nat] BY DEF Init, States
<1>2. Typed
  <2>1. <<>> \in Seq(Nat) OBVIOUS
  <2>2. QED BY <1>1, <2>1 DEF Init, Typed, Steps
<1>3. NeverSleepsStale BY DEF Init, NeverSleepsStale
<1>4. ReportInv BY DEF Init, ReportInv
<1>5. UploadInv BY DEF Init, UploadInv, Sending
<1>6. QED BY <1>2, <1>3, <1>4, <1>5 DEF IInv

\* publish(): a worker that sleeps is about to be woken.
LEMMA PublishInv ==
  ASSUME IInv, NEW g \in (latest + 1)..MaxGeneration, Publish(g)
  PROVE  IInv'
<1>1. g \in Nat /\ g > latest BY DiscoveryAssumption DEF IInv, Typed
<1>2. QED
  BY <1>1 DEF Publish, IInv, Typed, NeverSleepsStale, ReportInv, UploadInv, Sending, Interrupted, workVars

\* The destructor, wake() and the join.
LEMMA OwnerInv == ASSUME IInv, Stop \/ Wake \/ Join PROVE IInv'
BY DEF Stop, Wake, Join, IInv, Typed, NeverSleepsStale, ReportInv, UploadInv, Sending, Interrupted, workVars

\* wait(): the worker polls only after check() has found nothing, and what is
\* published from then on is followed by a byte in the wakeup pair.
LEMMA WaitInv ==
  ASSUME IInv, Interrupt \/ Check \/ Drain \/ Open \/ Exit
  PROVE  IInv'
<1> USE DEF IInv, Typed, NeverSleepsStale, ReportInv, UploadInv, Sending, Interrupted, Steps
<1>1. CASE Interrupt BY <1>1 DEF Interrupt, Again, Disconnect
<1>2. CASE Check BY <1>2 DEF Check
<1>3. CASE Drain BY <1>3 DEF Drain
<1>4. CASE Open BY <1>4 DEF Open
<1>5. CASE Exit BY <1>5 DEF Exit
<1>6. QED BY <1>1, <1>2, <1>3, <1>4, <1>5

\* run(): the catalog and its epoch are taken together.
LEMMA TakeInv == ASSUME IInv, Take PROVE IInv'
<1> USE DEF Take, WaitFor, SetState
<1>1. status' \in [state : States, synchronizedGeneration : Nat]
      /\ status'.synchronizedGeneration = status.synchronizedGeneration
  BY DEF IInv, Typed, States
<1>2. Typed' BY <1>1 DEF IInv, Typed, TakenEpoch, Steps
<1>3. NeverSleepsStale' BY DEF NeverSleepsStale
<1>4. ReportInv' BY <1>1 DEF IInv, Typed, ReportInv
<1>5. received' = <<>> /\ ~Sending' BY DEF IInv, ReportInv, UploadInv, Sending
<1>6. UploadInv' BY <1>5 DEF UploadInv, Sending
<1>7. QED BY <1>2, <1>3, <1>4, <1>6 DEF IInv

\* The steps up to the upload: the connection has nothing to report yet.
LEMMA ConnectInv ==
  ASSUME IInv, Announced \/ HeldOff \/ Connected \/ Greet \/ Greeted
  PROVE  IInv'
<1>1. status' \in [state : States, synchronizedGeneration : Nat]
      /\ status'.synchronizedGeneration = status.synchronizedGeneration
  BY DEF IInv, Typed, States, Announced, HeldOff, Connected, Greet, Greeted, SetState
<1>2. /\ worker' = "check" /\ step' \in {"holdoff", "connect", "greet", "greeting", "upload"}
      /\ step \in {"announcement", "holdoff", "connect", "greet", "greeting"}
      /\ received' = received /\ Keep
  BY DEF Announced, HeldOff, Connected, Greet, Greeted, Polled, WaitFor
<1>3. Typed' BY <1>1, <1>2 DEF IInv, Typed, Keep, Steps
<1>4. NeverSleepsStale' BY <1>2 DEF NeverSleepsStale
<1>5. ReportInv' BY <1>1, <1>2 DEF IInv, ReportInv, Keep
<1>6. received' = <<>> BY <1>2 DEF IInv, UploadInv, Sending
<1>7. UploadInv' BY <1>2, <1>6 DEF UploadInv
<1>8. QED BY <1>3, <1>4, <1>5, <1>7 DEF IInv

\* A chunk more.
LEMMA AppendFacts ==
  ASSUME NEW s \in Seq(Nat), NEW c \in Nat
  PROVE  /\ Append(s, c) \in Seq(Nat) /\ Len(Append(s, c)) = Len(s) + 1
         /\ \A i \in 1..(Len(s) + 1) : Append(s, c)[i] = IF i = Len(s) + 1 THEN c ELSE s[i]
OBVIOUS

\* As many chunks as a catalog has, all of the same catalog.
LEMMA WholeCatalog ==
  ASSUME NEW s \in Seq(Nat), NEW c \in Nat, NEW n \in Nat, Len(s) = n, \A i \in 1..n : s[i] = c
  PROVE  s = [i \in 1..n |-> c]
<1>1. s \in [1..n -> Nat] OBVIOUS
<1>2. [i \in 1..n |-> c] \in [1..n -> Nat] OBVIOUS
<1>3. \A i \in 1..n : s[i] = [j \in 1..n |-> c][i] OBVIOUS
<1>4. QED BY <1>1, <1>2, <1>3, Zenon

\* send(): one more chunk of the same catalog; the last one is followed by the pings.
LEMMA ChunkInv == ASSUME IInv, Upload PROVE UploadInv' /\ received' \in Seq(Nat)
<1>1. received \in Seq(Nat) /\ catalog \in Nat /\ Len(received) \in Nat BY DEF IInv, Typed
<1>2. /\ received' = Append(received, catalog) /\ catalog' = catalog /\ step' \in {"upload", "ping"}
      /\ step' = "ping" => Len(received) + 1 = Chunks
  BY DEF Upload, WaitFor, Keep
<1>3. /\ received' \in Seq(Nat) /\ Len(received') = Len(received) + 1
      /\ \A i \in 1..(Len(received) + 1) :
           received'[i] = IF i = Len(received) + 1 THEN catalog ELSE received[i]
  BY <1>1, <1>2, AppendFacts
<1>4. ASSUME NEW i \in 1..Len(received') PROVE received'[i] = catalog
  <2>1. i \in 1..(Len(received) + 1) BY <1>3
  <2>2. i # Len(received) + 1 => i \in 1..Len(received) BY <1>1, <2>1
  <2>3. QED BY <1>3, <2>1, <2>2 DEF IInv, UploadInv
<1>5. QED BY <1>2, <1>3, <1>4 DEF UploadInv, Sending

\* send() and the pings: a ping is awaited only after the last chunk.
LEMMA SendInv == ASSUME IInv, Upload \/ Ping \/ Pong PROVE IInv'
<1>1. status' \in [state : States, synchronizedGeneration : Nat]
      /\ status'.synchronizedGeneration \in {status.synchronizedGeneration, catalog}
  BY DEF IInv, Typed, States, Upload, Ping, Pong, Confirmed, SetState
<1>2. worker' = "check" /\ step' \in {"upload", "ping", "pong"} /\ Keep
  BY DEF Upload, Ping, Pong, WaitFor
<1>3. UploadInv' /\ received' \in Seq(Nat)
  <2>1. CASE Upload BY <2>1, ChunkInv
  <2>2. CASE Ping \/ Pong
    <3>1. step \in {"ping", "pong"} /\ step' \in {"ping", "pong"} /\ received' = received /\ catalog' = catalog
      BY <2>2 DEF Ping, Pong, Polled, WaitFor, Keep
    <3>2. QED BY <3>1 DEF IInv, Typed, UploadInv, Sending
  <2>3. QED BY <2>1, <2>2
<1>4. Typed' BY <1>1, <1>2, <1>3 DEF IInv, Typed, Keep, Steps
<1>5. NeverSleepsStale' BY <1>2 DEF NeverSleepsStale
<1>6. ReportInv' BY <1>1, <1>2 DEF IInv, Typed, ReportInv, Keep
<1>7. QED BY <1>3, <1>4, <1>5, <1>6 DEF IInv

\* Failures and the pauses after them.
LEMMA FailInv ==
  ASSUME IInv, NotAnnounced \/ Fail \/ OpenFails \/ Paused
  PROVE  IInv'
<1> USE DEF NotAnnounced, Fail, OpenFails, Paused, WaitFor, Again, Disconnect, SetState, Keep
<1>1. status' \in [state : States, synchronizedGeneration : Nat]
      /\ status'.synchronizedGeneration = status.synchronizedGeneration
  BY DEF IInv, Typed, States
<1>2. /\ worker' \in {"open", "take", "check"} /\ step' \in {"none", "pause", "reopen"}
      /\ worker' # "check" => step' = "none"
      /\ UNCHANGED <<latest, epoch, stopping, wakeup, owner, catalog>>
      /\ expected' \in Nat /\ received' = <<>>
  BY DEF IInv, Typed, ReportInv, UploadInv, Sending
<1>3. Typed' BY <1>1, <1>2 DEF IInv, Typed, Steps
<1>4. NeverSleepsStale' BY <1>2 DEF NeverSleepsStale
<1>5. ReportInv' BY <1>1, <1>2 DEF IInv, ReportInv
<1>6. UploadInv' BY <1>2 DEF UploadInv, Sending
<1>7. QED BY <1>3, <1>4, <1>5, <1>6 DEF IInv

\* Every step of the application and of the worker.
LEMMA NextInv == IInv /\ [Next]_vars => IInv'
<1> SUFFICES ASSUME IInv, [Next]_vars PROVE IInv' OBVIOUS
<1>1. ASSUME NEW g \in (latest + 1)..MaxGeneration, Publish(g) PROVE IInv' BY <1>1, PublishInv
<1>2. CASE Stop \/ Wake \/ Join BY <1>2, OwnerInv
<1>3. CASE WorkerStep \/ NotAnnounced \/ Fail \/ OpenFails
  BY <1>3, WaitInv, TakeInv, ConnectInv, SendInv, FailInv DEF WorkerStep
<1>4. CASE UNCHANGED vars
  BY <1>4 DEF vars, workVars, IInv, Typed, NeverSleepsStale, ReportInv, UploadInv, Sending, Interrupted
<1>5. QED BY <1>1, <1>2, <1>3, <1>4 DEF Next

\* The inductive invariant of the publisher and its worker.
THEOREM Invariance == Spec => []IInv
<1>1. QED BY InitInv, NextInv, PTL DEF Spec

\* A worker blocks on a stale catalog, or on a publisher that stops, only with a byte
\* in the wakeup pair or on its way: publish() and the destructor are never missed.
THEOREM AlwaysWoken == Spec => []NeverSleepsStale
<1>1. IInv => NeverSleepsStale BY DEF IInv
<1>2. QED BY <1>1, Invariance, PTL

\* Only Pong reports, and what it reports is the worker's catalog.
LEMMA OnlyPongReports ==
  ASSUME IInv, [Next]_vars, status' # status,
         \/ status'.synchronizedGeneration # status.synchronizedGeneration
         \/ status'.state = "synchronized"
  PROVE  Pong
<1>1. ASSUME NEW s, s # "synchronized", SetState(s) PROVE FALSE BY <1>1 DEF SetState, IInv, Typed
<1>2. QED
  BY <1>1 DEF Next, Publish, Stop, Wake, Join, WorkerStep, NotAnnounced, Fail, OpenFails,
    Interrupt, Check, Drain, Open, Exit, Take, Announced, HeldOff, Connected, Greet, Greeted,
    Upload, Ping, Paused, vars, workVars

\* A generation is reported as synchronized only when the chunks of that catalog, all
\* of them and no others, went over the connection that answers; and reports never go
\* back to an older generation.
THEOREM Truthful == Spec => SynchronizedMeansReceived
<1> DEFINE g == status.synchronizedGeneration
           A == /\ status'.synchronizedGeneration >= status.synchronizedGeneration
                /\ status'.synchronizedGeneration # status.synchronizedGeneration => status'.state = "synchronized"
                /\ status' # status /\ status'.state = "synchronized"
                     => received = [i \in 1..Chunks |-> status'.synchronizedGeneration]
<1>1. ASSUME IInv, [Next]_vars PROVE A
  <2>1. CASE Pong
    <3>1. status' = [state |-> "synchronized", synchronizedGeneration |-> catalog] /\ step = "pong"
      BY <2>1 DEF Pong, Confirmed, Polled
    <3>2. received \in Seq(Nat) /\ Len(received) = Chunks /\ \A i \in 1..Chunks : received[i] = catalog
      BY <1>1, <3>1 DEF IInv, Typed, UploadInv
    <3>3. received = [i \in 1..Chunks |-> catalog]
      BY <1>1, <3>2, DiscoveryAssumption, WholeCatalog DEF IInv, Typed
    <3>4. g \in Nat /\ catalog \in Nat /\ g <= catalog BY <1>1 DEF IInv, Typed, ReportInv
    <3>5. QED BY <3>1, <3>3, <3>4
  <2>2. CASE ~Pong
    <3>1. status' = status \/ (g' = g /\ status'.state # "synchronized")
      BY <1>1, <2>2, OnlyPongReports
    <3>2. g \in Nat BY <1>1 DEF IInv, Typed
    <3>3. QED BY <3>1, <3>2
  <2>3. QED BY <2>1, <2>2
<1>2. [][Next]_vars /\ []IInv => [][A]_vars BY <1>1, PTL
<1>3. QED BY <1>2, Invariance, PTL DEF Spec, SynchronizedMeansReceived
=============================================================================
