----------------------------- MODULE Discovery -----------------------------
(***************************************************************************)
(* The discovery publisher of src/src/discovery.cpp: a worker thread that  *)
(* waits for the announcement of a receiver, uploads the latest catalog    *)
(* over TCP and answers the receiver's pings, while a reload publishes a   *)
(* newer catalog or the application stops.                                 *)
(*                                                                         *)
(* A catalog is its generation and takes Chunks sends, each of which       *)
(* carries bytes of the catalog it was cut from.  The network may          *)
(* fail or time out at every wait; each wait is the code's: test stopping  *)
(* and the epoch, poll the wakeup pair and the socket, drain the pair.     *)
(***************************************************************************)
EXTENDS Naturals, Sequences

CONSTANTS
  Chunks,         \* sends that a catalog takes
  MaxGeneration,  \* bound: catalogs that are published
  MaxFailures     \* bound: failures of the network

ASSUME DiscoveryAssumption ==
  Chunks \in Nat \ {0} /\ MaxGeneration \in Nat \ {0} /\ MaxFailures \in Nat

VARIABLES
  latest,       \* generation of the catalog to upload, 0 when there is none
  epoch, stopping,
  wakeup,       \* bytes are in the wakeup pair
  owner,        \* the application's thread: "idle", "wake", "joining" or "joined"
  worker,       \* the worker: "open", "take", "check", "poll" or "exited"
  step,         \* what the worker waits for
  catalog, expected,   \* its locals
  received,     \* what went over the connection: the generation each chunk is of
  status,       \* state and synchronizedGeneration of DiscoveryStatus
  failures

workVars == <<worker, step, catalog, expected, received, status, failures>>
vars == <<latest, epoch, stopping, wakeup, owner, workVars>>

\* What wait() is called for, in the order of a synchronization.
Steps == {"catalog", "announcement", "holdoff", "connect", "greet", "greeting", "upload", "ping",
          "pong", "pause", "reopen", "none"}

Init ==
  /\ latest = 0 /\ epoch = 0 /\ stopping = FALSE /\ wakeup = FALSE
  /\ owner = "idle" /\ worker = "open" /\ step = "none"
  /\ catalog = 0 /\ expected = 0 /\ received = <<>> /\ failures = 0
  /\ status = [state |-> "idle", synchronizedGeneration |-> 0]

-----------------------------------------------------------------------------
(* The application's thread *)

\* publish(), under the mutex.
Publish(generation) ==
  /\ owner = "idle"
  /\ latest' = generation /\ epoch' = epoch + 1
  /\ owner' = "wake"
  /\ UNCHANGED <<stopping, wakeup, workVars>>

\* ~Impl()
Stop ==
  /\ owner = "idle"
  /\ stopping' = TRUE /\ owner' = "wake"
  /\ UNCHANGED <<latest, epoch, wakeup, workVars>>

\* wake(): a full wakeup buffer already wakes the worker.
Wake ==
  /\ owner = "wake"
  /\ wakeup' = TRUE
  /\ owner' = IF stopping THEN "joining" ELSE "idle"
  /\ UNCHANGED <<latest, epoch, stopping, workVars>>

Join ==
  /\ owner = "joining" /\ worker = "exited"
  /\ owner' = "joined"
  /\ UNCHANGED <<latest, epoch, stopping, wakeup, workVars>>

-----------------------------------------------------------------------------
(* wait() *)

Interrupted == stopping \/ epoch # expected

\* wait(), send() and receive() are entered for the next step.
WaitFor(next) == worker' = "check" /\ step' = next

\* Interrupted or an exception leaves connectAndUpload(): its socket is closed.
Disconnect == received' = <<>>

\* The inner loop of run() is entered again, or the outer one after its own pause.
Again ==
  /\ worker' = IF step = "reopen" THEN "open" ELSE "take"
  /\ step' = "none" /\ Disconnect

\* Every catch of Interrupted goes on with its loop.
Interrupt ==
  /\ worker = "check" /\ Interrupted
  /\ Again
  /\ UNCHANGED <<latest, epoch, stopping, wakeup, owner, catalog, expected, status, failures>>

Check ==
  /\ worker = "check" /\ ~Interrupted
  /\ worker' = "poll"
  /\ UNCHANGED <<latest, epoch, stopping, wakeup, owner, step, catalog, expected, received, status,
                 failures>>

\* Mutant of Drain: the worker polls again without a check().
DrainOnly ==
  /\ worker = "poll" /\ wakeup
  /\ wakeup' = FALSE
  /\ UNCHANGED <<latest, epoch, stopping, owner, worker, step, catalog, expected, received, status,
                 failures>>

\* poll() returns for the wakeup pair, which is drained; check() follows.
Drain ==
  /\ worker = "poll" /\ wakeup
  /\ wakeup' = FALSE /\ worker' = "check"
  /\ UNCHANGED <<latest, epoch, stopping, owner, step, catalog, expected, received, status, failures>>

\* poll() returns for the socket, or the delay is over: the wait is done.
Polled(for) == worker = "poll" /\ step = for /\ ~wakeup

Keep == UNCHANGED <<latest, epoch, stopping, wakeup, owner, catalog, expected, failures>>

SetState(s) == status' = [status EXCEPT !.state = s]

-----------------------------------------------------------------------------
(* run() and connectAndUpload() *)

\* The UDP socket is opened and bound.
Open ==
  /\ worker = "open" /\ ~stopping
  /\ worker' = "take" /\ expected' = epoch
  /\ UNCHANGED <<latest, epoch, stopping, wakeup, owner, step, catalog, received, status, failures>>

\* The loops end.
Exit ==
  /\ worker \in {"open", "take"} /\ stopping
  /\ worker' = "exited"
  /\ UNCHANGED <<latest, epoch, stopping, wakeup, owner, step, catalog, expected, received, status,
                 failures>>

\* Mutant of TakenEpoch: the inner loop keeps the epoch it was entered with.
TakenEpochOld == expected

TakenEpoch == epoch

\* Catalog and epoch are taken together; without a catalog the worker waits for
\* one, else it listens.
Take ==
  /\ worker = "take" /\ ~stopping
  /\ catalog' = latest /\ expected' = TakenEpoch
  /\ WaitFor(IF latest = 0 THEN "catalog" ELSE "announcement")
  /\ IF latest = 0 THEN UNCHANGED status ELSE SetState("listening")
  /\ UNCHANGED <<latest, epoch, stopping, wakeup, owner, received, failures>>

\* The newest valid announcement of the batch is used, after a random delay.
Announced ==
  /\ Polled("announcement") /\ WaitFor("holdoff")
  /\ UNCHANGED <<received, status>> /\ Keep

\* No datagram of the batch was an announcement.
NotAnnounced ==
  /\ Polled("announcement") /\ failures < MaxFailures
  /\ failures' = failures + 1 /\ Again
  /\ UNCHANGED <<latest, epoch, stopping, wakeup, owner, catalog, expected, status>>

HeldOff == Polled("holdoff") /\ WaitFor("connect") /\ SetState("connecting") /\ UNCHANGED received /\ Keep

Connected == Polled("connect") /\ WaitFor("greet") /\ UNCHANGED <<received, status>> /\ Keep

Greet == Polled("greet") /\ WaitFor("greeting") /\ UNCHANGED <<received, status>> /\ Keep

Greeted == Polled("greeting") /\ WaitFor("upload") /\ SetState("uploading") /\ UNCHANGED received /\ Keep

\* send() goes on until the offset is the size.
Upload ==
  /\ Polled("upload")
  /\ received' = Append(received, catalog)
  /\ IF Len(received) + 1 = Chunks
     THEN WaitFor("ping") /\ SetState("uploaded")
     ELSE WaitFor("upload") /\ UNCHANGED status
  /\ Keep

Ping == Polled("ping") /\ WaitFor("pong") /\ UNCHANGED <<received, status>> /\ Keep

\* Mutant of Confirmed: the generation of the catalog to upload is reported.
ConfirmedLatest == latest

\* What a pong confirms: the catalog that was uploaded.
Confirmed == catalog

\* The pong is sent: the receiver that pinged has processed the catalog.
Pong ==
  /\ Polled("pong") /\ WaitFor("ping")
  /\ status' = [state |-> "synchronized", synchronizedGeneration |-> Confirmed]
  /\ UNCHANGED received /\ Keep

\* The delay after an error is over; its exception is swallowed.
Paused == (Polled("pause") \/ Polled("reopen")) /\ Again /\ UNCHANGED status /\ Keep

\* A deadline, a lost connection, a bad message, a failing system call.
Fail ==
  /\ worker = "poll" /\ ~wakeup /\ step \notin {"holdoff", "pause", "reopen"} /\ failures < MaxFailures
  /\ failures' = failures + 1
  /\ SetState("error") /\ Disconnect /\ WaitFor("pause")
  /\ UNCHANGED <<latest, epoch, stopping, wakeup, owner, catalog, expected>>

\* The UDP socket cannot be opened: the outer loop pauses and starts over.
OpenFails ==
  /\ worker = "open" /\ ~stopping /\ failures < MaxFailures
  /\ failures' = failures + 1 /\ expected' = epoch
  /\ SetState("error") /\ WaitFor("reopen")
  /\ UNCHANGED <<latest, epoch, stopping, wakeup, owner, catalog, received>>

-----------------------------------------------------------------------------
WorkerStep ==
  \/ Interrupt \/ Check \/ Drain \/ Open \/ Exit \/ Take \/ Announced \/ HeldOff \/ Connected
  \/ Greet \/ Greeted \/ Upload \/ Ping \/ Pong \/ Paused

Next ==
  \/ \E generation \in (latest + 1)..MaxGeneration : Publish(generation)
  \/ Stop \/ Wake \/ Join
  \/ WorkerStep \/ NotAnnounced \/ Fail \/ OpenFails

\* The worker's thread runs, a receiver announces itself and answers, and the
\* application sends the byte that it is about to send.
Spec == Init /\ [][Next]_vars /\ WF_vars(WorkerStep) /\ WF_vars(Wake) /\ WF_vars(Join)

-----------------------------------------------------------------------------
(* Properties *)

\* A worker that is about to block, or blocks, on a catalog that was replaced or on
\* a publisher that stops, has a wakeup byte to read or one is about to be sent.
NeverSleepsStale ==
  worker = "poll" /\ Interrupted => wakeup \/ owner = "wake"

\* The worker reports synchronization only for the very generation whose chunks,
\* to the last one and of no other catalog, went over the connection that answers
\* the ping, though a newer catalog may have been published by then; and the
\* reported generation never goes back.
SynchronizedMeansReceived ==
  [][/\ status'.synchronizedGeneration >= status.synchronizedGeneration
     /\ status'.synchronizedGeneration # status.synchronizedGeneration => status'.state = "synchronized"
     /\ status' # status /\ status'.state = "synchronized"
          => received = [i \in 1..Chunks |-> status'.synchronizedGeneration]]_vars

\* When no newer catalog is published, the latest one gets to the receiver, whatever
\* the worker was doing when it was published; and a stop is never held up.
LatestDelivered ==
  /\ \A g \in 1..MaxGeneration :
       [](latest = g /\ ~stopping => <>(status.synchronizedGeneration = g \/ latest # g \/ stopping))
  /\ stopping ~> owner = "joined"
=============================================================================
