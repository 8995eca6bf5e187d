--------------------------- MODULE SerialExecutor ---------------------------
(***************************************************************************)
(* What include/redis_pvxs_ioc/operation_queue.h promises to the code that *)
(* submits work, with no threads, lanes, clocks or condition variables:    *)
(* the tasks of a key run one at a time and in the order of submission, a  *)
(* task that is withdrawn while queued never runs, one that is withdrawn   *)
(* while active keeps its key until run() returns, nothing starts after    *)
(* shutdown, and the client of a task is told at most once that it was     *)
(* withdrawn and at most once that its run() threw.                        *)
(***************************************************************************)
EXTENDS Integers, Sequences

CONSTANT Keys

VARIABLES
  keyOf,   \* keyOf[id]: the key of ticket id
  queued,  \* tickets that wait for their turn
  active,  \* tickets whose run() is in progress (or was skipped as too late)
  doomed,  \* tickets that have failed: deadline, cancel or shutdown
  told,    \* tickets whose fail() was called with that failure
  crashed, \* tickets whose fail() was called with an exception of run()
  open     \* shutdown() was not called yet

vars == <<keyOf, queued, active, doomed, told, crashed, open>>

Init ==
  /\ keyOf = <<>> /\ open = TRUE
  /\ queued = {} /\ active = {} /\ doomed = {} /\ told = {} /\ crashed = {}

Admit(k) ==
  /\ open
  /\ keyOf' = Append(keyOf, k)
  /\ queued' = queued \cup {Len(keyOf) + 1}
  /\ UNCHANGED <<active, doomed, told, crashed, open>>

\* A submission that throws spends a ticket and leaves nothing else behind.
Spend(k) ==
  /\ open
  /\ keyOf' = Append(keyOf, k)
  /\ UNCHANGED <<queued, active, doomed, told, crashed, open>>

\* The task is the first of its key and no other task of the key is active.  One
\* that is late becomes active too, already failed.
Start(t) ==
  /\ open /\ t \in queued \ doomed
  /\ \A u \in active : keyOf[u] # keyOf[t]
  /\ \A u \in queued : keyOf[u] = keyOf[t] => t <= u
  /\ queued' = queued \ {t}
  /\ active' = active \cup {t}
  /\ doomed' \in {doomed, doomed \cup {t}}
  /\ UNCHANGED <<keyOf, told, crashed, open>>

Finish(t) ==
  /\ t \in active
  /\ active' = active \ {t}
  /\ UNCHANGED <<keyOf, queued, doomed, told, crashed, open>>

\* Deadline or cancellation.
Withdraw(t) ==
  /\ t \in (queued \cup active) \ doomed
  /\ doomed' = doomed \cup {t}
  /\ queued' = queued \ {t}
  /\ UNCHANGED <<keyOf, active, told, crashed, open>>

Tell(t) ==
  /\ t \in doomed \ told
  /\ told' = told \cup {t}
  /\ UNCHANGED <<keyOf, queued, active, doomed, crashed, open>>

\* run() throws and fail() reports the exception, withdrawn or not.
Crash(t) ==
  /\ t \in active \ crashed
  /\ crashed' = crashed \cup {t}
  /\ UNCHANGED <<keyOf, queued, active, doomed, told, open>>

\* Shutdown fails everything that is resident and, when the last run() has
\* returned, drops what was queued.
Close ==
  /\ open /\ open' = FALSE
  /\ doomed' = doomed \cup queued \cup active
  /\ UNCHANGED <<keyOf, queued, active, told, crashed>>

Drop ==
  /\ ~open /\ active = {}
  /\ queued' = {}
  /\ UNCHANGED <<keyOf, active, doomed, told, crashed, open>>

Next ==
  \/ \E k \in Keys : Admit(k) \/ Spend(k)
  \/ \E t \in DOMAIN keyOf : Start(t) \/ Finish(t) \/ Withdraw(t) \/ Tell(t) \/ Crash(t)
  \/ Close \/ Drop

Spec == Init /\ [][Next]_vars
=============================================================================
