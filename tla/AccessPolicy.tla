---------------------------- MODULE AccessPolicy ----------------------------
(***************************************************************************)
(* The policy of the access controller of src/src/access_control.cpp: the  *)
(* ACF file that is read, expanded and validated, the policy that the      *)
(* EPICS library enforces, what the controller has recorded of it, and the *)
(* file watcher.  Everything here runs in the application's thread, while  *)
(* anybody may change the file.                                            *)
(*                                                                         *)
(* A policy's text is a model value.  Expanding the macros of an access    *)
(* configuration pairs the text with the macros; which texts are valid for *)
(* which configuration (syntax, required groups) is a constant.            *)
(***************************************************************************)
EXTENDS Naturals

CONSTANTS
  Texts,            \* contents of the ACF file
  AccessConfigs,    \* access sections of the configuration
  Macros,           \* the macros of each
  Watched,          \* those with the watcher enabled
  Good,             \* pairs of an access section and a text that is valid for it
  MaxEdits          \* bound: changes of the ACF file

None == "none"      \* an empty string, no file

ASSUME PolicyAssumption ==
  /\ None \notin Texts /\ Watched \subseteq AccessConfigs
  /\ Good \subseteq AccessConfigs \X Texts
  /\ MaxEdits \in Nat

VARIABLES
  file, edits,                      \* the ACF file; its changes
  library,                          \* the expanded policy that asLib enforces
  access, activePolicy, observedRaw,   \* fields of Impl
  watchLastAttemptRaw, watchCandidateRaw,
  settled,                          \* settleMs have passed since watchCandidateSince
  pendingTrigger,                   \* requestReload() was called
  policyStep,                       \* where pump() is
  trigger,                          \* what reload() was called for
  raw                               \* the text that reload() has read

recordVars == <<access, activePolicy, observedRaw>>
watchVars == <<watchLastAttemptRaw, watchCandidateRaw, settled>>
reloadVars == <<policyStep, trigger, raw>>
policyVars == <<file, edits, library, recordVars, watchVars, pendingTrigger, reloadVars>>

expanded(a, text) == <<Macros[a], text>>

PolicyInit ==
  /\ file \in Texts /\ edits = 0
  /\ access = None /\ observedRaw = None /\ activePolicy = None /\ library = None
  /\ watchLastAttemptRaw = None /\ watchCandidateRaw = None
  /\ settled = FALSE /\ pendingTrigger = FALSE
  /\ policyStep = "idle" /\ trigger = None /\ raw = None

-----------------------------------------------------------------------------
(* Outside the application's thread *)

\* The file is replaced or removed.
Edit(text) ==
  /\ edits < MaxEdits /\ text # file
  /\ file' = text /\ edits' = edits + 1
  /\ UNCHANGED <<library, recordVars, watchVars, pendingTrigger, reloadVars>>

\* requestReload(), for a write to access:reload.
requestReload ==
  /\ ~pendingTrigger
  /\ pendingTrigger' = TRUE
  /\ UNCHANGED <<file, edits, library, recordVars, watchVars, reloadVars>>

\* The content has been the candidate for settleMs.
Settle ==
  /\ watchCandidateRaw # None /\ ~settled
  /\ settled' = TRUE
  /\ UNCHANGED <<file, edits, library, recordVars, watchLastAttemptRaw, watchCandidateRaw,
                 pendingTrigger, reloadVars>>

-----------------------------------------------------------------------------
(* reload() *)

\* reload() returns to pump(), which goes on with the watcher, or clears the
\* candidate and is done.
Returned == IF trigger = "watch" THEN "done" ELSE "watch"
CandidateAfter == IF trigger = "watch" THEN None ELSE watchCandidateRaw

\* preparePolicy() throws, or asInitMem() refuses the policy and keeps the old one.
ReloadFails ==
  /\ \/ policyStep = "read" /\ <<access, file>> \notin Good
     \/ policyStep = "activate"
  /\ policyStep' = Returned /\ watchCandidateRaw' = CandidateAfter
  /\ trigger' = None /\ raw' = None
  /\ UNCHANGED <<file, edits, library, recordVars, watchLastAttemptRaw, settled,
                 pendingTrigger>>

\* preparePolicy(): the file is read once, expanded and validated.
Read ==
  /\ policyStep = "read" /\ <<access, file>> \in Good
  /\ raw' = file /\ policyStep' = "activate"
  /\ UNCHANGED <<file, edits, library, recordVars, watchVars, pendingTrigger, trigger>>

\* asInitMem(); the clients are recomputed.
Activate ==
  /\ policyStep = "activate"
  /\ library' = expanded(access, raw) /\ policyStep' = "record"
  /\ UNCHANGED <<file, edits, recordVars, watchVars, pendingTrigger, trigger, raw>>

\* The active policy is recorded.
Record ==
  /\ policyStep = "record"
  /\ activePolicy' = library /\ observedRaw' = raw
  /\ watchLastAttemptRaw' = None
  /\ policyStep' = Returned /\ watchCandidateRaw' = CandidateAfter
  /\ trigger' = None /\ raw' = None
  /\ UNCHANGED <<file, edits, library, access, settled, pendingTrigger>>

-----------------------------------------------------------------------------
(* pump() *)

\* A requested reload comes first.
PumpTrigger ==
  /\ policyStep = "start"
  /\ pendingTrigger' = FALSE
  /\ IF pendingTrigger THEN policyStep' = "read" /\ trigger' = "admin"
                       ELSE policyStep' = "watch" /\ UNCHANGED trigger
  /\ UNCHANGED <<file, edits, library, recordVars, watchVars, raw>>

Watching(next) == policyStep = "watch" /\ policyStep' = next

\* The watcher is disabled.
NoPoll ==
  /\ access \notin Watched /\ Watching("done")
  /\ UNCHANGED <<file, edits, library, recordVars, watchVars, pendingTrigger, trigger, raw>>

Poll == access \in Watched /\ file # None
PollKeeps == UNCHANGED <<file, edits, library, recordVars, pendingTrigger, raw>>

\* The file cannot be read, which is reported once.
PollMissing ==
  /\ access \in Watched /\ file = None /\ Watching("done")
  /\ UNCHANGED <<watchLastAttemptRaw, watchCandidateRaw, settled, trigger>> /\ PollKeeps

\* The active content is back: the watcher forgets what it tried.
PollActive ==
  /\ Poll /\ file = observedRaw /\ Watching("done")
  /\ watchCandidateRaw' = None /\ watchLastAttemptRaw' = None
  /\ UNCHANGED <<settled, trigger>> /\ PollKeeps

\* The same content has been tried.
PollTried ==
  /\ Poll /\ file # observedRaw /\ file = watchLastAttemptRaw /\ Watching("done")
  /\ watchCandidateRaw' = None
  /\ UNCHANGED <<watchLastAttemptRaw, settled, trigger>> /\ PollKeeps

\* Other content has to settle first, ...
PollCandidate ==
  /\ Poll /\ file \notin {observedRaw, watchLastAttemptRaw, watchCandidateRaw} /\ Watching("done")
  /\ watchCandidateRaw' = file /\ settled' = FALSE
  /\ UNCHANGED <<watchLastAttemptRaw, trigger>> /\ PollKeeps

PollWaits ==
  /\ Poll /\ file \notin {observedRaw, watchLastAttemptRaw} /\ file = watchCandidateRaw
  /\ ~settled /\ Watching("done")
  /\ UNCHANGED <<watchLastAttemptRaw, watchCandidateRaw, settled, trigger>> /\ PollKeeps

\* ... and is then reloaded, which reads the file again.
PollSettled ==
  /\ Poll /\ file \notin {observedRaw, watchLastAttemptRaw} /\ file = watchCandidateRaw /\ settled
  /\ Watching("read") /\ trigger' = "watch"
  /\ watchLastAttemptRaw' = file
  /\ UNCHANGED <<watchCandidateRaw, settled>> /\ PollKeeps

PolicyPump ==
  \/ PumpTrigger \/ ReloadFails \/ Read \/ Activate \/ Record
  \/ NoPoll \/ PollMissing \/ PollActive \/ PollTried \/ PollCandidate \/ PollWaits \/ PollSettled

\* start(): the first policy is read, validated and activated.
StartPolicy(a) ==
  /\ <<a, file>> \in Good
  /\ access' = a /\ observedRaw' = file /\ activePolicy' = expanded(a, file)
  /\ library' = expanded(a, file)
  /\ UNCHANGED <<file, edits, watchVars, pendingTrigger, reloadVars>>

-----------------------------------------------------------------------------
(* The whole configuration is reloaded *)

\* prepareConfiguration() holds the mutex of reloads until the generation is
\* finished: no other reload of the policy comes in between.
Prepare(a) ==
  /\ <<a, file>> \in Good
  /\ raw' = file
  /\ UNCHANGED <<file, edits, library, recordVars, watchVars, pendingTrigger, policyStep,
                 trigger>>

\* The prepared policy is dropped.
DropPrepared ==
  /\ raw' = None
  /\ UNCHANGED <<file, edits, library, recordVars, watchVars, pendingTrigger, policyStep,
                 trigger>>

\* activateConfiguration(): the library is only asked when the expanded policy
\* differs; then everything is swapped.
ActivateConfiguration(a) ==
  /\ library' = IF expanded(a, raw) # activePolicy THEN expanded(a, raw) ELSE library
  /\ access' = a /\ activePolicy' = expanded(a, raw) /\ observedRaw' = raw
  /\ watchLastAttemptRaw' = None /\ watchCandidateRaw' = None
  /\ raw' = None
  /\ UNCHANGED <<file, edits, settled, pendingTrigger, policyStep, trigger>>
=============================================================================
