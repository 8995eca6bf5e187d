---------------------------- MODULE Application ----------------------------
(***************************************************************************)
(* The application of src/src/app.cpp: its pump reloads the configuration  *)
(* as one generation (backends, runtimes, RPC endpoints, policy, registry, *)
(* discovery catalog), lets the access controller reload its policy, and   *)
(* recovers optional RPC services whose reflection runs in another thread. *)
(*                                                                         *)
(* A configuration is the index of its document. A runtime is its PV, and  *)
(* the document and the generation that it was made for; an RPC service is *)
(* its place in a document, and its state.                                 *)
(***************************************************************************)
EXTENDS AccessPolicy, Configuration

CONSTANTS
  MaxGeneration,    \* bound: generations
  Ports,            \* ports that the server may get: its own may be taken, or be 0
  ServerPort,       \* the one that it got
  Generations       \* generations whose catalogs are compared with the checked one

ASSUME ApplicationAssumption ==
  /\ MaxGeneration \in Nat \ {0}
  /\ Ports \subseteq 1..65535 /\ ServerPort \in Ports /\ Generations \subseteq Nat \ {0}

VARIABLES
  reloadRequested,
  pc,               \* where pump() is
  candidate,        \* the configuration that is being applied
  nextRuntimes, nextServices,      \* what has been prepared for it
  currentConfig, generation,
  runtimes, services,              \* rpcServices: their configuration and state
  registry,                        \* what is bound in the PV registry
  active,                          \* runtimes that are active
  lapsed,                          \* history: a refresh failed before the retired runtimes were deactivated
  announced,                       \* generation of the catalog given to discovery
  future, futureGeneration, futureIndex, futureService,   \* rpcDiscovery: "none", "running" or a result
  nextIndex,                       \* nextRpcDiscoveryIndex
  passed,                          \* history: trials of others while a service was due
  reload                           \* ReloadStatus: candidateGeneration, state and counts

prepVars == <<candidate, nextRuntimes, nextServices>>
activeVars == <<active, lapsed>>
liveVars == <<currentConfig, generation, runtimes, services, registry, activeVars, announced>>
futureVars == <<passed, future, futureGeneration, futureIndex, futureService>>
vars == <<policyVars, reloadRequested, pc, prepVars, liveVars, futureVars, nextIndex, reload>>

NoDoc == 0     \* before the first configuration

Entry(ref, state) == [ref |-> ref, state |-> state]
Runtime(n, doc, g) == [pv |-> n, doc |-> doc, generation |-> g]
RpcRuntime == Runtime(<<>>, NoDoc, 0)
Values(f) == {f[n] : n \in DOMAIN f}

Parsed(doc) == Config[doc] # NoConfig

\* The service that a reference means.
Service(ref) == Config[ref[1]].rpcServices[ref[2]]

hasConfig == generation > 0
\* assembleRpcPVs(): the names of the services that have endpoints.
NamesOf(doc, entry) ==
  IF entry.state = "ready" THEN rpcNames(Config[doc].server, Service(entry.ref)) ELSE {}
RpcNames(doc, s) == UNION {NamesOf(doc, s[i]) : i \in DOMAIN s}

\* Every name is reserved once, and the catalog of the next generation has room for it.
Assembled(doc, s) ==
  LET names == RpcNames(doc, s)
      configured == ToSet(configuredEndpoints(Config[doc].server, Config[doc].pvs))
  IN /\ names \cap configured = {} /\ <<>> \notin names
     /\ \A i, j \in DOMAIN s : i # j => NamesOf(doc, s[i]) \cap NamesOf(doc, s[j]) = {}
     /\ CatalogFits(Config[doc], names, ServerPort, generation + 1)

\* What is bound besides the diagnostics: every name of a PV to its runtime.
Binding(name, of) == [name |-> name, of |-> of]
Bound(doc, rts, s) ==
  UNION {{Binding(name, rts[n]) : name \in Range(fullPVNames(Config[doc].server, PVs[doc][n]))} : n \in DOMAIN rts}
    \cup {Binding(name, RpcRuntime) : name \in RpcNames(doc, s)}

Init ==
  /\ PolicyInit
  /\ currentConfig = NoDoc /\ generation = 0 /\ announced = 0
  /\ runtimes = <<>> /\ services = <<>> /\ registry = {} /\ active = {} /\ lapsed = FALSE
  /\ candidate = NoDoc /\ nextRuntimes = <<>> /\ nextServices = <<>>
  /\ reloadRequested = FALSE /\ pc = "start"
  /\ future = "none" /\ futureGeneration = 0 /\ futureIndex = 1 /\ futureService = <<>>
  /\ nextIndex = 1 /\ passed = <<>>
  /\ reload = [candidate |-> 0, state |-> "idle", counts |-> <<>>]

-----------------------------------------------------------------------------
(* Outside the application's thread *)

\* A signal, or a write to the reload PV.
requestReload_ ==
  /\ ~reloadRequested /\ generation < MaxGeneration
  /\ reloadRequested' = TRUE
  /\ UNCHANGED <<policyVars, pc, prepVars, liveVars, futureVars, nextIndex, reload>>

\* The reflection task ends.  A cancelled one is unavailable; so is it at its
\* deadline.
Reflected(result) ==
  /\ future = "running"
  /\ future' = result
  /\ UNCHANGED <<policyVars, reloadRequested, pc, prepVars, liveVars, passed, futureGeneration,
                 futureIndex, futureService, nextIndex, reload>>

-----------------------------------------------------------------------------
(* The program's other modes, which only read configurations *)

\* validateOnly(): the document, its policy, and its catalog without RPC endpoints on
\* the configured or the default port.
CheckedPort(config) == OrElse(config.server.tcp_port, 5075)
Accepted(doc) ==
  /\ doc \in Valid /\ CatalogFits(Load(doc), {}, CheckedPort(Load(doc)), 1)
  /\ Document[doc].access.enabled => <<Document[doc].access.name, file>> \in Good

\* --check-config
CheckConfig(doc) ==
  /\ IF Accepted(doc) THEN pc' = "checked" /\ candidate' = doc ELSE pc' = "failed" /\ UNCHANGED candidate
  /\ UNCHANGED <<policyVars, reloadRequested, nextRuntimes, nextServices, liveVars, futureVars, nextIndex, reload>>

\* --diff-config
DiffConfig(before, after) ==
  /\ IF {before, after} \subseteq Valid
     THEN pc' = "diffed" /\ currentConfig' = before /\ candidate' = after
     ELSE pc' = "failed" /\ UNCHANGED <<currentConfig, candidate>>
  /\ UNCHANGED <<policyVars, reloadRequested, nextRuntimes, nextServices, generation, runtimes, services,
                 registry, activeVars, announced, futureVars, nextIndex, reload>>

-----------------------------------------------------------------------------
(* A reload of the configuration *)

Live == UNCHANGED <<liveVars, futureVars, nextIndex>>

Cleared == candidate' = NoDoc /\ nextRuntimes' = <<>> /\ nextServices' = <<>>

\* finishReload() of an attempt that changed nothing.
Rejected ==
  /\ Cleared
  /\ reload' = [reload EXCEPT !.state = IF reload.counts = <<>> THEN "failed" ELSE "rejected"]
  /\ pc' = IF hasConfig THEN "access" ELSE "failed"

\* pump() without a request.
NoReload ==
  /\ pc = "pump" /\ ~reloadRequested
  /\ pc' = "access"
  /\ UNCHANGED <<policyVars, reloadRequested, prepVars, reload>> /\ Live

\* beginReload(); the file is read, and compared with what is current.
Begin(doc) ==
  /\ candidate' = doc /\ pc' = "parsed"
  /\ reload' = [candidate |-> generation + 1, state |-> "running",
                counts |-> IF Parsed(doc) THEN Counts[currentConfig + 1][doc] ELSE <<>>]

BeginReload ==
  /\ pc = "pump" /\ reloadRequested
  /\ reloadRequested' = FALSE
  /\ \E doc \in DOMAIN Config : Begin(doc)
  /\ UNCHANGED <<policyVars, nextRuntimes, nextServices>> /\ Live

\* start(): the same, and the access controller activates its first policy.  Without
\* access control there would be no policy to swap.
Start ==
  /\ pc = "start"
  /\ \E doc \in DOMAIN Config :
       Parsed(doc) /\ Begin(doc) /\ Config[doc].access.enabled /\ StartPolicy(Config[doc].access.name)
  /\ UNCHANGED <<reloadRequested, nextRuntimes, nextServices>> /\ Live

\* The configuration or the policy cannot be read.
StartFails ==
  /\ pc = "start"
  /\ \E state \in {"failed", "rejected"} : reload' = [reload EXCEPT !.state = state]
  /\ pc' = "failed"
  /\ UNCHANGED <<policyVars, reloadRequested, prepVars>> /\ Live

\* What applyConfig() compares after the start.
Immutable(before, after) ==
  /\ before.limits = after.limits /\ sameServerConfig(before.server, after.server)
  /\ before.access.enabled = after.access.enabled /\ before.discovery = after.discovery

Applicable ==
  /\ Parsed(candidate)
  /\ hasConfig => Immutable(Config[currentConfig], Config[candidate])

\* The file is malformed, or it changes what is immutable after startup.
Refused ==
  /\ pc = "parsed" /\ ~Applicable
  /\ Rejected /\ UNCHANGED <<policyVars, reloadRequested>> /\ Live

\* structurallyCompatible(), and the same backends
Kept(made, pv, before, after) ==
  sameReaderTopology(made, pv) /\ sameBackendBindings(pv, before.redisBackends, after.redisBackends)

Reusable(n) ==
  /\ n \in DOMAIN runtimes
  /\ Kept(PVs[runtimes[n].doc][n], PVs[candidate][n], Config[currentConfig], Config[candidate])

\* Backends are built; compatible runtimes are kept, the others are made.
PrepareRuntimes ==
  /\ pc = "parsed" /\ Applicable /\ Buildable[candidate]
  /\ nextRuntimes' = [n \in DOMAIN PVs[candidate] |->
       IF Reusable(n) THEN runtimes[n] ELSE Runtime(n, candidate, generation + 1)]
  /\ nextServices' = <<>> /\ pc' = "rpc"
  /\ UNCHANGED <<policyVars, reloadRequested, candidate, reload>> /\ Live

\* A backend or a runtime cannot be made, a reflected service is invalid, a
\* required one is unavailable, a name is bound twice, the catalog is too large, or
\* the policy is not valid for this configuration.
PreparationFails ==
  /\ pc \in {"parsed", "rpc", "policy"} /\ Applicable
  /\ Rejected /\ DropPrepared /\ UNCHANGED reloadRequested /\ Live

\* Mutant of Prior: a service without endpoints is taken over as well.
PriorInAnyState(svc) ==
  {i \in DOMAIN services : Same(Service(services[i].ref), svc, {"endpoint", "service", "suffix", "defaults", "optional", "times"})}

\* A service that is unchanged, except for its access, and has endpoints is taken over.
Prior(svc) ==
  {i \in DOMAIN services :
     /\ services[i].state = "ready"
     /\ Same(Service(services[i].ref), svc, {"endpoint", "service", "suffix", "defaults", "optional", "times"})}

\* The next service of the list is taken over or reflected.
PrepareService ==
  /\ pc = "rpc" /\ Len(nextServices) < Len(Config[candidate].rpcServices)
  /\ LET ref == <<candidate, Len(nextServices) + 1>>
         prior == Prior(Service(ref))
     IN \E state \in IF prior # {} THEN {services[CHOOSE i \in prior : \A j \in prior : i <= j].state}
                     ELSE {"ready"} \cup (IF Service(ref).optional THEN {"unavailable"} ELSE {}) :
          nextServices' = Append(nextServices, Entry(ref, state))
  /\ UNCHANGED <<policyVars, reloadRequested, pc, candidate, nextRuntimes, reload>> /\ Live

\* All services are there, and every endpoint has a name of its own.
ServicesPrepared ==
  pc = "rpc" /\ Len(nextServices) = Len(Config[candidate].rpcServices) /\ Assembled(candidate, nextServices)

\* The first generation is applied under the policy that start() has activated.
FirstPolicy ==
  /\ ServicesPrepared /\ ~hasConfig
  /\ pc' = "activate"
  /\ UNCHANGED <<policyVars, reloadRequested, prepVars, reload>> /\ Live

\* The policy is read and validated for the new configuration.
PreparePolicy ==
  /\ ServicesPrepared /\ hasConfig
  /\ Prepare(Config[candidate].access.name)
  /\ pc' = "policy"
  /\ UNCHANGED <<reloadRequested, prepVars, reload>> /\ Live

\* beforeCommit(): the policy is activated; then nothing can fail.
CommitPolicy ==
  /\ pc = "policy"
  /\ ActivateConfiguration(Config[candidate].access.name)
  /\ pc' = "activate"
  /\ UNCHANGED <<reloadRequested, prepVars, reload>> /\ Live

\* Mutant of Activated: new runtimes are not activated before they are served.
ActivatedLater == active

\* The updates are committed, and the added runtimes activated.
Activated == active \cup Values(nextRuntimes)

ActivateRuntimes ==
  /\ pc = "activate"
  /\ active' = Activated /\ pc' = "store"
  /\ UNCHANGED <<policyVars, reloadRequested, prepVars, currentConfig, generation, runtimes,
                 services, registry, lapsed, announced, futureVars, nextIndex, reload>>

\* The registry publishes the new bindings.
StoreRegistry ==
  /\ pc = "store"
  /\ registry' = Bound(candidate, nextRuntimes, nextServices) /\ pc' = "swap"
  /\ UNCHANGED <<policyVars, reloadRequested, prepVars, currentConfig, generation, runtimes,
                 services, activeVars, announced, futureVars, nextIndex, reload>>

\* The application takes over what was prepared; a reflection in progress is
\* cancelled, but its result still comes.
Swap ==
  /\ pc = "swap"
  /\ runtimes' = nextRuntimes /\ services' = nextServices /\ nextRuntimes' = runtimes
  /\ currentConfig' = candidate /\ generation' = generation + 1
  /\ pc' = "refresh"
  /\ passed' = [i \in DOMAIN nextServices |-> 0]
  /\ UNCHANGED <<policyVars, reloadRequested, candidate, nextServices, registry, activeVars, announced,
                 future, futureGeneration, futureIndex, futureService, nextIndex, reload>>

\* What the generation replaced.
Retired == Values(nextRuntimes) \ Values(runtimes)

\* Retired runtimes are deactivated once they are no longer served.
Retire ==
  /\ pc = "refresh"
  /\ active' = active \ Retired
  /\ pc' = "announce"
  /\ UNCHANGED <<policyVars, reloadRequested, prepVars, currentConfig, generation, runtimes,
                 services, registry, lapsed, announced, futureVars, nextIndex, reload>>

Announce ==
  /\ pc = "announce"
  /\ announced' = generation /\ pc' = "access" /\ Cleared
  /\ reload' = [reload EXCEPT !.state = "committed"]
  /\ UNCHANGED <<policyVars, reloadRequested, currentConfig, generation, runtimes,
                 services, registry, activeVars, futureVars, nextIndex>>

\* An exception after the commit: the generation is active, the rest of the refresh
\* is skipped.  The application lets go of the retired runtimes; of those that were
\* not deactivated yet, the ones that an open channel or a queued put still holds
\* stay active, and the others' destructors deactivate them.  start() hands the
\* first catalog to discovery itself.
RefreshFails ==
  /\ pc \in {"refresh", "announce"}
  /\ reload' = [reload EXCEPT !.state = "committed-with-error"]
  /\ \E held \in SUBSET (active \cap Retired) : active' = active \ (Retired \ held)
  /\ lapsed' = (lapsed \/ pc = "refresh")
  /\ \/ announced' = generation /\ (generation = 1 \/ pc = "announce")
     \/ announced' = announced /\ generation > 1
  /\ pc' = "access" /\ Cleared
  /\ UNCHANGED <<policyVars, reloadRequested, currentConfig, generation, runtimes, services, registry,
                 futureVars, nextIndex>>

\* The last channel or put that holds such a runtime lets it go.
Release(runtime) ==
  /\ active' = active \ {runtime}
  /\ UNCHANGED <<policyVars, reloadRequested, pc, prepVars, currentConfig, generation, runtimes, services,
                 registry, lapsed, announced, futureVars, nextIndex, reload>>

-----------------------------------------------------------------------------
(* The rest of pump() *)

\* AccessController::pump()
AccessBegins ==
  /\ pc = "access" /\ policyStep = "idle"
  /\ policyStep' = "start"
  /\ UNCHANGED <<file, edits, library, recordVars, watchVars, pendingTrigger, trigger, raw,
                 reloadRequested, pc, prepVars, reload>> /\ Live

AccessPump ==
  /\ pc = "access" /\ PolicyPump
  /\ UNCHANGED <<reloadRequested, pc, prepVars, reload>> /\ Live

AccessDone ==
  /\ pc = "access" /\ policyStep = "done"
  /\ policyStep' = "idle" /\ pc' = "recover"
  /\ UNCHANGED <<file, edits, library, recordVars, watchVars, pendingTrigger, trigger, raw,
                 reloadRequested, prepVars, reload>> /\ Live

RecoveryKeeps == UNCHANGED <<policyVars, reloadRequested, prepVars, currentConfig, runtimes, activeVars>>

\* rpcDiscovery.get()
Consumed ==
  /\ future' = "none" /\ futureGeneration' = 0 /\ futureIndex' = 1 /\ futureService' = <<>>
  /\ UNCHANGED passed

\* The reflection has not ended: nothing else is tried.
Pending ==
  /\ pc = "recover" /\ future = "running"
  /\ pc' = "pump"
  /\ UNCHANGED <<futureVars, nextIndex, generation, services, registry, announced, reload>> /\ RecoveryKeeps

\* Mutant of Current: the generation is not compared.
CurrentIndex == futureIndex <= Len(services)

\* A reload may have retired the service while its reflection was in flight.
Current == futureGeneration = generation /\ futureIndex <= Len(services)

HasResult == pc = "recover" /\ future \in {"ready", "unavailable", "invalid"}

\* The result is late and is dropped.
DropResult ==
  /\ HasResult /\ ~Current
  /\ Consumed /\ pc' = "retry"
  /\ UNCHANGED <<nextIndex, generation, services, registry, announced, reload>> /\ RecoveryKeeps

\* The service is still unavailable, or its description is invalid.
StillMissing ==
  /\ HasResult /\ Current /\ future # "ready"
  /\ services' = [services EXCEPT ![futureIndex] = Entry(futureService, future)]
  /\ Consumed /\ pc' = "retry"
  /\ UNCHANGED <<nextIndex, generation, registry, announced, reload>> /\ RecoveryKeeps

\* The reload status of a recovery, which changes no PV.
Recovery(state) == [candidate |-> generation + 1, state |-> state, counts |-> Counts[currentConfig + 1][currentConfig]]

\* The recovered service is published in a generation of its own, under the active
\* policy.
Recover ==
  /\ HasResult /\ Current /\ future = "ready"
  /\ services' = [services EXCEPT ![futureIndex] = Entry(futureService, "ready")]
  /\ Assembled(currentConfig, services')
  /\ registry' = Bound(currentConfig, runtimes, services') /\ generation' = generation + 1
  /\ \/ announced' = generation + 1 /\ reload' = Recovery("committed")
     \/ announced' = announced /\ reload' = Recovery("committed-with-error")
  /\ Consumed /\ pc' = "retry"
  /\ UNCHANGED nextIndex /\ RecoveryKeeps

\* Its endpoints collide, or the catalog cannot be built.
RecoveryFails ==
  /\ HasResult /\ Current /\ future = "ready"
  /\ services' = [services EXCEPT ![futureIndex].state = "invalid"]
  /\ reload' = Recovery("rejected")
  /\ Consumed /\ pc' = "retry"
  /\ UNCHANGED <<nextIndex, generation, registry, announced>> /\ RecoveryKeeps

NoResult ==
  /\ pc = "recover" /\ future = "none"
  /\ pc' = "retry"
  /\ UNCHANGED <<futureVars, nextIndex, generation, services, registry, announced, reload>> /\ RecoveryKeeps

\* (nextRpcDiscoveryIndex + offset) % count
Wrapped(offset) == ((nextIndex - 1 + offset) % Len(services)) + 1

Waiting == {o \in 0..(Len(services) - 1) : services[Wrapped(o)].state = "unavailable"}

\* The next unavailable service whose time has come is reflected.  How long each one
\* still waits is not modelled: any of them may be due.
Retry ==
  /\ pc = "retry"
  /\ \E due \in SUBSET Waiting \ {{}} :
       LET index == Wrapped(CHOOSE o \in due : \A q \in due : o <= q) IN
         /\ services' = [services EXCEPT ![index].state = "discovering"]
         /\ future' = "running" /\ futureGeneration' = generation
         /\ futureIndex' = index /\ futureService' = services[index].ref
         /\ nextIndex' = (index % Len(services)) + 1
         /\ passed' = [i \in DOMAIN services |->
              IF i # index /\ \E o \in due : Wrapped(o) = i THEN passed[i] + 1 ELSE 0]
  /\ pc' = "pump"
  /\ UNCHANGED <<policyVars, reloadRequested, prepVars, currentConfig, runtimes, activeVars,
                 generation, registry, announced, reload>>

\* None is due.
NoRetry ==
  /\ pc = "retry"
  /\ pc' = "pump"
  /\ UNCHANGED <<futureVars, nextIndex, generation, services, registry, announced, reload>> /\ RecoveryKeeps

-----------------------------------------------------------------------------
(* stop() *)

\* A reflection is waited for; then nothing is served any more, ...
StopServing ==
  /\ pc = "pump" /\ future # "running"
  /\ registry' = {} /\ pc' = "stopping"
  /\ UNCHANGED <<policyVars, reloadRequested, prepVars, currentConfig, generation, runtimes,
                 services, activeVars, announced, futureVars, nextIndex, reload>>

\* ... and the runtimes of the last generation are deactivated.
StopRuntimes ==
  /\ pc = "stopping"
  /\ active' = active \ Values(runtimes) /\ runtimes' = <<>> /\ services' = <<>> /\ pc' = "stopped"
  /\ UNCHANGED <<policyVars, reloadRequested, prepVars, currentConfig, generation, registry,
                 lapsed, announced, futureVars, nextIndex, reload>>

-----------------------------------------------------------------------------
ReloadStep ==
  \/ Start \/ StartFails \/ FirstPolicy \/ NoReload \/ BeginReload \/ Refused
  \/ PrepareRuntimes \/ PreparationFails \/ PrepareService
  \/ PreparePolicy \/ CommitPolicy \/ ActivateRuntimes \/ StoreRegistry \/ Swap \/ Retire \/ Announce
  \/ RefreshFails

RecoveryStep ==
  \/ Pending \/ DropResult \/ StillMissing \/ Recover \/ RecoveryFails \/ NoResult \/ Retry \/ NoRetry

PumpStep == StopRuntimes \/ ReloadStep \/ AccessBegins \/ AccessPump \/ AccessDone \/ RecoveryStep

Others == <<reloadRequested, pc, prepVars, liveVars, futureVars, nextIndex, reload>>

OtherMode ==
  /\ pc = "start"
  /\ \/ \E doc \in DOMAIN Document : CheckConfig(doc)
     \/ \E before, after \in DOMAIN Document : DiffConfig(before, after)

\* Others act at any time.  Nothing but the step named here sees what an event changes,
\* so that it may as well happen just before that step.
Event ==
  \/ pc = "pump" /\ requestReload_
  \/ pc = "pump" /\ \E runtime \in active \ Values(runtimes) : Release(runtime)
  \/ pc \in {"pump", "recover"} /\ \E result \in {"ready", "unavailable", "invalid"} : Reflected(result)
  \/ policyStep = "start" /\ requestReload /\ UNCHANGED Others
  \/ policyStep = "watch" /\ Settle /\ UNCHANGED Others
  \/ /\ pc = "rpc" \/ policyStep \in {"read", "watch"}
     /\ \E text \in Texts \cup {None} : Edit(text)
     /\ UNCHANGED Others

Next == OtherMode \/ PumpStep \/ StopServing \/ Event

Spec == Init /\ [][Next]_vars

-----------------------------------------------------------------------------
(* Properties *)

\* Whatever step of a start, a reload, a recovery or a stop the application is at,
\* every PV that the registry serves has an active runtime.
ServedRuntimesActive == {b.of : b \in registry} \ {RpcRuntime} \subseteq active

\* A generation is all or nothing.  Between two pumps the registry, the runtimes, the
\* RPC services, the policy and the reload status are of one configuration, whatever
\* failed before; no name is bound twice; a runtime that was replaced is active only
\* if a refresh failed before it could deactivate it, and no name is bound to it; and
\* a reload that reports success has told discovery.
GenerationConsistent ==
  pc = "pump" =>
    /\ registry = Bound(currentConfig, runtimes, services) /\ Values(runtimes) \subseteq active
    /\ active \subseteq Values(runtimes) \/ lapsed
    /\ \A b, c \in registry : b.name = c.name => b = c
    /\ DOMAIN runtimes = DOMAIN PVs[currentConfig]
    /\ \A n \in DOMAIN runtimes : Kept(PVs[runtimes[n].doc][n], PVs[currentConfig][n], Config[runtimes[n].doc], Config[currentConfig])
    /\ [i \in DOMAIN services |-> services[i].ref]
         = [i \in DOMAIN Config[currentConfig].rpcServices |-> <<currentConfig, i>>]
    /\ access = Config[currentConfig].access.name /\ <<access, observedRaw>> \in Good
    /\ library = activePolicy /\ activePolicy = expanded(access, observedRaw)
    /\ generation = reload.candidate <=> reload.state \in {"committed", "committed-with-error"}
    /\ reload.state = "committed" => announced = generation

\* Every unavailable service gets its turn.  One that waits for the result of its trial
\* will get it: the one reflection task is its own and of the current generation.  And
\* while a service is due, every other one is tried at most once before it.
TrialsFair ==
  /\ pc = "pump" => \A i \in DOMAIN services : services[i].state = "discovering" =>
       future # "none" /\ futureGeneration = generation /\ futureIndex = i /\ futureService = services[i].ref
  /\ \A i \in DOMAIN services : passed[i] < Len(services)

\* A document that --check-config accepts can be started, as far as it depends on the
\* document: every runtime, backend, alarm state and endpoint can be made.  So can the
\* catalog, on any port and in any generation, unless the bytes that are left are
\* fewer than the digits which this port and generation have beyond the checked ones.
CheckedCanStart ==
  pc = "checked" =>
    LET config == Load(candidate)
        checked == CheckedPort(config)
        left == config.discovery.numbers.max_bytes - CatalogBytes(config, {}, checked, 1)
    IN /\ CanBuild(config)
       /\ \A port \in Ports, g \in Generations :
            \/ CatalogFits(config, {}, port, g)
            \/ left < Digits(port) + Digits(g) - Digits(checked) - 1

\* What an operator is told before a reload is what the reload does: it is refused if
\* and only if the difference requires a restart, and the runtimes that are made anew
\* are the additions and the replacements.
DiffPredictsReload ==
  /\ pc = "diffed" =>
       LET before == Load(currentConfig)
           after == Load(candidate)
           old == PVMap(before)
           new == PVMap(after)
           diff == diffConfigs(before, after)
       IN /\ diff.restartRequired = {} <=> Immutable(before, after)
          /\ diff.added \cup diff.replaced
               = {n \in DOMAIN new : n \in DOMAIN old => ~Kept(old[n], new[n], before, after)}
          /\ diff.metadataChanged \cap (diff.added \cup diff.replaced) = {}
  /\ pc = "pump" /\ reload.state \in {"committed", "committed-with-error"} =>
       LET made == {n \in DOMAIN runtimes : runtimes[n].generation = reload.candidate} IN
         /\ Cardinality(made) = reload.counts[1] + reload.counts[3]
         /\ Cardinality(DOMAIN runtimes \ made) = reload.counts[4]
=============================================================================
