--------------------------- MODULE Configuration ---------------------------
(***************************************************************************)
(* The configuration file: what src/src/config.cpp accepts and normalises, *)
(* the endpoints that it reserves, the comparison of two configurations    *)
(* that operators see before a reload (src/src/config_diff.cpp), and what  *)
(* the application needs of a configuration in order to start.             *)
(*                                                                         *)
(* A document is a record with the keys of the YAML file.  An optional key *)
(* is an empty or a one-element sequence, a mapping of numbers a function  *)
(* on the keys it has, and a PV name the sequence of its parts.  Free text *)
(* (units, descriptions, tags) is a value that is only compared.           *)
(***************************************************************************)
EXTENDS Integers, SequencesExt

CONSTANTS
  Document,         \* the sequence of the documents
  SecretFiles,      \* the contents of the secret files that can be read
  Leaves,           \* the method names that each gRPC service reflects
  HostBytes,        \* what the versions, the host and the environment add to a catalog
  Config, PVs       \* the configurations of the documents that the file may hold while
                    \* the application runs, and their PVs

Absent == <<>>
OrElse(o, default) == IF o = Absent THEN default ELSE o[1]
Same(a, b, keys) == \A k \in keys : a[k] = b[k]

\* bounded(): a mapping may only have known keys, and every value is in its range.
Bounded(node, ranges) ==
  DOMAIN node \subseteq DOMAIN ranges
    /\ \A k \in DOMAIN node : ranges[k][2] <= node[k] /\ node[k] <= ranges[k][3]
Filled(node, ranges) == node @@ [k \in DOMAIN ranges |-> ranges[k][1]]

GiB == 1024 * 1024 * 1024

\* Default, least and greatest value of each key.  An absent operation timeout is 0.
LimitRanges == [
  write_workers |-> <<4, 1, 64>>, queued_writes_per_pv |-> <<16, 1, 4096>>,
  queued_write_bytes |-> <<67108864, 1024, GiB>>, rpc_workers |-> <<4, 1, 64>>,
  queued_rpc_per_method |-> <<16, 1, 4096>>, queued_rpc_bytes |-> <<67108864, 1024, GiB>>,
  max_payload_bytes |-> <<33554432, 1, GiB>>, operation_timeout_ms |-> <<0, 1, 300000>>,
  alarm_queue_entries |-> <<1024, 1, 1000000>>, alarm_state_bytes |-> <<67108864, 1024, GiB>>]

DiscoveryRanges == [
  udp_port |-> <<5049, 0, 65535>>, timeout_ms |-> <<20000, 1, 300000>>,
  max_holdoff_ms |-> <<10000, 0, 60000>>, max_records |-> <<100000, 1, 1000000>>,
  max_bytes |-> <<16777216, 1024, GiB>>]

RpcRanges == [
  discovery_timeout_ms |-> <<3000, 1, 300000>>, timeout_ms |-> <<10000, 1, 300000>>,
  retry_interval_ms |-> <<5000, 100, 300000>>]

RedisRanges == [
  workers |-> <<1, 1, 256>>, readers |-> <<1, 1, 256>>, reader_probe_ms |-> <<1000, 0, 60000>>]

-----------------------------------------------------------------------------
(* Names *)

Text(parts) == SelectSeq(parts, LAMBDA part : part # "")

fullPVName(server, pv) == Text(<<server.namespace, pv.name>>)
fullPVNames(server, pv) == <<fullPVName(server, pv)>> \o OrElse(pv.aliases, <<>>)

AdminSuffixes == <<
  "version", "revision", "config:reload", "config:generation", "config:lastStatus", "config:lastError",
  "config:lastDiff", "config:reloadStatus", "stats:pvCount", "stats:ndarrayInvalidFrames",
  "stats:ndarraySkippedFrames", "stats:ndarrayDiscontinuities", "stats:operations", "rpc:status",
  "alarms:status", "backend:health", "source:status", "ready", "access:reload", "access:enabled",
  "access:generation", "access:lastStatus", "access:lastError", "access:policyFingerprint",
  "access:watchStatus", "access:activeClients", "access:deniedReads", "access:deniedWrites",
  "access:rightsChanges", "access:operations", "discovery:status">>

adminPVNames(server) ==
  <<<<server.instance, "version">>, <<server.instance, "revision">>>>
    \o [i \in DOMAIN AdminSuffixes |-> <<"SYS", server.instance, AdminSuffixes[i]>>]

Concat(s) == FoldLeft(LAMBDA acc, x : acc \o x, <<>>, s)

\* As a concatenation, which TLC tabulates.
Map(Op(_), s) == <<>> \o [i \in DOMAIN s |-> Op(s[i])]

\* The names that are reserved before RPC reflection, in order.
configuredEndpoints(server, pvs) ==
  adminPVNames(server) \o Concat(Map(LAMBDA pv : fullPVNames(server, pv), pvs))

\* reserve() of every name succeeds.
Reservable(names) == IsInjective(names) /\ <<>> \notin Range(names)

\* The names of the endpoints of a reflected service.
rpcNames(server, svc) == {Text(<<server.namespace, leaf \o svc.suffix>>) : leaf \in Leaves[svc.service]}

NameBytes(name) == FoldLeft(LAMBDA acc, part : acc + Len(part) + 1, 0, name) - 1

-----------------------------------------------------------------------------
(* The sections of a document *)

isNumericType(t) == t \notin {"bool", "string"}
isFloatingPointType(t) == t \in {"float32", "float64"}
isArrayElementTypeSupported(t) == t \notin {"bool", "string"}

parseAccessAssignment(a) == a.asg # "" /\ a.asl \in {0, 1}
DefaultAssignment == [asg |-> "DEFAULT", asl |-> 0]
NoDefaults == [k \in {"pv", "rpc", "admin_read", "admin_write"} |-> DefaultAssignment]

\* Nothing may be set while access control is disabled.
parseAccessConfig(a) ==
  /\ "" \notin DOMAIN a.macros
  /\ a.watch # Absent => a.watch[1].interval_ms \in 100..60000 /\ a.watch[1].settle_ms \in 0..60000
  /\ a.defaults # Absent => \A k \in DOMAIN a.defaults[1] : parseAccessAssignment(a.defaults[1][k])
  /\ IF a.enabled THEN a.file # ""
     ELSE a.file = "" /\ DOMAIN a.macros = {} /\ a.watch = Absent /\ a.defaults = Absent

\* A credential is given in the document or in a file.
validCredential(text, path) ==
  path # Absent => text = Absent /\ path[1] \in DOMAIN SecretFiles
credential(text, path) == IF path # Absent THEN SecretFiles[path[1]] ELSE OrElse(text, "")

parseRedisConfig(b) ==
  /\ b.host # "" /\ b.port \in 1..65535
  /\ Bounded(b.pool, RedisRanges)
  /\ "reader_probe_ms" \in DOMAIN b.pool => b.pool.reader_probe_ms = 0 \/ b.pool.reader_probe_ms >= 100
  /\ validCredential(b.password, b.password_file)

\* The pools with their defaults, and the password.
redisConfig(b) ==
  [base_key |-> b.base_key, host |-> b.host, port |-> b.port, pool |-> Filled(b.pool, RedisRanges),
   password |-> credential(b.password, b.password_file)]

\* An alias may be left out when there is only one backend; "redis" is the old name
\* of the only one.
resolveBackendAlias(alias, backends, legacy) ==
  IF alias = "" /\ Cardinality(DOMAIN backends) = 1 THEN CHOOSE b \in DOMAIN backends : TRUE
  ELSE IF legacy /\ alias = "redis" /\ "default" \in DOMAIN backends THEN "default"
  ELSE alias

parseConfirm(c) == c.key # "" /\ OrElse(c.timeout_ms, 250) \in 1..300000

\* Low must not exceed high.
parseLimitConfig(l) == l.low # Absent /\ l.high # Absent => l.low[1] <= l.high[1]
HasLimits(l) == l.low # Absent \/ l.high # Absent

\* The step of the control section wins.
MinStep(meta) == IF meta.control_step # Absent THEN meta.control_step ELSE meta.min_step

parseMetadata(meta) ==
  parseLimitConfig(meta.display) /\ parseLimitConfig(meta.control) /\ OrElse(MinStep(meta), 0) >= 0

\* The thresholds that are present are ordered.
parseAlarmConfig(a) ==
  /\ a.hysteresis >= 0
  /\ \A i, j \in DOMAIN a.thresholds :
       i < j /\ a.thresholds[i] # Absent /\ a.thresholds[j] # Absent => a.thresholds[i][1] <= a.thresholds[j][1]
HasThresholds(a) == \E i \in DOMAIN a.thresholds : a.thresholds[i] # Absent

parseRpcService(svc) ==
  /\ Bounded(svc.times, RpcRanges)
  /\ "" \notin DOMAIN svc.defaults /\ svc.endpoint # "" /\ svc.service # ""
  /\ svc.access # Absent => parseAccessAssignment(svc.access[1])

Image(p) == p.kind = "ntndarray"
TypeOf(p) == IF Image(p) THEN "uint8" ELSE p.type[1]
ShapeOf(p) == IF Image(p) THEN "array" ELSE p.shape[1]

\* What only an image has, and what it must not have.
parseKind(p) ==
  IF Image(p)
  THEN /\ p.type = Absent /\ p.shape = Absent /\ p.write = Absent /\ p.confirm = Absent
       /\ p.alarm = Absent /\ p.metadata = Absent /\ p.scale = Absent /\ p.initial = Absent
       /\ OrElse(p.max_frame_bytes, 33554432) \in 1..GiB
       /\ OrElse(p.max_frame_gap, 10000) \in 0..2147483646
  ELSE p.max_frame_bytes = Absent /\ p.max_frame_gap = Absent /\ p.type # Absent /\ p.shape # Absent

\* The initial value converts to the type, and is a sequence for an array.
parseInitialValue(p) ==
  p.initial # Absent => /\ p.initial[1].sequence <=> ShapeOf(p) = "array"
                        /\ TypeOf(p) \in p.initial[1].converts

\* Arrays have no thresholds, and only numbers have limits and thresholds.
parseFeatures(p) ==
  /\ ShapeOf(p) = "array" => isArrayElementTypeSupported(TypeOf(p))
  /\ p.scale # Absent => p.scale[1] # 0 /\ isFloatingPointType(TypeOf(p))
  /\ p.alarm # Absent => parseAlarmConfig(p.alarm[1])
  /\ p.alarm # Absent /\ HasThresholds(p.alarm[1]) => ShapeOf(p) # "array" /\ isNumericType(TypeOf(p))
  /\ p.metadata # Absent =>
       /\ parseMetadata(p.metadata[1])
       /\ HasLimits(p.metadata[1].display) \/ HasLimits(p.metadata[1].control) \/ MinStep(p.metadata[1]) # Absent
            => isNumericType(TypeOf(p))

parsePV(p) ==
  /\ p.name # "" /\ p.aliases # <<<<>>>>
  /\ p.kind \in {"value", "scalar", "array", "ntndarray"} /\ parseKind(p)
  /\ p.read.key # "" /\ \A i \in DOMAIN p.write : p.write[i].key # ""
  /\ p.confirm # Absent => p.write # Absent /\ parseConfirm(p.confirm[1])
  /\ parseInitialValue(p) /\ parseFeatures(p)
  /\ p.access # Absent => parseAccessAssignment(p.access[1])
  /\ p.stale_after_ms \in 0..86400000

-----------------------------------------------------------------------------
(* The document as a whole *)

Legacy(doc) == doc.redis # Absent
Backends(doc) == IF Legacy(doc) THEN [default |-> redisConfig(doc.redis[1])]
                 ELSE [alias \in DOMAIN doc.redis_backends[1] |-> redisConfig(doc.redis_backends[1][alias])]

Assignment(o, a, k) == IF o = Absent /\ a.enabled THEN <<OrElse(a.defaults, NoDefaults)[k]>> ELSE o

NoLimits == [low |-> Absent, high |-> Absent]
NormalMetadata(meta) == [text |-> meta.text, display |-> meta.display, control |-> meta.control, min_step |-> MinStep(meta)]
NoMetadata == [text |-> "", display |-> NoLimits, control |-> NoLimits, min_step |-> Absent]
NoThresholds == [thresholds |-> [i \in 1..4 |-> Absent], hysteresis |-> 0]

\* A PV with its defaults and its backends.
NormalPV(p, doc) ==
  LET resolve(alias) == resolveBackendAlias(alias, Backends(doc), Legacy(doc))
      routed(r) == [backend |-> resolve(r.backend), key |-> r.key]
  IN [p EXCEPT
       !.kind = IF Image(p) THEN "ntndarray" ELSE "value", !.type = <<TypeOf(p)>>, !.shape = <<ShapeOf(p)>>,
       !.read = routed(@),
       !.write = IF @ = Absent THEN @ ELSE <<routed(@[1])>>,
       !.confirm = IF @ = Absent THEN @
                   ELSE <<[backend |-> resolve(@[1].backend), key |-> @[1].key,
                           timeout_ms |-> OrElse(@[1].timeout_ms, 250)]>>,
       !.metadata = IF @ = Absent THEN NoMetadata ELSE NormalMetadata(@[1]), !.alarm = OrElse(@, NoThresholds),
       !.max_frame_bytes = <<OrElse(@, 33554432)>>, !.max_frame_gap = <<OrElse(@, 10000)>>,
       !.access = Assignment(@, doc.access, "pv")]

NormalRpc(svc, doc) ==
  [svc EXCEPT !.times = Filled(@, RpcRanges), !.access = Assignment(@, doc.access, "rpc")]

\* The configuration that a valid document stands for.
loadConfig(doc) ==
  [server |-> doc.server,
   access |-> [doc.access EXCEPT !.defaults = OrElse(@, NoDefaults)],
   redisBackends |-> Backends(doc),
   alarms |-> [doc.alarms EXCEPT !.backend = resolveBackendAlias(@, Backends(doc), Legacy(doc))],
   channelFinder |-> doc.channelfinder,
   discovery |-> [enabled |-> doc.discovery.enabled, bind_address |-> doc.discovery.bind_address,
                  numbers |-> Filled(doc.discovery.numbers, DiscoveryRanges)],
   limits |-> Filled(doc.limits, LimitRanges),
   pvs |-> Map(LAMBDA p : NormalPV(p, doc), doc.pvs),
   rpcServices |-> Map(LAMBDA svc : NormalRpc(svc, doc), doc.rpc_services)]

Routes(pv) == {pv.read.backend} \cup {pv.write[i].backend : i \in DOMAIN pv.write}
                \cup {pv.confirm[i].backend : i \in DOMAIN pv.confirm}

\* A confirmation on the key that is read needs no subscription of its own.
SubscribedKeys(pv) ==
  <<<<pv.read.backend, pv.read.key>>>>
    \o [i \in {j \in DOMAIN pv.confirm : pv.confirm[j].backend # pv.read.backend \/ pv.confirm[j].key # pv.read.key}
          |-> <<pv.confirm[i].backend, pv.confirm[i].key>>]

Total(Op(_), seq) == FoldLeft(LAMBDA sum, x : sum + Op(x), 0, seq)

\* Mutant of RoomFor: the state of a PV has its name once.
RoomForOneName(left, bytes) == left >= 1024 /\ bytes <= left - 1024

\* The state of a PV, which has its name twice, fits in what is left.
RoomFor(left, bytes) == left >= 1024 /\ bytes <= (left - 1024) \div 2

\* The states of all PVs fit beside the queue of transitions: nothing is subtracted
\* that is not there.
NoRoom == -1
AlarmBudget(config) ==
  LET take(left, pv) ==
        LET bytes == NameBytes(fullPVName(config.server, pv)) IN
          IF RoomFor(left, bytes) THEN left - (1024 + 2 * bytes) ELSE NoRoom
  IN FoldLeft(take, config.limits.alarm_state_bytes - 1024 * config.limits.alarm_queue_entries, config.pvs) # NoRoom

\* What parseConfig() checks of the sections ...
ValidSections(doc) ==
  /\ OrElse(doc.schema_version, 1) = 1
  /\ Bounded(doc.discovery.numbers, DiscoveryRanges) /\ doc.discovery.bind_address # ""
  /\ Bounded(doc.limits, LimitRanges) /\ parseAccessConfig(doc.access)
  /\ doc.server.instance # "" /\ "" \notin Range(doc.channelfinder.tags)
  /\ doc.redis = Absent <=> doc.redis_backends # Absent
  /\ doc.redis # Absent => parseRedisConfig(doc.redis[1])
  /\ doc.redis_backends # Absent =>
       /\ DOMAIN doc.redis_backends[1] # {} /\ "" \notin DOMAIN doc.redis_backends[1]
       /\ \A alias \in DOMAIN doc.redis_backends[1] : parseRedisConfig(doc.redis_backends[1][alias])
  /\ doc.alarms.stream # ""
  /\ \A p \in Range(doc.pvs) : parsePV(p) /\ (p.access = Absent \/ doc.access.enabled)
  /\ \A svc \in Range(doc.rpc_services) : parseRpcService(svc) /\ (svc.access = Absent \/ doc.access.enabled)
  /\ doc.pvs # <<>> \/ doc.rpc_services # <<>>

\* ... and of the whole.
ValidWhole(config) ==
  /\ config.limits.alarm_queue_entries <= config.limits.alarm_state_bytes \div 1024
  /\ config.alarms.backend \in DOMAIN config.redisBackends
  /\ \A pv \in Range(config.pvs) : Routes(pv) \subseteq DOMAIN config.redisBackends
  /\ Reservable(configuredEndpoints(config.server, config.pvs))
  /\ IsInjective(Concat(Map(SubscribedKeys, config.pvs)))
  /\ AlarmBudget(config)

\* What is current before the first one: AppConfig{}.
NoServer == [instance |-> "", namespace |-> "", interfaces |-> <<>>, tcp_port |-> Absent, udp_port |-> Absent, auto_beacon |-> TRUE]
NoConfig ==
  [server |-> NoServer, pvs |-> <<>>, rpcServices |-> <<>>, redisBackends |-> <<>>,
   limits |-> Filled(<<>>, LimitRanges), channelFinder |-> [tags |-> <<>>, text |-> ""],
   alarms |-> [backend |-> "", stream |-> "acorn:alarms"],
   discovery |-> [enabled |-> TRUE, bind_address |-> "0.0.0.0", numbers |-> Filled(<<>>, DiscoveryRanges)],
   access |-> [name |-> "none", enabled |-> FALSE, file |-> "", macros |-> <<>>, watch |-> Absent, defaults |-> NoDefaults]]

-----------------------------------------------------------------------------
(* Two configurations *)

sameReaderTopology(a, b) ==
  Same(a, b, {"name", "kind", "type", "shape", "max_frame_bytes", "read", "write", "confirm"})
sameRedisConfig(a, b) == Same(a, b, {"base_key", "host", "port", "password", "pool"})

sameServerConfig(a, b) == Same(a, b, {"instance", "namespace", "interfaces", "tcp_port", "udp_port", "auto_beacon"})
sameAccessConfig(a, b) == Same(a, b, {"enabled", "file", "macros", "watch", "defaults"})
sameMetadata(a, b) ==
  Same(a, b, {"metadata", "alarm", "scale", "initial", "max_frame_gap", "required", "stale_after_ms"})

PVMap(config) ==
  FoldLeft(LAMBDA acc, pv : acc @@ (fullPVName(config.server, pv) :> pv), <<>>, config.pvs)

\* A backend is kept when its definition is unchanged; a PV needs all of its own.
sameBackend(alias, before, after) ==
  /\ alias \in DOMAIN before /\ alias \in DOMAIN after
  /\ sameRedisConfig(before[alias], after[alias])

\* Mutant of sameBackendBindings: only the backend that is read is compared.
sameReadBinding(pv, before, after) == sameBackend(pv.read.backend, before, after)

sameBackendBindings(pv, before, after) == \A alias \in Routes(pv) : sameBackend(alias, before, after)

backendsChanged(before, after) ==
  {alias \in DOMAIN before \cup DOMAIN after : ~sameBackend(alias, before, after)}

restartRequired(before, after) ==
  {key \in {"instance", "namespace", "interfaces", "tcp_port", "udp_port", "auto_beacon"} : before.server[key] # after.server[key]}
    \cup {key \in {"limits", "discovery"} : before[key] # after[key]}
    \cup (IF before.access.enabled # after.access.enabled THEN {"access.enabled"} ELSE {})

\* diffConfigs(), as sets of full PV names.
diffConfigs(before, after) ==
  LET old == PVMap(before)
      new == PVMap(after)
      both == DOMAIN old \cap DOMAIN new
      rebound == {n \in both : Routes(new[n]) \cap backendsChanged(before.redisBackends, after.redisBackends) # {}}
      topology == {n \in both : ~sameReaderTopology(old[n], new[n])}
  IN [backendsChanged |-> backendsChanged(before.redisBackends, after.redisBackends),
      added |-> DOMAIN new \ DOMAIN old, removed |-> DOMAIN old \ DOMAIN new,
      replaced |-> topology \cup rebound,
      metadataChanged |-> {n \in both \ (topology \cup rebound) : ~sameMetadata(old[n], new[n])},
      aliasesChanged |-> {n \in both : ToSet(OrElse(old[n].aliases, <<>>)) # ToSet(OrElse(new[n].aliases, <<>>))},
      accessChanged |-> {n \in both : old[n].access # new[n].access}
                          \cup (IF sameAccessConfig(before.access, after.access) THEN {} ELSE {<<"policy">>}),
      rpcServicesChanged |-> IF before.rpcServices = after.rpcServices THEN {}
                             ELSE {<<svc.service, svc.suffix>> : svc \in Range(before.rpcServices \o after.rpcServices)},
      alarmStreamChanged |-> before.alarms # after.alarms,
      catalogMetadataChanged |-> before.channelFinder # after.channelFinder,
      restartRequired |-> restartRequired(before, after)]

-----------------------------------------------------------------------------
(* What the application makes of a configuration *)

\* makeRuntime() has an implementation, whose initial value has the PV's type.
makeRuntime(pv) ==
  \/ Image(pv) \/ pv.shape[1] = "scalar"
  \/ pv.type[1] \in {"int8", "uint8", "int16", "uint16", "int32", "uint32", "int64", "uint64", "float32", "float64"}

\* The publisher takes its queue from the budget, and then one state after the other.
Acquire(limit, used, bytes) ==
  IF used = NoRoom \/ bytes > limit \/ used > limit - bytes THEN NoRoom ELSE used + bytes
AlarmStatesFit(config) ==
  LET limit == config.limits.alarm_state_bytes
      prepare(used, pv) == Acquire(limit, used, 1024 + 2 * NameBytes(fullPVName(config.server, pv)))
  IN FoldLeft(prepare, Acquire(limit, 0, 1024 * config.limits.alarm_queue_entries), config.pvs) # NoRoom

\* What a property, a record and an alias add to the encoded catalog: a header of
\* eight bytes, fixed fields of eight bytes, and text.
InfoBytes(key, bytes) == 16 + Len(key) + bytes
RecordBytes(type, name) == 16 + Len(type) + NameBytes(name)
AliasBytes(name) == 16 + NameBytes(name)
Pva == InfoBytes("protocol", Len("pva"))

RecordType(pv) ==
  IF Image(pv) THEN "epics:nt/NTNDArray:1.0"
  ELSE IF pv.shape[1] = "array" THEN "epics:nt/NTScalarArray:1.0" ELSE "epics:nt/NTScalar:1.0"

\* The text of the metadata stands for the description and the units.
PVBytes(server, pv) ==
  RecordBytes(RecordType(pv), fullPVName(server, pv)) + Total(AliasBytes, OrElse(pv.aliases, <<>>))
    + Pva + InfoBytes("DESC", Len(pv.metadata.text)) + InfoBytes("units", 0)
    + InfoBytes("type", Len(IF Image(pv) THEN "ntndarray" ELSE pv.type[1])) + InfoBytes("shape", Len(pv.shape[1]))

Digits(n) == 1 + Cardinality({k \in 1..9 : n >= 10 ^ k})

\* The encoded catalog, which names the port and the generation and ends with a
\* message of twelve bytes.
CatalogBytes(config, rpcs, port, generation) ==
  HostBytes + InfoBytes("IOCNAME", Len(config.server.instance))
    + InfoBytes("PVAS_SERVER_PORT", Digits(port)) + InfoBytes("CONFIG_GENERATION", Digits(generation))
    + Total(LAMBDA pv : PVBytes(config.server, pv), config.pvs)
    + Total(LAMBDA name : RecordBytes("pvxs:diagnostic", name) + Pva, adminPVNames(config.server))
    + MapThenSumSet(LAMBDA name : RecordBytes("pvxs:RPC", name) + Pva, rpcs) + 12

\* validateText() of every name and value.
validateText(config, rpcs) ==
  /\ \A name \in Range(configuredEndpoints(config.server, config.pvs)) \cup rpcs : NameBytes(name) \in 1..65535
  /\ Len(config.server.instance) <= 65535
  /\ \A pv \in Range(config.pvs) : Len(pv.metadata.text) <= 65535

\* buildDiscoveryCatalog(): the texts, the number of names and the bytes are in range.
CatalogFits(config, rpcs, port, generation) ==
  config.discovery.enabled =>
    /\ validateText(config, rpcs)
    /\ Len(configuredEndpoints(config.server, config.pvs)) + Cardinality(rpcs) <= config.discovery.numbers.max_records
    /\ CatalogBytes(config, rpcs, port, generation) <= config.discovery.numbers.max_bytes

\* Every object that a generation needs can be made, as far as it depends on the
\* configuration.  The catalog also depends on the port and the generation.
CanBuild(config) ==
  /\ config.alarms.backend \in DOMAIN config.redisBackends /\ AlarmStatesFit(config)
  /\ \A pv \in Range(config.pvs) : makeRuntime(pv) /\ Routes(pv) \subseteq DOMAIN config.redisBackends
  /\ Reservable(configuredEndpoints(config.server, config.pvs))

\* describeReload(): added, removed, recreated and retained PVs.
describeReload(before, after) ==
  LET diff == diffConfigs(before, after) IN
    <<Cardinality(diff.added), Cardinality(diff.removed), Cardinality(diff.replaced),
      Len(after.pvs) - Cardinality(diff.added) - Cardinality(diff.replaced)>>

-----------------------------------------------------------------------------
(* All documents *)

Acceptable == Map(LAMBDA doc : ValidSections(doc) /\ ValidWhole(loadConfig(doc)), Document)
Valid == {d \in DOMAIN Document : Acceptable[d]}

\* What becomes of each: a malformed document stands for no configuration.
Load(d) == IF Acceptable[d] THEN loadConfig(Document[d]) ELSE NoConfig

ASSUME ConfigurationAssumption ==
  /\ DOMAIN Config \subseteq DOMAIN Document /\ Config = [d \in DOMAIN Config |-> Load(d)]
  /\ PVs = [d \in DOMAIN Config |-> PVMap(Config[d])]

Buildable == Map(CanBuild, Config)

\* describeReload() of every two configurations, of which the first may be none.
Counts == Map(LAMBDA before : Map(LAMBDA after : describeReload(before, after), Config), <<NoConfig>> \o Config)
=============================================================================
