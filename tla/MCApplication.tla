--------------------------- MODULE MCApplication ---------------------------
(* Application on a small instance for TLC. *)
EXTENDS Application

Route(backend, key) == [backend |-> backend, key |-> key]
Value(name, key) ==
  [name |-> name, aliases |-> Absent, kind |-> "value", type |-> <<"float64">>, shape |-> <<"scalar">>,
   read |-> Route("", key), write |-> Absent, confirm |-> Absent, max_frame_bytes |-> Absent,
   max_frame_gap |-> Absent, alarm |-> Absent, metadata |-> Absent, scale |-> Absent, initial |-> Absent,
   access |-> Absent, required |-> TRUE, stale_after_ms |-> 0]
Camera == [Value("cam", "frames") EXCEPT !.kind = "ntndarray", !.type = Absent, !.shape = Absent]
Rpc(service) ==
  [service |-> service, suffix |-> "", endpoint |-> "host:1", defaults |-> <<>>, optional |-> TRUE,
   times |-> <<>>, access |-> Absent]

Backend(host) ==
  [base_key |-> "base", host |-> host, port |-> 6379, pool |-> <<>>, password |-> Absent, password_file |-> Absent]
Section(name) ==
  [name |-> name, enabled |-> TRUE, file |-> "policy.acf", macros |-> [M |-> "m"], watch |-> Absent, defaults |-> Absent]

Base ==
  [schema_version |-> <<1>>,
   server |-> [instance |-> "ioc", namespace |-> "ns", interfaces |-> <<>>, tcp_port |-> Absent,
               udp_port |-> Absent, auto_beacon |-> TRUE],
   access |-> Section("A"), redis |-> <<Backend("h")>>, redis_backends |-> Absent,
   alarms |-> [backend |-> "", stream |-> "acorn:alarms"], channelfinder |-> [tags |-> <<>>, text |-> ""],
   discovery |-> [enabled |-> TRUE, bind_address |-> "0.0.0.0", numbers |-> <<>>], limits |-> <<>>,
   pvs |-> <<Value("a", "ka"), [Value("b", "kb") EXCEPT !.aliases = <<<<<<"B">>>>>>]>>,
   rpc_services |-> <<Rpc("r1"), Rpc("r2")>>]

\* One PV is replaced and the other removed; the services are listed in another order.
Other ==
  [Base EXCEPT !.access = Section("B"), !.pvs = <<Value("a", "kc")>>, !.rpc_services = <<Rpc("r2"), Rpc("r1")>>]

\* The endpoint of the service has the name of an alias.
Clash == [Base EXCEPT !.pvs[1].aliases = <<<<<<"ns", "GET">>>>>>, !.rpc_services = <<Rpc("r1")>>]

\* Documents that differ from the base in one key.
WithPV(p) == [Base EXCEPT !.pvs[1] = p]
A == Value("a", "ka")
Two == [default |-> Backend("h"), second |-> Backend("i")]
Multi(p) == [Base EXCEPT !.redis = Absent, !.redis_backends = <<Two>>, !.alarms.backend = "default",
                         !.pvs = <<p>>]
Written == [A EXCEPT !.read.backend = "default", !.write = <<Route("second", "w")>>]
Confirmed == [Written EXCEPT !.confirm = <<[backend |-> "second", key |-> "c", timeout_ms |-> <<100>>]>>]
Thresholds(s) == [thresholds |-> s, hysteresis |-> 0]
Meta(low, high) ==
  [text |-> "mm", display |-> [low |-> <<low>>, high |-> <<high>>], control |-> NoLimits,
   min_step |-> Absent, control_step |-> <<1>>]
Off == [name |-> "none", enabled |-> FALSE, file |-> "", macros |-> <<>>, watch |-> Absent, defaults |-> Absent]

\* Catalogs at the limit of their bytes, and the longest text that one may have.
Encoded == 3291
ASSUME EncodedAssumption == Encoded = CatalogBytes(loadConfig(Base), {}, 5075, 1)
Sized(port, bytes) == [Base EXCEPT !.server.tcp_port = port, !.discovery.numbers = [max_bytes |-> bytes]]
Long == FoldLeft(LAMBDA text, i : text \o text \o "x", "", [i \in 1..16 |-> i])

Variants == <<
  WithPV([A EXCEPT !.type = <<"bool">>, !.shape = <<"array">>]),
  WithPV([A EXCEPT !.type = <<"int32">>, !.shape = <<"array">>]),
  WithPV([A EXCEPT !.scale = <<2>>]), WithPV([A EXCEPT !.scale = <<0>>]),
  WithPV([A EXCEPT !.alarm = <<Thresholds(<<<<1>>, Absent, <<3>>, <<3>>>>)>>]),
  WithPV([A EXCEPT !.alarm = <<Thresholds(<<<<1>>, Absent, <<0>>, Absent>>)>>]),
  WithPV([A EXCEPT !.metadata = <<Meta(0, 1)>>]), WithPV([A EXCEPT !.metadata = <<Meta(1, 0)>>]),
  WithPV([A EXCEPT !.type = <<"string">>, !.metadata = <<Meta(0, 1)>>]),
  WithPV([A EXCEPT !.initial = <<[sequence |-> FALSE, converts |-> {"float64", "string"}]>>]),
  WithPV([A EXCEPT !.initial = <<[sequence |-> TRUE, converts |-> {"float64"}]>>]),
  WithPV([A EXCEPT !.stale_after_ms = 86400001]), WithPV([A EXCEPT !.stale_after_ms = 1000]),
  WithPV([A EXCEPT !.aliases = <<<<<<"B">>>>>>]), WithPV([A EXCEPT !.aliases = <<<<<<"ns", "b">>>>>>]),
  WithPV([A EXCEPT !.aliases = <<<<<<"SYS", "ioc", "ready">>>>>>]),
  WithPV([A EXCEPT !.aliases = <<<<<<"C">>, <<"D">>>>>>]), WithPV([A EXCEPT !.aliases = <<<<<<"D">>, <<"C">>>>>>]),
  WithPV([A EXCEPT !.read.key = "kb"]), WithPV([A EXCEPT !.read.backend = "redis"]),
  WithPV([A EXCEPT !.access = <<[asg |-> "OPS", asl |-> 1]>>]), WithPV([A EXCEPT !.access = <<[asg |-> "OPS", asl |-> 2]>>]),
  WithPV(Camera), WithPV([Camera EXCEPT !.max_frame_gap = <<2147483647>>]),
  WithPV([Camera EXCEPT !.max_frame_gap = <<5>>]), WithPV([Camera EXCEPT !.max_frame_bytes = <<64>>]),
  WithPV([Camera EXCEPT !.write = <<Route("", "w")>>]), WithPV([A EXCEPT !.max_frame_gap = <<5>>]),
  Multi(Written), Multi(Confirmed), Multi([Confirmed EXCEPT !.write = Absent]),
  Multi([Confirmed EXCEPT !.confirm[1].key = "ka", !.confirm[1].backend = "default"]),
  Multi([Written EXCEPT !.read.backend = ""]),
  [Multi(Written) EXCEPT !.redis_backends = <<[Two EXCEPT !.second = Backend("j")]>>],
  [Multi(Confirmed) EXCEPT !.redis_backends = <<[Two EXCEPT !.default.password = <<"pw">>]>>],
  [Multi(Confirmed) EXCEPT !.redis_backends = <<[Two EXCEPT !.default.password_file = <<"secret">>]>>],
  [Multi(Written) EXCEPT !.redis_backends = <<[Two EXCEPT !.second.pool = [readers |-> 0]]>>],
  [Multi(Written) EXCEPT !.redis_backends = <<[Two EXCEPT !.second.pool = [reader_probe_ms |-> 99]]>>],
  [Multi(Written) EXCEPT !.redis = <<Backend("h")>>], [Multi(Written) EXCEPT !.alarms.backend = ""],
  [Multi(Written) EXCEPT !.alarms.backend = "second"],
  [Base EXCEPT !.server.namespace = ""], [Base EXCEPT !.server.auto_beacon = FALSE],
  [Base EXCEPT !.schema_version = <<2>>], [Base EXCEPT !.access = Off],
  [Base EXCEPT !.access = [Section("A") EXCEPT !.watch = <<[interval_ms |-> 99, settle_ms |-> 0]>>]],
  [Base EXCEPT !.access = Off, !.pvs[1].access = <<DefaultAssignment>>],
  [Base EXCEPT !.pvs = <<>>], [Base EXCEPT !.pvs = <<>>, !.rpc_services = <<>>],
  [Base EXCEPT !.rpc_services[1].times = [retry_interval_ms |-> 99]],
  [Base EXCEPT !.rpc_services[1].access = <<[asg |-> "OPS", asl |-> 0]>>],
  [Base EXCEPT !.discovery.numbers = [max_records |-> 35]], [Base EXCEPT !.discovery.numbers = [max_records |-> 36]],
  Sized(Absent, Encoded - 1), Sized(Absent, Encoded), Sized(Absent, Encoded + 1), Sized(<<0>>, Encoded - 3),
  Sized(<<0>>, Encoded + 1), [Sized(Absent, Encoded) EXCEPT !.discovery.enabled = FALSE],
  [Sized(Absent, 200000) EXCEPT !.pvs[1].metadata = <<[Meta(0, 1) EXCEPT !.text = Long]>>],
  [Sized(Absent, 200000) EXCEPT !.pvs[1].metadata = <<[Meta(0, 1) EXCEPT !.text = Long \o "x"]>>],
  [Base EXCEPT !.limits = [alarm_queue_entries |-> 1, alarm_state_bytes |-> 3084]],
  [Base EXCEPT !.limits = [alarm_queue_entries |-> 1, alarm_state_bytes |-> 3088]],
  [Base EXCEPT !.limits = [alarm_queue_entries |-> 4, alarm_state_bytes |-> 4095]]>>

Documents ==
  <<Base, Other, Clash, [Base EXCEPT !.limits = [write_workers |-> 8]], [Base EXCEPT !.pvs[1].read.key = ""]>> \o Variants

\* The configurations of the first five documents.
Normal(p) ==
  [p EXCEPT !.read.backend = "default", !.alarm = NoThresholds, !.metadata = NoMetadata,
            !.max_frame_bytes = <<33554432>>, !.max_frame_gap = <<10000>>, !.access = <<DefaultAssignment>>]
NormalService(service) ==
  [Rpc(service) EXCEPT !.times = Filled(<<>>, RpcRanges), !.access = <<DefaultAssignment>>]
First ==
  [NoConfig EXCEPT
     !.server = Base.server, !.access = [Section("A") EXCEPT !.defaults = NoDefaults],
     !.redisBackends = [default |-> redisConfig(Backend("h"))], !.alarms.backend = "default",
     !.pvs = <<Normal(Base.pvs[1]), Normal(Base.pvs[2])>>,
     !.rpcServices = <<NormalService("r1"), NormalService("r2")>>]
Configs ==
  <<First,
    [First EXCEPT !.access.name = "B", !.pvs = <<Normal(Other.pvs[1])>>,
                  !.rpcServices = <<NormalService("r2"), NormalService("r1")>>],
    [First EXCEPT !.pvs = <<Normal(Clash.pvs[1]), @[2]>>, !.rpcServices = <<NormalService("r1")>>],
    [First EXCEPT !.limits.write_workers = 8], NoConfig>>
ConfigPVs == Map(PVMap, Configs)

OneSecret == [secret |-> "pw"]
Methods == [r1 |-> {"GET"}, r2 |-> {"SET", "RESET"}]

SameMacros == [a \in {"A", "B"} |-> "m"]

\* The text "q" lacks a group that the first access section needs.
GoodTexts == {<<"A", "p">>, <<"B", "p">>, <<"B", "q">>}
=============================================================================
