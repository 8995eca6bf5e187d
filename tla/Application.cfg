SPECIFICATION Spec
CONSTANTS
  Document <- Documents
  SecretFiles <- OneSecret
  Leaves <- Methods
  Config <- Configs
  PVs <- ConfigPVs
  MaxGeneration = 2
  HostBytes = 150
  Ports = {1, 5075, 65535}
  ServerPort = 65535
  Generations = {1, 10, 1000}
  Texts = {"p", "q"}
  AccessConfigs = {"A", "B"}
  Macros <- SameMacros
  Watched = {"B"}
  Good <- GoodTexts
  MaxEdits = 1
INVARIANTS ServedRuntimesActive GenerationConsistent TrialsFair CheckedCanStart DiffPredictsReload
CHECK_DEADLOCK FALSE
