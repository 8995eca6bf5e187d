SPECIFICATION Spec
CONSTANTS
  Int32Max = 7
  Uint64Max = 255
  ElementSize <- Sizes
  Attrs <- SomeAttrs
  Snapshots <- SomeSnapshots
  maxFrameBytes = 100
  ImageConfigs <- SomeConfigs
  Steps <- SomeSteps
  FirstCount = 5
  MaxFrames = 2
  MaxEvents = 2
INVARIANTS CountsAreTrue AlarmTracksHealth
CHECK_DEADLOCK FALSE
