SPECIFICATION Spec
CONSTANTS
  Chunks = 2
  MaxGeneration = 3
  MaxFailures = 2
INVARIANTS NeverSleepsStale
PROPERTIES SynchronizedMeansReceived LatestDelivered
CHECK_DEADLOCK FALSE
