SPECIFICATION Spec
CONSTANTS
  r1 = r1
  r2 = r2
  None = None
  LastEpoch = 1
  Runners = {r1}
  ChunkSize = 2
  MaxSamples = 2
  MaxFaults = 1
  Faults = {"torn"}
INVARIANT NothingLostOrDuplicated
CHECK_DEADLOCK FALSE
