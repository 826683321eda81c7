SPECIFICATION Spec
CONSTANTS
  r1 = r1
  r2 = r2
  None = None
  LastEpoch = 1
  Runners = {r1, r2}
  ChunkSize = 2
  MaxSamples = 2
  MaxFaults = 0
  Faults = {"overlap"}
INVARIANT NothingLostOrDuplicated
CHECK_DEADLOCK FALSE
