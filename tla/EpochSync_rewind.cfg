SPECIFICATION Spec
CONSTANTS
  r1 = r1
  r2 = r2
  None = None
  LastEpoch = 1
  Runners = {r1}
  ChunkSize = 1
  MaxSamples = 2
  MaxFaults = 1
  Faults = {"wipe", "rewind"}
INVARIANT NothingLostOrDuplicated
CHECK_DEADLOCK FALSE
