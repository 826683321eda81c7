SPECIFICATION Spec
CONSTANTS
  r1 = r1
  r2 = r2
  None = None
  LastEpoch = 1
  Runners = {r1, r2}
  ChunkSize = 2
  MaxSamples = 3
  MaxFaults = 2
  Faults = {"fail", "wipe", "late", "overlap", "torn", "rewind"}
INVARIANT Aligned
CHECK_DEADLOCK FALSE
