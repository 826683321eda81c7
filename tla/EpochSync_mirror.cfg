SPECIFICATION FairSpec
CONSTANTS
  r1 = r1
  r2 = r2
  None = None
  LastEpoch = 2
  Runners = {r1, r2}
  ChunkSize = 2
  MaxSamples = 4
  MaxFaults = 2
  Faults = {"fail", "crash", "wipe"}
INVARIANT TypeOK
INVARIANT Mirrored
PROPERTY Implements
PROPERTY CatchesUp
CHECK_DEADLOCK FALSE
