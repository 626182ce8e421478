SPECIFICATION FairSpec
CONSTANTS
  Volumes <- MCVolumes
  Conditions <- MCConditions
  Staging = TRUE
  MaxChanges = 8
  Faults = {"node", "driver", "volume", "claim"}
  MaxFaults = 2
INVARIANT NoNoise
INVARIANT CachedIsTold
PROPERTY GetsReported
