SPECIFICATION FairSpec
CONSTANTS
  Gibi = 2
  MinVolumeSizeGi = 1
  DefaultVolumeSizeGi = 3
  MaxVolumeSizeGi = 5
  Call = {c1, c2}
  Name = {pvc}
  NoName = NoName
  VolumeId = {v1, v2}
  NoVolume = NoVolume
  Range <- OneRange
  Plan <- OnePlan
  VolumeMaxRetries = 1
  Timeouts = FALSE
  Faults = {}
\* Every call is made at most once: when all are answered the system rests.
CHECK_DEADLOCK FALSE
PROPERTY
  OkMeansProvisioned
