SPECIFICATION Spec
CONSTANTS
  Gibi = 2
  MinVolumeSizeGi = 1
  DefaultVolumeSizeGi = 3
  MaxVolumeSizeGi = 5
  Call = {c1, c2, c3}
  Name = {pvc}
  NoName = NoName
  VolumeId = {v1, v2, v3}
  NoVolume = NoVolume
  Range <- Ranges
  Plan <- Plans
  VolumeMaxRetries = 2
  Timeouts = FALSE
  Faults = {"error", "lost", "nil", "garbled", "busy"}
SYMMETRY Symmetry
\* Every call is made at most once: when all are answered the system rests.
CHECK_DEADLOCK FALSE
INVARIANTS
  TypeOK
  UniqueName
  AnswerMatchesRequest
  CapacityRoundTrip
  NoFalseConflict
  DeletedIsGone
PROPERTY
  NewVolumeIsReady
