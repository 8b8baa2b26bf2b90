SPECIFICATION Spec
CONSTANTS
  Call = {c1, c2}
  Volume = {v1, v2}
  NoVolume = NoVolume
  Portals = 2
  Similar <- Distinct
  GivenUp = {}
  FullDisk = TRUE
  MaxStarts = 3
  MaxFaults = 1
  MaxRestarts = 1
SYMMETRY Symmetry
\* The Stage and Publish calls are bounded.
CHECK_DEADLOCK FALSE
INVARIANTS
  TypeOK
  StagedIsReady
  UnstagedIsReleased
  PublishedShowsVolume
  UnpublishedIsUnmounted
PROPERTIES
  DataKept
  LogoutAfterUnmount
  ImplementsPromise
