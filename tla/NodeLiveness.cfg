SPECIFICATION FairSpec
CONSTANTS
  Call = {c1, c2}
  Volume = {v1}
  NoVolume = NoVolume
  Portals = 2
  Similar <- Distinct
  GivenUp = {"unstage", "publish", "unpublish"}
  FullDisk = TRUE
  MaxStarts = 3
  MaxFaults = 3
  MaxRestarts = 1
PROPERTY EventuallyReleased
CHECK_DEADLOCK FALSE
