SPECIFICATION Spec
CONSTANTS
  Call = {c1, c2}
  Volume = {v1, v2}
  NoVolume = NoVolume
  Portals = 2
  Similar <- Distinct
  GivenUp = {}
  FullDisk = FALSE
  MaxStarts = 2
  MaxFaults = 0
  MaxRestarts = 0
\* The Stage and Publish calls are bounded.
CHECK_DEADLOCK FALSE
INVARIANT BindingsMatch
