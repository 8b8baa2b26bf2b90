SPECIFICATION FairSpec
CONSTANTS
  Call = {c1, c2}
  Param = {"initiatorname", "transport_name"}
  MaxFaults = 1
  Facilities <- FacilityList
  Code = "ewr1"
  Given <- Settings
  MaxEnds = 2
INVARIANTS
  TypeOK
  ControllerConfigured
  InitializedMeansWritten
  DiscoversAsItself
PROPERTIES
  ExitsWhenDone
  EventuallyServes
