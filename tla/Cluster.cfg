SPECIFICATION FairSpec
CONSTANTS
  Call = {c1, c2}
  Volume = {v1}
  NoVolume = NoVolume
  Node = {n1, n2}
  NoNode = NoNode
  AttachmentId = {a1, a2}
  NoAttachment = NoAttachment
  AttachMaxRetries = 1
  DetachMaxRetries = 1
  WrongDeviceByPointer = FALSE
  Serial = FALSE
  GivenUp = {"unpublish"}
  Faults = {"error", "lost"}
  Home = n1
  MaxMoves = 2
  MaxFaults = 2
\* No pod has to move.
CHECK_DEADLOCK FALSE
INVARIANTS
  TypeOK
  OneNode
  DetachedIsDetached
PROPERTIES
  EveryCallAnswered
  ReachesNode
