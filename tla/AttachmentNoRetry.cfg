SPECIFICATION Spec
CONSTANTS
  Call = {c1, c2, c3}
  Volume = {v1}
  NoVolume = NoVolume
  Node = {n1, n2}
  NoNode = NoNode
  AttachmentId = {a1, a2}
  NoAttachment = NoAttachment
  AttachMaxRetries = 1
  DetachMaxRetries = 1
  WrongDeviceByPointer = FALSE
  Serial = TRUE
  GivenUp = {}
  Faults = {}
SYMMETRY Symmetry
\* Every call is made at most once: when all are answered the system rests.
CHECK_DEADLOCK FALSE
INVARIANT
  RetriesWhenAttachedElsewhere
