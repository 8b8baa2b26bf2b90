SPECIFICATION Spec
CONSTANTS
  N = 3
  Listed <- ThreeIds
  NoId = NoId
  DetachMaxRetries = 2
\* The loop ends.
CHECK_DEADLOCK FALSE
INVARIANTS
  TypeOK
  OkMeansDetached
PROPERTY
  ImplementsRounds
