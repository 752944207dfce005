CONSTANTS
  Client = {"reader", "other"}
  Volumes <- MCVolumes
  Request <- MCRequest
  BootRecord = 1
  Cluster = 2
  Unit = 2
  Block = 4
  Word = 16
  MftAt = 40
SPECIFICATION Spec
INVARIANTS TypeOK PositionCoherent NeverTooLong NullBufferHasCause
PROPERTIES  StreamsEnd
CHECK_DEADLOCK FALSE
